--------------------------- MODULE ToolAgentLoop ---------------------------
(***************************************************************************)
(* A worker that runs batches of multi-turn conversations                   *)
(* (verl/verl/experimental/agent_loop/).  Each conversation is a state      *)
(* machine (tool_agent_loop.py) that alternates between the model and its   *)
(* environment, which are tools or an interaction; the conversations of a   *)
(* batch share the server manager (agent_loop.py), which keeps each of them *)
(* on one server, and the batch is returned when all have ended.            *)
(*                                                                         *)
(* A token is where it comes from.  Messages, images, rewards and the text  *)
(* of a tool's answer are left out; what the tokenizer makes of an answer   *)
(* is never empty.                                                         *)
(***************************************************************************)
EXTENDS Integers, FiniteSets, SequencesExt

CONSTANTS
    BatchSize,              \* conversations of a batch
    Servers,                \* numbered in the order of their hashes
    CacheSize,              \* max_cache_size
    PromptLength, ResponseLength,
    Configs,                \* [interaction, max_assistant_turns, max_user_turns, logprobs];
                            \* 0 turns: no limit
    MaxParallelCalls,
    MaxBatches,             \* bound: batches of the run
    MaxCalls,               \* bound: tool calls in one answer
    MaxTokens               \* bound: tokens of the environment's answer

ASSUME LoopAssumption ==
    /\ {BatchSize, CacheSize, PromptLength, ResponseLength, MaxParallelCalls, MaxTokens}
           \subseteq Nat \ {0}
    /\ {MaxBatches, MaxCalls} \subseteq Nat
    /\ IsFiniteSet(Servers) /\ Servers # {} /\ Servers \subseteq Nat
    /\ BatchSize =< CacheSize
    /\ Configs \subseteq [interaction : BOOLEAN, max_assistant_turns : Nat,
                          max_user_turns : Nat, logprobs : BOOLEAN]

VARIABLES
    config,
    batch, batch_state,     \* its number; "running", "returned" or "raised"
    agent_data,             \* of the conversations of the batch
    weighted_serveres,      \* the count of each server
    request_id_to_server,   \* least recently used first
    served                  \* the servers that served each conversation of the
                            \* batch (history variable)

manager == <<weighted_serveres, request_id_to_server, served>>
vars == <<config, batch, batch_state, agent_data, manager>>

Slots == 1..BatchSize
max_model_len == PromptLength + ResponseLength

AgentData ==
    [state |-> "pending", prompt_ids |-> <<>>, response_mask |-> <<>>,
     response_logprobs |-> <<>>, user_turns |-> 0, assistant_turns |-> 0,
     tool_calls |-> 0, running |-> 0]

Init ==
    /\ config \in Configs
    /\ batch = 1 /\ batch_state = "running"
    /\ agent_data = [c \in Slots |-> AgentData]
    /\ weighted_serveres = [s \in Servers |-> 0]
    /\ request_id_to_server = <<>>
    /\ served = [c \in Slots |-> {}]
-----------------------------------------------------------------------------
(* The server manager.                                                      *)

RequestId(c) == <<batch, c>>

(* The heap is ordered by count, then by hash.                               *)
LeastLoaded ==
    CHOOSE s \in Servers : \A t \in Servers :
        \/ weighted_serveres[s] < weighted_serveres[t]
        \/ weighted_serveres[s] = weighted_serveres[t] /\ s =< t

Cached(r) == {i \in DOMAIN request_id_to_server : request_id_to_server[i].request_id = r}

(* LRUCache: an entry that is looked up becomes the last, and the first gives *)
(* way to a new one.  A slip: the last does.                                *)
EvictNewest(cache) == IF Len(cache) < CacheSize THEN cache ELSE Front(cache)
MakeRoom(cache) == IF Len(cache) < CacheSize THEN cache ELSE Tail(cache)

ChooseServer(c) ==
    \/ \E i \in Cached(RequestId(c)) :
         LET e == request_id_to_server[i]
         IN  /\ request_id_to_server' = Append(RemoveAt(request_id_to_server, i), e)
             /\ served' = [served EXCEPT ![c] = @ \cup {e.server}]
             /\ UNCHANGED weighted_serveres
    \/ /\ Cached(RequestId(c)) = {}
       /\ request_id_to_server' =
              Append(MakeRoom(request_id_to_server),
                     [request_id |-> RequestId(c), server |-> LeastLoaded])
       /\ weighted_serveres' = [weighted_serveres EXCEPT ![LeastLoaded] = @ + 1]
       /\ served' = [served EXCEPT ![c] = @ \cup {LeastLoaded}]
-----------------------------------------------------------------------------
(* The conversation.                                                        *)

(* Prompts longer than PromptLength have been filtered out.                  *)
HandlePending(c) ==
    /\ agent_data[c].state = "pending"
    /\ \E n \in 1..PromptLength :
         agent_data' = [agent_data EXCEPT ![c].state = "generating",
                                          ![c].prompt_ids = [i \in 1..n |-> "prompt"]]
    /\ UNCHANGED <<config, batch, batch_state, manager>>

(* generate asks a server for at most what the window has left, and raises if *)
(* that is nothing.                                                        *)
Generate(c) ==
    /\ agent_data[c].state = "generating"
    /\ ChooseServer(c)
    /\ agent_data' = [agent_data EXCEPT ![c].state =
           IF Len(agent_data[c].prompt_ids) < max_model_len THEN "waiting" ELSE "failed"]
    /\ UNCHANGED <<config, batch, batch_state>>

(* The conversation goes on by n tokens from the source.  Log-probs of tokens *)
(* that are not the model's are zero.                                      *)
LogProbs(d, source, n) ==
    CASE source = "model" /\ config.logprobs -> [i \in 1..n |-> "real"]
      [] source # "model" /\ d.response_logprobs # <<>> -> [i \in 1..n |-> "zero"]
      [] OTHER -> <<>>

Extended(d, source, n) ==
    [d EXCEPT !.prompt_ids = @ \o [i \in 1..n |-> source],
              !.response_mask = @ \o [i \in 1..n |-> IF source = "model" THEN 1 ELSE 0],
              !.response_logprobs = @ \o LogProbs(d, source, n)]

TurnsUsedUp(d) ==
    \/ config.max_assistant_turns > 0 /\ d.assistant_turns >= config.max_assistant_turns
    \/ config.max_user_turns > 0 /\ d.user_turns >= config.max_user_turns

AfterAnswer(d) ==
    IF d.tool_calls > 0 THEN "processing_tools"
    ELSE IF config.interaction THEN "interacting" ELSE "terminated"

(* The server has answered: the rest of _handle_generating_state.            *)
HandleGenerating(c) ==
    /\ agent_data[c].state = "waiting"
    /\ \E n \in 1..(max_model_len - Len(agent_data[c].prompt_ids)) :
         LET d == [Extended(agent_data[c], "model", n) EXCEPT !.assistant_turns = @ + 1]
         IN  IF Len(d.response_mask) >= ResponseLength \/ TurnsUsedUp(d)
             THEN agent_data' = [agent_data EXCEPT ![c] = [d EXCEPT !.state = "terminated"]]
             ELSE \E calls \in 0..MaxCalls :
                    LET e == [d EXCEPT !.tool_calls = calls]
                    IN  agent_data' = [agent_data EXCEPT ![c] = [e EXCEPT !.state = AfterAnswer(e)]]
    /\ UNCHANGED <<config, batch, batch_state, manager>>

(* The calls that are made.                                                 *)
Launched(d) == IF d.tool_calls < MaxParallelCalls THEN d.tool_calls ELSE MaxParallelCalls

CallTools(c) ==
    /\ agent_data[c].state = "processing_tools"
    /\ agent_data' = [agent_data EXCEPT ![c].state = "calling",
                                        ![c].running = Launched(agent_data[c])]
    /\ UNCHANGED <<config, batch, batch_state, manager>>

(* A tool has answered, or _call_tool has caught what it raised.             *)
ToolReturns(c) ==
    /\ agent_data[c].state = "calling"
    /\ agent_data[c].running > 0
    /\ agent_data' = [agent_data EXCEPT ![c].running = @ - 1]
    /\ UNCHANGED <<config, batch, batch_state, manager>>

(* A slip: the answer may fill the response.                                *)
JustFits(d, n) == Len(d.response_mask) + n > ResponseLength
TooLong(d, n) == Len(d.response_mask) + n >= ResponseLength

(* All calls have returned: the rest of _handle_processing_tools_state.      *)
HandleProcessingTools(c) ==
    /\ agent_data[c].state = "calling"
    /\ agent_data[c].running = 0
    /\ \E n \in 1..MaxTokens :
         LET d == agent_data[c]
         IN  agent_data' = [agent_data EXCEPT ![c] =
               IF TooLong(d, n) THEN [d EXCEPT !.state = "terminated"]
               ELSE [Extended(d, "tool", n) EXCEPT !.state = "generating", !.user_turns = @ + 1]]
    /\ UNCHANGED <<config, batch, batch_state, manager>>

(* The user's answer is not measured.  An interaction that raises is not     *)
(* caught.                                                                 *)
HandleInteracting(c) ==
    /\ agent_data[c].state = "interacting"
    /\ \/ \E n \in 1..MaxTokens, should_terminate_sequence \in BOOLEAN :
            agent_data' = [agent_data EXCEPT ![c] =
                [Extended(agent_data[c], "user", n) EXCEPT
                     !.user_turns = @ + 1,
                     !.state = IF should_terminate_sequence THEN "terminated" ELSE "generating"]]
       \/ agent_data' = [agent_data EXCEPT ![c].state = "failed"]
    /\ UNCHANGED <<config, batch, batch_state, manager>>

(* What run returns.                                                       *)
Output(d) ==
    LET ids == d.prompt_ids
        n == Len(d.response_mask)
        Cut(s) == SubSeq(s, 1, IF Len(s) < ResponseLength THEN Len(s) ELSE ResponseLength)
    IN  [prompt_ids |-> SubSeq(ids, 1, Len(ids) - n),
         response_ids |-> Cut(IF n = 0 THEN ids ELSE SubSeq(ids, Len(ids) - n + 1, Len(ids))),
         response_mask |-> Cut(d.response_mask),
         response_logprobs |-> Cut(d.response_logprobs),
         num_turns |-> d.user_turns + d.assistant_turns + 1]
-----------------------------------------------------------------------------
(* The worker: gather raises with the first conversation that does, and       *)
(* leaves the others running.                                              *)
GatherOutputs ==
    /\ batch_state = "running"
    /\ \/ /\ \A c \in Slots : agent_data[c].state = "terminated"
          /\ batch_state' = "returned"
       \/ /\ \E c \in Slots : agent_data[c].state = "failed"
          /\ batch_state' = "raised"
    /\ UNCHANGED <<config, batch, agent_data, manager>>

NextBatch ==
    /\ batch_state = "returned" /\ batch < MaxBatches
    /\ batch' = batch + 1 /\ batch_state' = "running"
    /\ agent_data' = [c \in Slots |-> AgentData]
    /\ served' = [c \in Slots |-> {}]
    /\ UNCHANGED <<config, weighted_serveres, request_id_to_server>>

Converse(c) ==
    \/ HandlePending(c) \/ Generate(c) \/ HandleGenerating(c)
    \/ CallTools(c) \/ ToolReturns(c) \/ HandleProcessingTools(c)
    \/ HandleInteracting(c)

Next == GatherOutputs \/ NextBatch \/ \E c \in Slots : Converse(c)

Spec == Init /\ [][Next]_vars
-----------------------------------------------------------------------------
Positions(ids) == {i \in DOMAIN ids : i = 1 \/ ids[i] # ids[i - 1]}

(* Whatever mixture of turns, limits, cut and refused answers a conversation  *)
(* has gone through, what it returns fits together: the prompt and nothing  *)
(* else before the response, mask 1 on the tokens of the model and nowhere  *)
(* else, log-probs that stand for the same tokens, and a number of turns    *)
(* that is the number of speakers' changes.  A tool never leaves too little *)
(* room for the model to go on; only an interaction makes a conversation    *)
(* fail (the handlers, and the cuts at the end of run).                     *)
AnswerSound ==
    \A c \in Slots :
      LET d == agent_data[c]
          o == Output(d)
      IN  /\ d.state = "failed" => config.interaction
          /\ d.state = "terminated" =>
               /\ \A i \in DOMAIN o.prompt_ids : o.prompt_ids[i] = "prompt"
               /\ Len(o.response_ids) \in 1..ResponseLength
               /\ Len(o.response_mask) = Len(o.response_ids)
               /\ \A i \in DOMAIN o.response_ids :
                    /\ o.response_ids[i] # "prompt"
                    /\ o.response_mask[i] = (IF o.response_ids[i] = "model" THEN 1 ELSE 0)
               /\ o.response_logprobs =
                    IF config.logprobs
                    THEN [i \in DOMAIN o.response_ids |->
                            IF o.response_ids[i] = "model" THEN "real" ELSE "zero"]
                    ELSE <<>>
               /\ o.num_turns = Cardinality(Positions(d.prompt_ids))

(* A conversation stays on its server, also when the cache is full of the     *)
(* conversations of earlier batches, and servers get as many conversations  *)
(* as one another, give or take one (_choose_server; its docstring: sticky  *)
(* session, least requests load balancing).                                *)
StickyAndBalanced ==
    /\ \A c \in Slots : Cardinality(served[c]) =< 1
    /\ \A s, t \in Servers : weighted_serveres[s] =< weighted_serveres[t] + 1
=============================================================================

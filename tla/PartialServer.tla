---------------------------- MODULE PartialServer ----------------------------
(***************************************************************************)
(* Partial rollout of the fully asynchronous recipe: the tasks of the      *)
(* rollouter (fully_async_rollouter.py), the agent loop that asks for the  *)
(* rows of a sample and puts interrupted answers together                  *)
(* (agent_loop/partial_single_turn_agent_loop.py), and the generation      *)
(* servers that can be told to give back what they have                    *)
(* (vllm_rollout/vllm_async_server.py).  Rollouter models the queues and    *)
(* coroutines around a task and takes an interruption as one step; this is *)
(* what happens inside.                                                    *)
(*                                                                         *)
(* Every request has an id of its own, so that a row has at most one at a  *)
(* time and its record here stands for the server's entries under that id. *)
(***************************************************************************)
EXTENDS Naturals, Sequences, FiniteSets, SequencesExt

CONSTANTS
    Samples,
    RolloutN,           \* rollout.n, rows of a sample
    Servers,
    ResponseLength,     \* rollout.response_length
    Slack,              \* how much shorter than rollout.prompt_length the prompt is
    MaxSyncs,           \* bound: synchronizations of the weights
    None

ASSUME SizeAssumption ==
    /\ RolloutN \in Nat \ {0} /\ ResponseLength \in Nat \ {0}
    /\ Slack \in Nat /\ MaxSyncs \in Nat
    /\ IsFiniteSet(Samples) /\ IsFiniteSet(Servers) /\ Servers # {}

VARIABLES
    status,             \* of a sample: "queued" in pending_queue or cancel_queue,
                        \* "created" or "running" as a task, "delivered"
    task_version,       \* non_tensor_batch["param_version"] of its last task
    row,                \* of a row: "sent" or "serving" while its agent loop waits
                        \* for the server, else "answered"
    output,             \* FullyAsyncAgentLoopOutput of the row, None before any
    request,            \* what the server has under the row's request id: req_output,
                        \* whether cancel_event is set, whether generation ended
    paused,             \* the paused flag of each server
    weights,            \* version the servers generate with
    current_param_version,
    sync                \* where the synchronization of the weights stands

vars == <<status, task_version, row, output, request, paused, weights,
          current_param_version, sync>>

Rows == Samples \X (1..RolloutN)
RowsOf(s) == {r \in Rows : r[1] = s}
Active == {s \in Samples : status[s] \in {"created", "running"}}

Init ==
    /\ status = [s \in Samples |-> "queued"]
    /\ task_version = [s \in Samples |-> 0]
    /\ row = [r \in Rows |-> "answered"]
    /\ output = [r \in Rows |-> None]
    /\ request = [r \in Rows |-> None]
    /\ paused = [v \in Servers |-> FALSE]
    /\ weights = 0
    /\ current_param_version = 0
    /\ sync = "none"
-----------------------------------------------------------------------------
(* The agent loop.                                                         *)

Cut(s) == IF Len(s) > ResponseLength THEN SubSeq(s, 1, ResponseLength) ELSE s

PriorResponse(r) == IF output[r] = None THEN <<>> ELSE output[r].response_ids
PriorLogProbs(r) == IF output[r] = None THEN <<>> ELSE output[r].log_probs

(* Slips: what came before the interruption is forgotten; the span of       *)
(* versions starts anew.                                                   *)
ResumedAnew(r, tokens) == tokens
StartAnew(r) == task_version[r[1]]

Resumed(r, tokens) == PriorResponse(r) \o tokens

ParamVersionStart(r) ==
    IF output[r] = None THEN task_version[r[1]] ELSE output[r].param_version_start

(* run: the agent loop puts the answer of a server behind what the row had, *)
(* and cuts the response, but not its log-probs, at response_length.       *)
Answered(r, tokens, is_cancel) ==
    /\ row' = [row EXCEPT ![r] = "answered"]
    /\ output' = [output EXCEPT ![r] =
           [response_ids |-> Cut(Resumed(r, tokens)),
            log_probs |-> PriorLogProbs(r) \o tokens,
            is_cancel |-> is_cancel,
            param_version_start |-> ParamVersionStart(r),
            param_version_end |-> task_version[r[1]]]]

(* A row that was not interrupted is returned as it is.                     *)
NeedsServer(r) == output[r] = None \/ output[r].is_cancel
-----------------------------------------------------------------------------
(* The rollouter's tasks.                                                   *)

(* The processor takes a sample and makes a task of it, unless the          *)
(* rollouter is paused.                                                    *)
CreateTask(s) ==
    /\ sync = "none"
    /\ status[s] = "queued"
    /\ status' = [status EXCEPT ![s] = "created"]
    /\ UNCHANGED <<task_version, row, output, request, paused, weights,
                   current_param_version, sync>>

(* The task's first slice, which may come after a pause has begun: it notes *)
(* the version and sends the rows that need it to the agent loop.          *)
StartTask(s) ==
    /\ status[s] = "created"
    /\ status' = [status EXCEPT ![s] = "running"]
    /\ task_version' = [task_version EXCEPT ![s] = current_param_version]
    /\ row' = [r \in Rows |-> IF r[1] = s /\ NeedsServer(r) THEN "sent" ELSE row[r]]
    /\ UNCHANGED <<output, request, paused, weights, current_param_version, sync>>

Interrupted(s) == \E r \in RowsOf(s) : output[r].is_cancel

(* The rest of the task, when all rows have come back: the sample goes to   *)
(* cancel_queue, to be taken again, or to result_queue.                    *)
EndTask(s) ==
    /\ status[s] = "running"
    /\ \A r \in RowsOf(s) : row[r] = "answered"
    /\ status' = [status EXCEPT ![s] = IF Interrupted(s) THEN "queued" ELSE "delivered"]
    /\ UNCHANGED <<task_version, row, output, request, paused, weights,
                   current_param_version, sync>>
-----------------------------------------------------------------------------
(* The servers.                                                             *)

(* Slips: the paused flag is not looked at; tokens already generated do not *)
(* count against the length of the model.                                  *)
TurnsAwayNobody(v) == FALSE
MaxTokensOfPrompt(r) == ResponseLength + Slack

TurnsAway(v) == paused[v]

(* max_model_len - len(prompt_ids), where the prompt of a resumed row ends  *)
(* with its response so far, and max_model_len is                          *)
(* prompt_length + response_length.                                        *)
MaxTokens(r) == ResponseLength + Slack - Len(PriorResponse(r))

(* generate_for_partial up to its wait, on the server the agent loop has    *)
(* chosen (which depends on how many requests it sent where; any).  A paused *)
(* server answers at once, with nothing.                                   *)
Admit(r, v) ==
    /\ row[r] = "sent"
    /\ \/ /\ TurnsAway(v)
          /\ Answered(r, <<>>, TRUE)
          /\ UNCHANGED request
       \/ /\ ~TurnsAway(v)
          /\ row' = [row EXCEPT ![r] = "serving"]
          /\ request' = [request EXCEPT ![r] =
                 [server |-> v, req_output |-> <<>>, ended |-> FALSE, cancel |-> FALSE]]
          /\ UNCHANGED output
    /\ UNCHANGED <<status, task_version, paused, weights, current_param_version, sync>>

(* _generate_step: the engine delivers a token, a pair of its place in the  *)
(* response and the version that made it; its log-prob is known by the same *)
(* pair.  The token may be the last and must be at max_tokens.             *)
EngineStep(r) ==
    /\ row[r] = "serving"
    /\ ~request[r].ended
    /\ LET n == Len(request[r].req_output) + 1
           token == <<Len(PriorResponse(r)) + n, weights>>
       IN  \E ended \in BOOLEAN :
             /\ n = MaxTokens(r) => ended
             /\ request' = [request EXCEPT ![r].req_output = Append(@, token),
                                           ![r].ended = ended]
    /\ UNCHANGED <<status, task_version, row, output, paused, weights,
                   current_param_version, sync>>

(* generate_for_partial after its wait: the generation has ended or the     *)
(* event is set.  A generation that has not ended is aborted and what it    *)
(* has is returned.  (With no output at all the two entries stay in the     *)
(* server's tables for ever; nobody asks for their id again.)              *)
Return(r) ==
    /\ row[r] = "serving"
    /\ request[r].ended \/ request[r].cancel
    /\ Answered(r, request[r].req_output, ~request[r].ended)
    /\ request' = [request EXCEPT ![r] = None]
    /\ UNCHANGED <<status, task_version, paused, weights, current_param_version, sync>>
-----------------------------------------------------------------------------
(* The synchronization: pause() of the rollouter, transfer of the weights,  *)
(* update_param_version and resume().                                      *)

Pause ==
    /\ sync = "none"
    /\ weights < MaxSyncs
    /\ sync' = "cancel"
    /\ UNCHANGED <<status, task_version, row, output, request, paused, weights,
                   current_param_version>>

CancelledBy(v) == {r \in Rows : row[r] = "serving" /\ request[r].server = v}

Cancel(v) ==
    /\ sync = "cancel"
    /\ ~paused[v]
    /\ paused' = [paused EXCEPT ![v] = TRUE]
    /\ request' = [r \in Rows |-> IF r \in CancelledBy(v)
                                  THEN [request[r] EXCEPT !.cancel = TRUE]
                                  ELSE request[r]]
    /\ UNCHANGED <<status, task_version, row, output, weights,
                   current_param_version, sync>>

(* All servers have answered, and the tasks are gathered: pause() returns.  *)
TasksGathered ==
    /\ sync = "cancel"
    /\ \A v \in Servers : paused[v]
    /\ Active = {}
    /\ sync' = "transfer"
    /\ UNCHANGED <<status, task_version, row, output, request, paused, weights,
                   current_param_version>>

TransferWeights ==
    /\ sync = "transfer"
    /\ sync' = "update"
    /\ weights' = weights + 1
    /\ UNCHANGED <<status, task_version, row, output, request, paused,
                   current_param_version>>

UpdateParamVersion ==
    /\ sync = "update"
    /\ sync' = "resume"
    /\ current_param_version' = weights
    /\ UNCHANGED <<status, task_version, row, output, request, paused, weights>>

(* A slip: the server stays paused.                                         *)
StillPaused(v) == TRUE

AfterResume(v) == FALSE

ResumeServer(v) ==
    /\ sync = "resume"
    /\ paused[v]
    /\ paused' = [paused EXCEPT ![v] = AfterResume(v)]
    /\ sync' = IF \E u \in Servers \ {v} : paused[u] THEN "resume" ELSE "none"
    /\ UNCHANGED <<status, task_version, row, output, request, weights,
                   current_param_version>>
-----------------------------------------------------------------------------
Task(s) == CreateTask(s) \/ StartTask(s) \/ EndTask(s)
Serve(r) == Return(r) \/ \E v \in Servers : Admit(r, v)
Synchronize ==
    \/ TasksGathered
    \/ TransferWeights
    \/ UpdateParamVersion
    \/ \E v \in Servers : Cancel(v) \/ ResumeServer(v)

Next ==
    \/ \E s \in Samples : Task(s)
    \/ \E r \in Rows : Serve(r) \/ EngineStep(r)
    \/ Pause
    \/ Synchronize

(* Tasks, requests and the calls of a synchronization get on.  The engine    *)
(* is not assumed to: how long a generation takes is what partial rollout   *)
(* is meant not to depend on.                                              *)
Fairness ==
    /\ \A s \in Samples : WF_vars(Task(s))
    /\ \A r \in Rows : WF_vars(Serve(r))
    /\ WF_vars(Synchronize)

Spec == Init /\ [][Next]_vars /\ Fairness
-----------------------------------------------------------------------------
Version == 0..MaxSyncs
Token == (1..(ResponseLength + Slack)) \X Version

Outputs ==
    [response_ids : Seq(Token), log_probs : Seq(Token), is_cancel : BOOLEAN,
     param_version_start : Version, param_version_end : Version]
Requests ==
    [server : Servers, req_output : Seq(Token), ended : BOOLEAN, cancel : BOOLEAN]

ASSUME NoneAssumption == None \notin Outputs

(* Type invariant.  It includes that prompt and response always fit into    *)
(* max_model_len, and that a request has room for a token: a response that  *)
(* was interrupted is never sent back full (_generate_step).               *)
TypeOK ==
    /\ status \in [Samples -> {"queued", "created", "running", "delivered"}]
    /\ task_version \in [Samples -> Version]
    /\ row \in [Rows -> {"sent", "serving", "answered"}]
    /\ \A r \in Rows :
        /\ output[r] = None \/ output[r] \in Outputs
        /\ IF row[r] = "serving" THEN request[r] \in Requests ELSE request[r] = None
        /\ row[r] \in {"sent", "serving"} => MaxTokens(r) >= 1
    /\ paused \in [Servers -> BOOLEAN]
    /\ weights \in Version /\ current_param_version \in Version
    /\ sync \in {"none", "cancel", "transfer", "update", "resume"}

(* Whatever interruptions a row has gone through, its response consists of  *)
(* its tokens in their places, each with its own log-prob beside it (the    *)
(* list of log-probs may be longer), made by versions that never go back   *)
(* and lie between the two versions the row is labelled with               *)
(* (partial_single_turn_agent_loop.run).                                   *)
TokensAccountedFor ==
    \A r \in Rows : output[r] # None =>
        LET o == output[r] IN
        /\ IsPrefix(o.response_ids, o.log_probs)
        /\ \A i \in DOMAIN o.response_ids :
              /\ o.response_ids[i][1] = i
              /\ o.response_ids[i][2] \in o.param_version_start..o.param_version_end
              /\ i > 1 => o.response_ids[i - 1][2] =< o.response_ids[i][2]

(* The response as it stands: what the agent loop has, and what the server   *)
(* has of it.                                                              *)
Text(r) ==
    LET here == IF row[r] = "serving" THEN request[r].req_output ELSE <<>>
        all == Cut(PriorResponse(r) \o here)
    IN  [i \in DOMAIN all |-> all[i][2]]

Ended(r) ==
    IF row[r] = "serving" THEN request[r].ended
    ELSE row[r] = "answered" /\ output[r] # None /\ ~output[r].is_cancel

(* Servers, requests and pauses implement responses that only grow: no      *)
(* interruption loses, repeats or rewrites a token, a row that has ended    *)
(* is not touched when its siblings are resumed, and a sample is handed on  *)
(* only when every row of it has ended.                                    *)
Growth == INSTANCE GrowingResponse WITH
    text <- [r \in Rows |-> Text(r)],
    complete <- {r \in Rows : Ended(r)},
    delivered <- {s \in Samples : status[s] = "delivered"},
    version <- weights
GrowthSpec == Growth!GrowSpec

(* A pause always comes to its end, even if the engine never produces       *)
(* another token: a request that arrives before, during or after cancel()   *)
(* of its server is given back (generate_for_partial, cancel).             *)
PauseEnds == sync = "cancel" ~> sync = "none"

(* If the engine gets on, every sample is delivered, however often it is    *)
(* interrupted (within the bound on synchronizations).                     *)
AllDelivered ==
    (\A r \in Rows : WF_vars(EngineStep(r)))
        => <>(\A s \in Samples : status[s] = "delivered")
=============================================================================

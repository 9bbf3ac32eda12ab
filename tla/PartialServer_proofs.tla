------------------------ MODULE PartialServer_proofs ------------------------
(*****************************************************************************)
(* Partial rollout for any samples, servers, lengths and synchronizations:   *)
(* a response that was interrupted has room to go on, its tokens, log-probs  *)
(* and version labels stand for one another, and whatever is cut off, the    *)
(* system does no more than GrowingResponse says.                            *)
(*****************************************************************************)
EXTENDS PartialServer, SequenceTheorems, TLAPS

(* Cutting a response keeps its head.                                       *)
LEMMA CutFacts ==
    ASSUME NEW S, NEW s \in Seq(S)
    PROVE  /\ Cut(s) \in Seq(S)
           /\ Len(Cut(s)) <= ResponseLength /\ Len(Cut(s)) <= Len(s)
           /\ Len(s) <= ResponseLength => Cut(s) = s
           /\ Len(s) > ResponseLength => Len(Cut(s)) = ResponseLength
           /\ \A i \in 1..Len(Cut(s)) : Cut(s)[i] = s[i]
    <1>0. ResponseLength \in Nat \ {0}
        BY SizeAssumption
    <1>1. CASE Len(s) > ResponseLength
        <2>1. Cut(s) = SubSeq(s, 1, ResponseLength)
            BY <1>1 DEF Cut
        <2>2. /\ SubSeq(s, 1, ResponseLength) \in Seq(S) /\ Len(SubSeq(s, 1, ResponseLength)) = ResponseLength
              /\ \A i \in 1..ResponseLength : SubSeq(s, 1, ResponseLength)[i] = s[i]
            BY <1>0, <1>1
        <2> QED
            BY <1>0, <1>1, <2>1, <2>2
    <1>2. CASE ~(Len(s) > ResponseLength)
        <2>1. Cut(s) = s
            BY <1>2 DEF Cut
        <2> QED
            BY <1>0, <1>2, <2>1
    <1> QED
        BY <1>1, <1>2

(* Where a sample's task, its rows and the synchronization stand together:  *)
(* nothing is generated once the tasks are gathered.                       *)
TaskInv ==
    /\ sync \in {"cancel", "transfer"} => weights < MaxSyncs
    /\ IF sync = "update" THEN weights = current_param_version + 1 ELSE weights = current_param_version
    /\ \A s \in Samples :
         /\ status[s] \in {"created", "running"} => sync \in {"none", "cancel"}
         /\ status[s] = "running" => task_version[s] = weights
    /\ \A r \in Rows : row[r] \in {"sent", "serving"} => status[r[1]] = "running"

(* A response that was interrupted has room for a token, and one that is    *)
(* being generated stays within max_tokens.                                *)
RoomInv ==
    \A r \in Rows :
        /\ output[r] # None /\ output[r].is_cancel => MaxTokens(r) >= 1
        /\ row[r] = "serving" =>
             /\ Len(request[r].req_output) <= MaxTokens(r)
             /\ ~request[r].ended => Len(request[r].req_output) < MaxTokens(r)
        /\ output[r] # None =>
             output[r].param_version_start <= output[r].param_version_end /\ output[r].param_version_end <= weights

(* The inductive invariant of the types: TypeOK with what the pause and the *)
(* lengths add to it.                                                       *)
TypeInv ==
    /\ TypeOK /\ TaskInv /\ RoomInv
    /\ DOMAIN output = Rows /\ DOMAIN request = Rows

(* Rows are pairs.                                                          *)
LEMMA RowFacts ==
    /\ Rows = Samples \X (1..RolloutN)
    /\ \A r \in Rows : r[1] \in Samples
    BY DEF Rows

(* What a row had before it is asked for again is a sequence of tokens.     *)
LEMMA PriorType ==
    ASSUME TypeOK, NEW r \in Rows
    PROVE  /\ PriorResponse(r) \in Seq(Token) /\ PriorLogProbs(r) \in Seq(Token)
           /\ Len(PriorResponse(r)) \in Nat /\ MaxTokens(r) \in Int
    <1>1. PriorResponse(r) \in Seq(Token) /\ PriorLogProbs(r) \in Seq(Token)
        BY DEF TypeOK, Outputs, PriorResponse, PriorLogProbs
    <1> QED
        BY <1>1, SizeAssumption DEF MaxTokens

(* What an answer leaves in the row's output.                               *)
LEMMA AnsweredType ==
    ASSUME TypeInv, NEW r \in Rows, NEW tokens \in Seq(Token), NEW c \in BOOLEAN,
           Answered(r, tokens, c), row[r] \in {"sent", "serving"},
           c => Len(PriorResponse(r)) + Len(tokens) < ResponseLength + Slack
    PROVE  /\ row' \in [Rows -> {"sent", "serving", "answered"}]
           /\ row'[r] = "answered" /\ output'[r] \in Outputs /\ DOMAIN output' = Rows
           /\ \A q \in Rows \ {r} : row'[q] = row[q] /\ output'[q] = output[q]
           /\ output'[r].is_cancel = c
           /\ output'[r].response_ids = Cut(Resumed(r, tokens))
           /\ output'[r].log_probs = PriorLogProbs(r) \o tokens
           /\ c => Len(output'[r].response_ids) < ResponseLength + Slack
           /\ output'[r].param_version_start <= weights /\ output'[r].param_version_end = weights
           /\ output'[r].param_version_start = ParamVersionStart(r)
    <1> DEFINE o == [response_ids |-> Cut(Resumed(r, tokens)),
                     log_probs |-> PriorLogProbs(r) \o tokens,
                     is_cancel |-> c,
                     param_version_start |-> ParamVersionStart(r),
                     param_version_end |-> task_version[r[1]]]
    <1>1. /\ row' = [row EXCEPT ![r] = "answered"] /\ output' = [output EXCEPT ![r] = o]
          /\ row \in [Rows -> {"sent", "serving", "answered"}] /\ DOMAIN output = Rows
        BY DEF Answered, TypeInv, TypeOK
    <1>2. /\ PriorResponse(r) \in Seq(Token) /\ PriorLogProbs(r) \in Seq(Token)
        BY PriorType DEF TypeInv
    <1>3. /\ Resumed(r, tokens) \in Seq(Token)
          /\ Len(Resumed(r, tokens)) = Len(PriorResponse(r)) + Len(tokens)
        BY <1>2 DEF Resumed
    <1>4. /\ Cut(Resumed(r, tokens)) \in Seq(Token)
          /\ Len(Cut(Resumed(r, tokens))) <= Len(PriorResponse(r)) + Len(tokens)
        BY <1>3, CutFacts
    <1>5. task_version[r[1]] = weights /\ weights \in Version
        BY RowFacts DEF TypeInv, TypeOK, TaskInv
    <1>6. ParamVersionStart(r) \in Version /\ ParamVersionStart(r) <= weights
        <2>1. CASE output[r] = None
            BY <1>5, <2>1, SizeAssumption DEF ParamVersionStart, Version
        <2>2. CASE output[r] # None
            <3>1. output[r] \in Outputs
                BY <2>2 DEF TypeInv, TypeOK
            <3>2. /\ output[r].param_version_start \in Version /\ output[r].param_version_end \in Version
                  /\ output[r].param_version_start <= output[r].param_version_end
                  /\ output[r].param_version_end <= weights
                BY <2>2, <3>1 DEF TypeInv, RoomInv, Outputs
            <3> QED
                BY <1>5, <2>2, <3>2, SizeAssumption DEF ParamVersionStart, Version
        <2> QED
            BY <2>1, <2>2
    <1>7. PriorLogProbs(r) \o tokens \in Seq(Token)
        BY <1>2
    <1>8. o \in Outputs
        BY <1>4, <1>5, <1>6, <1>7 DEF Outputs
    <1>9. output'[r] = o /\ \A q \in Rows \ {r} : output'[q] = output[q]
        BY <1>1
    <1>10. c => Len(o.response_ids) < ResponseLength + Slack
        <2>1. Len(Cut(Resumed(r, tokens))) \in Nat /\ Len(PriorResponse(r)) \in Nat /\ Len(tokens) \in Nat
            BY <1>2, <1>4
        <2> QED
            BY <1>4, <2>1, SizeAssumption
    <1> QED
        BY <1>1, <1>5, <1>6, <1>8, <1>9, <1>10

(* CreateTask keeps the types.                                              *)
LEMMA TypeCreate ==
    ASSUME TypeInv, NEW s \in Samples, CreateTask(s)
    PROVE  TypeInv'
    <1>1. /\ status' = [status EXCEPT ![s] = "created"] /\ sync = "none" /\ status[s] = "queued"
          /\ UNCHANGED <<task_version, row, output, request, paused, weights, current_param_version, sync>>
        BY DEF CreateTask
    <1>2. TypeOK'
        BY <1>1 DEF TypeInv, TypeOK, MaxTokens, PriorResponse
    <1>3. TaskInv'
        BY <1>1, RowFacts DEF TypeInv, TypeOK, TaskInv
    <1>4. RoomInv'
        BY <1>1 DEF TypeInv, RoomInv, MaxTokens, PriorResponse
    <1> QED
        BY <1>1, <1>2, <1>3, <1>4 DEF TypeInv

(* StartTask keeps the types: a row that is asked for again has room.       *)
LEMMA TypeStart ==
    ASSUME TypeInv, NEW s \in Samples, StartTask(s)
    PROVE  TypeInv'
    <1>1. /\ status' = [status EXCEPT ![s] = "running"] /\ status[s] = "created"
          /\ task_version' = [task_version EXCEPT ![s] = current_param_version]
          /\ row' = [r \in Rows |-> IF r[1] = s /\ NeedsServer(r) THEN "sent" ELSE row[r]]
          /\ UNCHANGED <<output, request, paused, weights, current_param_version, sync>>
        BY DEF StartTask
    <1>2. sync \in {"none", "cancel"} /\ weights = current_param_version
        BY <1>1 DEF TypeInv, TaskInv
    <1>3. \A r \in Rows : r[1] = s => row[r] = "answered" /\ request[r] = None
        BY <1>1 DEF TypeInv, TypeOK, TaskInv
    <1>4. \A r \in Rows : MaxTokens(r)' = MaxTokens(r)
        BY <1>1 DEF MaxTokens, PriorResponse
    <1>5. \A r \in Rows : NeedsServer(r) => MaxTokens(r) >= 1
        <2>1. ASSUME NEW r \in Rows, output[r] = None PROVE MaxTokens(r) >= 1
            BY <2>1, SizeAssumption DEF MaxTokens, PriorResponse
        <2> QED
            BY <2>1 DEF NeedsServer, TypeInv, RoomInv
    <1>6. TypeOK'
        <2>1. /\ status' \in [Samples -> {"queued", "created", "running", "delivered"}]
              /\ task_version' \in [Samples -> Version]
              /\ row' \in [Rows -> {"sent", "serving", "answered"}]
            BY <1>1 DEF TypeInv, TypeOK
        <2>2. ASSUME NEW r \in Rows
              PROVE  /\ output'[r] = None \/ output'[r] \in Outputs
                     /\ IF row'[r] = "serving" THEN request'[r] \in Requests ELSE request'[r] = None
                     /\ row'[r] \in {"sent", "serving"} => MaxTokens(r)' >= 1
            BY <1>1, <1>3, <1>4, <1>5 DEF TypeInv, TypeOK
        <2> QED
            BY <1>1, <2>1, <2>2 DEF TypeInv, TypeOK
    <1>7. TaskInv'
        BY <1>1, <1>2, RowFacts DEF TypeInv, TypeOK, TaskInv
    <1>8. RoomInv'
        BY <1>1, <1>3, <1>4 DEF TypeInv, RoomInv
    <1> QED
        BY <1>1, <1>6, <1>7, <1>8 DEF TypeInv

(* EndTask keeps the types.                                                 *)
LEMMA TypeEnd ==
    ASSUME TypeInv, NEW s \in Samples, EndTask(s)
    PROVE  TypeInv'
    <1>1. /\ status[s] = "running" /\ \A r \in RowsOf(s) : row[r] = "answered"
          /\ \E st \in {"queued", "delivered"} : status' = [status EXCEPT ![s] = st]
          /\ UNCHANGED <<task_version, row, output, request, paused, weights, current_param_version, sync>>
        BY DEF EndTask
    <1>2. TypeOK'
        BY <1>1 DEF TypeInv, TypeOK, MaxTokens, PriorResponse
    <1>3. TaskInv'
        BY <1>1, RowFacts DEF TypeInv, TypeOK, TaskInv, RowsOf
    <1>4. RoomInv'
        BY <1>1 DEF TypeInv, RoomInv, MaxTokens, PriorResponse
    <1> QED
        BY <1>1, <1>2, <1>3, <1>4 DEF TypeInv

(* A row is answered: by a paused server, or with what was generated.       *)
LEMMA TypeAnswer ==
    ASSUME TypeInv, NEW r \in Rows, NEW tokens \in Seq(Token), NEW c \in BOOLEAN,
           Answered(r, tokens, c), row[r] \in {"sent", "serving"},
           c => Len(PriorResponse(r)) + Len(tokens) < ResponseLength + Slack,
           DOMAIN request' = Rows, request'[r] = None,
           \A q \in Rows \ {r} : request'[q] = request[q],
           UNCHANGED <<status, task_version, paused, weights, current_param_version, sync>>
    PROVE  TypeInv'
    <1>1. /\ row' \in [Rows -> {"sent", "serving", "answered"}]
          /\ row'[r] = "answered" /\ output'[r] \in Outputs /\ DOMAIN output' = Rows
          /\ \A q \in Rows \ {r} : row'[q] = row[q] /\ output'[q] = output[q]
          /\ output'[r].is_cancel = c
          /\ c => Len(output'[r].response_ids) < ResponseLength + Slack
          /\ output'[r].param_version_start <= weights /\ output'[r].param_version_end = weights
        BY AnsweredType
    <1>2. \A q \in Rows \ {r} : MaxTokens(q)' = MaxTokens(q)
        BY <1>1 DEF MaxTokens, PriorResponse
    <1>3. TypeOK'
        <2>1. ASSUME NEW q \in Rows
              PROVE  /\ output'[q] = None \/ output'[q] \in Outputs
                     /\ IF row'[q] = "serving" THEN request'[q] \in Requests ELSE request'[q] = None
                     /\ row'[q] \in {"sent", "serving"} => MaxTokens(q)' >= 1
            BY <1>1, <1>2 DEF TypeInv, TypeOK
        <2> QED
            BY <1>1, <2>1 DEF TypeInv, TypeOK
    <1>4. TaskInv'
        BY <1>1 DEF TypeInv, TaskInv
    <1>5. c => MaxTokens(r)' >= 1
        <2>1. ASSUME c PROVE PriorResponse(r)' \in Seq(Token) /\ Len(PriorResponse(r)') < ResponseLength + Slack
            <3>1. PriorResponse(r)' = IF output'[r] = None THEN <<>> ELSE output'[r].response_ids
                BY DEF PriorResponse
            <3> QED
                BY <1>1, <2>1, <3>1, SizeAssumption DEF Outputs
        <2>2. MaxTokens(r)' = ResponseLength + Slack - Len(PriorResponse(r)')
            BY DEF MaxTokens
        <2> QED
            BY <2>1, <2>2, SizeAssumption
    <1>6. RoomInv'
        <2>1. ASSUME NEW q \in Rows
              PROVE  /\ output'[q] # None /\ output'[q].is_cancel => MaxTokens(q)' >= 1
                     /\ row'[q] = "serving" =>
                          /\ Len(request'[q].req_output) <= MaxTokens(q)'
                          /\ ~request'[q].ended => Len(request'[q].req_output) < MaxTokens(q)'
                     /\ output'[q] # None =>
                          output'[q].param_version_start <= output'[q].param_version_end
                            /\ output'[q].param_version_end <= weights'
            <3>1. CASE q = r
                <4>1. weights \in Nat
                    BY SizeAssumption DEF TypeInv, TypeOK, Version
                <4> QED
                    BY <1>1, <1>5, <3>1, <4>1
            <3>2. CASE q # r
                BY <1>1, <1>2, <3>2 DEF TypeInv, RoomInv
            <3> QED
                BY <3>1, <3>2
        <2> QED
            BY <2>1 DEF RoomInv
    <1> QED
        BY <1>1, <1>3, <1>4, <1>6 DEF TypeInv

(* Admit keeps the types, whether the server is paused or not.              *)
LEMMA TypeAdmit ==
    ASSUME TypeInv, NEW r \in Rows, NEW v \in Servers, Admit(r, v)
    PROVE  TypeInv'
    <1>1. CASE TurnsAway(v)
        <2>1. /\ Answered(r, <<>>, TRUE) /\ row[r] = "sent"
              /\ UNCHANGED <<request, status, task_version, paused, weights, current_param_version, sync>>
            BY <1>1 DEF Admit
        <2>2. request[r] = None /\ MaxTokens(r) >= 1
            BY <2>1 DEF TypeInv, TypeOK
        <2>3. Len(PriorResponse(r)) + Len(<<>>) < ResponseLength + Slack
            BY <2>2, PriorType, SizeAssumption DEF TypeInv, MaxTokens
        <2>4. <<>> \in Seq(Token) /\ TRUE \in BOOLEAN
            OBVIOUS
        <2>5. DOMAIN request' = Rows /\ request'[r] = None /\ \A q \in Rows \ {r} : request'[q] = request[q]
            BY <2>1, <2>2 DEF TypeInv
        <2> QED
            BY <2>1, <2>3, <2>4, <2>5, TypeAnswer
    <1>2. CASE ~TurnsAway(v)
        <2>1. /\ row[r] = "sent" /\ row' = [row EXCEPT ![r] = "serving"]
              /\ request' = [request EXCEPT ![r] =
                     [server |-> v, req_output |-> <<>>, ended |-> FALSE, cancel |-> FALSE]]
              /\ UNCHANGED <<output, status, task_version, paused, weights, current_param_version, sync>>
            BY <1>2 DEF Admit
        <2>2. \A q \in Rows : MaxTokens(q)' = MaxTokens(q)
            BY <2>1 DEF MaxTokens, PriorResponse
        <2>3. MaxTokens(r) >= 1 /\ MaxTokens(r) \in Int
            BY <2>1, PriorType DEF TypeInv, TypeOK
        <2>4. /\ DOMAIN request' = Rows /\ request'[r] \in Requests /\ request'[r].req_output = <<>>
              /\ row' \in [Rows -> {"sent", "serving", "answered"}] /\ row'[r] = "serving"
              /\ \A q \in Rows \ {r} : request'[q] = request[q] /\ row'[q] = row[q]
            BY <2>1 DEF TypeInv, TypeOK, Requests
        <2>5. TypeOK'
            BY <2>1, <2>2, <2>3, <2>4 DEF TypeInv, TypeOK
        <2>6. TaskInv'
            BY <2>1, <2>4 DEF TypeInv, TaskInv
        <2>7. RoomInv'
            <3>1. ASSUME NEW q \in Rows
                  PROVE  /\ output'[q] # None /\ output'[q].is_cancel => MaxTokens(q)' >= 1
                         /\ row'[q] = "serving" =>
                              /\ Len(request'[q].req_output) <= MaxTokens(q)'
                              /\ ~request'[q].ended => Len(request'[q].req_output) < MaxTokens(q)'
                <4>1. CASE q = r
                    BY <2>1, <2>2, <2>3, <2>4, <4>1 DEF TypeInv, RoomInv
                <4>2. CASE q # r
                    BY <2>1, <2>2, <2>4, <4>2 DEF TypeInv, RoomInv
                <4> QED
                    BY <4>1, <4>2
            <3> QED
                BY <2>1, <3>1 DEF RoomInv, TypeInv
        <2> QED
            BY <2>1, <2>4, <2>5, <2>6, <2>7 DEF TypeInv
    <1> QED
        BY <1>1, <1>2

(* Return keeps the types: an answer that was cut off has not used up       *)
(* max_tokens.                                                              *)
LEMMA TypeReturn ==
    ASSUME TypeInv, NEW r \in Rows, Return(r)
    PROVE  TypeInv'
    <1>1. /\ row[r] = "serving" /\ Answered(r, request[r].req_output, ~request[r].ended)
          /\ request' = [request EXCEPT ![r] = None]
          /\ UNCHANGED <<status, task_version, paused, weights, current_param_version, sync>>
        BY DEF Return
    <1>2. request[r] \in Requests
        BY <1>1 DEF TypeInv, TypeOK
    <1>3. request[r].req_output \in Seq(Token) /\ (~request[r].ended) \in BOOLEAN
        <2>1. request[r].req_output \in Seq(Token) /\ request[r].ended \in BOOLEAN
            BY <1>2 DEF Requests
        <2> QED
            BY <2>1
    <1>4. ~request[r].ended => Len(PriorResponse(r)) + Len(request[r].req_output) < ResponseLength + Slack
        <2>1. ~request[r].ended => Len(request[r].req_output) < MaxTokens(r)
            BY <1>1 DEF TypeInv, RoomInv
        <2>2. Len(request[r].req_output) \in Nat /\ Len(PriorResponse(r)) \in Nat
            BY <1>3, PriorType DEF TypeInv
        <2> QED
            BY <2>1, <2>2, SizeAssumption DEF MaxTokens
    <1>5. DOMAIN request' = Rows /\ request'[r] = None /\ \A q \in Rows \ {r} : request'[q] = request[q]
        BY <1>1 DEF TypeInv
    <1> QED
        BY <1>1, <1>3, <1>4, <1>5, TypeAnswer

(* A token of the engine keeps the types: it is the last when max_tokens is *)
(* reached.                                                                 *)
LEMMA TypeEngine ==
    ASSUME TypeInv, NEW r \in Rows, EngineStep(r)
    PROVE  TypeInv'
    <1> DEFINE n == Len(request[r].req_output) + 1
               token == <<Len(PriorResponse(r)) + n, weights>>
    <1>1. /\ row[r] = "serving" /\ ~request[r].ended
          /\ UNCHANGED <<status, task_version, row, output, paused, weights, current_param_version, sync>>
        BY DEF EngineStep
    <1>2. PICK ended \in BOOLEAN :
             /\ n = MaxTokens(r) => ended
             /\ request' = [request EXCEPT ![r].req_output = Append(@, token), ![r].ended = ended]
        BY DEF EngineStep
    <1>3. request[r] \in Requests /\ weights \in Version
        BY <1>1 DEF TypeInv, TypeOK
    <1>4. /\ Len(request[r].req_output) < MaxTokens(r) /\ request[r].req_output \in Seq(Token)
          /\ n \in Nat /\ n >= 1 /\ MaxTokens(r) \in Int
        BY <1>1, <1>3, PriorType DEF TypeInv, RoomInv, Requests
    <1>5. token \in Token
        <2>1. Len(PriorResponse(r)) \in Nat
            BY PriorType DEF TypeInv
        <2>2. Len(PriorResponse(r)) + n \in 1..(ResponseLength + Slack)
            BY <1>4, <2>1, SizeAssumption DEF MaxTokens
        <2> QED
            BY <1>3, <2>2 DEF Token
    <1>6. /\ DOMAIN request' = Rows
          /\ request'[r].req_output = Append(request[r].req_output, token)
          /\ request'[r].ended = ended
          /\ request'[r] \in Requests
          /\ \A q \in Rows \ {r} : request'[q] = request[q]
        <2>1. DOMAIN request = Rows
            BY DEF TypeInv
        <2>2. request'[r] = [request[r] EXCEPT !.req_output = Append(request[r].req_output, token),
                                               !.ended = ended]
            BY <1>2, <2>1
        <2>3. \A q \in Rows \ {r} : request'[q] = request[q]
            BY <1>2, <2>1
        <2>4. Append(request[r].req_output, token) \in Seq(Token)
            BY <1>4, <1>5
        <2> HIDE DEF token, n
        <2> QED
            BY <1>2, <1>3, <2>1, <2>2, <2>3, <2>4 DEF Requests
    <1>7. \A q \in Rows : MaxTokens(q)' = MaxTokens(q)
        BY <1>1 DEF MaxTokens, PriorResponse
    <1>8. /\ Len(request'[r].req_output) = n
          /\ n <= MaxTokens(r) /\ (~ended => n < MaxTokens(r))
        <2>1. Len(request'[r].req_output) = n
            BY <1>4, <1>5, <1>6
        <2> QED
            BY <1>2, <1>4, <2>1
    <1>9. TypeOK'
        BY <1>1, <1>6, <1>7 DEF TypeInv, TypeOK
    <1>10. TaskInv'
        BY <1>1 DEF TypeInv, TaskInv
    <1>11. RoomInv'
        <2> HIDE DEF n, token
        <2>1. ASSUME NEW q \in Rows, row[q] = "serving"
              PROVE  /\ Len(request'[q].req_output) <= MaxTokens(q)
                     /\ ~request'[q].ended => Len(request'[q].req_output) < MaxTokens(q)
            <3>1. CASE q = r
                BY <1>6, <1>8, <3>1
            <3>2. CASE q # r
                BY <1>6, <2>1, <3>2 DEF TypeInv, RoomInv
            <3> QED
                BY <3>1, <3>2
        <2> QED
            BY <1>1, <1>7, <2>1 DEF TypeInv, RoomInv
    <1> QED
        BY <1>1, <1>6, <1>9, <1>10, <1>11 DEF TypeInv

(* The steps of a synchronization keep the types.                           *)
LEMMA TypeSync ==
    ASSUME TypeInv, Pause \/ Synchronize
    PROVE  TypeInv'
    <1>0. \A r \in Rows : output' = output => MaxTokens(r)' = MaxTokens(r)
        BY DEF MaxTokens, PriorResponse
    <1>1. CASE Pause
        <2>1. /\ sync = "none" /\ weights < MaxSyncs /\ sync' = "cancel"
              /\ UNCHANGED <<status, task_version, row, output, request, paused, weights, current_param_version>>
            BY <1>1 DEF Pause
        <2> QED
            BY <1>0, <2>1 DEF TypeInv, TypeOK, TaskInv, RoomInv
    <1>2. ASSUME NEW v \in Servers, Cancel(v)
          PROVE  TypeInv'
        <2>1. /\ paused' = [paused EXCEPT ![v] = TRUE]
              /\ request' = [r \in Rows |-> IF r \in CancelledBy(v) THEN [request[r] EXCEPT !.cancel = TRUE]
                                            ELSE request[r]]
              /\ UNCHANGED <<status, task_version, row, output, weights, current_param_version, sync>>
            BY <1>2 DEF Cancel
        <2>2. ASSUME NEW r \in Rows
              PROVE  /\ row[r] = "serving" => /\ request'[r] \in Requests
                                              /\ request'[r].req_output = request[r].req_output
                                              /\ request'[r].ended = request[r].ended
                     /\ row[r] # "serving" => request'[r] = request[r]
            <3>1. CASE r \in CancelledBy(v)
                <4>1. request'[r] = [request[r] EXCEPT !.cancel = TRUE] /\ row[r] = "serving"
                    BY <2>1, <3>1 DEF CancelledBy
                <4>2. request[r] \in Requests
                    BY <4>1 DEF TypeInv, TypeOK
                <4> QED
                    BY <4>1, <4>2 DEF Requests
            <3>2. CASE r \notin CancelledBy(v)
                BY <2>1, <3>2 DEF TypeInv, TypeOK
            <3> QED
                BY <3>1, <3>2
        <2>3. TypeOK'
            BY <1>0, <2>1, <2>2 DEF TypeInv, TypeOK
        <2>4. TaskInv'
            BY <2>1 DEF TypeInv, TaskInv
        <2>5. RoomInv'
            BY <1>0, <2>1, <2>2 DEF TypeInv, RoomInv
        <2> QED
            BY <2>1, <2>3, <2>4, <2>5 DEF TypeInv
    <1>3. CASE TasksGathered
        <2>1. /\ sync = "cancel" /\ sync' = "transfer" /\ Active = {}
              /\ UNCHANGED <<status, task_version, row, output, request, paused, weights, current_param_version>>
            BY <1>3 DEF TasksGathered
        <2> QED
            BY <1>0, <2>1 DEF TypeInv, TypeOK, TaskInv, RoomInv, Active
    <1>4. CASE TransferWeights
        <2>1. /\ sync = "transfer" /\ sync' = "update" /\ weights' = weights + 1
              /\ UNCHANGED <<status, task_version, row, output, request, paused, current_param_version>>
            BY <1>4 DEF TransferWeights
        <2>2. /\ weights < MaxSyncs /\ weights = current_param_version /\ weights \in Nat /\ MaxSyncs \in Nat
              /\ \A s \in Samples : status[s] \notin {"created", "running"}
            BY <2>1, SizeAssumption DEF TypeInv, TypeOK, TaskInv, Version
        <2>3. weights' \in Version
            BY <2>1, <2>2 DEF Version
        <2>4. TypeOK'
            BY <1>0, <2>1, <2>3 DEF TypeInv, TypeOK
        <2>5. TaskInv'
            BY <2>1, <2>2 DEF TypeInv, TaskInv
        <2>6. RoomInv'
            <3>1. ASSUME NEW r \in Rows, output[r] # None
                  PROVE  output[r].param_version_end <= weights'
                <4>1. output[r].param_version_end <= weights /\ output[r].param_version_end \in Version
                    BY <3>1 DEF TypeInv, TypeOK, RoomInv, Outputs
                <4> QED
                    BY <2>1, <2>2, <4>1, SizeAssumption DEF Version
            <3> QED
                BY <1>0, <2>1, <3>1 DEF TypeInv, RoomInv
        <2> QED
            BY <2>1, <2>4, <2>5, <2>6 DEF TypeInv
    <1>5. CASE UpdateParamVersion
        <2>1. /\ sync = "update" /\ sync' = "resume" /\ current_param_version' = weights
              /\ UNCHANGED <<status, task_version, row, output, request, paused, weights>>
            BY <1>5 DEF UpdateParamVersion
        <2> QED
            BY <1>0, <2>1 DEF TypeInv, TypeOK, TaskInv, RoomInv
    <1>6. ASSUME NEW v \in Servers, ResumeServer(v)
          PROVE  TypeInv'
        <2>1. /\ sync = "resume" /\ sync' \in {"resume", "none"} /\ paused' = [paused EXCEPT ![v] = FALSE]
              /\ UNCHANGED <<status, task_version, row, output, request, weights, current_param_version>>
            BY <1>6 DEF ResumeServer, AfterResume
        <2> QED
            BY <1>0, <2>1 DEF TypeInv, TypeOK, TaskInv, RoomInv
    <1> QED
        BY <1>1, <1>2, <1>3, <1>4, <1>5, <1>6 DEF Synchronize

(* Every step keeps the types.                                              *)
LEMMA TypeStep == TypeInv /\ [Next]_vars => TypeInv'
    <1> SUFFICES ASSUME TypeInv, [Next]_vars PROVE TypeInv'
        OBVIOUS
    <1>1. CASE \E s \in Samples : Task(s)
        BY <1>1, TypeCreate, TypeStart, TypeEnd DEF Task
    <1>2. CASE \E r \in Rows : Serve(r) \/ EngineStep(r)
        BY <1>2, TypeAdmit, TypeReturn, TypeEngine DEF Serve
    <1>3. CASE Pause \/ Synchronize
        BY <1>3, TypeSync
    <1>4. CASE UNCHANGED vars
        <2>1. \A r \in Rows : MaxTokens(r)' = MaxTokens(r)
            BY <1>4 DEF vars, MaxTokens, PriorResponse
        <2> QED
            BY <1>4, <2>1 DEF vars, TypeInv, TypeOK, TaskInv, RoomInv
    <1> QED
        BY <1>1, <1>2, <1>3, <1>4 DEF Next

(* The types hold at the start.                                             *)
LEMMA TypeInit == Init => TypeInv
    BY SizeAssumption DEF Init, TypeInv, TypeOK, TaskInv, RoomInv, Version

(* Type correctness: prompt and response always fit into max_model_len, and *)
(* a request always has room for a token (generate_for_partial,             *)
(* _generate_step).                                                         *)
THEOREM TypeIsOK == Spec => []TypeOK
    BY TypeInit, TypeStep, PTL DEF Spec, TypeInv

(* What a response is made of: at most response_length tokens, log-probs as  *)
(* long as the response unless it is full, every token in its place beside  *)
(* its own log-prob, versions in order and within the row's labels.         *)
WellMade(o) ==
    /\ Len(o.response_ids) <= ResponseLength
    /\ Len(o.response_ids) <= Len(o.log_probs)
    /\ Len(o.response_ids) < ResponseLength => Len(o.log_probs) = Len(o.response_ids)
    /\ \A i \in 1..Len(o.response_ids) :
          /\ o.log_probs[i] = o.response_ids[i]
          /\ o.response_ids[i][1] = i
          /\ o.response_ids[i][2] >= o.param_version_start
          /\ o.response_ids[i][2] <= o.param_version_end
          /\ i > 1 => o.response_ids[i - 1][2] <= o.response_ids[i][2]

(* What a server has of a row continues the row's response, and comes from   *)
(* the weights in place: they do not change under a request.                *)
Continues(r, tokens) ==
    \A j \in 1..Len(tokens) : tokens[j] = <<Len(PriorResponse(r)) + j, weights>>

(* The inductive invariant of the tokens: what a row has is well made, and  *)
(* what a server has of it continues it.                                    *)
TokenInv ==
    \A r \in Rows :
        /\ output[r] # None => WellMade(output[r])
        /\ row[r] = "serving" => Continues(r, request[r].req_output)

(* The answer of a server, put behind a well-made response, makes one.      *)
LEMMA AnswerWellMade ==
    ASSUME TypeInv, TokenInv, NEW r \in Rows, NEW tokens \in Seq(Token), NEW c \in BOOLEAN,
           Answered(r, tokens, c), row[r] \in {"sent", "serving"},
           c => Len(PriorResponse(r)) + Len(tokens) < ResponseLength + Slack,
           Continues(r, tokens)
    PROVE  WellMade(output'[r])
    <1> DEFINE p == PriorResponse(r)
               l == PriorLogProbs(r)
               q == output'[r].response_ids
               m == output'[r].log_probs
               a == output'[r].param_version_start
               b == output'[r].param_version_end
    <1>1. /\ q = Cut(p \o tokens) /\ m = l \o tokens
          /\ a = ParamVersionStart(r) /\ b = weights /\ a <= weights
          /\ output'[r] \in Outputs
        BY AnsweredType DEF Resumed
    <1>2. /\ p \in Seq(Token) /\ l \in Seq(Token) /\ Len(p) \in Nat /\ Len(l) \in Nat /\ Len(tokens) \in Nat
          /\ ResponseLength \in Nat \ {0}
        BY PriorType, SizeAssumption DEF TypeInv
    <1>3. /\ weights \in Nat /\ a \in Nat
        BY <1>1, SizeAssumption DEF TypeInv, TypeOK, Version, Outputs
    <1>4. /\ Len(p) <= ResponseLength /\ Len(p) <= Len(l)
          /\ Len(p) < ResponseLength => Len(l) = Len(p)
          /\ \A i \in 1..Len(p) :
                /\ l[i] = p[i] /\ p[i][1] = i
                /\ p[i][2] \in Nat /\ p[i][2] >= a /\ p[i][2] <= weights
                /\ i > 1 => p[i - 1][2] <= p[i][2]
        <2>1. CASE output[r] = None
            <3>1. p = <<>> /\ l = <<>>
                BY <2>1 DEF PriorResponse, PriorLogProbs
            <3> QED
                BY <1>2, <3>1
        <2>2. CASE output[r] # None
            <3>1. /\ p = output[r].response_ids /\ l = output[r].log_probs
                  /\ a = output[r].param_version_start
                BY <1>1, <2>2 DEF PriorResponse, PriorLogProbs, ParamVersionStart
            <3>2. WellMade(output[r]) /\ output[r] \in Outputs
                  /\ output[r].param_version_end <= weights
                BY <2>2 DEF TokenInv, TypeInv, TypeOK, RoomInv
            <3>3. /\ output[r].param_version_end \in Nat
                  /\ \A i \in 1..Len(p) : p[i][2] \in Nat
                <4>1. \A i \in 1..Len(p) : p[i] \in Token
                    BY <1>2
                <4> QED
                    BY <3>2, <4>1, SizeAssumption DEF Outputs, Version, Token
            <3> HIDE DEF p, l, a
            <3>4. /\ Len(p) <= ResponseLength /\ Len(p) <= Len(l)
                  /\ Len(p) < ResponseLength => Len(l) = Len(p)
                  /\ \A i \in 1..Len(p) :
                        /\ l[i] = p[i] /\ p[i][1] = i
                        /\ p[i][2] >= a /\ p[i][2] <= output[r].param_version_end
                        /\ i > 1 => p[i - 1][2] <= p[i][2]
                BY <3>1, <3>2 DEF WellMade
            <3> QED
                BY <1>3, <3>2, <3>3, <3>4
        <2> QED
            BY <2>1, <2>2
    <1>5. /\ p \o tokens \in Seq(Token) /\ Len(p \o tokens) = Len(p) + Len(tokens)
          /\ \A i \in 1..Len(p) : (p \o tokens)[i] = p[i]
          /\ \A i \in (Len(p) + 1)..(Len(p) + Len(tokens)) : (p \o tokens)[i] = tokens[i - Len(p)]
          /\ Len(l \o tokens) = Len(l) + Len(tokens)
          /\ \A i \in 1..Len(l) : (l \o tokens)[i] = l[i]
          /\ \A i \in (Len(l) + 1)..(Len(l) + Len(tokens)) : (l \o tokens)[i] = tokens[i - Len(l)]
        BY <1>2
    <1>6. /\ q \in Seq(Token) /\ Len(q) \in Nat
          /\ Len(q) <= ResponseLength /\ Len(q) <= Len(p) + Len(tokens)
          /\ Len(p) + Len(tokens) <= ResponseLength => Len(q) = Len(p) + Len(tokens)
          /\ Len(p) + Len(tokens) > ResponseLength => Len(q) = ResponseLength
          /\ \A i \in 1..Len(q) : q[i] = (p \o tokens)[i]
        <2> HIDE DEF p, q
        <2>1. /\ Cut(p \o tokens) \in Seq(Token)
              /\ Len(Cut(p \o tokens)) <= ResponseLength
              /\ Len(Cut(p \o tokens)) <= Len(p \o tokens)
              /\ Len(p \o tokens) <= ResponseLength => Cut(p \o tokens) = p \o tokens
              /\ Len(p \o tokens) > ResponseLength => Len(Cut(p \o tokens)) = ResponseLength
              /\ \A i \in 1..Len(Cut(p \o tokens)) : Cut(p \o tokens)[i] = (p \o tokens)[i]
            BY <1>5, CutFacts
        <2> QED
            BY <1>1, <1>5, <2>1
    <1>7. \A j \in 1..Len(tokens) : tokens[j][1] = Len(p) + j /\ tokens[j][2] = weights
        BY DEF Continues
    <1> HIDE DEF p, l, q, m, a, b
    <1>8. ASSUME NEW i \in 1..Len(q)
          PROVE  /\ q[i][1] = i /\ q[i][2] \in Nat /\ q[i][2] >= a /\ q[i][2] <= weights
                 /\ i > Len(p) => q[i][2] = weights
                 /\ m[i] = q[i]
        <2>1. CASE i <= Len(p)
            <3>1. q[i] = p[i] /\ m[i] = l[i]
                BY <1>1, <1>2, <1>4, <1>5, <1>6, <2>1
            <3> QED
                BY <1>2, <1>4, <2>1, <3>1
        <2>2. CASE i > Len(p)
            <3>1. i <= Len(p) + Len(tokens) /\ i \in Nat /\ Len(p) < ResponseLength /\ Len(l) = Len(p)
                BY <1>2, <1>4, <1>6, <2>2
            <3>2. i \in (Len(p) + 1)..(Len(p) + Len(tokens)) /\ i - Len(p) \in 1..Len(tokens)
                BY <1>2, <2>2, <3>1
            <3>3. q[i] = tokens[i - Len(p)] /\ m[i] = tokens[i - Len(p)]
                BY <1>1, <1>5, <1>6, <3>1, <3>2
            <3>4. tokens[i - Len(p)][1] = Len(p) + (i - Len(p)) /\ tokens[i - Len(p)][2] = weights
                BY <1>7, <3>2
            <3> QED
                BY <1>1, <1>2, <1>3, <3>1, <3>3, <3>4
        <2> QED
            BY <1>2, <2>1, <2>2
    <1>9. ASSUME NEW i \in 1..Len(q), i > 1
          PROVE  q[i - 1][2] <= q[i][2]
        <2>1. i - 1 \in 1..Len(q)
            BY <1>6, <1>9
        <2>2. CASE i <= Len(p)
            <3>1. q[i] = p[i] /\ q[i - 1] = p[i - 1]
                BY <1>2, <1>5, <1>6, <2>1, <2>2
            <3>2. i \in 1..Len(p)
                BY <1>2, <2>2
            <3> QED
                BY <1>4, <1>9, <3>1, <3>2
        <2>3. CASE i > Len(p)
            BY <1>8, <2>1, <2>3
        <2> QED
            BY <1>2, <2>2, <2>3
    <1>10. /\ Len(m) = Len(l) + Len(tokens)
           /\ Len(q) <= Len(m) /\ (Len(q) < ResponseLength => Len(m) = Len(q))
        BY <1>1, <1>2, <1>4, <1>5, <1>6
    <1>11. b = weights
        BY <1>1
    <1> QED
        BY <1>6, <1>8, <1>9, <1>10, <1>11 DEF WellMade, q, m, a, b

(* An answer, of a paused server or a generation, keeps the tokens in order. *)
LEMMA TokenAnswer ==
    ASSUME TypeInv, TokenInv, NEW r \in Rows, NEW tokens \in Seq(Token), NEW c \in BOOLEAN,
           Answered(r, tokens, c), row[r] \in {"sent", "serving"},
           c => Len(PriorResponse(r)) + Len(tokens) < ResponseLength + Slack,
           Continues(r, tokens),
           \A q \in Rows \ {r} : request'[q] = request[q],
           weights' = weights
    PROVE  TokenInv'
    <1>1. WellMade(output'[r])
        BY AnswerWellMade
    <1>2. row'[r] = "answered" /\ \A q \in Rows \ {r} : row'[q] = row[q] /\ output'[q] = output[q]
        BY AnsweredType
    <1>3. ASSUME NEW q \in Rows
          PROVE  /\ output'[q] # None => WellMade(output'[q])
                 /\ row'[q] = "serving" => Continues(q, request[q].req_output)' 
        <2>1. CASE q = r
            BY <1>1, <1>2, <2>1
        <2>2. CASE q # r
            BY <1>2, <2>2 DEF TokenInv, Continues, PriorResponse
        <2> QED
            BY <2>1, <2>2
    <1> QED
        BY <1>3 DEF TokenInv, WellMade

(* Every step keeps the tokens in order: the weights change only when no    *)
(* request is open.                                                         *)
LEMMA TokenStep == TypeInv /\ TokenInv /\ [Next]_vars => TokenInv'
    <1> SUFFICES ASSUME TypeInv, TokenInv, [Next]_vars PROVE TokenInv'
        OBVIOUS
    <1>1. ASSUME UNCHANGED <<output, weights>>,
                 \A r \in Rows : row'[r] = "serving" =>
                      row[r] = "serving" /\ request'[r].req_output = request[r].req_output
          PROVE  TokenInv'
        BY <1>1 DEF TokenInv, WellMade, Continues, PriorResponse
    <1>2. ASSUME NEW s \in Samples, Task(s)
          PROVE  TokenInv'
        <2>1. UNCHANGED <<output, weights, request>>
            BY <1>2 DEF Task, CreateTask, StartTask, EndTask
        <2>2. \A r \in Rows : row'[r] = "serving" => row[r] = "serving"
            BY <1>2 DEF Task, CreateTask, StartTask, EndTask
        <2> QED
            BY <1>1, <2>1, <2>2
    <1>3. ASSUME NEW r \in Rows, NEW v \in Servers, Admit(r, v)
          PROVE  TokenInv'
        <2>1. CASE TurnsAway(v)
            <3>1. /\ Answered(r, <<>>, TRUE) /\ row[r] = "sent" /\ UNCHANGED <<request, weights>>
                BY <1>3, <2>1 DEF Admit
            <3>2. MaxTokens(r) >= 1
                BY <3>1 DEF TypeInv, TypeOK
            <3>3. Len(PriorResponse(r)) + Len(<<>>) < ResponseLength + Slack
                BY <3>2, PriorType, SizeAssumption DEF TypeInv, MaxTokens
            <3>4. <<>> \in Seq(Token) /\ TRUE \in BOOLEAN /\ Continues(r, <<>>)
                BY DEF Continues
            <3> QED
                BY <3>1, <3>3, <3>4, TokenAnswer
        <2>2. CASE ~TurnsAway(v)
            <3>1. /\ row' = [row EXCEPT ![r] = "serving"]
                  /\ request' = [request EXCEPT ![r] =
                         [server |-> v, req_output |-> <<>>, ended |-> FALSE, cancel |-> FALSE]]
                  /\ UNCHANGED <<output, weights>>
                BY <1>3, <2>2 DEF Admit
            <3>2. /\ request'[r].req_output = <<>>
                  /\ \A q \in Rows \ {r} : row'[q] = row[q] /\ request'[q] = request[q]
                BY <3>1 DEF TypeInv, TypeOK
            <3> QED
                BY <3>1, <3>2 DEF TokenInv, WellMade, Continues, PriorResponse
        <2> QED
            BY <2>1, <2>2
    <1>4. ASSUME NEW r \in Rows, Return(r)
          PROVE  TokenInv'
        <2>1. /\ row[r] = "serving" /\ Answered(r, request[r].req_output, ~request[r].ended)
              /\ request' = [request EXCEPT ![r] = None] /\ weights' = weights
            BY <1>4 DEF Return
        <2>2. request[r] \in Requests
            BY <2>1 DEF TypeInv, TypeOK
        <2>3. request[r].req_output \in Seq(Token) /\ request[r].ended \in BOOLEAN
            BY <2>2 DEF Requests
        <2>4. ~request[r].ended => Len(PriorResponse(r)) + Len(request[r].req_output) < ResponseLength + Slack
            <3>1. ~request[r].ended => Len(request[r].req_output) < MaxTokens(r)
                BY <2>1 DEF TypeInv, RoomInv
            <3>2. Len(request[r].req_output) \in Nat /\ Len(PriorResponse(r)) \in Nat
                BY <2>3, PriorType DEF TypeInv
            <3> QED
                BY <3>1, <3>2, SizeAssumption DEF MaxTokens
        <2>5. (~request[r].ended) \in BOOLEAN /\ Continues(r, request[r].req_output)
            BY <2>1, <2>3 DEF TokenInv
        <2>6. \A q \in Rows \ {r} : request'[q] = request[q]
            BY <2>1 DEF TypeInv
        <2> QED
            BY <2>1, <2>3, <2>4, <2>5, <2>6, TokenAnswer
    <1>5. ASSUME NEW r \in Rows, EngineStep(r)
          PROVE  TokenInv'
        <2> DEFINE old == request[r].req_output
                   token == <<Len(PriorResponse(r)) + (Len(old) + 1), weights>>
        <2>1. /\ row[r] = "serving" /\ UNCHANGED <<row, output, weights>>
            BY <1>5 DEF EngineStep
        <2>2. PICK ended \in BOOLEAN :
                 request' = [request EXCEPT ![r].req_output = Append(@, token), ![r].ended = ended]
            BY <1>5 DEF EngineStep
        <2>3. request[r] \in Requests /\ DOMAIN request = Rows
            BY <2>1 DEF TypeInv, TypeOK
        <2>4. old \in Seq(Token)
            BY <2>3 DEF Requests
        <2>5. /\ request'[r].req_output = Append(old, token)
              /\ \A q \in Rows \ {r} : request'[q] = request[q]
            <3> HIDE DEF token
            <3>1. request'[r] = [request[r] EXCEPT !.req_output = Append(old, token), !.ended = ended]
                BY <2>2, <2>3
            <3> QED
                BY <2>2, <2>3, <3>1 DEF Requests
        <2>6. Continues(r, old)
            BY <2>1 DEF TokenInv
        <2>7. Continues(r, Append(old, token))
            <3>1. Len(Append(old, token)) = Len(old) + 1 /\ Len(old) \in Nat
                  /\ \A j \in 1..Len(old) : Append(old, token)[j] = old[j]
                  /\ Append(old, token)[Len(old) + 1] = token
                BY <2>4
            <3> DEFINE new == Append(old, token)
            <3>2. ASSUME NEW j \in 1..Len(new)
                  PROVE  new[j] = <<Len(PriorResponse(r)) + j, weights>>
                <4>1. CASE j = Len(old) + 1
                    <5>1. new[j] = token
                        BY <3>1, <4>1
                    <5> QED
                        BY <4>1, <5>1
                <4>2. CASE j # Len(old) + 1
                    <5>1. j \in 1..Len(old)
                        BY <3>1, <4>2
                    <5>2. new[j] = old[j]
                        BY <3>1, <5>1
                    <5> QED
                        BY <2>6, <5>1, <5>2 DEF Continues
                <4> QED
                    BY <4>1, <4>2
            <3> QED
                BY <3>2 DEF Continues
        <2>8. ASSUME NEW q \in Rows, row'[q] = "serving"
              PROVE  Continues(q, request[q].req_output)'
            <3>1. CASE q = r
                BY <2>1, <2>5, <2>7, <3>1 DEF Continues, PriorResponse
            <3>2. CASE q # r
                BY <2>1, <2>5, <2>8, <3>2 DEF TokenInv, Continues, PriorResponse
            <3> QED
                BY <3>1, <3>2
        <2> QED
            BY <2>1, <2>8 DEF TokenInv, WellMade
    <1>6. CASE Pause
        BY <1>1, <1>6 DEF Pause
    <1>7. CASE Synchronize
        <2>1. CASE TransferWeights
            <3>1. sync = "transfer" /\ UNCHANGED <<row, output>>
                BY <2>1 DEF TransferWeights
            <3>2. \A r \in Rows : row[r] # "serving"
                BY <3>1, RowFacts DEF TypeInv, TaskInv
            <3> QED
                BY <3>1, <3>2 DEF TokenInv, WellMade
        <2>2. ASSUME NEW v \in Servers, Cancel(v)
              PROVE  TokenInv'
            <3>1. /\ UNCHANGED <<row, output, weights>>
                  /\ request' = [r \in Rows |-> IF r \in CancelledBy(v) THEN [request[r] EXCEPT !.cancel = TRUE]
                                                ELSE request[r]]
                BY <2>2 DEF Cancel
            <3>2. ASSUME NEW r \in Rows, row[r] = "serving"
                  PROVE  request'[r].req_output = request[r].req_output
                <4>1. request[r] \in Requests
                    BY <3>2 DEF TypeInv, TypeOK
                <4> QED
                    BY <3>1, <4>1 DEF Requests
            <3> QED
                BY <1>1, <3>1, <3>2
        <2>3. CASE TasksGathered \/ UpdateParamVersion \/ \E v \in Servers : ResumeServer(v)
            <3>1. UNCHANGED <<row, output, request, weights>>
                BY <2>3 DEF TasksGathered, UpdateParamVersion, ResumeServer
            <3> QED
                BY <1>1, <3>1
        <2> QED
            BY <1>7, <2>1, <2>2, <2>3 DEF Synchronize
    <1>8. CASE UNCHANGED vars
        BY <1>1, <1>8 DEF vars
    <1> QED
        BY <1>2, <1>3, <1>4, <1>5, <1>6, <1>7, <1>8 DEF Next, Serve

(* No row has a token at the start.                                         *)
LEMMA TokenInit == Init => TokenInv
    BY DEF Init, TokenInv

(* The invariant says what TokensAccountedFor says.                         *)
LEMMA TokensFollow == TypeInv /\ TokenInv => TokensAccountedFor
    <1> SUFFICES ASSUME TypeInv, TokenInv, NEW r \in Rows, output[r] # None
                 PROVE  /\ IsPrefix(output[r].response_ids, output[r].log_probs)
                        /\ \A i \in DOMAIN output[r].response_ids :
                              /\ output[r].response_ids[i][1] = i
                              /\ output[r].response_ids[i][2]
                                   \in output[r].param_version_start..output[r].param_version_end
                              /\ i > 1 => output[r].response_ids[i - 1][2] =< output[r].response_ids[i][2]
        BY DEF TokensAccountedFor
    <1> DEFINE q == output[r].response_ids
               m == output[r].log_probs
    <1>1. output[r] \in Outputs /\ WellMade(output[r])
        BY DEF TypeInv, TypeOK, TokenInv
    <1>2. q \in Seq(Token) /\ m \in Seq(Token) /\ Len(q) \in Nat /\ Len(q) <= Len(m)
          /\ DOMAIN q = 1..Len(q)
        BY <1>1 DEF Outputs, WellMade
    <1>3. IsPrefix(q, m)
        <2>1. \A i \in 1..Len(q) : m[i] = q[i]
            BY <1>1 DEF WellMade
        <2> HIDE DEF q, m
        <2>2. SubSeq(q, 1, Len(q)) = SubSeq(m, 1, Len(q))
            BY <1>2, <2>1
        <2> QED
            BY <1>2, <2>2 DEF IsPrefix
    <1>4. \A i \in 1..Len(q) : q[i] \in Token
        BY <1>2
    <1>5. \A i \in 1..Len(q) : q[i][2] \in Nat
        BY <1>4, SizeAssumption DEF Token, Version
    <1>6. output[r].param_version_start \in Nat /\ output[r].param_version_end \in Nat
        BY <1>1, SizeAssumption DEF Outputs, Version
    <1>7. \A i \in 1..Len(q) : /\ q[i][1] = i /\ q[i][2] >= output[r].param_version_start
                               /\ q[i][2] <= output[r].param_version_end
                               /\ i > 1 => q[i - 1][2] <= q[i][2]
        BY <1>1 DEF WellMade
    <1> HIDE DEF q, m
    <1>8. \A i \in DOMAIN q : /\ q[i][1] = i
                              /\ q[i][2] \in output[r].param_version_start..output[r].param_version_end
                              /\ i > 1 => q[i - 1][2] =< q[i][2]
        BY <1>2, <1>5, <1>6, <1>7
    <1> QED
        BY <1>3, <1>8 DEF q, m

(* Whatever interruptions a row goes through, its response is its tokens in *)
(* their places, each beside its own log-prob, of versions in order and     *)
(* within the labels (partial_single_turn_agent_loop.run).                  *)
THEOREM TokensHold == Spec => []TokensAccountedFor
    BY TypeInit, TypeStep, TokenInit, TokenStep, TokensFollow, PTL DEF Spec

(* The versions behind the tokens of a sequence, what GrowingResponse shows *)
(* of it.                                                                   *)
Versions(s) == [i \in DOMAIN s |-> s[i][2]]

(* A sequence has as many versions as tokens.                               *)
LEMMA VersionsFacts ==
    ASSUME NEW s \in Seq(Token)
    PROVE  /\ Versions(s) \in Seq(Version) /\ Len(Versions(s)) = Len(s)
           /\ \A i \in 1..Len(s) : Versions(s)[i] = s[i][2]
    <1>1. \A i \in 1..Len(s) : s[i][2] \in Version
        BY DEF Token
    <1>2. DOMAIN s = 1..Len(s) /\ Len(s) \in Nat
        OBVIOUS
    <1>3. Versions(s) \in [1..Len(s) -> Version]
        BY <1>1, <1>2 DEF Versions
    <1>4. Versions(s) \in Seq(Version)
        BY <1>2, <1>3
    <1> QED
        BY <1>2, <1>3, <1>4 DEF Versions

(* The tokens of a row, cut off or not: what the agent loop has, and what    *)
(* the server has of it.                                                   *)
Said(r) == PriorResponse(r) \o (IF row[r] = "serving" THEN request[r].req_output ELSE <<>>)

(* Text, put in terms of what the row has said.                             *)
LEMMA TextIs ==
    ASSUME NEW r \in Rows
    PROVE  Text(r) = Versions(Cut(Said(r)))
    BY DEF Text, Versions, Said

(* What a row has said is a sequence of tokens, its response alone unless it *)
(* is being served.                                                         *)
LEMMA SaidType ==
    ASSUME TypeInv, NEW r \in Rows
    PROVE  /\ Said(r) \in Seq(Token)
           /\ row[r] # "serving" => Said(r) = PriorResponse(r)
           /\ row[r] = "serving" => request[r].req_output \in Seq(Token)
    <1>1. PriorResponse(r) \in Seq(Token)
        BY PriorType DEF TypeInv
    <1>2. CASE row[r] = "serving"
        <2>1. request[r] \in Requests
            BY <1>2 DEF TypeInv, TypeOK
        <2>2. request[r].req_output \in Seq(Token)
            BY <2>1 DEF Requests
        <2> QED
            BY <1>1, <1>2, <2>2 DEF Said
    <1>3. CASE row[r] # "serving"
        <2>1. Said(r) = PriorResponse(r) \o <<>>
            BY <1>3 DEF Said
        <2> QED
            BY <1>1, <1>3, <2>1
    <1> QED
        BY <1>2, <1>3

(* A row that was answered keeps what was cut, and cutting again changes     *)
(* nothing.                                                                *)
LEMMA CutTwice ==
    ASSUME NEW s \in Seq(Token)
    PROVE  Cut(Cut(s)) = Cut(s)
    BY CutFacts

(* While a task runs, every row that is not out for an answer has an output. *)
HeardInv ==
    \A r \in Rows : status[r[1]] = "running" /\ row[r] = "answered" => output[r] # None

(* A row that is answered has an output.                                    *)
LEMMA HeardAnswer ==
    ASSUME TypeInv, HeardInv, NEW r \in Rows, NEW tokens \in Seq(Token), NEW c \in BOOLEAN,
           Answered(r, tokens, c), row[r] \in {"sent", "serving"},
           c => Len(PriorResponse(r)) + Len(tokens) < ResponseLength + Slack,
           status' = status
    PROVE  HeardInv'
    <1>1. /\ output'[r] \in Outputs /\ \A q \in Rows \ {r} : row'[q] = row[q] /\ output'[q] = output[q]
        BY AnsweredType
    <1> QED
        BY <1>1, NoneAssumption DEF HeardInv

(* What an admission or a return says of the answer.                        *)
LEMMA AdmitAnswer ==
    ASSUME TypeInv, NEW r \in Rows, NEW v \in Servers, Admit(r, v), TurnsAway(v)
    PROVE  /\ Answered(r, <<>>, TRUE) /\ row[r] = "sent" /\ UNCHANGED <<request, status, weights>>
           /\ Len(PriorResponse(r)) + Len(<<>>) < ResponseLength + Slack
           /\ <<>> \in Seq(Token) /\ TRUE \in BOOLEAN
    <1>1. /\ Answered(r, <<>>, TRUE) /\ row[r] = "sent" /\ UNCHANGED <<request, status, weights>>
        BY DEF Admit
    <1>2. MaxTokens(r) >= 1
        BY <1>1 DEF TypeInv, TypeOK
    <1>3. Len(PriorResponse(r)) + Len(<<>>) < ResponseLength + Slack
        BY <1>2, PriorType, SizeAssumption DEF TypeInv, MaxTokens
    <1>4. <<>> \in Seq(Token) /\ TRUE \in BOOLEAN
        OBVIOUS
    <1> QED
        BY <1>1, <1>3, <1>4

(* What a return says of the answer.                                        *)
LEMMA ReturnAnswer ==
    ASSUME TypeInv, NEW r \in Rows, Return(r)
    PROVE  /\ row[r] = "serving" /\ Answered(r, request[r].req_output, ~request[r].ended)
           /\ request[r].ended \in BOOLEAN
           /\ request' = [request EXCEPT ![r] = None] /\ UNCHANGED <<status, weights>>
           /\ \A q \in Rows \ {r} : request'[q] = request[q]
           /\ request[r].req_output \in Seq(Token) /\ (~request[r].ended) \in BOOLEAN
           /\ ~request[r].ended => Len(PriorResponse(r)) + Len(request[r].req_output) < ResponseLength + Slack
    <1>1. /\ row[r] = "serving" /\ Answered(r, request[r].req_output, ~request[r].ended)
          /\ request' = [request EXCEPT ![r] = None] /\ UNCHANGED <<status, weights>>
        BY DEF Return
    <1>2. request[r] \in Requests
        BY <1>1 DEF TypeInv, TypeOK
    <1>3. request[r].req_output \in Seq(Token) /\ request[r].ended \in BOOLEAN
        BY <1>2 DEF Requests
    <1>4. ~request[r].ended => Len(PriorResponse(r)) + Len(request[r].req_output) < ResponseLength + Slack
        <2>1. ~request[r].ended => Len(request[r].req_output) < MaxTokens(r)
            BY <1>1 DEF TypeInv, RoomInv
        <2>2. Len(request[r].req_output) \in Nat /\ Len(PriorResponse(r)) \in Nat
            BY <1>3, PriorType DEF TypeInv
        <2> QED
            BY <2>1, <2>2, SizeAssumption DEF MaxTokens
    <1>5. (~request[r].ended) \in BOOLEAN
        BY <1>3
    <1>6. \A q \in Rows \ {r} : request'[q] = request[q]
        BY <1>1 DEF TypeInv
    <1> QED
        BY <1>1, <1>3, <1>4, <1>5, <1>6

(* Every step leaves an output with the rows that are not out.              *)
LEMMA HeardStep == TypeInv /\ HeardInv /\ [Next]_vars => HeardInv'
    <1> SUFFICES ASSUME TypeInv, HeardInv, [Next]_vars PROVE HeardInv'
        OBVIOUS
    <1>1. ASSUME NEW s \in Samples, Task(s)
          PROVE  HeardInv'
        <2>1. CASE CreateTask(s)
            BY <2>1, RowFacts DEF CreateTask, HeardInv, TypeInv, TypeOK
        <2>2. CASE EndTask(s)
            BY <2>2, RowFacts DEF EndTask, HeardInv, TypeInv, TypeOK
        <2>3. CASE StartTask(s)
            <3>1. /\ status' = [status EXCEPT ![s] = "running"] /\ output' = output
                  /\ row' = [r \in Rows |-> IF r[1] = s /\ NeedsServer(r) THEN "sent" ELSE row[r]]
                BY <2>3 DEF StartTask
            <3>2. ASSUME NEW r \in Rows, status'[r[1]] = "running", row'[r] = "answered"
                  PROVE  output[r] # None
                <4>1. CASE r[1] = s
                    BY <3>1, <3>2, <4>1 DEF NeedsServer
                <4>2. CASE r[1] # s
                    BY <3>1, <3>2, <4>2, RowFacts DEF HeardInv, TypeInv, TypeOK
                <4> QED
                    BY <4>1, <4>2
            <3> QED
                BY <3>1, <3>2 DEF HeardInv
        <2> QED
            BY <1>1, <2>1, <2>2, <2>3 DEF Task
    <1>2. ASSUME NEW r \in Rows, NEW v \in Servers, Admit(r, v)
          PROVE  HeardInv'
        <2>1. CASE TurnsAway(v)
            <3>1. /\ Answered(r, <<>>, TRUE) /\ row[r] = "sent" /\ status' = status
                  /\ Len(PriorResponse(r)) + Len(<<>>) < ResponseLength + Slack
                  /\ <<>> \in Seq(Token) /\ TRUE \in BOOLEAN
                BY <1>2, <2>1, AdmitAnswer
            <3> QED
                BY <3>1, HeardAnswer
        <2>2. CASE ~TurnsAway(v)
            <3>1. row' = [row EXCEPT ![r] = "serving"] /\ UNCHANGED <<output, status>>
                BY <1>2, <2>2 DEF Admit
            <3> QED
                BY <3>1 DEF HeardInv, TypeInv, TypeOK
        <2> QED
            BY <2>1, <2>2
    <1>3. ASSUME NEW r \in Rows, Return(r)
          PROVE  HeardInv'
        BY <1>3, ReturnAnswer, HeardAnswer
    <1>4. CASE (\E r \in Rows : EngineStep(r)) \/ Pause \/ Synchronize \/ UNCHANGED vars
        <2>1. UNCHANGED <<status, row, output>>
            BY <1>4 DEF EngineStep, Pause, Synchronize, TasksGathered, TransferWeights,
                UpdateParamVersion, Cancel, ResumeServer, vars
        <2> QED
            BY <2>1 DEF HeardInv
    <1> QED
        BY <1>1, <1>2, <1>3, <1>4 DEF Next, Serve

(* Initial states are initial states of GrowingResponse.                    *)
LEMMA GrowInitHolds == Init => Growth!GrowInit
    <1> SUFFICES ASSUME Init PROVE Growth!GrowInit
        OBVIOUS
    <1>1. ASSUME NEW r \in Rows
          PROVE  Text(r) = <<>> /\ ~Ended(r)
        <2>1. output[r] = None /\ row[r] = "answered"
            BY DEF Init
        <2>2. Said(r) = <<>> \o <<>>
            BY <2>1 DEF Said, PriorResponse
        <2>3. Said(r) \in Seq(Token) /\ Len(Said(r)) = 0
            BY <2>2
        <2>4. Cut(Said(r)) \in Seq(Token) /\ Len(Cut(Said(r))) = 0
            <3>1. /\ Cut(Said(r)) \in Seq(Token)
                  /\ Len(Said(r)) <= ResponseLength => Cut(Said(r)) = Said(r)
                BY <2>3, CutFacts
            <3> QED
                BY <2>3, <3>1, SizeAssumption
        <2>5. Versions(Cut(Said(r))) \in Seq(Version) /\ Len(Versions(Cut(Said(r)))) = 0
            BY <2>4, VersionsFacts
        <2>6. Versions(Cut(Said(r))) = <<>>
            BY <2>5, EmptySeq
        <2> QED
            BY <2>1, <2>6, TextIs DEF Ended
    <1>2. [r \in Rows |-> Text(r)] = [r \in Rows |-> <<>>]
        BY <1>1
    <1>3. {r \in Rows : Ended(r)} = {}
        BY <1>1
    <1>4. {s \in Samples : status[s] = "delivered"} = {}
        BY DEF Init
    <1>5. weights = 0
        BY DEF Init
    <1> QED
        BY <1>2, <1>3, <1>4, <1>5 DEF Growth!GrowInit

(* A step that changes no text, no end, no delivery and no version is a     *)
(* stutter of GrowingResponse.                                              *)
LEMMA Stutters ==
    ASSUME \A r \in Rows : Text(r)' = Text(r) /\ (Ended(r)' <=> Ended(r)),
           \A s \in Samples : status'[s] = "delivered" <=> status[s] = "delivered",
           weights' = weights
    PROVE  UNCHANGED Growth!growVars
    <1>1. [r \in Rows |-> Text(r)]' = [r \in Rows |-> Text(r)]
        OBVIOUS
    <1>2. {r \in Rows : Ended(r)}' = {r \in Rows : Ended(r)}
        OBVIOUS
    <1>3. {s \in Samples : status[s] = "delivered"}' = {s \in Samples : status[s] = "delivered"}
        OBVIOUS
    <1> QED
        BY <1>1, <1>2, <1>3 DEF Growth!growVars

(* TextIs, after a step.                                                    *)
LEMMA TextIsNext ==
    ASSUME NEW r \in Rows
    PROVE  Text(r)' = Versions(Cut(Said(r)'))
    BY DEF Text, Versions, Said, Cut

(* Answering a row leaves the text that stands, and it has ended if and only *)
(* if the answer says so.                                                  *)
LEMMA AnswerText ==
    ASSUME TypeInv, TokenInv, NEW r \in Rows, NEW tokens \in Seq(Token), NEW c \in BOOLEAN,
           Answered(r, tokens, c), row[r] \in {"sent", "serving"},
           c => Len(PriorResponse(r)) + Len(tokens) < ResponseLength + Slack,
           Cut(Said(r)) = Cut(PriorResponse(r) \o tokens)
    PROVE  Text(r)' = Text(r) /\ (Ended(r)' <=> ~c)
    <1>1. /\ row'[r] = "answered" /\ output'[r] \in Outputs /\ output'[r].is_cancel = c
          /\ output'[r].response_ids = Cut(Resumed(r, tokens))
        BY AnsweredType
    <1>2. output'[r] # None
        BY <1>1, NoneAssumption
    <1> DEFINE s == PriorResponse(r) \o tokens
    <1>3. s \in Seq(Token)
        BY PriorType DEF TypeInv
    <1>4. PriorResponse(r)' = Cut(s)
        BY <1>1, <1>2 DEF PriorResponse, Resumed
    <1>5. Cut(s) \in Seq(Token) /\ Cut(Cut(s)) = Cut(s)
        <2> HIDE DEF s
        <2> QED
            BY <1>3, CutFacts, CutTwice
    <1>6. Said(r)' = Cut(s)
        <2>1. Said(r)' = PriorResponse(r)' \o <<>>
            BY <1>1 DEF Said
        <2> QED
            BY <1>4, <1>5, <2>1
    <1>7. Text(r)' = Versions(Cut(Said(r)'))
        BY TextIsNext
    <1> HIDE DEF s
    <1>8. Text(r)' = Versions(Cut(Said(r)))
        BY <1>5, <1>6, <1>7 DEF s
    <1>9. Ended(r)' <=> ~c
        BY <1>1, <1>2 DEF Ended
    <1> QED
        BY <1>8, <1>9, TextIs

(* A row that nothing touched reads as before.                              *)
LEMMA Untouched ==
    ASSUME NEW q \in Rows, row'[q] = row[q], output'[q] = output[q],
           row[q] = "serving" => /\ request'[q].req_output = request[q].req_output
                                 /\ request'[q].ended = request[q].ended
    PROVE  Text(q)' = Text(q) /\ (Ended(q)' <=> Ended(q))
    <1>1. Said(q)' = Said(q)
        BY DEF Said, PriorResponse
    <1>2. Text(q)' = Versions(Cut(Said(q)'))
        BY TextIsNext
    <1>3. Text(q)' = Text(q)
        BY <1>1, <1>2, TextIs
    <1>4. Ended(q)' <=> Ended(q)
        BY DEF Ended
    <1> QED
        BY <1>3, <1>4

(* A response the agent loop has is no longer than response_length.         *)
LEMMA PriorCut ==
    ASSUME TypeInv, TokenInv, NEW r \in Rows
    PROVE  Len(PriorResponse(r)) <= ResponseLength /\ Cut(PriorResponse(r)) = PriorResponse(r)
    <1>1. PriorResponse(r) \in Seq(Token)
        BY PriorType DEF TypeInv
    <1>2. Len(PriorResponse(r)) <= ResponseLength
        BY SizeAssumption DEF PriorResponse, TokenInv, WellMade
    <1> QED
        BY <1>1, <1>2, CutFacts

(* A step of a task is a delivery of complete rows or a stutter: a task that *)
(* is started leaves rows alone that have ended.                            *)
LEMMA GrowTask ==
    ASSUME TypeInv, TokenInv, HeardInv, NEW s \in Samples, Task(s)
    PROVE  [Growth!GrowNext]_Growth!growVars
    <1>1. UNCHANGED <<output, request, weights>>
        BY DEF Task, CreateTask, StartTask, EndTask
    <1>2. CASE CreateTask(s)
        <2>1. row' = row /\ status[s] = "queued" /\ status' = [status EXCEPT ![s] = "created"]
            BY <1>2 DEF CreateTask
        <2>2. \A r \in Rows : Text(r)' = Text(r) /\ (Ended(r)' <=> Ended(r))
            BY <1>1, <2>1, Untouched
        <2>3. \A x \in Samples : status'[x] = "delivered" <=> status[x] = "delivered"
            BY <2>1 DEF TypeInv, TypeOK
        <2> QED
            BY <1>1, <2>2, <2>3, Stutters
    <1>3. CASE StartTask(s)
        <2>1. /\ row' = [r \in Rows |-> IF r[1] = s /\ NeedsServer(r) THEN "sent" ELSE row[r]]
              /\ status[s] = "created" /\ status' = [status EXCEPT ![s] = "running"]
            BY <1>3 DEF StartTask
        <2>2. ASSUME NEW r \in Rows
              PROVE  Text(r)' = Text(r) /\ (Ended(r)' <=> Ended(r))
            <3>1. CASE r[1] = s /\ NeedsServer(r)
                <4>1. row[r] = "answered" /\ row'[r] = "sent"
                    BY <2>1, <3>1 DEF TypeInv, TypeOK, TaskInv
                <4>2. Said(r)' = Said(r)
                    BY <1>1, <4>1 DEF Said, PriorResponse
                <4>3. Text(r)' = Versions(Cut(Said(r)'))
                    BY TextIsNext
                <4>4. ~Ended(r) /\ ~Ended(r)'
                    BY <3>1, <4>1 DEF Ended, NeedsServer
                <4> QED
                    BY <4>2, <4>3, <4>4, TextIs
            <3>2. CASE ~(r[1] = s /\ NeedsServer(r))
                <4>1. row'[r] = row[r]
                    BY <2>1, <3>2
                <4> QED
                    BY <1>1, <4>1, Untouched
            <3> QED
                BY <3>1, <3>2
        <2>3. \A x \in Samples : status'[x] = "delivered" <=> status[x] = "delivered"
            BY <2>1 DEF TypeInv, TypeOK
        <2> QED
            BY <1>1, <2>2, <2>3, Stutters
    <1>4. CASE EndTask(s)
        <2>1. /\ row' = row /\ status[s] = "running" /\ \A r \in RowsOf(s) : row[r] = "answered"
              /\ status' = [status EXCEPT ![s] = IF Interrupted(s) THEN "queued" ELSE "delivered"]
            BY <1>4 DEF EndTask
        <2>2. \A r \in Rows : Text(r)' = Text(r) /\ (Ended(r)' <=> Ended(r))
            BY <1>1, <2>1, Untouched
        <2>3. CASE Interrupted(s)
            <3>1. \A x \in Samples : status'[x] = "delivered" <=> status[x] = "delivered"
                BY <2>1, <2>3 DEF TypeInv, TypeOK
            <3> QED
                BY <1>1, <2>2, <3>1, Stutters
        <2>4. CASE ~Interrupted(s)
            <3>1. \A r \in Rows : r[1] = s => Ended(r)
                <4>1. ASSUME NEW r \in Rows, r[1] = s PROVE Ended(r)
                    <5>1. r \in RowsOf(s)
                        BY <4>1 DEF RowsOf
                    <5>2. row[r] = "answered" /\ output[r] # None /\ ~output[r].is_cancel
                        BY <2>1, <2>4, <4>1, <5>1 DEF Interrupted, HeardInv
                    <5> QED
                        BY <5>2 DEF Ended
                <4> QED
                    BY <4>1
            <3>2. \A r \in Rows : r[1] = s => r \in {q \in Rows : Ended(q)}
                BY <3>1
            <3>3. s \notin {x \in Samples : status[x] = "delivered"}
                BY <2>1
            <3>4. {x \in Samples : status[x] = "delivered"}' = {x \in Samples : status[x] = "delivered"} \cup {s}
                BY <2>1, <2>4 DEF TypeInv, TypeOK
            <3>5. [r \in Rows |-> Text(r)]' = [r \in Rows |-> Text(r)]
                BY <2>2
            <3>6. {r \in Rows : Ended(r)}' = {r \in Rows : Ended(r)}
                BY <2>2
            <3>7. Growth!Deliver(s)
                BY <1>1, <3>2, <3>3, <3>4, <3>5, <3>6 DEF Growth!Deliver
            <3> QED
                BY <3>7 DEF Growth!GrowNext
        <2> QED
            BY <2>3, <2>4
    <1> QED
        BY <1>2, <1>3, <1>4 DEF Task

(* An admission is a stutter: a paused server adds nothing and takes        *)
(* nothing.                                                                 *)
LEMMA GrowAdmit ==
    ASSUME TypeInv, TokenInv, NEW r \in Rows, NEW v \in Servers, Admit(r, v)
    PROVE  UNCHANGED Growth!growVars
    <1>1. /\ row[r] = "sent" /\ UNCHANGED <<status, weights>>
        BY DEF Admit
    <1>2. /\ PriorResponse(r) \in Seq(Token) /\ Said(r) = PriorResponse(r)
          /\ Cut(PriorResponse(r)) = PriorResponse(r)
        BY <1>1, PriorType, PriorCut, SaidType DEF TypeInv
    <1>3. ~Ended(r)
        BY <1>1 DEF Ended
    <1>4. CASE TurnsAway(v)
        <2>1. /\ Answered(r, <<>>, TRUE) /\ request' = request
              /\ Len(PriorResponse(r)) + Len(<<>>) < ResponseLength + Slack
              /\ <<>> \in Seq(Token) /\ TRUE \in BOOLEAN
            BY <1>4, AdmitAnswer
        <2>2. Cut(Said(r)) = Cut(PriorResponse(r) \o <<>>)
            BY <1>2
        <2>3. Text(r)' = Text(r) /\ (Ended(r)' <=> ~TRUE)
            BY <1>1, <2>1, <2>2, AnswerText
        <2>4. \A q \in Rows \ {r} : row'[q] = row[q] /\ output'[q] = output[q]
            BY <1>1, <2>1, AnsweredType
        <2>5. \A q \in Rows \ {r} : Text(q)' = Text(q) /\ (Ended(q)' <=> Ended(q))
            BY <2>1, <2>4, Untouched
        <2>6. \A q \in Rows : Text(q)' = Text(q) /\ (Ended(q)' <=> Ended(q))
            BY <1>3, <2>3, <2>5
        <2> QED
            BY <1>1, <2>6, Stutters
    <1>5. CASE ~TurnsAway(v)
        <2>1. /\ row' = [row EXCEPT ![r] = "serving"] /\ output' = output
              /\ request' = [request EXCEPT ![r] =
                     [server |-> v, req_output |-> <<>>, ended |-> FALSE, cancel |-> FALSE]]
            BY <1>5 DEF Admit
        <2>2. /\ request'[r].req_output = <<>> /\ ~request'[r].ended /\ row'[r] = "serving"
              /\ \A q \in Rows \ {r} : row'[q] = row[q] /\ request'[q] = request[q]
            BY <2>1 DEF TypeInv, TypeOK
        <2>3. Said(r)' = PriorResponse(r)
            <3>1. Said(r)' = PriorResponse(r) \o <<>>
                BY <2>1, <2>2 DEF Said, PriorResponse
            <3> QED
                BY <1>2, <3>1
        <2>4. Text(r)' = Versions(Cut(Said(r)'))
            BY TextIsNext
        <2>5. Text(r)' = Text(r)
            BY <1>2, <2>3, <2>4, TextIs
        <2>6. ~Ended(r)'
            BY <2>2 DEF Ended
        <2>7. \A q \in Rows \ {r} : Text(q)' = Text(q) /\ (Ended(q)' <=> Ended(q))
            BY <2>1, <2>2, Untouched
        <2>8. \A q \in Rows : Text(q)' = Text(q) /\ (Ended(q)' <=> Ended(q))
            BY <1>3, <2>5, <2>6, <2>7
        <2> QED
            BY <1>1, <2>8, Stutters
    <1> QED
        BY <1>4, <1>5

(* A return is a stutter: putting the answer behind the response changes no *)
(* text.                                                                    *)
LEMMA GrowReturn ==
    ASSUME TypeInv, TokenInv, NEW r \in Rows, Return(r)
    PROVE  UNCHANGED Growth!growVars
    <1> DEFINE t == request[r].req_output
               c == ~request[r].ended
    <1>1. /\ row[r] = "serving" /\ Answered(r, t, c) /\ UNCHANGED <<status, weights>>
          /\ request[r].ended \in BOOLEAN
          /\ \A q \in Rows \ {r} : request'[q] = request[q]
          /\ t \in Seq(Token) /\ c \in BOOLEAN
          /\ c => Len(PriorResponse(r)) + Len(t) < ResponseLength + Slack
        BY ReturnAnswer
    <1>2. Cut(Said(r)) = Cut(PriorResponse(r) \o t)
        BY <1>1 DEF Said
    <1>3. Ended(r) <=> ~c
        BY <1>1 DEF Ended
    <1> HIDE DEF t, c
    <1>4. Text(r)' = Text(r) /\ (Ended(r)' <=> ~c)
        BY <1>1, <1>2, AnswerText
    <1>5. \A q \in Rows \ {r} : row'[q] = row[q] /\ output'[q] = output[q]
        BY <1>1, AnsweredType
    <1>6. \A q \in Rows \ {r} : Text(q)' = Text(q) /\ (Ended(q)' <=> Ended(q))
        BY <1>1, <1>5, Untouched
    <1>7. \A q \in Rows : Text(q)' = Text(q) /\ (Ended(q)' <=> Ended(q))
        BY <1>3, <1>4, <1>6
    <1> QED
        BY <1>1, <1>7, Stutters

(* One token more, of what stood and of what is cut.                        *)
LEMMA CutAppend ==
    ASSUME NEW s \in Seq(Token), NEW t \in Token
    PROVE  Versions(Cut(Append(s, t))) =
             IF Len(Versions(Cut(s))) < ResponseLength
             THEN Append(Versions(Cut(s)), t[2])
             ELSE Versions(Cut(s))
    <1> DEFINE a == Append(s, t)
    <1>1. /\ a \in Seq(Token) /\ Len(a) = Len(s) + 1 /\ Len(s) \in Nat
          /\ \A i \in 1..Len(s) : a[i] = s[i]
          /\ a[Len(s) + 1] = t
        OBVIOUS
    <1>2. ResponseLength \in Nat \ {0}
        BY SizeAssumption
    <1>3. t[2] \in Version
        BY DEF Token
    <1> DEFINE x == Versions(Cut(s))
               y == Versions(Cut(a))
    <1> HIDE DEF a
    <1>4. /\ Cut(s) \in Seq(Token) /\ Len(Cut(s)) <= ResponseLength
          /\ Len(s) <= ResponseLength => Cut(s) = s
          /\ Len(s) > ResponseLength => Len(Cut(s)) = ResponseLength
          /\ \A i \in 1..Len(Cut(s)) : Cut(s)[i] = s[i]
        BY CutFacts
    <1>5. /\ Cut(a) \in Seq(Token)
          /\ Len(a) <= ResponseLength => Cut(a) = a
          /\ Len(a) > ResponseLength => Len(Cut(a)) = ResponseLength
          /\ \A i \in 1..Len(Cut(a)) : Cut(a)[i] = a[i]
        BY <1>1, CutFacts
    <1>6. /\ x \in Seq(Version) /\ Len(x) = Len(Cut(s)) /\ \A i \in 1..Len(Cut(s)) : x[i] = Cut(s)[i][2]
        BY <1>4, VersionsFacts
    <1>7. /\ y \in Seq(Version) /\ Len(y) = Len(Cut(a)) /\ \A i \in 1..Len(Cut(a)) : y[i] = Cut(a)[i][2]
        BY <1>5, VersionsFacts
    <1> HIDE DEF x, y
    <1>8. CASE Len(s) < ResponseLength
        <2>1. Cut(s) = s /\ Cut(a) = a
            BY <1>1, <1>2, <1>4, <1>5, <1>8
        <2>2. Len(x) = Len(s) /\ Len(y) = Len(s) + 1
            BY <1>1, <1>6, <1>7, <2>1
        <2>3. /\ Append(x, t[2]) \in Seq(Version) /\ Len(Append(x, t[2])) = Len(x) + 1
              /\ \A i \in 1..Len(x) : Append(x, t[2])[i] = x[i]
              /\ Append(x, t[2])[Len(x) + 1] = t[2]
            BY <1>3, <1>6
        <2>4. ASSUME NEW i \in 1..(Len(s) + 1) PROVE y[i] = Append(x, t[2])[i]
            <3>1. CASE i = Len(s) + 1
                <4>1. y[i] = a[i][2]
                    BY <1>1, <1>7, <2>1, <3>1
                <4> QED
                    BY <1>1, <2>2, <2>3, <3>1, <4>1
            <3>2. CASE i # Len(s) + 1
                <4>1. i \in 1..Len(s)
                    BY <1>1, <3>2
                <4>2. y[i] = a[i][2] /\ x[i] = s[i][2] /\ a[i] = s[i]
                    BY <1>1, <1>6, <1>7, <2>1, <4>1
                <4> QED
                    BY <2>2, <2>3, <4>1, <4>2
            <3> QED
                BY <3>1, <3>2
        <2>5. y = Append(x, t[2])
            BY <1>7, <2>2, <2>3, <2>4, SeqEqual
        <2> QED
            BY <1>8, <2>2, <2>5 DEF x, y, a
    <1>9. CASE ~(Len(s) < ResponseLength)
        <2>1. Len(Cut(s)) = ResponseLength /\ Len(Cut(a)) = ResponseLength
            BY <1>1, <1>2, <1>4, <1>5, <1>9
        <2>2. \A i \in 1..ResponseLength : i \in 1..Len(s) /\ a[i] = s[i]
            BY <1>1, <1>2, <1>9
        <2>3. \A i \in 1..ResponseLength : y[i] = x[i]
            BY <1>4, <1>5, <1>6, <1>7, <2>1, <2>2
        <2>4. y = x
            BY <1>6, <1>7, <2>1, <2>3, SeqEqual
        <2>5. ~(Len(x) < ResponseLength)
            BY <1>2, <1>6, <2>1
        <2> QED
            BY <2>4, <2>5 DEF x, y, a
    <1> QED
        BY <1>8, <1>9

(* A token of the engine is the abstract row's growth, also beyond the      *)
(* length.                                                                  *)
LEMMA GrowEngine ==
    ASSUME TypeInv, TokenInv, NEW r \in Rows, EngineStep(r)
    PROVE  Growth!GrowNext
    <1> DEFINE old == request[r].req_output
               token == <<Len(PriorResponse(r)) + (Len(old) + 1), weights>>
    <1>1. /\ row[r] = "serving" /\ ~request[r].ended /\ UNCHANGED <<status, row, output, weights>>
        BY DEF EngineStep
    <1>2. PICK ended \in BOOLEAN :
             /\ Len(old) + 1 = MaxTokens(r) => ended
             /\ request' = [request EXCEPT ![r].req_output = Append(@, token), ![r].ended = ended]
        BY DEF EngineStep
    <1>3. request[r] \in Requests /\ DOMAIN request = Rows /\ weights \in Version
        BY <1>1 DEF TypeInv, TypeOK
    <1>4. old \in Seq(Token) /\ PriorResponse(r) \in Seq(Token) /\ Len(old) < MaxTokens(r)
        BY <1>1, <1>3, PriorType DEF TypeInv, RoomInv, Requests
    <1>5. token \in Token
        <2>1. Len(PriorResponse(r)) \in Nat /\ Len(old) \in Nat
            BY <1>4
        <2>2. Len(PriorResponse(r)) + (Len(old) + 1) \in 1..(ResponseLength + Slack)
            BY <1>4, <2>1, SizeAssumption DEF MaxTokens
        <2> QED
            BY <1>3, <2>2 DEF Token
    <1>6. token[2] = weights
        OBVIOUS
    <1>7. /\ request'[r].req_output = Append(old, token) /\ request'[r].ended = ended
          /\ \A q \in Rows \ {r} : request'[q] = request[q]
        <2> HIDE DEF token
        <2>1. request'[r] = [request[r] EXCEPT !.req_output = Append(old, token), !.ended = ended]
            BY <1>2, <1>3
        <2> QED
            BY <1>2, <1>3, <2>1 DEF Requests
    <1> DEFINE s == PriorResponse(r) \o old
    <1>8. Said(r) = s /\ s \in Seq(Token)
        BY <1>1, <1>4 DEF Said
    <1>9. Said(r)' = Append(s, token)
        <2>1. Said(r)' = PriorResponse(r) \o Append(old, token)
            BY <1>1, <1>7 DEF Said, PriorResponse
        <2> HIDE DEF token
        <2>2. PriorResponse(r) \o Append(old, token) = Append(PriorResponse(r) \o old, token)
            <3> DEFINE p == PriorResponse(r)
                       u == p \o Append(old, token)
                       w == Append(p \o old, token)
            <3>1. /\ p \in Seq(Token) /\ old \in Seq(Token) /\ token \in Token
                  /\ Len(p) \in Nat /\ Len(old) \in Nat
                BY <1>4, <1>5
            <3> HIDE DEF p, old
            <3>2. /\ u \in Seq(Token) /\ w \in Seq(Token)
                  /\ Len(u) = Len(p) + Len(old) + 1 /\ Len(w) = Len(p) + Len(old) + 1
                BY <3>1
            <3>3. ASSUME NEW i \in 1..(Len(p) + Len(old) + 1)
                  PROVE  u[i] = w[i]
                <4>1. CASE i <= Len(p)
                    BY <3>1, <4>1
                <4>2. CASE i > Len(p) /\ i <= Len(p) + Len(old)
                    BY <3>1, <4>2
                <4>3. CASE i = Len(p) + Len(old) + 1
                    BY <3>1, <4>3
                <4> QED
                    BY <3>1, <4>1, <4>2, <4>3
            <3> QED
                BY <3>2, <3>3, SeqEqual DEF p
        <2> QED
            BY <2>1, <2>2
    <1> HIDE DEF token, old, s
    <1>10. Text(r)' = IF Len(Text(r)) < ResponseLength THEN Append(Text(r), weights) ELSE Text(r)
        BY <1>5, <1>6, <1>8, <1>9, TextIs, TextIsNext, CutAppend
    <1>11. ~Ended(r) /\ (Ended(r)' <=> ended)
        BY <1>1, <1>7 DEF Ended
    <1>12. \A q \in Rows \ {r} : Text(q)' = Text(q) /\ (Ended(q)' <=> Ended(q))
        BY <1>1, <1>7, Untouched
    <1> DEFINE text == [q \in Rows |-> Text(q)]
    <1>13. text' = IF Len(text[r]) < ResponseLength
                   THEN [text EXCEPT ![r] = Append(@, weights)] ELSE text
        <2>1. text[r] = Text(r)
            OBVIOUS
        <2>2. CASE Len(Text(r)) < ResponseLength
            <3>1. \A q \in Rows : Text(q)' = [text EXCEPT ![r] = Append(@, weights)][q]
                BY <1>10, <1>12, <2>1, <2>2
            <3>2. text' = [text EXCEPT ![r] = Append(@, weights)]
                BY <3>1
            <3> QED
                BY <2>1, <2>2, <3>2
        <2>3. CASE ~(Len(Text(r)) < ResponseLength)
            <3>1. \A q \in Rows : Text(q)' = Text(q)
                BY <1>10, <1>12, <2>3
            <3>2. text' = text
                BY <3>1
            <3> QED
                BY <2>1, <2>3, <3>2
        <2> QED
            BY <2>2, <2>3
    <1>14. \/ {q \in Rows : Ended(q)}' = {q \in Rows : Ended(q)}
           \/ {q \in Rows : Ended(q)}' = {q \in Rows : Ended(q)} \cup {r}
        <2>1. CASE ended
            BY <1>11, <1>12, <2>1
        <2>2. CASE ~ended
            BY <1>11, <1>12, <2>2
        <2> QED
            BY <2>1, <2>2
    <1>15. r \notin {q \in Rows : Ended(q)}
        BY <1>11
    <1>16. {x \in Samples : status[x] = "delivered"}' = {x \in Samples : status[x] = "delivered"}
        BY <1>1
    <1>17. Growth!Grow(r)
        BY <1>1, <1>13, <1>14, <1>15, <1>16 DEF Growth!Grow
    <1> QED
        BY <1>17 DEF Growth!GrowNext

(* Of a synchronization only the transfer of the weights shows.             *)
LEMMA GrowSync ==
    ASSUME TypeInv, TokenInv, Pause \/ Synchronize
    PROVE  [Growth!GrowNext]_Growth!growVars
    <1>1. UNCHANGED <<status, row, output>>
        BY DEF Pause, Synchronize, TasksGathered, TransferWeights, UpdateParamVersion, Cancel, ResumeServer
    <1>2. \A r \in Rows : row[r] = "serving" => /\ request'[r].req_output = request[r].req_output
                                                /\ request'[r].ended = request[r].ended
        <2>1. ASSUME NEW v \in Servers, Cancel(v), NEW r \in Rows, row[r] = "serving"
              PROVE  /\ request'[r].req_output = request[r].req_output
                     /\ request'[r].ended = request[r].ended
            <3>1. request[r] \in Requests
                BY <2>1 DEF TypeInv, TypeOK
            <3>2. request'[r] = request[r] \/ request'[r] = [request[r] EXCEPT !.cancel = TRUE]
                BY <2>1 DEF Cancel
            <3> QED
                BY <3>1, <3>2 DEF Requests
        <2>2. CASE ~(\E v \in Servers : Cancel(v))
            <3>1. request' = request
                BY <2>2 DEF Pause, Synchronize, TasksGathered, TransferWeights, UpdateParamVersion, ResumeServer
            <3> QED
                BY <3>1
        <2> QED
            BY <2>1, <2>2
    <1>3. \A r \in Rows : Text(r)' = Text(r) /\ (Ended(r)' <=> Ended(r))
        BY <1>1, <1>2, Untouched
    <1>4. CASE TransferWeights
        <2>1. weights' = weights + 1
            BY <1>4 DEF TransferWeights
        <2>2. [r \in Rows |-> Text(r)]' = [r \in Rows |-> Text(r)]
            BY <1>3
        <2>3. {r \in Rows : Ended(r)}' = {r \in Rows : Ended(r)}
            BY <1>3
        <2>4. {s \in Samples : status[s] = "delivered"}' = {s \in Samples : status[s] = "delivered"}
            BY <1>1
        <2>5. Growth!NewWeights
            BY <2>1, <2>2, <2>3, <2>4 DEF Growth!NewWeights
        <2> QED
            BY <2>5 DEF Growth!GrowNext
    <1>5. CASE ~TransferWeights
        <2>1. weights' = weights
            BY <1>5 DEF Pause, Synchronize, TasksGathered, UpdateParamVersion, Cancel, ResumeServer
        <2> QED
            BY <1>1, <1>3, <2>1, Stutters
    <1> QED
        BY <1>4, <1>5

(* Every step maps to a step of GrowingResponse or a stutter.               *)
LEMMA GrowStep == TypeInv /\ TokenInv /\ HeardInv /\ [Next]_vars => [Growth!GrowNext]_Growth!growVars
    <1> SUFFICES ASSUME TypeInv, TokenInv, HeardInv, [Next]_vars
                 PROVE  [Growth!GrowNext]_Growth!growVars
        OBVIOUS
    <1>1. CASE \E s \in Samples : Task(s)
        BY <1>1, GrowTask
    <1>2. CASE \E r \in Rows : Serve(r)
        BY <1>2, GrowAdmit, GrowReturn DEF Serve
    <1>3. CASE \E r \in Rows : EngineStep(r)
        BY <1>3, GrowEngine
    <1>4. CASE Pause \/ Synchronize
        BY <1>4, GrowSync
    <1>5. CASE UNCHANGED vars
        <2>1. \A r \in Rows : Text(r)' = Text(r) /\ (Ended(r)' <=> Ended(r))
            BY <1>5, Untouched DEF vars
        <2> QED
            BY <1>5, <2>1, Stutters DEF vars
    <1> QED
        BY <1>1, <1>2, <1>3, <1>4, <1>5 DEF Next

(* Servers, requests and pauses implement responses that only grow          *)
(* (vllm_async_server.py, partial_single_turn_agent_loop.py).               *)
THEOREM GrowthHolds == Spec => GrowthSpec
    <1>1. Init => Growth!GrowInit /\ TypeInv /\ TokenInv /\ HeardInv
        BY GrowInitHolds, TypeInit, TokenInit, RowFacts DEF Init, HeardInv
    <1>2. TypeInv /\ TokenInv /\ HeardInv /\ [Next]_vars => TypeInv' /\ TokenInv' /\ HeardInv'
        BY TypeStep, TokenStep, HeardStep
    <1> QED
        BY <1>1, <1>2, GrowStep, PTL DEF Spec, GrowthSpec, Growth!GrowSpec
=============================================================================

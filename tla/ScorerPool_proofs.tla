------------------------- MODULE ScorerPool_proofs --------------------------
(*****************************************************************************)
(* The scorer's pool for any number of requests, threads, retries and        *)
(* scores: a request is in one place, its result comes back in its own row,  *)
(* and low rows have suggestions.                                            *)
(*****************************************************************************)
EXTENDS ScorerPool, FiniteSetTheorems, SequenceTheorems, TLAPS

(* Request i is in the work queue.                                          *)
Waiting(i) == \E k \in DOMAIN queue : queue[k] = i
(* Threads that have a request.                                             *)
Busy == {w \in Workers : worker[w] # None}
(* Request i is in the hands of a thread.                                   *)
Held(i) == \E w \in Workers : worker[w] # None /\ worker[w].idx = i
(* Requests that are done.                                                  *)
Finished == {k \in Requests : future[k] # None}
(* How many requests have been submitted, wherever they are.                *)
Total == Len(queue) + Cardinality(Busy) + Cardinality(Finished)

(* The types of the variables.                                              *)
ShapeInv ==
    /\ phase \in {"submit", "collect", "fill", "done"}
    /\ queue \in Seq(Requests)
    /\ DOMAIN worker = Workers /\ DOMAIN future = Requests /\ DOMAIN results = Requests
    /\ \A w \in Workers : worker[w] = None \/ worker[w] \in Work
    /\ \A i \in Requests :
        /\ future[i] = None \/ future[i] \in Results
        /\ results[i] = None \/ results[i] \in Results

(* The requests submitted are the first Total, and each of them is in one   *)
(* place.                                                                   *)
PlaceInv ==
    /\ \A j, k \in DOMAIN queue : queue[j] = queue[k] => j = k
    /\ \A v, w \in Workers :
          worker[v] # None /\ worker[w] # None /\ worker[v].idx = worker[w].idx => v = w
    /\ \A i \in Requests :
        /\ ~(Waiting(i) /\ Held(i)) /\ ~(Waiting(i) /\ future[i] # None) /\ ~(Held(i) /\ future[i] # None)
        /\ Waiting(i) \/ Held(i) \/ future[i] # None <=> i <= Total
    /\ Total \in Nat
    /\ IF phase = "submit" THEN Total < Rows ELSE Total = Rows

(* What as_completed has yielded, and where its results are.                *)
CollectInv ==
    /\ collected \subseteq Requests /\ done_count = Cardinality(collected)
    /\ \A i \in collected : future[i] # None
    /\ phase = "submit" => collected = {}
    /\ phase = "collect" => done_count < Rows
    /\ phase \in {"fill", "done"} => collected = Requests
    /\ phase # "done" => \A i \in Requests : results[i] = IF i \in collected THEN future[i] ELSE None
    /\ phase = "done" => \A i \in Requests : results[i] # None

(* A result of the scorer: low if and only if it has a suggestion, and a    *)
(* score or else an error.                                                  *)
GoodResult(r) ==
    /\ r.source # "" <=> r.score # None /\ r.score < HintBelow
    /\ Retries >= 0 => (r.score = None <=> r.error # "")
    /\ r.source # "trainer_local_fallback"

(* A suggestion is asked for separately only if the score is low.           *)
GoodWork(x) == x.stage = "hint" => x.score \in Scores /\ x.score < HintBelow

(* Every result, and the work under way, is good; the trainer has filled in *)
(* the rest.                                                                *)
ScoreInv ==
    /\ \A i \in Requests : future[i] # None => GoodResult(future[i])
    /\ \A w \in Workers : worker[w] # None => GoodWork(worker[w])
    /\ HintsForLow

(* The inductive invariant.                                                 *)
PoolInv == ShapeInv /\ PlaceInv /\ CollectInv /\ ScoreInv

(* Requests, threads and the sets of them are finite.                       *)
LEMMA PoolSizes ==
    /\ Rows \in Nat /\ Rows >= 1 /\ Requests = 1..Rows
    /\ IsFiniteSet(Requests) /\ Cardinality(Requests) = Rows
    /\ IsFiniteSet(Workers) /\ IsFiniteSet(Busy) /\ IsFiniteSet(Finished)
    /\ Cardinality(Busy) \in Nat /\ Cardinality(Finished) \in Nat
    <1>1. Rows \in Nat /\ Rows >= 1 /\ Requests = 1..Rows
        BY SizeAssumption DEF Requests
    <1>2. IsFiniteSet(Requests) /\ Cardinality(Requests) = Rows
        BY <1>1, FS_Interval
    <1>3. \E n \in Nat : Workers = 1..n
        BY SizeAssumption DEF Workers
    <1>4. IsFiniteSet(Workers)
        BY <1>3, FS_Interval
    <1>5. IsFiniteSet(Busy) /\ IsFiniteSet(Finished)
        BY <1>2, <1>4, FS_Subset DEF Busy, Finished
    <1> QED
        BY <1>1, <1>2, <1>4, <1>5, FS_CardinalityType

(* Failures and scores are results.                                         *)
LEMMA ResultKinds ==
    /\ \A error \in Errors \cup {""} : Failed(error) \in Results
    /\ \A score \in Scores, source \in Sources : Result(score, source, "") \in Results
    BY DEF Failed, Result, Results, Sources

(* An attempt ends in a good result, or in another piece of work on the same *)
(* request.                                                                 *)
LEMMA ThreadStep ==
    ASSUME PoolInv, NEW w \in Workers, ScoreAttempt(w) \/ HintAttempt(w)
    PROVE  /\ worker[w] # None /\ UNCHANGED <<phase, queue, done_count, collected, results>>
           /\ \/ \E r \in Results : GoodResult(r) /\ Finish(w, r)
              \/ \E x \in Work : /\ x.idx = worker[w].idx /\ GoodWork(x)
                                 /\ worker' = [worker EXCEPT ![w] = x] /\ future' = future
    <1> DEFINE Goal == \/ \E r \in Results : GoodResult(r) /\ Finish(w, r)
                       \/ \E x \in Work : /\ x.idx = worker[w].idx /\ GoodWork(x)
                                          /\ worker' = [worker EXCEPT ![w] = x] /\ future' = future
    <1>1. worker[w] # None /\ UNCHANGED <<phase, queue, done_count, collected, results>>
        BY DEF ScoreAttempt, HintAttempt
    <1> SUFFICES Goal
        BY <1>1
    <1>2. worker[w] \in Work /\ GoodWork(worker[w]) /\ DOMAIN worker = Workers
        BY <1>1 DEF PoolInv, ShapeInv, ScoreInv
    <1>3. /\ worker[w].idx \in Requests /\ worker[w].stage \in {"score", "hint"}
          /\ worker[w].attempt \in 0..(IF Retries > 0 THEN Retries ELSE 0)
          /\ worker[w].error \in Errors \cup {""} /\ worker[w].score \in Scores \cup {None}
          /\ worker[w].hint_attempt \in 0..HintRetries
        BY <1>2 DEF Work
    <1>11. worker[w].hint_attempt \in 0..HintRetries
        BY <1>3
    <1>12. worker[w].attempt \in 0..(IF Retries > 0 THEN Retries ELSE 0)
        BY <1>3
    <1>4. Retries \in Int /\ HintRetries \in Nat
        BY SizeAssumption
    <1>9. /\ worker[w].attempt \in Nat /\ (worker[w].attempt <= Retries \/ worker[w].attempt = 0)
          /\ worker[w].hint_attempt \in Nat
        <2>1. worker[w].hint_attempt \in Nat
            BY <1>4, <1>11
        <2>2. CASE Retries > 0
            BY <1>4, <1>12, <2>1, <2>2
        <2>3. CASE ~(Retries > 0)
            BY <1>4, <1>12, <2>1, <2>3
        <2> QED
            BY <2>2, <2>3
    <1>10. \A n \in Nat : n <= Retries => n \in 0..(IF Retries > 0 THEN Retries ELSE 0)
        BY <1>4
    <1>5. ASSUME NEW e \in Errors PROVE GoodResult(Failed(e)) /\ Failed(e) \in Results
        <2>1. e # "" /\ Failed(e).score = None /\ Failed(e).source = "" /\ Failed(e).error = e
            BY <1>5 DEF Errors, Failed, Result
        <2> QED
            BY <2>1, ResultKinds DEF GoodResult
    <1>6. ASSUME NEW e \in Errors, FailAttempt(w, e) PROVE Goal
        <2>1. CASE MayRetry(w)
            <3> DEFINE n == worker[w].attempt + 1
                       x == [worker[w] EXCEPT !.stage = "score", !.attempt = n, !.error = e,
                                              !.score = None, !.hint_attempt = 0]
            <3>1. worker' = [worker EXCEPT ![w] = x] /\ future' = future
                BY <1>6, <2>1, <1>2 DEF FailAttempt
            <3>2. n \in 0..(IF Retries > 0 THEN Retries ELSE 0)
                BY <1>4, <1>9, <1>10, <2>1 DEF MayRetry
            <3>4. e \in Errors \cup {""} /\ None \in Scores \cup {None}
                BY Zenon
            <3>5. 0 \in 0..HintRetries
                BY <1>4
            <3> HIDE DEF n
            <3>3. x \in Work /\ x.idx = worker[w].idx /\ x.stage = "score"
                BY <1>2, <3>2, <3>4, <3>5 DEF Work
            <3> HIDE DEF x
            <3> QED
                BY <3>1, <3>3 DEF GoodWork
        <2>2. CASE ~MayRetry(w)
            BY <1>5, <1>6, <2>2 DEF FailAttempt, Finish
        <2> QED
            BY <2>1, <2>2
    <1>7. CASE ScoreAttempt(w)
        <2>1. CASE worker[w].attempt > Retries
            <3>1. Finish(w, Failed(worker[w].error))
                BY <1>7, <2>1 DEF ScoreAttempt
            <3>2. ~(Retries >= 0)
                BY <1>4, <1>9, <2>1
            <3>3. Failed(worker[w].error).score = None /\ Failed(worker[w].error).source = ""
                BY DEF Failed, Result
            <3>4. GoodResult(Failed(worker[w].error)) /\ Failed(worker[w].error) \in Results
                BY <1>3, <3>2, <3>3, ResultKinds DEF GoodResult
            <3> QED
                BY <3>1, <3>4 DEF Finish
        <2>2. CASE ~(worker[w].attempt > Retries)
            <3>1. Scored(w) \/ ScoreFails(w)
                BY <1>7, <2>2 DEF ScoreAttempt
            <3>2. CASE ScoreFails(w)
                BY <1>5, <1>6, <3>2 DEF ScoreFails, Finish
            <3>3. CASE Scored(w)
                <4>1. PICK score \in Scores, suggested \in BOOLEAN :
                        IF ~WantsHint(score) THEN Finish(w, Result(score, "", ""))
                        ELSE IF suggested THEN Finish(w, Result(score, "gpt", ""))
                        ELSE /\ worker' = [worker EXCEPT ![w].stage = "hint", ![w].score = score]
                             /\ UNCHANGED future
                    BY <3>3 DEF Scored
                <4>2. score # None /\ score \in Nat /\ HintBelow \in Nat
                    BY NoneAssumption, ScoreAssumption
                <4>3. CASE ~WantsHint(score)
                    <5>1. GoodResult(Result(score, "", "")) /\ Result(score, "", "") \in Results
                        BY <4>2, <4>3, ResultKinds DEF GoodResult, Result, WantsHint, Sources
                    <5> QED
                        BY <4>1, <4>3, <5>1 DEF Finish
                <4>4. CASE WantsHint(score) /\ suggested
                    <5>1. GoodResult(Result(score, "gpt", "")) /\ Result(score, "gpt", "") \in Results
                        BY <4>2, <4>4, ResultKinds DEF GoodResult, Result, WantsHint, Sources
                    <5> QED
                        BY <4>1, <4>4, <5>1 DEF Finish
                <4>5. CASE WantsHint(score) /\ ~suggested
                    <5> DEFINE x == [worker[w] EXCEPT !.stage = "hint", !.score = score]
                    <5>1. worker' = [worker EXCEPT ![w] = x] /\ future' = future
                        BY <1>2, <4>1, <4>5
                    <5>2. x \in Work /\ x.idx = worker[w].idx /\ x.score = score
                        BY <1>2, <1>3 DEF Work
                    <5> HIDE DEF x
                    <5> QED
                        BY <4>5, <5>1, <5>2 DEF GoodWork, WantsHint
                <4> QED
                    BY <4>3, <4>4, <4>5
            <3> QED
                BY <3>1, <3>2, <3>3
        <2> QED
            BY <2>1, <2>2
    <1>8. CASE HintAttempt(w)
        <2>1. worker[w].score \in Scores /\ worker[w].score < HintBelow /\ worker[w].score # None
            BY <1>2, <1>8, NoneAssumption DEF HintAttempt, GoodWork
        <2>2. ASSUME NEW source \in {"gpt_hint_retry", "local_fallback"}
              PROVE  /\ GoodResult(Result(worker[w].score, source, ""))
                     /\ Result(worker[w].score, source, "") \in Results
            BY <2>1, ResultKinds DEF GoodResult, Result, Sources
        <2>3. CASE Finish(w, Result(worker[w].score, "gpt_hint_retry", "")) \/ LocalFallback(w)
            BY <2>2, <2>3 DEF LocalFallback, Finish
        <2>4. CASE /\ worker[w].hint_attempt < HintRetries
                   /\ worker' = [worker EXCEPT ![w].hint_attempt = @ + 1] /\ UNCHANGED future
            <3> DEFINE x == [worker[w] EXCEPT !.hint_attempt = @ + 1]
            <3>1. worker' = [worker EXCEPT ![w] = x] /\ future' = future
                BY <1>2, <2>4
            <3>2. worker[w].hint_attempt + 1 \in 0..HintRetries
                BY <1>4, <1>9, <2>4
            <3>3. x \in Work /\ x.idx = worker[w].idx /\ x.stage = worker[w].stage /\ x.score = worker[w].score
                BY <1>2, <1>3, <3>2 DEF Work
            <3> HIDE DEF x
            <3> QED
                BY <1>2, <3>1, <3>3 DEF GoodWork
        <2> QED
            BY <1>6, <1>8, <2>3, <2>4 DEF HintAttempt
    <1> QED
        BY <1>7, <1>8

(* Total, after a step.                                                     *)
LEMMA TotalNext == Total' = Len(queue') + Cardinality(Busy') + Cardinality(Finished')
    BY DEF Total

(* Submit keeps the invariant: the request it numbers is new.               *)
LEMMA PoolSubmit ==
    ASSUME PoolInv, Submit
    PROVE  PoolInv'
    <1> DEFINE i == Total + 1
    <1>1. /\ phase = "submit" /\ queue' = Append(queue, i)
          /\ phase' = IF i = Rows THEN "collect" ELSE "submit"
          /\ UNCHANGED <<worker, future, done_count, collected, results>>
        BY DEF Submit, Total, Busy, Finished
    <1>2. /\ queue \in Seq(Requests) /\ Total \in Nat /\ Total < Rows /\ Len(queue) \in Nat
          /\ Rows \in Nat /\ Requests = 1..Rows /\ Cardinality(Busy) \in Nat /\ Cardinality(Finished) \in Nat
        BY <1>1, PoolSizes DEF PoolInv, ShapeInv, PlaceInv
    <1>3. i \in Requests /\ i \in Nat
        BY <1>2
    <1>4. /\ queue' \in Seq(Requests) /\ Len(queue') = Len(queue) + 1 /\ DOMAIN queue' = 1..(Len(queue) + 1)
          /\ DOMAIN queue = 1..Len(queue)
          /\ \A k \in 1..Len(queue) : queue'[k] = queue[k]
          /\ queue'[Len(queue) + 1] = i
        BY <1>1, <1>2, <1>3
    <1>5. Total' = i
        <2>1. Busy' = Busy /\ Finished' = Finished
            BY <1>1 DEF Busy, Finished
        <2>2. Total = Len(queue) + Cardinality(Busy) + Cardinality(Finished)
            BY DEF Total
        <2> QED
            BY <1>2, <1>4, <2>1, <2>2, TotalNext
    <1> HIDE DEF i
    <1>6. i = Total + 1
        BY DEF i
    <1>7. ShapeInv'
        BY <1>1, <1>4 DEF PoolInv, ShapeInv
    <1>8. ASSUME NEW n \in Requests
          PROVE  /\ Waiting(n)' <=> Waiting(n) \/ n = i
                 /\ Held(n)' <=> Held(n)
        <2>1. Held(n)' <=> Held(n)
            BY <1>1 DEF Held
        <2>2. ASSUME Waiting(n) PROVE Waiting(n)'
            BY <1>2, <1>4, <2>2 DEF Waiting
        <2>3. ASSUME n = i PROVE Waiting(n)'
            <3>1. Len(queue) + 1 \in DOMAIN queue' /\ queue'[Len(queue) + 1] = n
                BY <1>2, <1>4, <2>3
            <3> QED
                BY <3>1 DEF Waiting
        <2>4. ASSUME Waiting(n)' PROVE Waiting(n) \/ n = i
            <3>1. PICK k \in 1..(Len(queue) + 1) : queue'[k] = n
                BY <1>4, <2>4 DEF Waiting
            <3>2. CASE k = Len(queue) + 1
                BY <1>4, <3>1, <3>2
            <3>3. CASE k # Len(queue) + 1
                <4>1. k \in DOMAIN queue /\ queue[k] = n
                    BY <1>2, <1>4, <3>1, <3>3
                <4> QED
                    BY <4>1 DEF Waiting
            <3> QED
                BY <3>2, <3>3
        <2> QED
            BY <2>1, <2>2, <2>3, <2>4
    <1>9. ~Waiting(i) /\ ~Held(i) /\ future[i] = None
        <2>1. Waiting(i) \/ Held(i) \/ future[i] # None <=> i <= Total
            BY <1>3 DEF PoolInv, PlaceInv
        <2> QED
            BY <1>2, <1>6, <2>1
    <1>10. PlaceInv'
        <2>1. ASSUME NEW j \in DOMAIN queue', NEW k \in DOMAIN queue', queue'[j] = queue'[k]
              PROVE  j = k
            <3>1. \A m \in DOMAIN queue : queue[m] # i
                BY <1>9 DEF Waiting
            <3>2. j \in DOMAIN queue \/ j = Len(queue) + 1
                BY <1>2, <1>4
            <3>3. k \in DOMAIN queue \/ k = Len(queue) + 1
                BY <1>2, <1>4
            <3>4. \A a, b \in DOMAIN queue : queue[a] = queue[b] => a = b
                BY DEF PoolInv, PlaceInv
            <3> QED
                BY <1>4, <2>1, <3>1, <3>2, <3>3, <3>4
        <2>2. \A v, w \in Workers :
                  worker'[v] # None /\ worker'[w] # None /\ worker'[v].idx = worker'[w].idx => v = w
            BY <1>1 DEF PoolInv, PlaceInv
        <2>3. ASSUME NEW n \in Requests
              PROVE  /\ ~(Waiting(n)' /\ Held(n)') /\ ~(Waiting(n)' /\ future'[n] # None)
                     /\ ~(Held(n)' /\ future'[n] # None)
            BY <1>1, <1>8, <1>9 DEF PoolInv, PlaceInv
        <2>4. ASSUME NEW n \in Requests
              PROVE  Waiting(n)' \/ Held(n)' \/ future'[n] # None <=> n <= Total'
            <3>1. Waiting(n) \/ Held(n) \/ future[n] # None <=> n <= Total
                BY DEF PoolInv, PlaceInv
            <3>2. n <= i <=> n <= Total \/ n = i
                BY <1>2, <1>6
            <3> QED
                BY <1>1, <1>5, <1>8, <3>1, <3>2
        <2>5. Total' \in Nat /\ (IF phase' = "submit" THEN Total' < Rows ELSE Total' = Rows)
            BY <1>1, <1>2, <1>3, <1>5, <1>6
        <2> QED
            BY <2>1, <2>2, <2>3, <2>4, <2>5 DEF PlaceInv
    <1>11. CollectInv'
        <2>1. Cardinality({}) = 0
            BY FS_EmptySet
        <2>2. done_count < Rows
            <3>1. done_count = 0
                BY <1>1, <2>1 DEF PoolInv, CollectInv
            <3> QED
                BY <3>1, PoolSizes
        <2> QED
            BY <1>1, <2>2 DEF PoolInv, CollectInv
    <1>12. ScoreInv'
        BY <1>1 DEF PoolInv, ScoreInv, HintsForLow
    <1> QED
        BY <1>7, <1>10, <1>11, <1>12 DEF PoolInv

(* Take keeps the invariant: the request goes from the queue into the hands *)
(* of the thread.                                                           *)
LEMMA PoolTake ==
    ASSUME PoolInv, NEW w \in Workers, Take(w)
    PROVE  PoolInv'
    <1> DEFINE h == Head(queue)
               x == [idx |-> h, stage |-> "score", attempt |-> 0, error |-> "",
                     score |-> None, hint_attempt |-> 0]
    <1>1. /\ worker[w] = None /\ queue # <<>> /\ queue' = Tail(queue)
          /\ worker' = [worker EXCEPT ![w] = x]
          /\ UNCHANGED <<phase, future, done_count, collected, results>>
        BY DEF Take
    <1>2. /\ queue \in Seq(Requests) /\ Len(queue) \in Nat /\ Len(queue) >= 1
          /\ DOMAIN worker = Workers /\ DOMAIN queue = 1..Len(queue)
        <2>1. queue \in Seq(Requests) /\ DOMAIN worker = Workers
            BY DEF PoolInv, ShapeInv
        <2>2. Len(queue) # 0
            BY <1>1, <2>1, EmptySeq
        <2> QED
            BY <2>1, <2>2
    <1>3. /\ h = queue[1] /\ h \in Requests
          /\ queue' \in Seq(Requests) /\ Len(queue') = Len(queue) - 1 /\ DOMAIN queue' = 1..(Len(queue) - 1)
          /\ \A k \in 1..(Len(queue) - 1) : queue'[k] = queue[k + 1]
        <2>1. h = queue[1]
            OBVIOUS
        <2>2. /\ Tail(queue) \in Seq(Requests) /\ Len(Tail(queue)) = Len(queue) - 1
              /\ \A k \in 1..Len(Tail(queue)) : Tail(queue)[k] = queue[k + 1]
            BY <1>1, <1>2, HeadTailProperties
        <2>3. queue' = Tail(queue)
            BY <1>1
        <2>4. queue[1] \in Requests
            BY <1>2
        <2> HIDE DEF h, x
        <2> QED
            BY <1>2, <2>1, <2>2, <2>3, <2>4
    <1> HIDE DEF h
    <1>4. x \in Work /\ x # None /\ x.idx = h /\ x.stage = "score"
        <2>1. /\ 0 \in 0..(IF Retries > 0 THEN Retries ELSE 0) /\ 0 \in 0..HintRetries
            BY SizeAssumption
        <2>2. "" \in Errors \cup {""} /\ None \in Scores \cup {None} /\ "score" \in {"score", "hint"}
            BY Zenon
        <2>3. x \in Work
            BY <1>3, <2>1, <2>2 DEF Work
        <2> QED
            BY <2>3, NoneAssumption
    <1> HIDE DEF x
    <1>5. worker'[w] = x /\ DOMAIN worker' = Workers /\ \A v \in Workers \ {w} : worker'[v] = worker[v]
        BY <1>1, <1>2
    <1>6. ShapeInv'
        BY <1>1, <1>3, <1>4, <1>5 DEF PoolInv, ShapeInv
    <1>7. /\ \A j, k \in DOMAIN queue : queue[j] = queue[k] => j = k
          /\ \A u, v \in Workers :
                worker[u] # None /\ worker[v] # None /\ worker[u].idx = worker[v].idx => u = v
          /\ \A n \in Requests :
                ~(Waiting(n) /\ Held(n)) /\ ~(Waiting(n) /\ future[n] # None) /\ ~(Held(n) /\ future[n] # None)
          /\ \A n \in Requests : Waiting(n) \/ Held(n) \/ future[n] # None <=> n <= Total
        BY DEF PoolInv, PlaceInv
    <1>8. Waiting(h)
        <2>1. 1 \in DOMAIN queue
            BY <1>2
        <2> QED
            BY <1>3, <2>1 DEF Waiting
    <1>9. ASSUME NEW n \in Requests
          PROVE  /\ Waiting(n)' <=> Waiting(n) /\ n # h
                 /\ Held(n)' <=> Held(n) \/ n = h
        <2>1. ASSUME Waiting(n)' PROVE Waiting(n) /\ n # h
            <3>1. PICK k \in 1..(Len(queue) - 1) : queue'[k] = n
                BY <1>3, <2>1 DEF Waiting
            <3>2. k + 1 \in DOMAIN queue /\ queue[k + 1] = n /\ 1 \in DOMAIN queue /\ k + 1 # 1
                BY <1>2, <1>3, <3>1
            <3>3. queue[k + 1] # queue[1]
                BY <1>7, <3>2
            <3> QED
                BY <1>3, <3>2, <3>3 DEF Waiting
        <2>2. ASSUME Waiting(n), n # h PROVE Waiting(n)'
            <3>1. PICK k \in DOMAIN queue : queue[k] = n
                BY <2>2 DEF Waiting
            <3>2. k # 1
                BY <1>3, <2>2, <3>1
            <3>3. k - 1 \in DOMAIN queue' /\ queue'[k - 1] = n
                BY <1>2, <1>3, <3>1, <3>2
            <3> QED
                BY <3>3 DEF Waiting
        <2>3. Held(n)' <=> Held(n) \/ n = h
            BY <1>1, <1>4, <1>5 DEF Held
        <2> QED
            BY <2>1, <2>2, <2>3
    <1>10. Total' = Total
        <2>1. Finished' = Finished
            BY <1>1 DEF Finished
        <2>2. Busy' = Busy \cup {w} /\ w \notin Busy
            BY <1>1, <1>4, <1>5 DEF Busy
        <2>3. Cardinality(Busy') = Cardinality(Busy) + 1
            BY <2>2, PoolSizes, FS_AddElement
        <2>4. Total = Len(queue) + Cardinality(Busy) + Cardinality(Finished)
            BY DEF Total
        <2> QED
            BY <1>2, <1>3, <2>1, <2>3, <2>4, TotalNext, PoolSizes
    <1>11. PlaceInv'
        <2>1. ASSUME NEW j \in DOMAIN queue', NEW k \in DOMAIN queue', queue'[j] = queue'[k]
              PROVE  j = k
            <3>1. j + 1 \in DOMAIN queue /\ k + 1 \in DOMAIN queue /\ queue[j + 1] = queue[k + 1]
                BY <1>2, <1>3, <2>1
            <3>2. j + 1 = k + 1 /\ j \in Nat /\ k \in Nat
                BY <1>3, <1>7, <3>1
            <3> QED
                BY <3>2
        <2>2. ASSUME NEW u \in Workers, NEW v \in Workers,
                     worker'[u] # None, worker'[v] # None, worker'[u].idx = worker'[v].idx
              PROVE  u = v
            <3>1. ~Held(h)
                BY <1>3, <1>7, <1>8
            <3> QED
                BY <1>4, <1>5, <1>7, <2>2, <3>1 DEF Held
        <2>3. ASSUME NEW n \in Requests
              PROVE  /\ ~(Waiting(n)' /\ Held(n)') /\ ~(Waiting(n)' /\ future'[n] # None)
                     /\ ~(Held(n)' /\ future'[n] # None)
                     /\ Waiting(n)' \/ Held(n)' \/ future'[n] # None <=> n <= Total'
            BY <1>1, <1>7, <1>8, <1>9, <1>10
        <2>4. Total' \in Nat /\ (IF phase' = "submit" THEN Total' < Rows ELSE Total' = Rows)
            BY <1>1, <1>10 DEF PoolInv, PlaceInv
        <2> QED
            BY <2>1, <2>2, <2>3, <2>4 DEF PlaceInv
    <1>12. CollectInv'
        BY <1>1 DEF PoolInv, CollectInv
    <1>13. ScoreInv'
        BY <1>1, <1>4, <1>5 DEF PoolInv, ScoreInv, HintsForLow, GoodWork
    <1> QED
        BY <1>6, <1>11, <1>12, <1>13 DEF PoolInv

(* An attempt keeps the invariant: the request stays with the thread, or is *)
(* done.                                                                    *)
LEMMA PoolThread ==
    ASSUME PoolInv, NEW w \in Workers, ScoreAttempt(w) \/ HintAttempt(w)
    PROVE  PoolInv'
    <1> DEFINE n0 == worker[w].idx
    <1>1. worker[w] # None /\ UNCHANGED <<phase, queue, done_count, collected, results>>
        BY ThreadStep
    <1>2. worker[w] \in Work /\ n0 \in Requests /\ DOMAIN worker = Workers /\ DOMAIN future = Requests
        BY <1>1 DEF PoolInv, ShapeInv, Work
    <1>3. /\ \A j, k \in DOMAIN queue : queue[j] = queue[k] => j = k
          /\ \A u, v \in Workers :
                worker[u] # None /\ worker[v] # None /\ worker[u].idx = worker[v].idx => u = v
          /\ \A n \in Requests :
                ~(Waiting(n) /\ Held(n)) /\ ~(Waiting(n) /\ future[n] # None) /\ ~(Held(n) /\ future[n] # None)
          /\ \A n \in Requests : Waiting(n) \/ Held(n) \/ future[n] # None <=> n <= Total
        BY DEF PoolInv, PlaceInv
    <1>4. Held(n0)
        BY <1>1, <1>2 DEF Held
    <1>5. \A n \in Requests : Waiting(n)' <=> Waiting(n)
        BY <1>1 DEF Waiting
    <1>6. CASE \E r \in Results : GoodResult(r) /\ Finish(w, r)
        <2>1. PICK r \in Results : GoodResult(r) /\ Finish(w, r)
            BY <1>6
        <2>2. /\ future' = [future EXCEPT ![n0] = r] /\ worker' = [worker EXCEPT ![w] = None]
              /\ r # None
            BY <2>1, NoneAssumption DEF Finish
        <2> HIDE DEF n0
        <2>3. /\ worker'[w] = None /\ DOMAIN worker' = Workers /\ \A v \in Workers \ {w} : worker'[v] = worker[v]
              /\ future'[n0] = r /\ DOMAIN future' = Requests /\ \A n \in Requests \ {n0} : future'[n] = future[n]
            BY <1>2, <2>2
        <2>4. ASSUME NEW n \in Requests PROVE Held(n)' <=> Held(n) /\ n # n0
            <3>1. ASSUME Held(n)' PROVE Held(n) /\ n # n0
                BY <1>1, <1>3, <2>3, <3>1 DEF Held, n0
            <3>2. ASSUME Held(n), n # n0 PROVE Held(n)'
                BY <2>3, <3>2 DEF Held, n0
            <3> QED
                BY <3>1, <3>2
        <2>5. Total' = Total
            <3>1. Busy' = Busy \ {w} /\ w \in Busy
                BY <1>1, <2>3 DEF Busy
            <3>2. Cardinality(Busy') = Cardinality(Busy) - 1
                BY <3>1, PoolSizes, FS_RemoveElement
            <3>3. Finished' = Finished \cup {n0} /\ n0 \notin Finished
                BY <1>2, <1>3, <1>4, <2>2, <2>3 DEF Finished
            <3>4. Cardinality(Finished') = Cardinality(Finished) + 1
                BY <3>3, PoolSizes, FS_AddElement
            <3>5. Total = Len(queue) + Cardinality(Busy) + Cardinality(Finished)
                BY DEF Total
            <3>6. Len(queue) \in Nat
                BY DEF PoolInv, ShapeInv
            <3> QED
                BY <1>1, <3>2, <3>4, <3>5, <3>6, TotalNext, PoolSizes
        <2>6. ShapeInv'
            BY <1>1, <2>1, <2>3 DEF PoolInv, ShapeInv
        <2>7. PlaceInv'
            <3>1. \A j, k \in DOMAIN queue' : queue'[j] = queue'[k] => j = k
                BY <1>1, <1>3
            <3>2. \A u, v \in Workers :
                      worker'[u] # None /\ worker'[v] # None /\ worker'[u].idx = worker'[v].idx => u = v
                BY <1>3, <2>3
            <3>3. ASSUME NEW n \in Requests
                  PROVE  /\ ~(Waiting(n)' /\ Held(n)') /\ ~(Waiting(n)' /\ future'[n] # None)
                         /\ ~(Held(n)' /\ future'[n] # None)
                         /\ Waiting(n)' \/ Held(n)' \/ future'[n] # None <=> n <= Total'
                <4>1. CASE n = n0
                    BY <1>3, <1>4, <1>5, <2>2, <2>3, <2>4, <2>5, <4>1
                <4>2. CASE n # n0
                    BY <1>3, <1>5, <2>3, <2>4, <2>5, <4>2
                <4> QED
                    BY <4>1, <4>2
            <3>4. Total' \in Nat /\ (IF phase' = "submit" THEN Total' < Rows ELSE Total' = Rows)
                BY <1>1, <2>5 DEF PoolInv, PlaceInv
            <3> QED
                BY <3>1, <3>2, <3>3, <3>4 DEF PlaceInv
        <2>8. CollectInv'
            <3>1. future[n0] = None
                BY <1>2, <1>3, <1>4
            <3>2. n0 \notin collected
                BY <3>1 DEF PoolInv, CollectInv
            <3>3. \A i \in collected : i \in Requests /\ future'[i] = future[i]
                BY <2>3, <3>2 DEF PoolInv, CollectInv
            <3> QED
                BY <1>1, <3>3 DEF PoolInv, CollectInv
        <2>9. ScoreInv'
            BY <1>1, <2>1, <2>3 DEF PoolInv, ScoreInv, HintsForLow
        <2> QED
            BY <2>6, <2>7, <2>8, <2>9 DEF PoolInv
    <1>7. CASE \E x \in Work : /\ x.idx = worker[w].idx /\ GoodWork(x)
                               /\ worker' = [worker EXCEPT ![w] = x] /\ future' = future
        <2>1. PICK x \in Work : /\ x.idx = worker[w].idx /\ GoodWork(x)
                                /\ worker' = [worker EXCEPT ![w] = x] /\ future' = future
            BY <1>7
        <2>2. x # None
            BY NoneAssumption
        <2>3. worker'[w] = x /\ DOMAIN worker' = Workers /\ \A v \in Workers \ {w} : worker'[v] = worker[v]
            BY <1>2, <2>1
        <2>4. \A v \in Workers : (worker'[v] # None <=> worker[v] # None)
                                  /\ (worker[v] # None => worker'[v].idx = worker[v].idx)
            BY <1>1, <2>1, <2>2, <2>3
        <2>5. \A n \in Requests : Held(n)' <=> Held(n)
            BY <2>4 DEF Held
        <2>6. Total' = Total
            <3>1. Busy' = Busy /\ Finished' = Finished
                BY <2>1, <2>4 DEF Busy, Finished
            <3> QED
                BY <1>1, <3>1 DEF Total
        <2>7. ShapeInv'
            BY <1>1, <2>1, <2>3 DEF PoolInv, ShapeInv
        <2>8. PlaceInv'
            BY <1>1, <1>3, <1>5, <2>1, <2>4, <2>5, <2>6 DEF PoolInv, PlaceInv
        <2>9. CollectInv'
            BY <1>1, <2>1 DEF PoolInv, CollectInv
        <2>10. ScoreInv'
            BY <1>1, <2>1, <2>3 DEF PoolInv, ScoreInv, HintsForLow
        <2> QED
            BY <2>7, <2>8, <2>9, <2>10 DEF PoolInv
    <1> QED
        BY <1>6, <1>7, ThreadStep

(* Collect keeps the invariant: the result goes to its own row.             *)
LEMMA PoolCollect ==
    ASSUME PoolInv, NEW i \in Requests, Collect(i)
    PROVE  PoolInv'
    <1>1. /\ phase = "collect" /\ future[i] # None /\ i \notin collected
          /\ results' = [results EXCEPT ![i] = future[i]] /\ collected' = collected \cup {i}
          /\ done_count' = done_count + 1
          /\ phase' = IF done_count + 1 = Rows THEN "fill" ELSE "collect"
          /\ UNCHANGED <<queue, worker, future>>
        BY DEF Collect, Slot
    <1>2. ShapeInv'
        BY <1>1 DEF PoolInv, ShapeInv
    <1>3. PlaceInv'
        <2>1. phase' # "submit" /\ phase # "submit"
            BY <1>1
        <2>2. Total' = Total /\ \A n \in Requests : (Waiting(n)' <=> Waiting(n)) /\ (Held(n)' <=> Held(n))
            BY <1>1 DEF Total, Busy, Finished, Waiting, Held
        <2> QED
            BY <1>1, <2>1, <2>2 DEF PoolInv, PlaceInv
    <1>4. /\ collected \subseteq Requests /\ done_count = Cardinality(collected) /\ done_count < Rows
          /\ IsFiniteSet(collected) /\ done_count \in Nat
        BY <1>1, PoolSizes, FS_Subset, FS_CardinalityType DEF PoolInv, CollectInv
    <1>5. collected' \subseteq Requests /\ done_count' = Cardinality(collected')
        BY <1>1, <1>4, FS_AddElement
    <1>6. CollectInv'
        <2>1. \A n \in collected' : future'[n] # None
            BY <1>1 DEF PoolInv, CollectInv
        <2>2. phase' = "collect" => done_count' < Rows
            BY <1>1, <1>4, PoolSizes
        <2>3. phase' \in {"fill", "done"} => collected' = Requests
            <3>1. ASSUME done_count + 1 = Rows PROVE collected' = Requests
                BY <1>1, <1>5, <3>1, PoolSizes, FS_Subset
            <3> QED
                BY <1>1, <3>1
        <2>4. \A n \in Requests : results'[n] = IF n \in collected' THEN future'[n] ELSE None
            BY <1>1 DEF PoolInv, CollectInv, ShapeInv
        <2> QED
            BY <1>1, <1>5, <2>1, <2>2, <2>3, <2>4 DEF CollectInv
    <1>7. ScoreInv'
        BY <1>1 DEF PoolInv, ScoreInv, HintsForLow
    <1> QED
        BY <1>2, <1>3, <1>6, <1>7 DEF PoolInv

(* What the trainer's filling makes of a good result.                       *)
LEMMA FilledFacts ==
    ASSUME NEW r \in Results, GoodResult(r)
    PROVE  LET f == Filled(r) IN
           /\ f \in Results
           /\ f.source # "" <=> f.score # None /\ (f.score < HintBelow \/ f.score < MinScore)
           /\ Retries >= 0 => (f.score = None <=> f.error # "")
           /\ f.source = "trainer_local_fallback" => f.score >= HintBelow
    <1>1. /\ r.score \in Scores \cup {None} /\ r.source \in Sources /\ r.error \in Errors \cup {""}
        BY DEF Results
    <1>2. r.score # None => r.score \in Nat /\ HintBelow \in Nat /\ MinScore \in Nat
        BY <1>1, ScoreAssumption
    <1>3. /\ r.source # "" <=> r.score # None /\ r.score < HintBelow
          /\ Retries >= 0 => (r.score = None <=> r.error # "")
          /\ r.source # "trainer_local_fallback"
        BY DEF GoodResult
    <1>4. CASE r.score # None /\ r.score < MinScore /\ r.source = ""
        <2>1. Filled(r) = [r EXCEPT !.source = "trainer_local_fallback"]
            BY <1>4 DEF Filled
        <2>2. /\ Filled(r) \in Results /\ Filled(r).source = "trainer_local_fallback"
              /\ Filled(r).score = r.score /\ Filled(r).error = r.error
            BY <2>1 DEF Results, Sources
        <2>3. r.score \in Nat /\ HintBelow \in Nat /\ MinScore \in Nat /\ ~(r.score < HintBelow)
            BY <1>2, <1>3, <1>4
        <2>4. r.score >= HintBelow
            BY <2>3
        <2> QED
            BY <1>3, <1>4, <2>2, <2>4
    <1>5. CASE ~(r.score # None /\ r.score < MinScore /\ r.source = "")
        <2>1. Filled(r) = r
            BY <1>5 DEF Filled
        <2> QED
            BY <1>2, <1>3, <1>5, <2>1
    <1> QED
        BY <1>4, <1>5

(* FillSuggestions keeps the invariant.                                     *)
LEMMA PoolFill ==
    ASSUME PoolInv, FillSuggestions
    PROVE  PoolInv'
    <1>1. /\ phase = "fill" /\ phase' = "done"
          /\ results' = [n \in Requests |-> Filled(results[n])]
          /\ UNCHANGED <<queue, worker, future, done_count, collected>>
        BY DEF FillSuggestions
    <1>2. ASSUME NEW n \in Requests
          PROVE  results[n] \in Results /\ GoodResult(results[n])
        <2>1. results[n] = future[n] /\ future[n] # None
            BY <1>1 DEF PoolInv, CollectInv
        <2> QED
            BY <2>1 DEF PoolInv, ShapeInv, ScoreInv
    <1>3. ASSUME NEW n \in Requests
          PROVE  /\ results'[n] \in Results /\ results'[n] # None
                 /\ results'[n].source # "" <=> results'[n].score # None
                       /\ (results'[n].score < HintBelow \/ results'[n].score < MinScore)
                 /\ Retries >= 0 => (results'[n].score = None <=> results'[n].error # "")
                 /\ results'[n].source = "trainer_local_fallback" => results'[n].score >= HintBelow
        <2>1. results'[n] = Filled(results[n])
            BY <1>1
        <2> QED
            BY <1>2, <2>1, FilledFacts, NoneAssumption
    <1>4. ShapeInv'
        BY <1>1, <1>3 DEF PoolInv, ShapeInv
    <1>5. PlaceInv'
        <2>1. phase' # "submit" /\ phase # "submit"
            BY <1>1
        <2>2. Total' = Total /\ \A n \in Requests : (Waiting(n)' <=> Waiting(n)) /\ (Held(n)' <=> Held(n))
            BY <1>1 DEF Total, Busy, Finished, Waiting, Held
        <2> QED
            BY <1>1, <2>1, <2>2 DEF PoolInv, PlaceInv
    <1>6. CollectInv'
        BY <1>1, <1>3 DEF PoolInv, CollectInv
    <1>7. ScoreInv'
        BY <1>1, <1>3 DEF PoolInv, ScoreInv, HintsForLow
    <1> QED
        BY <1>4, <1>5, <1>6, <1>7 DEF PoolInv

(* The invariant holds at the start.                                        *)
LEMMA PoolInit == Init => PoolInv
    <1> SUFFICES ASSUME Init PROVE PoolInv
        OBVIOUS
    <1>1. /\ phase = "submit" /\ queue = <<>> /\ done_count = 0 /\ collected = {}
          /\ worker = [w \in Workers |-> None]
          /\ future = [i \in Requests |-> None] /\ results = [i \in Requests |-> None]
        BY DEF Init
    <1>2. Busy = {} /\ Finished = {} /\ Len(queue) = 0 /\ DOMAIN queue = {}
        BY <1>1 DEF Busy, Finished
    <1>3. Cardinality({}) = 0
        BY FS_EmptySet
    <1>4. Total = 0
        BY <1>2, <1>3 DEF Total
    <1>5. ShapeInv
        BY <1>1 DEF ShapeInv
    <1>6. PlaceInv
        <2>1. \A n \in Requests : ~Waiting(n) /\ ~Held(n) /\ future[n] = None
            BY <1>1, <1>2 DEF Waiting, Held
        <2>2. \A n \in Requests : ~(n <= 0)
            BY PoolSizes
        <2> QED
            BY <1>1, <1>2, <1>4, <2>1, <2>2, PoolSizes DEF PlaceInv
    <1>7. CollectInv
        BY <1>1, <1>3 DEF CollectInv
    <1>8. ScoreInv
        BY <1>1 DEF ScoreInv, HintsForLow
    <1> QED
        BY <1>5, <1>6, <1>7, <1>8 DEF PoolInv

(* Every step keeps the invariant.                                          *)
LEMMA PoolStep == PoolInv /\ [Next]_vars => PoolInv'
    <1> SUFFICES ASSUME PoolInv, [Next]_vars PROVE PoolInv'
        OBVIOUS
    <1>1. CASE UNCHANGED vars
        <2>1. UNCHANGED <<phase, queue, worker, future, done_count, collected, results>>
            BY <1>1 DEF vars
        <2>2. Total' = Total /\ \A n \in Requests : (Waiting(n)' <=> Waiting(n)) /\ (Held(n)' <=> Held(n))
            BY <2>1 DEF Total, Busy, Finished, Waiting, Held
        <2> QED
            BY <2>1, <2>2 DEF PoolInv, ShapeInv, PlaceInv, CollectInv, ScoreInv, HintsForLow
    <1> QED
        BY <1>1, PoolSubmit, PoolTake, PoolThread, PoolCollect, PoolFill DEF Next, Terminated

(* The invariant counts each request once, as TypeOK does.                  *)
LEMMA TypeFollows == PoolInv => TypeOK
    <1> SUFFICES ASSUME PoolInv PROVE TypeOK
        OBVIOUS
    <1>1. ASSUME NEW i \in Requests, phase # "submit"
          PROVE  Cardinality({k \in DOMAIN queue : queue[k] = i})
                   + Cardinality({w \in Workers : worker[w] # None /\ worker[w].idx = i})
                   + (IF future[i] # None THEN 1 ELSE 0) = 1
        <2> DEFINE Q == {k \in DOMAIN queue : queue[k] = i}
                   W == {w \in Workers : worker[w] # None /\ worker[w].idx = i}
        <2>1. Cardinality(Q) = IF Waiting(i) THEN 1 ELSE 0
            <3>1. CASE Waiting(i)
                <4>1. PICK k \in DOMAIN queue : queue[k] = i
                    BY <3>1 DEF Waiting
                <4>2. Q = {k}
                    BY <4>1 DEF PoolInv, PlaceInv
                <4> QED
                    BY <3>1, <4>2, FS_Singleton
            <3>2. CASE ~Waiting(i)
                <4>1. Q = {}
                    BY <3>2 DEF Waiting
                <4> QED
                    BY <3>2, <4>1, FS_EmptySet
            <3> QED
                BY <3>1, <3>2
        <2>2. Cardinality(W) = IF Held(i) THEN 1 ELSE 0
            <3>1. CASE Held(i)
                <4>1. PICK w \in Workers : worker[w] # None /\ worker[w].idx = i
                    BY <3>1 DEF Held
                <4>2. W = {w}
                    BY <4>1 DEF PoolInv, PlaceInv
                <4> QED
                    BY <3>1, <4>2, FS_Singleton
            <3>2. CASE ~Held(i)
                <4>1. W = {}
                    BY <3>2 DEF Held
                <4> QED
                    BY <3>2, <4>1, FS_EmptySet
            <3> QED
                BY <3>1, <3>2
        <2>3. /\ ~(Waiting(i) /\ Held(i)) /\ ~(Waiting(i) /\ future[i] # None) /\ ~(Held(i) /\ future[i] # None)
              /\ Waiting(i) \/ Held(i) \/ future[i] # None
            <3>1. i <= Total
                BY <1>1, PoolSizes DEF PoolInv, PlaceInv
            <3> QED
                BY <3>1 DEF PoolInv, PlaceInv
        <2> HIDE DEF Q, W
        <2>4. Cardinality(Q) + Cardinality(W) + (IF future[i] # None THEN 1 ELSE 0) = 1
            BY <2>1, <2>2, <2>3
        <2> QED
            BY <2>4 DEF Q, W
    <1>2. ASSUME NEW i \in Requests
          PROVE  /\ future[i] = None \/ future[i] \in Results
                 /\ results[i] = None \/ results[i] \in Results
        BY DEF PoolInv, ShapeInv
    <1> QED
        BY <1>1, <1>2 DEF TypeOK, PoolInv, ShapeInv, CollectInv

(* The invariant says what OwnResult says.                                  *)
LEMMA OwnFollows == PoolInv => OwnResult
    <1> SUFFICES ASSUME PoolInv PROVE OwnResult
        OBVIOUS
    <1>1. phase \in {"submit", "collect", "fill"} =>
              \A i \in Requests : results[i] = IF i \in collected THEN future[i] ELSE None
        BY DEF PoolInv, CollectInv
    <1>2. phase = "fill" => \A i \in Requests : results[i] # None
        BY DEF PoolInv, CollectInv
    <1> QED
        BY <1>1, <1>2 DEF PoolInv, CollectInv, OwnResult

(* Type correctness, with where a request is: waiting, in the hands of one  *)
(* thread, or done (score_batch).                                           *)
THEOREM TypeIsOK == Spec => []TypeOK
    BY PoolInit, PoolStep, TypeFollows, PTL DEF Spec

(* In whatever order the threads finish, a row gets the result of its own   *)
(* request, and none is missing (score_batch).                              *)
THEOREM ResultsAreOwn == Spec => []OwnResult
    BY PoolInit, PoolStep, OwnFollows, PTL DEF Spec

(* Every low row that has a score ends up with a suggestion, by whichever of *)
(* the two thresholds it is low, and no other row has one (_score_one,      *)
(* _ensure_low_score_revision_suggestions).                                 *)
THEOREM HintsHold == Spec => []HintsForLow
    <1>1. PoolInv => HintsForLow
        BY DEF PoolInv, ScoreInv
    <1> QED
        BY <1>1, PoolInit, PoolStep, PTL DEF Spec
=============================================================================

----------------------------- MODULE ScorerPool -----------------------------
(***************************************************************************)
(* Scoring the rollouts of a step with GPT                                 *)
(* (verl/verl/trainer/ppo/gpt_rollout_scorer.py): a thread pool sends one   *)
(* request per row, repeats what fails, asks separately for the revision   *)
(* suggestion of a low answer that came without one, and the results are   *)
(* put back in the order of the rows; then the trainer                     *)
(* (_maybe_score_gpt_rollouts, ray_trainer.py) fills in the suggestions its *)
(* own threshold makes necessary.  RubricStep starts from the scores.      *)
(***************************************************************************)
EXTENDS Integers, Sequences, FiniteSets

CONSTANTS
    Rows,               \* requests of a batch
    MaxWorkers,         \* max_workers
    Retries,            \* retries; not clamped, -1 means no attempt at all
    HintRetries,        \* hint_retries, clamped to 0 by the code
    Scores,             \* rubric scores GPT may give
    HintBelow,          \* 50, the score below which the scorer wants a suggestion
    MinScore,           \* min_score_100, below which the trainer does
    None

ASSUME SizeAssumption ==
    /\ Rows \in Nat \ {0} /\ MaxWorkers \in Nat \ {0}
    /\ Retries \in Nat \cup {-1} /\ HintRetries \in Nat
ASSUME ScoreAssumption == Scores \subseteq Nat /\ HintBelow \in Nat /\ MinScore \in Nat

VARIABLES
    phase,              \* of the caller: "submit", "collect", "fill" or "done"
    queue,              \* the pool's work queue
    worker,             \* the request each thread of the pool is at, None if idle
    future,             \* the results of the requests, None before they are done
    done_count,         \* futures as_completed has yielded
    collected,          \* which ones; as_completed's own record
    results             \* the list that is returned

vars == <<phase, queue, worker, future, done_count, collected, results>>

Requests == 1..Rows
Workers == 1..(IF MaxWorkers < Rows THEN MaxWorkers ELSE Rows)

Errors == {"timeout", "other"}

Result(score, source, error) == [score |-> score, source |-> source, error |-> error]
Failed(error) == Result(None, "", error)

Init ==
    /\ phase = "submit"
    /\ queue = <<>>
    /\ worker = [w \in Workers |-> None]
    /\ future = [i \in Requests |-> None]
    /\ done_count = 0
    /\ collected = {}
    /\ results = [i \in Requests |-> None]
-----------------------------------------------------------------------------
(* The threads of the pool.                                                 *)

(* executor.submit, request after request, while the threads are at work.   *)
Submit ==
    /\ phase = "submit"
    /\ LET i == Len(queue) + Cardinality({w \in Workers : worker[w] # None})
                 + Cardinality({k \in Requests : future[k] # None}) + 1
       IN  /\ queue' = Append(queue, i)
           /\ phase' = IF i = Rows THEN "collect" ELSE "submit"
    /\ UNCHANGED <<worker, future, done_count, collected, results>>

(* A thread takes the oldest request.  attempt counts the failed ones.      *)
Take(w) ==
    /\ worker[w] = None
    /\ queue # <<>>
    /\ queue' = Tail(queue)
    /\ worker' = [worker EXCEPT ![w] =
           [idx |-> Head(queue), stage |-> "score", attempt |-> 0, error |-> "",
            score |-> None, hint_attempt |-> 0]]
    /\ UNCHANGED <<phase, future, done_count, collected, results>>

(* The thread has a result and is free.                                     *)
Finish(w, result) ==
    /\ future' = [future EXCEPT ![worker[w].idx] = result]
    /\ worker' = [worker EXCEPT ![w] = None]

(* A slip: one attempt too many.                                            *)
MayRetryAgain(w) == worker[w].attempt =< Retries
MayRetry(w) == worker[w].attempt < Retries

(* The attempt at a score failed: try again, or give up.                    *)
FailAttempt(w, error) ==
    IF MayRetry(w)
    THEN /\ worker' = [worker EXCEPT ![w].stage = "score", ![w].attempt = @ + 1,
                                     ![w].error = error, ![w].score = None,
                                     ![w].hint_attempt = 0]
         /\ UNCHANGED future
    ELSE Finish(w, Failed(error))

WantsHint(score) == score < HintBelow

(* _score_one: GPT answers with a score and perhaps a suggestion.  That of   *)
(* a good answer is dropped, that of a low one asked for separately.       *)
Scored(w) ==
    \E score \in Scores, suggested \in BOOLEAN :
        IF ~WantsHint(score) THEN Finish(w, Result(score, "", ""))
        ELSE IF suggested THEN Finish(w, Result(score, "gpt", ""))
        ELSE /\ worker' = [worker EXCEPT ![w].stage = "hint", ![w].score = score]
             /\ UNCHANGED future

(* The call fails: refused, cut off by the timeout, or not to be parsed.     *)
(* Reading the body of an HTTP error may fail too, which leaves the loop     *)
(* and becomes the future's exception.                                     *)
ScoreFails(w) ==
    \E error \in Errors :
        \/ FailAttempt(w, error)
        \/ Finish(w, Failed(error))

ScoreAttempt(w) ==
    /\ worker[w] # None /\ worker[w].stage = "score"
    /\ IF worker[w].attempt > Retries
       THEN Finish(w, Failed(worker[w].error))      \* no attempt was configured
       ELSE Scored(w) \/ ScoreFails(w)
    /\ UNCHANGED <<phase, queue, done_count, collected, results>>

LocalFallback(w) == Finish(w, Result(worker[w].score, "local_fallback", ""))

(* _suggest_revision_one: a suggestion, a failure (or an empty suggestion)   *)
(* that is tried again, or a failure that leaves its loop.  The last is      *)
(* caught by the loop around the score, which throws the score away.       *)
HintAttempt(w) ==
    /\ worker[w] # None /\ worker[w].stage = "hint"
    /\ \/ Finish(w, Result(worker[w].score, "gpt_hint_retry", ""))
       \/ IF worker[w].hint_attempt < HintRetries
          THEN /\ worker' = [worker EXCEPT ![w].hint_attempt = @ + 1]
               /\ UNCHANGED future
          ELSE LocalFallback(w)
       \/ \E error \in Errors : FailAttempt(w, error)
    /\ UNCHANGED <<phase, queue, done_count, collected, results>>
-----------------------------------------------------------------------------
(* The caller.                                                             *)

(* A slip: the results are put down in the order they come.                 *)
SlotByArrival(i) == done_count + 1
Slot(i) == i

(* as_completed yields the futures as they come; future_to_idx knows which   *)
(* row each belongs to.                                                    *)
Collect(i) ==
    /\ phase = "collect"
    /\ future[i] # None
    /\ i \notin collected
    /\ results' = [results EXCEPT ![Slot(i)] = future[i]]
    /\ collected' = collected \cup {i}
    /\ done_count' = done_count + 1
    /\ phase' = IF done_count + 1 = Rows THEN "fill" ELSE "collect"
    /\ UNCHANGED <<queue, worker, future>>

(* A slip: the trainer fills by the scorer's threshold.                     *)
FilledBelowFifty(result) ==
    IF result.score # None /\ result.score < HintBelow /\ result.source = ""
    THEN [result EXCEPT !.source = "trainer_local_fallback"]
    ELSE result

(* A row that is low for the trainer and has no suggestion gets one.        *)
Filled(result) ==
    IF result.score # None /\ result.score < MinScore /\ result.source = ""
    THEN [result EXCEPT !.source = "trainer_local_fallback"]
    ELSE result

(* _ensure_low_score_revision_suggestions.                                  *)
FillSuggestions ==
    /\ phase = "fill"
    /\ phase' = "done"
    /\ results' = [i \in Requests |-> Filled(results[i])]
    /\ UNCHANGED <<queue, worker, future, done_count, collected>>

Terminated == phase = "done" /\ UNCHANGED vars

Next ==
    \/ Submit
    \/ \E w \in Workers : Take(w) \/ ScoreAttempt(w) \/ HintAttempt(w)
    \/ \E i \in Requests : Collect(i)
    \/ FillSuggestions
    \/ Terminated

Spec == Init /\ [][Next]_vars
-----------------------------------------------------------------------------
Sources == {"", "gpt", "gpt_hint_retry", "local_fallback", "trainer_local_fallback"}
Results ==
    [score : Scores \cup {None}, source : Sources, error : Errors \cup {""}]
Work ==
    [idx : Requests, stage : {"score", "hint"}, attempt : 0..(IF Retries > 0 THEN Retries ELSE 0),
     error : Errors \cup {""}, score : Scores \cup {None}, hint_attempt : 0..HintRetries]

ASSUME NoneAssumption == None \notin Scores /\ None \notin Results /\ None \notin Work

InHand == {worker[w].idx : w \in {v \in Workers : worker[v] # None}}

(* Type invariant, with where a request is: waiting, in the hands of one     *)
(* thread, or done, and in one place only.                                 *)
TypeOK ==
    /\ phase \in {"submit", "collect", "fill", "done"}
    /\ queue \in Seq(Requests)
    /\ \A w \in Workers : worker[w] = None \/ worker[w] \in Work
    /\ \A i \in Requests :
        /\ future[i] = None \/ future[i] \in Results
        /\ results[i] = None \/ results[i] \in Results
        /\ phase # "submit" =>
              Cardinality({k \in DOMAIN queue : queue[k] = i})
                + Cardinality({w \in Workers : worker[w] # None /\ worker[w].idx = i})
                + (IF future[i] # None THEN 1 ELSE 0) = 1
    /\ done_count = Cardinality(collected) /\ collected \subseteq Requests

(* In whatever order the threads finish, a row gets the result of its own    *)
(* request and of no other; and what is returned lacks no row.             *)
OwnResult ==
    /\ \A i \in Requests : phase \in {"submit", "collect", "fill"} =>
          results[i] = IF i \in collected THEN future[i] ELSE None
    /\ phase \in {"fill", "done"} => \A i \in Requests : results[i] # None

(* After scoring every low row that has a score has a suggestion to be       *)
(* generated again with, although the scorer and the trainer decide by two  *)
(* thresholds; one that was not low for either has none, nor has a row      *)
(* without a score; and a row has a score or else an error to be judged by, *)
(* never both.                                                             *)
HintsForLow ==
    phase = "done" => \A i \in Requests :
        LET r == results[i] IN
        /\ r.source # "" <=>
              r.score # None /\ (r.score < HintBelow \/ r.score < MinScore)
        /\ Retries >= 0 => (r.score = None <=> r.error # "")
        /\ r.source = "trainer_local_fallback" => r.score >= HintBelow
=============================================================================

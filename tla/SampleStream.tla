---------------------------- MODULE SampleStream ----------------------------
(***************************************************************************)
(* What fully asynchronous training promises about its samples, with no    *)
(* queue, lock or coroutine in sight: every sample is started at most once, *)
(* used for training at most once or lost, at most Budget + 1 are under way *)
(* at a time, and a new version of the weights is published only after     *)
(* PerVersion more samples were used - except for the last one.            *)
(***************************************************************************)
EXTENDS Integers, FiniteSets

CONSTANTS Samples, Budget, PerVersion

VARIABLES fresh,    \* not yet handed to generation
          open,     \* being generated, or waiting for the trainer
          used,     \* in a training batch, or trained on
          closed,   \* the stream has ended
          version    \* versions of the weights produced

streamVars == <<fresh, open, used, closed, version>>

Init ==
    /\ fresh = Samples
    /\ open = {} /\ used = {}
    /\ closed = FALSE
    /\ version = 0

Start(s) ==
    /\ s \in fresh
    /\ Cardinality(open) <= Budget
    /\ fresh' = fresh \ {s} /\ open' = open \cup {s}
    /\ UNCHANGED <<used, closed, version>>

Use(s) ==
    /\ s \in open /\ ~closed
    /\ open' = open \ {s} /\ used' = used \cup {s}
    /\ UNCHANGED <<fresh, closed, version>>

Lose(s) ==
    /\ s \in open
    /\ open' = open \ {s}
    /\ UNCHANGED <<fresh, used, closed, version>>

Close ==
    /\ ~closed /\ closed' = TRUE
    /\ UNCHANGED <<fresh, open, used, version>>

(* A version is due whenever PerVersion more samples have been used.        *)
Publish ==
    /\ ~closed /\ Cardinality(used) = (version + 1) * PerVersion
    /\ version' = version + 1
    /\ UNCHANGED <<fresh, open, used, closed>>

(* After the end one more is published, and an incomplete batch given up.   *)
PublishLast ==
    /\ closed
    /\ version' = version + 1
    /\ used' \in SUBSET used
    /\ UNCHANGED <<fresh, open, closed>>

Next ==
    \/ \E s \in Samples : Start(s) \/ Use(s) \/ Lose(s)
    \/ Close \/ Publish \/ PublishLast

Spec == Init /\ [][Next]_streamVars
=============================================================================

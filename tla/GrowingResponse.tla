--------------------------- MODULE GrowingResponse ---------------------------
(***************************************************************************)
(* What partial rollout promises about responses, with no server, request  *)
(* or pause: the response of a row only ever grows, at its end, by tokens  *)
(* of the weights in force, until it is complete; a sample is handed on    *)
(* when all its rows are.  Synchronizations of the weights and the         *)
(* interruptions they cause are invisible in it.                           *)
(***************************************************************************)
EXTENDS Naturals, Sequences

CONSTANTS
    Samples, Rows,      \* a row is a pair of a sample and a number
    ResponseLength      \* longer responses are cut off

VARIABLES
    text,               \* the versions of the weights behind each token of a row
    complete,           \* rows whose generation has ended by itself
    delivered,          \* samples handed on
    version             \* of the weights

growVars == <<text, complete, delivered, version>>

GrowInit ==
    /\ text = [r \in Rows |-> <<>>]
    /\ complete = {}
    /\ delivered = {}
    /\ version = 0

(* A token more, kept or beyond the length; it may be the last.             *)
Grow(r) ==
    /\ r \notin complete
    /\ text' = IF Len(text[r]) < ResponseLength
               THEN [text EXCEPT ![r] = Append(@, version)]
               ELSE text
    /\ complete' \in {complete, complete \cup {r}}
    /\ UNCHANGED <<delivered, version>>

NewWeights ==
    /\ version' = version + 1
    /\ UNCHANGED <<text, complete, delivered>>

Deliver(s) ==
    /\ s \notin delivered
    /\ \A r \in Rows : r[1] = s => r \in complete
    /\ delivered' = delivered \cup {s}
    /\ UNCHANGED <<text, complete, version>>

GrowNext ==
    \/ \E r \in Rows : Grow(r)
    \/ NewWeights
    \/ \E s \in Samples : Deliver(s)

GrowSpec == GrowInit /\ [][GrowNext]_growVars
=============================================================================

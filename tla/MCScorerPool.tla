---------------------------- MODULE MCScorerPool ----------------------------
(* An instance of ScorerPool for TLC.                                       *)
EXTENDS ScorerPool
=============================================================================

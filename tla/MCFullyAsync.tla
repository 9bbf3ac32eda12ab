---------------------------- MODULE MCFullyAsync ----------------------------
(***************************************************************************)
(* Finite instances of FullyAsync: one trainer, the samples 1..Total and   *)
(* the finish signal.                                                      *)
(***************************************************************************)
EXTENDS FullyAsync

MCConsumers == {"trainer"}
MCItem == Sample \cup {Sentinel}
=============================================================================

---------------------------- MODULE MCOneStepOff ----------------------------
(* An instance of OneStepOff for TLC.                                         *)
EXTENDS OneStepOff
=============================================================================

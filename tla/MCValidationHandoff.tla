------------------------ MODULE MCValidationHandoff ------------------------
(* An instance of ValidationHandoff for TLC.                                  *)
EXTENDS ValidationHandoff
=============================================================================

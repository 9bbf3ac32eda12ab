--------------------------- MODULE MCPartialServer ---------------------------
(* An instance of PartialServer for TLC, up to renaming of the servers.     *)
EXTENDS PartialServer, TLC
=============================================================================

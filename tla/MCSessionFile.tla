--------------------------- MODULE MCSessionFile ---------------------------
(***************************************************************************)
(* Small sessions for TLC.                                                 *)
(***************************************************************************)
EXTENDS SessionFile

=============================================================================

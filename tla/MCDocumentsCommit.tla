------------------------- MODULE MCDocumentsCommit -------------------------
(***************************************************************************)
(* Small bundles for TLC: each configuration chooses how many documents,   *)
(* edits, calls, faults and crashes there are.                             *)
(***************************************************************************)
EXTENDS DocumentsCommit

=============================================================================

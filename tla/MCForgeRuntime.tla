--------------------------- MODULE MCForgeRuntime ---------------------------
(***************************************************************************)
(* Small sessions of the extension for TLC.  Each configuration says what  *)
(* the user may do and how many rounds and attempts there are.             *)
(***************************************************************************)
EXTENDS ForgeRuntime

CONSTANTS d1, d2

MCDecisionIds == {d1, d2}
MCAnswers     == {"agree", "continue_one", "converge", "cancel", "other"}

=============================================================================

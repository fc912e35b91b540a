-------------------------- MODULE MCSessionMachine --------------------------
(***************************************************************************)
(* Small sessions for TLC.                                                 *)
(***************************************************************************)
EXTENDS SessionMachine

CONSTANTS d1, d2, e1   \* model values

MCAnswers == {"agree", "continue_one", "converge", "other"}

=============================================================================

---------------------------- MODULE MCAgentHost ----------------------------
(***************************************************************************)
(* Small hosts for TLC.                                                    *)
(***************************************************************************)
EXTENDS AgentHost

=============================================================================

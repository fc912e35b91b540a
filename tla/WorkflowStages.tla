--------------------------- MODULE WorkflowStages ---------------------------
(***************************************************************************)
(* The workflow stages of Forge Runtime and the transitions between them   *)
(* that forge-runtime/src/workflow allows.  The module has no state of its *)
(* own: a session owns one orchestrator, whose stage it moves with CanMove *)
(* as the guard (state-machine.ts throws when the guard is false, and      *)
(* leaves the stage alone).                                                *)
(***************************************************************************)

\* The next stages of a stage, LEGAL_TRANSITIONS in the source.
LegalTransitions ==
  [ RECEIVE                  |-> {"INTENT_UNDERSTANDING"},
    INTENT_UNDERSTANDING     |-> {"LIGHT_DISCOVERY"},
    LIGHT_DISCOVERY          |-> {"GRILL"},
    GRILL                    |-> {"WAIT_USER", "DEEP_KNOWLEDGE_RETRIEVAL"},
    WAIT_USER                |-> {"USER_CONFIRMED"},
    USER_CONFIRMED           |-> {"GRILL", "LIGHT_DISCOVERY", "DEEP_KNOWLEDGE_RETRIEVAL",
                                  "KNOWLEDGE_UNDERSTANDING", "CONTEXT_BUILD", "ADR_BUILD"},
    DEEP_KNOWLEDGE_RETRIEVAL |-> {"KNOWLEDGE_UNDERSTANDING", "LIGHT_DISCOVERY", "WAIT_USER"},
    KNOWLEDGE_UNDERSTANDING  |-> {"CONTEXT_BUILD", "LIGHT_DISCOVERY", "WAIT_USER"},
    CONTEXT_BUILD            |-> {"ADR_BUILD", "WAIT_USER"},
    ADR_BUILD                |-> {"TO_SPEC", "WAIT_USER"},
    TO_SPEC                  |-> {"TO_TICKET"},
    TO_TICKET                |-> {"PLANNING"},
    PLANNING                 |-> {"IMPLEMENT_GATE"},
    IMPLEMENT_GATE           |-> {"TDD", "JUDGE"},
    TDD                      |-> {"FAN_OUT_EXECUTION"},
    FAN_OUT_EXECUTION        |-> {"VALIDATION"},
    VALIDATION               |-> {"REVIEW", "ROOT_CAUSE"},
    REVIEW                   |-> {"JUDGE", "ROOT_CAUSE"},
    JUDGE                    |-> {"COMPLETE", "ROOT_CAUSE"},
    COMPLETE                 |-> {},
    ROOT_CAUSE               |-> {"REPAIR_ORCHESTRATOR"},
    REPAIR_ORCHESTRATOR      |-> {"GRILL", "DEEP_KNOWLEDGE_RETRIEVAL", "CONTEXT_BUILD", "ADR_BUILD",
                                  "TO_SPEC", "TO_TICKET", "IMPLEMENT_GATE", "TDD"} ]

Stages == DOMAIN LegalTransitions

\* Mutant: a stage may follow itself.
CanMoveOrStay(from, to) == to = from \/ to \in LegalTransitions[from]

\* transitionTo(to) succeeds from the stage "from".
CanMove(from, to) == to \in LegalTransitions[from]

\* The two stages a Deep attempt works in.
DeepPhases == {"DEEP_KNOWLEDGE_RETRIEVAL", "KNOWLEDGE_UNDERSTANDING"}

\* Where a repair resumes the workflow, by the root cause of the failure.
RepairTargets ==
  [ requirement |-> "GRILL",
    knowledge   |-> "DEEP_KNOWLEDGE_RETRIEVAL",
    context     |-> "CONTEXT_BUILD",
    adr         |-> "ADR_BUILD",
    spec        |-> "TO_SPEC",
    ticket      |-> "TO_TICKET",
    code        |-> "IMPLEMENT_GATE",
    tool        |-> "IMPLEMENT_GATE",
    environment |-> "IMPLEMENT_GATE",
    test        |-> "TDD" ]

=============================================================================

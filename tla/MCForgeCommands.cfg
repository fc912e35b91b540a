\* RPC: panels stay open while the user types, every command, two requests at a time.
SPECIFICATION Spec
CONSTANTS
  d1 = d1
  d2 = d2
  DecisionIds <- MCDecisionIds
  Answers <- MCAnswers
  EvidenceIds = {}
  SearchLimit = 1
  AnswerLimit = 2
  Commands = {"continue", "retry", "cancel", "confirm", "reject", "prompt"}
  ModalPanels = FALSE
  Relevances = {TRUE, FALSE}
  AssetsMissing = {FALSE, TRUE}
  MaxRound = 2
  MaxDeep = 1
  MaxContext = 0
  MaxAdr = 0
  MaxDiscoveries = 1
  MaxInbox = 2
  MaxIntents = 2
CHECK_DEADLOCK FALSE
INVARIANTS
  TypeOK
  WorkflowOfTheSnapshot
PROPERTIES
  RunningWorkflowIsNotReplaced

\* A terminal: Grill on three rounds, Deep Knowledge and the builds, with continue and cancel.
SPECIFICATION Spec
CONSTANTS
  d1 = d1
  d2 = d2
  DecisionIds <- MCDecisionIds
  Answers <- MCAnswers
  EvidenceIds = {}
  SearchLimit = 1
  AnswerLimit = 1
  Commands = {"continue", "cancel"}
  ModalPanels = TRUE
  Relevances = {TRUE}
  AssetsMissing = {FALSE, TRUE}
  MaxRound = 3
  MaxDeep = 2
  MaxContext = 2
  MaxAdr = 2
  MaxDiscoveries = 2
  MaxInbox = 2
  MaxIntents = 1
CHECK_DEADLOCK FALSE
INVARIANTS
  
  ClosedGateWillOpen
  PanelShowsPendingQuestion
PROPERTIES
  NothingStaleIsSent
  

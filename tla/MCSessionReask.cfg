\* A build asks under a decision id that was answered.
SPECIFICATION Spec
CONSTANTS
  d1 = d1
  d2 = d2
  e1 = e1
  DecisionIds = {d1}
  EvidenceIds = {}
  Answers <- MCAnswers
  SearchLimit = 1
  AnswerLimit = 2
  MaxRound = 1
  MaxDeep = 1
  MaxContext = 2
  MaxAdr = 2
  MaxDiscoveries = 0
INVARIANTS
  PendingQuestionCanBeAnswered

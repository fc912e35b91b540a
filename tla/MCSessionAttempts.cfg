\* One round with two Deep attempts, an attempt of each build and a fallback.
SPECIFICATION Spec
CONSTANTS
  d1 = d1
  d2 = d2
  e1 = e1
  DecisionIds = {}
  EvidenceIds = {e1}
  Answers <- MCAnswers
  SearchLimit = 1
  AnswerLimit = 2
  MaxRound = 1
  MaxDeep = 2
  MaxContext = 1
  MaxAdr = 1
  MaxDiscoveries = 1
INVARIANTS
  NoIdentityReturns
PROPERTIES
  SearchesAreNeverRefunded

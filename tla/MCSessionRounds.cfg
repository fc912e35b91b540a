\* Two rounds on one snapshot or two, an attempt of each kind; one decision id.
SPECIFICATION Spec
CONSTANTS
  d1 = d1
  d2 = d2
  e1 = e1
  DecisionIds = {d1}
  EvidenceIds = {}
  Answers <- MCAnswers
  SearchLimit = 1
  AnswerLimit = 2
  MaxRound = 2
  MaxDeep = 1
  MaxContext = 1
  MaxAdr = 1
  MaxDiscoveries = 0
INVARIANTS
  TypeOK
  QuestionIffWaiting
  NothingFromAnOldSnapshot
  AskingEndsTheAttempt
  DeepAttemptOfCurrentRound
  OnePackageBehindContextAndAdr
PROPERTIES
  PendingQuestionStays
  FirstAnswerStays

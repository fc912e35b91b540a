\* Two messages of any sort in every race with one run; callers take turns.
SPECIFICATION Spec
CONSTANTS
  MaxRetries = 1
  OneAtATime = TRUE
  TakeTurns = TRUE
  MaxCalls = 2
  MaxMessages = 2
  MaxToolTurns = 1
  MaxFailures = 1
  MaxCompactions = 1
  MaxAborts = 1
  Sorts = {"user", "custom", "bash"}
INVARIANTS
  TypeOK
  EveryMessageOnce
  ResultsStayWithTheirCall
  TranscriptIsTheSession
  ShownQueuesAreTheQueues
PROPERTIES
  FollowUpsComeLast
  KeepsItsContract

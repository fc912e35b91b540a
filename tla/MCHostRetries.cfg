\* A long run of failures, with retries, compactions and an abort.
SPECIFICATION Spec
CONSTANTS
  MaxRetries = 1
  OneAtATime = TRUE
  TakeTurns = TRUE
  MaxCalls = 2
  MaxMessages = 1
  MaxToolTurns = 1
  MaxFailures = 5
  MaxCompactions = 2
  MaxAborts = 1
  Sorts = {"user", "custom", "bash"}
INVARIANTS
  RetriesEnd
  

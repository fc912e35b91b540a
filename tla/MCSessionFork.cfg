\* A session with a label and a compaction, and a fork of it.
SPECIFICATION Spec
CONSTANTS
  Roles = {"user", "assistant"}
  MaxEntries = 4
  MaxCompactions = 1
  MaxLabels = 1
  MaxMoves = 0
  MaxForks = 1
  MaxTroubles = 0
  MaxEnds = 0
CHECK_DEADLOCK FALSE
PROPERTIES
  ForkKeepsContext

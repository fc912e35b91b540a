\* Four entries, a label, a compaction, a fork, a write that goes wrong and a restart besides.
SPECIFICATION Spec
CONSTANTS
  Roles = {"user", "assistant"}
  MaxEntries = 4
  MaxCompactions = 1
  MaxLabels = 1
  MaxMoves = 1
  MaxForks = 1
  MaxTroubles = 1
  MaxEnds = 1
CHECK_DEADLOCK FALSE
INVARIANTS
  TypeOK
  FileIsTheSession
  
  NoOrphans
PROPERTIES
  ForkKeepsLabels

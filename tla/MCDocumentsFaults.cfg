\* Three documents: edits, failing calls and a crash, nobody edits during the exchange.
SPECIFICATION Spec
CONSTANTS
  NumDocuments = 3
  MaxEdits = 3
  MaxCalls = 2
  MaxFaults = 2
  MaxCrashes = 1
  EditorsWait = TRUE
INVARIANTS
  TypeOK
  UnmanagedContentKept
PROPERTIES
  BackupsLeftOnlyByTrouble
  IsAtomic

SPECIFICATION FairSpec
CONSTANTS
  Chunks = 2
  Weathers = {"orderly", "any"}
  TypedIn = {"orderly"}
  MaxCopies = 2
  MaxMade = 2
  MaxLines = 2
INVARIANTS
  TypeOK
PROPERTIES
  CopiesInOrder
  TransferCompletes
  EnterTerminates
CHECK_DEADLOCK FALSE

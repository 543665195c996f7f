SPECIFICATION Spec
CONSTANTS
  Received = FALSE
  MaxMessages = 1
  Null = Null
CHECK_DEADLOCK FALSE
INVARIANT CleanedUp

SPECIFICATION Spec
CONSTANTS
  Received = TRUE
  MaxMessages = 3
  Null = Null
CHECK_DEADLOCK FALSE
INVARIANTS TypeOK CountIsCopies CleanedUp

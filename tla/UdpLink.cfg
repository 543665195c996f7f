SPECIFICATION Spec
CONSTANTS
  a = a
  b = b
  m1 = m1
  m2 = m2
  Null = Null
  Ends <- MCEnds
  Messages <- MCMessages
  MustSend <- MCMessages
  From <- MCFrom
  Connectors = {a, b}
  Disconnectors = {a}
  MayTimeOut = FALSE
  GarbageAcks <- MCAcks
  GarbageBeats = {TRUE, FALSE}
  GarbageUDP = {TRUE, FALSE}
  MaxSent <- MCSent
  Beaters = {a, b}
  Droppable = {1}
  MaxDelay = 2
  U08_MAX = 4
  U32_MAX = 256
  LowerLimit = 1
  UpperLimit = 2
  AckBits = 2
  IntBits = 4
CONSTRAINT Bound
INVARIANTS
  TypeOK
  MustSendNotForgotten
  AnsweredOnlyIfHeard
PROPERTY
  ClosesAfterFin
CHECK_DEADLOCK FALSE

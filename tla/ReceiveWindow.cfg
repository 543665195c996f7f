SPECIFICATION Spec
CONSTANTS
  U08_MAX = 12
  U32_MAX = 144
  LowerLimit = 3
  UpperLimit = 8
  AckBits = 3
  IntBits = 4
  MaxPackets = 15
  MaxJump = 3
INVARIANTS
  TypeOK
  LastIsTrue
  AcksAreTrue
  AckMeansHandedUp
PROPERTIES
  OnlyNewestRepeats
  RefusedOnlyIfOldOrSeen
  RefinesPacketWindow

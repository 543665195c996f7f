SPECIFICATION Spec
CONSTANTS
  ByteBits = 4
  WordBits = 12
  Mantissa = 5
  Fields <- MCFields
  MaxFields = 3
  Allocated = 8
CHECK_DEADLOCK FALSE
INVARIANTS TypeOK ReadsBack FloatsReadBack BytesHoldBits ReadsWithinData AtEndIffAllRead

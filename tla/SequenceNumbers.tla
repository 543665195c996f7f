--------------------------- MODULE SequenceNumbers ---------------------------
(***************************************************************************)
(* The arithmetic of the packet header (Connection.cpp): the 8-bit         *)
(* sequence number on the wire, the 32-bit number the receiver rebuilds    *)
(* from it, the bit field of acks the receiver keeps, and the test the     *)
(* sender of a message makes on the bit field that comes back.             *)
(*                                                                         *)
(* The bit field packetsRecieved_ is the set of the distances it           *)
(* acknowledges: distance d is bit AckBits-1-d, so 0x8000 is distance 0,   *)
(* the packet lastSeqRecieved_ itself.                                     *)
(***************************************************************************)
EXTENDS Integers

CONSTANTS
  U08_MAX,     \* number of values of the u08 on the wire (256)
  U32_MAX,     \* number of values of the rebuilt u32 (2^32)
  LowerLimit,  \* below it a wire number is "small" (50)
  UpperLimit,  \* above it a wire number is "large" (200)
  AckBits,     \* width of packetsRecieved_ (16)
  IntBits      \* a shift count is taken modulo the width of int (32)

ASSUME SequenceAssumption ==
  /\ U08_MAX \in Nat \ {0}
  /\ U32_MAX \in Nat \ {0}
  /\ LowerLimit \in Nat
  /\ UpperLimit \in Nat
  /\ AckBits \in Nat \ {0}
  /\ IntBits \in Nat \ {0}

(* The cast (u08)n. *)
AsU08(n) == n % U08_MAX

-----------------------------------------------------------------------------
(* Receiving side. *)

(* Mutant of WrapCount: the rules that take a wrap back left out.           *)
WrapCountNeverBack(seq, last) ==
  IF seq < LowerLimit /\ AsU08(last) > UpperLimit
  THEN last \div U08_MAX + 1
  ELSE last \div U08_MAX

(* How many wraps the receiver assumes for a wire number. The code's second *)
(* rule and the third one both take a wrap back.                            *)
WrapCount(seq, last) ==
  LET wraps     == last \div U08_MAX
      lastAsU08 == AsU08(last)
      wrappedFurther == seq < LowerLimit /\ lastAsU08 > UpperLimit
      wrappedLess    == /\ seq > UpperLimit
                        /\ \/ seq < lastAsU08 /\ lastAsU08 = 0
                           \/ seq > lastAsU08 /\ lastAsU08 < LowerLimit
  IN  IF wrappedFurther THEN wraps + 1
      ELSE IF wrappedLess THEN wraps - 1
      ELSE wraps

ConvertSequenceNumber(seq, last) ==
  (seq + U08_MAX * WrapCount(seq, last)) % U32_MAX

(* Mutants of ShiftAcks: a field wider than the u16, and a loop that stops  *)
(* one shift early.                                                         *)
ShiftAcksWide(acks, count) == {d + count : d \in acks}

ShiftAcksShort(acks, count) ==
  {d + count - 1 : d \in acks} \cap (0 .. AckBits - 1)

(* packetsRecieved_ >> count. *)
ShiftAcks(acks, count) == {d + count : d \in acks} \cap (0 .. AckBits - 1)

LastAfter(last, wrapped) == IF wrapped > last THEN wrapped ELSE last

(* dseq, once lastSeqRecieved_ has moved. *)
Distance(last, wrapped) == LastAfter(last, wrapped) - wrapped

(* Mutants of IsAccepted: no test for duplicates, dseq > 14, dseq > 16.     *)
IsAcceptedTwice(acks, last, wrapped) == Distance(last, wrapped) < AckBits

IsAcceptedShort(acks, last, wrapped) ==
  LET dseq == Distance(last, wrapped) IN
  dseq < AckBits - 1 /\ (dseq = 0 \/ dseq \notin acks)

IsAcceptedLong(acks, last, wrapped) ==
  LET dseq == Distance(last, wrapped) IN
  dseq <= AckBits /\ (dseq = 0 \/ dseq \notin acks)

(* Neither stale nor a duplicate: ReadHeader goes on to the flags. The      *)
(* newest packet passes whether its bit was set or not.                     *)
IsAccepted(acks, last, wrapped) ==
  LET dseq == Distance(last, wrapped) IN
  /\ dseq < AckBits
  /\ dseq = 0 \/ dseq \notin acks

AcksAfter(acks, last, wrapped) ==
  LET moved == IF wrapped > last
               THEN ShiftAcks(acks, wrapped - last) \cup {0}
               ELSE acks
  IN  IF IsAccepted(acks, last, wrapped)
      THEN moved \cup {Distance(last, wrapped)}
      ELSE moved

(* ReadHeader returns an s32 and -1 means expired, so the largest u32 reads *)
(* as expired too.                                                          *)
Expired == U32_MAX - 1

-----------------------------------------------------------------------------
(* Sending side. *)

(* Mutants of IsAcked: the difference not cut to a u08, and a mask one bit  *)
(* too far to the left.                                                     *)
IsAckedNoCast(ackNum, refNum, acks) ==
  LET deltaSeqNum == refNum - ackNum IN
  \/ deltaSeqNum = 0
  \/ deltaSeqNum % IntBits \in acks /\ deltaSeqNum > 0

IsAckedOffByOne(ackNum, refNum, acks) ==
  LET deltaSeqNum == AsU08(refNum - ackNum) IN
  \/ deltaSeqNum = 0
  \/ (deltaSeqNum - 1) % IntBits \in acks

(* RemoveAckedMessages' test: is the message that last travelled in packet  *)
(* ackNum acknowledged by the pair refNum, acks of the peer's header? The   *)
(* shift 0x8000 >> deltaSeqNum uses the count modulo IntBits, and shifts    *)
(* past the field give zero.                                                *)
IsAcked(ackNum, refNum, acks) ==
  LET deltaSeqNum == AsU08(refNum - ackNum) IN
  \/ deltaSeqNum = 0
  \/ deltaSeqNum % IntBits \in acks

-----------------------------------------------------------------------------
(* The farthest a packet may be from lastSeqRecieved_, ahead or behind, for *)
(* the rebuilt number to be the true one: 50 with the code's constants.     *)
WithinReach(jump) ==
  /\ jump <= LowerLimit
  /\ jump < U08_MAX - UpperLimit
  /\ jump <= UpperLimit - LowerLimit
=============================================================================

------------------------------- MODULE BitPack -------------------------------
(***************************************************************************)
(* The bit array of the engine (BitPack.cpp, BitPack.hpp) as operators on  *)
(* a record with the cursor, the count of bytes and the one bits of m_data.*)
(* m_bytePos and m_bitPos are kept as the one number the code also         *)
(* computes from them, the number of bits pushed or popped so far: the     *)
(* next bit is bit cursor % 8 of byte cursor / 8.                          *)
(***************************************************************************)
EXTENDS Integers, FiniteSets, FiniteSetsExt

CONSTANTS
  ByteBits,   \* 8 in the code
  WordBits,   \* bits of the widest integer, 64 in the code
  Mantissa    \* bits of the mantissa of an f32, 24 in the code

ASSUME BitPackAssumption ==
  /\ ByteBits \in Nat /\ WordBits \in Nat /\ 1 < ByteBits /\ ByteBits <= WordBits
  /\ Mantissa \in Nat \ {0}

IntBits == WordBits \div 2   \* an int

(* 2 to the n, which the code gets by shifting or by "mult *= 256".         *)
TwoTo[n \in Nat] == IF n = 0 THEN 1 ELSE 2 * TwoTo[n - 1]

m_bytePos(p) == (p.cursor - 1) \div ByteBits
m_bitPos(p) == (p.cursor - 1) % ByteBits

ResetForRead(p) == [p EXCEPT !.cursor = 0]
ResetForWrite(p) == [p EXCEPT !.cursor = 0, !.numBytes = 0]

(* The bits of n bytes from a byte on, and the one bits of a number.        *)
Bytes(first, n) == (first * ByteBits) .. ((first + n) * ByteBits - 1)
Ones(number, n) == {i \in 0 .. n - 1 : (number \div TwoTo[i]) % 2 = 1}

(* n bits pushed, the lowest first. m_data is not initialised: each byte is *)
(* cleared when its first bit is pushed.                                    *)
PushNotCleared(p, n, on) ==
  LET entered == {k \in p.cursor .. p.cursor + n - 1 : k % ByteBits = 0}
  IN  [cursor |-> p.cursor + n,
       numBytes |-> p.numBytes + Cardinality(entered),
       ones |-> p.ones \cup {p.cursor + i : i \in on}]
Push(p, n, on) ==
  LET entered == {k \in p.cursor .. p.cursor + n - 1 : k % ByteBits = 0}
  IN  [cursor |-> p.cursor + n,
       numBytes |-> p.numBytes + Cardinality(entered),
       ones |-> (p.ones \ UNION {k .. k + ByteBits - 1 : k \in entered})
                  \cup {p.cursor + i : i \in on}]

(* The number in the next n bits, bit by bit from the lowest.               *)
PopFront(p, n) ==
  LET number[k \in 0 .. n] ==
        IF k = 0 THEN 0
        ELSE number[k - 1]
               + (IF p.cursor + k - 1 \in p.ones THEN TwoTo[k - 1] ELSE 0)
  IN  number[n]
Popped(p, n) == [p EXCEPT !.cursor = @ + n]

(* The width of a number in 0 .. range. The table has its last entry, 63,   *)
(* in the place of 0: a range of one value takes a whole word.              *)
BitsNeeded(range) ==
  IF range = 0 THEN WordBits
  ELSE CHOOSE k \in 1 .. WordBits : TwoTo[k - 1] <= range /\ range < TwoTo[k]

(* What TPlateSerializeInt writes: the distance from the minimum, clamped.  *)
(* In an unsigned type it wraps, so that below the minimum is above.        *)
SignedNotClamped(val, imin, imax) == (val - imin) % TwoTo[WordBits]
Signed(val, imin, imax) ==
  IF val < imin THEN 0 ELSE Min({val - imin, imax - imin})
Unsigned(val, imin, imax) ==
  Min({(val - imin) % TwoTo[WordBits], imax - imin})

(* The steps of a float, "(1 << totalNumBits) - 1" in an int. From 32 bits  *)
(* on, the default, the shift is undefined: the processors of the builds    *)
(* take its count modulo 32, and there is no step at all.                   *)
Steps(bits) == TwoTo[bits % IntBits] - 1

(* An f32 as a fraction, a pair, or 0 over 0 if it is not finite. Each      *)
(* operation rounds to the nearest mantissa, to the even one of two. The    *)
(* exponent is not bounded.                                                 *)
Rounded(n, d) ==
  LET up(x) == IF x < 0 THEN n * TwoTo[-x] ELSE n
      down(x) == IF x < 0 THEN d ELSE d * TwoTo[x]
      e == CHOOSE x \in -WordBits .. WordBits :
             /\ TwoTo[Mantissa - 1] * down(x) <= up(x)
             /\ up(x) < TwoTo[Mantissa] * down(x)
      m == up(e) \div down(e)
      rest == 2 * (up(e) % down(e))
      nearest == m + (IF rest > down(e) \/ (rest = down(e) /\ m % 2 = 1)
                      THEN 1 ELSE 0)
  IN  IF e < 0 THEN <<nearest, TwoTo[-e]>> ELSE <<nearest * TwoTo[e], 1>>
F32(q) ==
  IF q[1] = 0 \/ q[2] = 0 THEN <<0, IF q[2] = 0 THEN 0 ELSE 1>>
  ELSE IF q[1] < 0 THEN <<-Rounded(-q[1], q[2])[1], Rounded(-q[1], q[2])[2]>>
  ELSE Rounded(q[1], q[2])
Float(int) == F32(<<int, 1>>)
Plus(a, b) == F32(<<a[1] * b[2] + b[1] * a[2], a[2] * b[2]>>)
Times(a, b) == F32(<<a[1] * b[1], a[2] * b[2]>>)
Over(a, b) == F32(<<a[1] * b[2], a[2] * b[1]>>)

(* The cast of a float to an int cuts its fraction off. What does not fit   *)
(* an int becomes the least one.                                            *)
InInt(n) == IF n \in 0 .. TwoTo[IntBits - 1] - 1 THEN n ELSE -TwoTo[IntBits - 1]

(* SerializeFloat, writing and reading.                                     *)
ClampOnly(val, fmin, fmax, bits) ==
  LET clamp == IF val > fmax THEN fmax ELSE IF val < fmin THEN fmin ELSE val
      n == Times(Over(Float(Steps(bits)), Float(fmax - fmin)), Float(clamp))
  IN  Signed(InInt(n[1] \div n[2]), 0, Steps(bits))
SerializeFloat(val, fmin, fmax, bits) ==
  LET clamp == IF val > fmax THEN fmax ELSE IF val < fmin THEN fmin ELSE val
      n == Times(Over(Float(Steps(bits)), Float(fmax - fmin)), Float(clamp - fmin))
  IN  Signed(InInt(n[1] \div n[2]), 0, Steps(bits))
FloatOf(n, fmin, fmax, bits) ==
  Plus(Over(Times(Float(n), Float(fmax - fmin)), Float(Steps(bits))), Float(fmin))

(* A block starts at the next byte, and at the current one when only its    *)
(* first bit is used: m_bitPos is 0 then. The overload for c08 leaves the   *)
(* cursor at the end of the byte before the one to come, those for u08 and  *)
(* s08 after the first bit of it.                                           *)
BlockByte(p) == m_bytePos(p) + (IF m_bitPos(p) = 0 THEN 0 ELSE 1)
BlockEndTwice(p, kind, n) ==
  (BlockByte(p) + n) * ByteBits + (IF kind = "c08" THEN ByteBits ELSE 1)
BlockEnd(p, kind, n) ==
  (m_bytePos(p) + n) * ByteBits + (IF kind = "c08" THEN ByteBits ELSE 1)

AppendNotCounted(p, kind, n, on) ==
  [cursor |-> BlockEnd(p, kind, n),
   numBytes |-> p.numBytes,
   ones |-> (p.ones \ Bytes(BlockByte(p), n))
              \cup {BlockByte(p) * ByteBits + i : i \in on}]
AppendData(p, kind, n, on) ==
  [cursor |-> BlockEnd(p, kind, n),
   numBytes |-> p.numBytes + n,
   ones |-> (p.ones \ Bytes(BlockByte(p), n))
              \cup {BlockByte(p) * ByteBits + i : i \in on}]
=============================================================================

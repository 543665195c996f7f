------------------------------- MODULE Encoder -------------------------------
(***************************************************************************)
(* An Encoder that writes values and blocks, with or without packing, and  *)
(* the Encoder that reads them again from the bytes of the first, as the   *)
(* unit test of the bit array and the users of the encoder do: the reader  *)
(* names the types and ranges the writer named, in the same order.         *)
(***************************************************************************)
EXTENDS BitPack, Sequences

CONSTANTS
  Fields,     \* what may be written: records with the overload ("signed",
              \* "unsigned", "float", or a block "c08", "u08"), the size of
              \* the type in bytes, its least value, the range [lo, hi], the
              \* bits of a float, and the values or contents to try
  MaxFields,  \* bound: how many are written in the life of an encoder
  Allocated   \* the size given to the constructor, MAX_BYTES when packing

VARIABLES
  m_isPacking,
  phase,         \* "writing", "done", "reading" (the second encoder), or
                 \* "aborted" by the heap
  store,         \* the bit array, or without packing the pointer and bytes
  m_packedData,  \* [state |-> "none", "live" or "freed", ones |-> bits];
                 \* m_allocated is state # "none"
  m_dataSize,
  written,       \* the field, the value and the cursor of each write
  discarded,     \* how many were written before StartWriting
  results        \* what has been read

vars == <<m_isPacking, phase, store, m_packedData, m_dataSize, written,
          discarded, results>>

Memory == 0 .. Allocated * ByteBits - 1
IsBlock(f) == f.overload \in {"c08", "u08"}

(* What the types of C++ see to: a value and the ends of its range are of   *)
(* the type named. The signed ones are narrower than the word their         *)
(* distance is computed in. A float is a whole number of some unit, a power *)
(* of two the results do not depend on, that f32 holds; it may ask for any  *)
(* number of bits.                                                          *)
TypeOf(f) == f.least .. f.least + TwoTo[f.size * ByteBits] - 1
ABlock(f) ==
  IsBlock(f) /\ f.values \subseteq SUBSET (0 .. f.size * ByteBits - 1)
ANumber(f) ==
  /\ f.overload \in {"signed", "unsigned", "float"}
  /\ f.size * ByteBits <= WordBits /\ f.least \in Int
  /\ f.values \subseteq TypeOf(f)
  /\ f.lo \in TypeOf(f) /\ f.hi \in TypeOf(f) /\ f.lo <= f.hi
  /\ f.overload = "unsigned" => f.least = 0
  /\ f.overload = "signed" => f.size * ByteBits < WordBits
  /\ f.overload = "float" =>
       /\ f.bits \in Nat /\ f.lo < f.hi
       /\ \A v \in f.values \cup {f.lo, f.hi} : Float(v)[1] = v * Float(v)[2]

ASSUME EncoderAssumption ==
  /\ Allocated \in Nat /\ MaxFields \in Nat
  /\ \A f \in Fields : f.size \in Nat \ {0} /\ (ABlock(f) \/ ANumber(f))

Init ==
  /\ m_isPacking \in BOOLEAN /\ phase = "writing"
  /\ \E garbage \in {{}, Memory} :
       store = [cursor |-> 0, numBytes |-> 0, ones |-> garbage]
  /\ m_packedData = [state |-> "none", ones |-> {}]
  /\ m_dataSize = Allocated
  /\ written = <<>> /\ discarded = 0 /\ results = <<>>

-----------------------------------------------------------------------------
(* Without packing a value is copied as it is, in the bytes of its type.    *)
Copy(p, n, on) ==
  [cursor |-> p.cursor + n * ByteBits, numBytes |-> p.numBytes + n,
   ones |-> (p.ones \ (p.cursor .. p.cursor + n * ByteBits - 1))
              \cup {p.cursor + i : i \in on}]
Raw(f, v) == Ones(v % TwoTo[f.size * ByteBits], f.size * ByteBits)
Typed(f, number) == ((number - f.least) % TwoTo[f.size * ByteBits]) + f.least

Width(f) ==
  BitsNeeded(IF f.overload = "float" THEN Steps(f.bits) ELSE f.hi - f.lo)
Serialized(f, v) ==
  CASE f.overload = "signed" -> Signed(v, f.lo, f.hi)
    [] f.overload = "unsigned" -> Unsigned(v, f.lo, f.hi)
    [] f.overload = "float" -> SerializeFloat(v, f.lo, f.hi, f.bits)

(* A float read back is kept as the step; what the reader makes of it is    *)
(* FloatOf.                                                                 *)
Restored(f, number) ==
  IF f.overload = "float" THEN number ELSE Typed(f, number + f.lo)

MayWrite == phase = "writing" /\ discarded + Len(written) < MaxFields

Write ==
  /\ MayWrite
  /\ \E f \in Fields : \E v \in f.values :
       /\ ~IsBlock(f)
       /\ store' =
            IF m_isPacking
            THEN Push(store, Width(f), Ones(Serialized(f, v), Width(f)))
            ELSE Copy(store, f.size, Raw(f, v))
       /\ store'.cursor <= Allocated * ByteBits
       /\ written' = Append(written, [field |-> f, value |-> v, at |-> store.cursor])
  /\ UNCHANGED <<m_isPacking, phase, m_packedData, m_dataSize, discarded, results>>

WriteData ==
  /\ MayWrite
  /\ \E f \in Fields : \E on \in f.values :
       /\ IsBlock(f)
       /\ store' = IF m_isPacking THEN AppendData(store, f.overload, f.size, on)
                                  ELSE Copy(store, f.size, on)
       /\ store'.cursor <= Allocated * ByteBits
       /\ written' = Append(written, [field |-> f, value |-> on, at |-> store.cursor])
  /\ UNCHANGED <<m_isPacking, phase, m_packedData, m_dataSize, discarded, results>>

(* Without packing it changes nothing: writing goes on where it was. With   *)
(* packing the copy that DoneWriting made is deleted, the pointer kept and  *)
(* m_allocated left set: the next time the same memory is deleted again,    *)
(* which the heap notices or not.                                           *)
StartWriting ==
  /\ phase \in {"writing", "done"}
  /\ phase' \in {"writing"} \cup
                (IF m_packedData.state = "freed" THEN {"aborted"} ELSE {})
  /\ IF m_isPacking
     THEN /\ store' = ResetForWrite(store)
          /\ m_packedData' = [m_packedData EXCEPT
               !.state = IF @ = "none" THEN "none" ELSE "freed"]
          /\ written' = <<>>
          /\ discarded' = discarded + Len(written)
     ELSE UNCHANGED <<store, m_packedData, written, discarded>>
  /\ UNCHANGED <<m_isPacking, m_dataSize, results>>

(* The copy is made once in the life of an encoder (m_allocated).           *)
DoneWriting ==
  /\ phase = "writing"
  /\ phase' = "done"
  /\ IF m_isPacking /\ m_packedData.state = "none"
     THEN /\ m_packedData' = [state |-> "live",
                              ones |-> store.ones \cap Bytes(0, store.numBytes)]
          /\ m_dataSize' = store.numBytes
     ELSE UNCHANGED <<m_packedData, m_dataSize>>
  /\ UNCHANGED <<m_isPacking, store, written, discarded, results>>

GetDataSizeInBits == store.cursor
GetDataSize == store.numBytes
GetData ==
  IF m_isPacking THEN m_packedData.ones ELSE store.ones \cap Bytes(0, GetDataSize)

(* Memory that was deleted holds anything, and at every look anew.          *)
Found(bits, content) ==
  IF m_packedData.state = "freed" THEN {{}, bits} ELSE {content}

(* The other encoder gets the bytes; the rest of its memory is anything.    *)
OpenForReading ==
  /\ phase = "done"
  /\ phase' = "reading"
  /\ m_dataSize' = GetDataSize
  /\ \E data \in Found(Bytes(0, GetDataSize), GetData), garbage \in {{}, Memory} :
       store' = [cursor |-> 0, numBytes |-> 0,
                 ones |-> data \cup (garbage \ Bytes(0, GetDataSize))]
  /\ UNCHANGED <<m_isPacking, m_packedData, written, discarded, results>>

StartReading ==
  /\ phase = "reading" /\ results # <<>>
  /\ store' = ResetForRead(store)
  /\ results' = <<>>
  /\ UNCHANGED <<m_isPacking, phase, m_packedData, m_dataSize, written, discarded>>

MayRead == phase = "reading" /\ Len(results) < Len(written)
NextField == written[Len(results) + 1].field

Read ==
  /\ MayRead /\ ~IsBlock(NextField)
  /\ LET f == NextField
         n == IF m_isPacking THEN Width(f) ELSE f.size * ByteBits
         number == PopFront(store, n)
     IN  /\ results' = Append(results, IF m_isPacking THEN Restored(f, number)
                                                      ELSE Typed(f, number))
         /\ store' = Popped(store, n)
  /\ UNCHANGED <<m_isPacking, phase, m_packedData, m_dataSize, written, discarded>>

(* When packing, a block is read where the overload for c08 puts it, and    *)
(* from the bytes given and not from the bit array they were copied to.     *)
BlockAt(p, n) ==
  LET first == IF m_isPacking THEN BlockByte(p) ELSE p.cursor \div ByteBits
  IN  {i \in 0 .. n * ByteBits - 1 : first * ByteBits + i \in p.ones}
ReadData ==
  /\ MayRead /\ IsBlock(NextField)
  /\ LET n == NextField.size
     IN  /\ \E on \in Found(0 .. n * ByteBits - 1, BlockAt(store, n)) :
              results' = Append(results, on)
         /\ store' = [store EXCEPT !.cursor =
              IF m_isPacking THEN BlockEnd(store, "c08", n) ELSE @ + n * ByteBits]
  /\ UNCHANGED <<m_isPacking, phase, m_packedData, m_dataSize, written, discarded>>

PastEnd ==
  IF m_isPacking THEN m_bytePos(store) > m_dataSize
                 ELSE store.cursor > m_dataSize * ByteBits
AtEnd ==
  IF m_isPacking THEN m_bytePos(store) >= m_dataSize
                 ELSE store.cursor >= m_dataSize * ByteBits

Next ==
  \/ Write \/ WriteData \/ StartWriting \/ DoneWriting
  \/ OpenForReading \/ StartReading \/ Read \/ ReadData

Spec == Init /\ [][Next]_vars

-----------------------------------------------------------------------------
(* The state has its types, and no more bytes are counted than there are.   *)
TypeOK ==
  /\ m_isPacking \in BOOLEAN /\ phase \in {"writing", "done", "reading", "aborted"}
  /\ store \in [cursor : Nat, numBytes : 0 .. Allocated, ones : SUBSET Memory]
  /\ phase # "reading" => store.cursor <= Allocated * ByteBits
  /\ m_packedData \in
       [state : {"none", "live", "freed"}, ones : SUBSET Memory]
  /\ m_dataSize \in 0 .. Allocated
  /\ \A i \in 1 .. Len(written) :
       written[i] \in
         [field : Fields, value : written[i].field.values, at : Nat]
  /\ discarded \in Nat
  /\ discarded + Len(written) <= MaxFields /\ Len(results) <= Len(written)

(* A writer that keeps to "be sure previous data is byte aligned" and that  *)
(* writes nothing after a block of u08.                                     *)
BlocksAreAligned ==
  \A i \in 1 .. Len(written) :
    IsBlock(written[i].field) => written[i].at % ByteBits # 1
KeepsToTheRules ==
  /\ BlocksAreAligned
  /\ \A i \in 1 .. Len(written) :
       written[i].field.overload = "u08" => i = Len(written)

(* A reader who was given what the writer counted, and not memory that      *)
(* StartWriting deleted.                                                    *)
ReadsTheData == phase = "reading" /\ m_packedData.state # "freed"

InRange(f, v) ==
  IF v < f.lo THEN (IF f.overload = "unsigned" THEN f.hi ELSE f.lo)
  ELSE IF v > f.hi THEN f.hi ELSE v
IsPackedFloat(f) == m_isPacking /\ f.overload = "float"
Kept(f, v, result) ==
  result = IF IsBlock(f) \/ ~m_isPacking THEN v ELSE InRange(f, v)

(* What such a writer wrote is what the reader reads, whatever was in the   *)
(* memory of both, if the encoder is not written again after DoneWriting    *)
(* (TPlateSerializeInt): an integer of the range itself, one out of it as   *)
(* the nearest end, except that an unsigned one below the range comes back  *)
(* as the maximum; blocks, and without packing all values, to the last bit. *)
ReadsBack ==
  (ReadsTheData /\ (m_isPacking => KeepsToTheRules)) =>
    \A i \in 1 .. Len(results) :
      LET f == written[i].field
      IN  ~IsPackedFloat(f) => Kept(f, written[i].value, results[i])

(* How far a float is from what was written, times the factor; and that it  *)
(* is less than so much, which 0 over 0 is not.                             *)
Distance(f, v, n) ==
  LET q == FloatOf(n, f.lo, f.hi, f.bits)
      apart == q[1] - InRange(f, v) * q[2]
  IN  <<IF apart < 0 THEN -apart ELSE apart, q[2]>>
Less(q, n, d) == q[1] * d < n * q[2]

(* Steps that f32 can tell apart: two bits fewer than a mantissa has, and   *)
(* not smaller than the distance of two floats at the ends of the range.    *)
Resolved(f) ==
  /\ f.bits > 0 /\ f.bits + 2 <= Mantissa /\ f.bits < IntBits
  /\ \A x \in {f.lo, -f.lo, f.hi, -f.hi} :
       x * Steps(f.bits) <= (f.hi - f.lo) * TwoTo[Mantissa - 1]

(* SerializeFloat, with all its roundings: a float packed in steps that f32 *)
(* can tell apart comes back less than two steps from what was written.     *)
FloatsReadBack ==
  (ReadsTheData /\ (m_isPacking => KeepsToTheRules)) =>
    \A i \in 1 .. Len(results) :
      LET f == written[i].field
      IN  (IsPackedFloat(f) /\ Resolved(f)) =>
            Less(Distance(f, written[i].value, results[i]),
                 2 * (f.hi - f.lo), Steps(f.bits))

(* The bits a write stands in, from the cursor it found.                    *)
BitsOf(w) ==
  LET first == IF m_isPacking /\ IsBlock(w.field)
               THEN BlockByte([cursor |-> w.at]) * ByteBits ELSE w.at
      n == IF m_isPacking /\ ~IsBlock(w.field)
           THEN Width(w.field) ELSE w.field.size * ByteBits
  IN  first .. first + n - 1
BytesCounted == IF phase = "reading" THEN m_dataSize ELSE store.numBytes

(* The bytes counted, which are those that are sent, are those written to   *)
(* (GetDataSize): no bit of a write lies behind them, and if the blocks are *)
(* byte aligned the first bit of each byte is one of a write, with which    *)
(* the byte is cleared. A block after a single bit leaves the last byte     *)
(* counted as it was: BlocksAreAligned rules that out, as BitPack.h,        *)
(* line 42, asks.                                                           *)
BytesHoldBits ==
  LET bits == UNION {BitsOf(written[i]) : i \in 1 .. Len(written)}
  IN  /\ bits \subseteq Bytes(0, BytesCounted)
      /\ (m_isPacking => BlocksAreAligned) =>
           \A b \in 0 .. BytesCounted - 1 : b * ByteBits \in bits

(* A reader of what such a writer wrote never reads beyond the bytes it was *)
(* given, where the bit array has no test of its own.                       *)
ReadsWithinData ==
  (phase = "reading" /\ (m_isPacking => KeepsToTheRules)) =>
    store.cursor <= m_dataSize * ByteBits

(* Without packing, the loops "while not AtEnd" stop exactly when all that  *)
(* was written has been read.                                               *)
AtEndIffAllRead ==
  (~m_isPacking /\ phase = "reading") => (AtEnd <=> Len(results) = Len(written))
=============================================================================

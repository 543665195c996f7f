------------------------ MODULE SequenceNumbersProofs ------------------------
(***************************************************************************)
(* What the operators of SequenceNumbers compute, for every width of the   *)
(* wire number, every pair of limits and every width of the ack field.     *)
(***************************************************************************)
EXTENDS SequenceNumbers, TLAPS

(* Quotient and remainder of an integer.                                    *)
LEMMA DivMod ==
  ASSUME NEW n \in Int, NEW m \in Nat \ {0}
  PROVE  /\ n \div m \in Int
         /\ n % m \in 0 .. m - 1
         /\ n = (m * (n \div m)) + (n % m)
  OBVIOUS

(* There is only one such pair of quotient and remainder.                   *)
LEMMA DivModUnique ==
  ASSUME NEW q \in Int, NEW m \in Nat \ {0}, NEW r \in 0 .. m - 1
  PROVE  ((m * q) + r) % m = r
  OBVIOUS

(* Two numbers less than m apart lie in the same or in neighbouring blocks  *)
(* of m numbers.                                                            *)
LEMMA NeighbouringBlocks ==
  ASSUME NEW m \in Nat \ {0}, NEW p \in Int, NEW q \in Int,
         NEW r \in 0 .. m - 1, NEW s \in 0 .. m - 1,
         NEW a \in Int, NEW b \in Int,
         a = (m * p) + r, b = (m * q) + s,
         a - b < m, b - a < m
  PROVE  p = q \/ p = q + 1 \/ p = q - 1
<1>1. m * (p - q) = (a - b) - (r - s)
  OBVIOUS
<1>2. m * (p - q) < 2 * m /\ m * (p - q) > -(2 * m)
  BY <1>1
<1>3. p - q < 2 /\ p - q > -2
  BY <1>2
<1> QED BY <1>3

(* The wrap count ConvertSequenceNumber chooses is the one of the true      *)
(* number, as long as that number is within reach of the newest one         *)
(* (Connection.cpp, the rules of ConvertSequenceNumber).                    *)
LEMMA WrapCountIsTrue ==
  ASSUME NEW last \in Nat, NEW n \in Nat, NEW jump \in Nat,
         WithinReach(jump), n <= last + jump, last <= n + jump
  PROVE  WrapCount(AsU08(n), last) = n \div U08_MAX
<1> DEFINE q == last \div U08_MAX
           r == last % U08_MAX
           p == n \div U08_MAX
           s == n % U08_MAX
<1> USE SequenceAssumption
<1>1. /\ q \in Int /\ p \in Int
      /\ r \in 0 .. U08_MAX - 1 /\ s \in 0 .. U08_MAX - 1
      /\ last = (U08_MAX * q) + r /\ n = (U08_MAX * p) + s
  BY DivMod
<1>2. jump < U08_MAX - UpperLimit /\ jump <= LowerLimit
      /\ jump <= UpperLimit - LowerLimit /\ jump < U08_MAX
  BY DEF WithinReach
<1> HIDE DEF q, r, p, s
<1>3. p = q \/ p = q + 1 \/ p = q - 1
  <2>1. n - last < U08_MAX /\ last - n < U08_MAX
    BY <1>2
  <2> QED BY <1>1, <2>1, NeighbouringBlocks
<1>4. WrapCount(s, last) =
        IF s < LowerLimit /\ r > UpperLimit THEN q + 1
        ELSE IF s > UpperLimit /\ ((s < r /\ r = 0) \/ (s > r /\ r < LowerLimit))
        THEN q - 1 ELSE q
  BY DEF WrapCount, AsU08, q, r
<1>5. ASSUME p = q PROVE WrapCount(s, last) = p
  <2>1. n - last = s - r
    BY <1>1, <1>5
  <2> QED BY <2>1, <1>1, <1>2, <1>4, <1>5
<1>6. ASSUME p = q + 1 PROVE WrapCount(s, last) = p
  <2>1. U08_MAX * p = (U08_MAX * q) + U08_MAX
    BY <1>1, <1>6
  <2>2. n - last = (s - r) + U08_MAX
    BY <1>1, <2>1
  <2>3. s < LowerLimit /\ r > UpperLimit
    BY <2>2, <1>1, <1>2
  <2> QED BY <2>3, <1>1, <1>4, <1>6
<1>7. ASSUME p = q - 1 PROVE WrapCount(s, last) = p
  <2>1. U08_MAX * p = (U08_MAX * q) - U08_MAX
    BY <1>1, <1>7
  <2>2. last - n = (r - s) + U08_MAX
    BY <1>1, <2>1
  <2>3. r < LowerLimit /\ s > UpperLimit /\ s > r
    BY <2>2, <1>1, <1>2
  <2> QED BY <2>3, <1>1, <1>2, <1>4, <1>7
<1>8. WrapCount(s, last) = p
  BY <1>3, <1>5, <1>6, <1>7
<1> QED BY <1>8 DEF p, s, AsU08

(* ConvertSequenceNumber rebuilds the true number of every packet within    *)
(* reach of the newest one.                                                 *)
THEOREM ConvertIsTrue ==
  ASSUME NEW last \in Nat, NEW n \in Nat, NEW jump \in Nat,
         WithinReach(jump), n <= last + jump, last <= n + jump, n < U32_MAX
  PROVE  ConvertSequenceNumber(AsU08(n), last) = n
<1> USE SequenceAssumption
<1>1. (n % U08_MAX) + (U08_MAX * (n \div U08_MAX)) = n
  BY DivMod
<1>2. WrapCount(AsU08(n), last) = n \div U08_MAX
  BY WrapCountIsTrue
<1>3. ConvertSequenceNumber(AsU08(n), last) = n % U32_MAX
  BY <1>1, <1>2 DEF ConvertSequenceNumber, AsU08
<1> QED BY <1>3

(* The test of RemoveAckedMessages reads the bit it means: for a message    *)
(* whose packet lies at most IntBits - AckBits ahead of the acknowledged    *)
(* one or less than IntBits behind it, the message is taken as acknowledged *)
(* only if it travelled in that packet or in one whose bit is set.          *)
THEOREM AckTestIsTrue ==
  ASSUME NEW ref \in Nat, NEW n \in Nat, NEW acks \in SUBSET (0 .. AckBits - 1),
         IntBits > AckBits, U08_MAX >= IntBits, U08_MAX % IntBits = 0,
         n - ref <= IntBits - AckBits, ref - n < IntBits
  PROVE  IsAcked(AsU08(n), AsU08(ref), acks) <=> ref = n \/ ref - n \in acks
<1> USE SequenceAssumption
<1> DEFINE delta == AsU08(AsU08(ref) - AsU08(n))
<1>1. \E k \in Int : ref - n = (U08_MAX * k) + delta
  <2> DEFINE a == ref \div U08_MAX
             b == n \div U08_MAX
             c == (AsU08(ref) - AsU08(n)) \div U08_MAX
  <2>1. /\ a \in Int /\ b \in Int
        /\ ref = (U08_MAX * a) + AsU08(ref) /\ n = (U08_MAX * b) + AsU08(n)
        /\ AsU08(ref) \in Int /\ AsU08(n) \in Int
    BY DivMod DEF AsU08
  <2>2. c \in Int /\ AsU08(ref) - AsU08(n) = (U08_MAX * c) + delta
    BY <2>1, DivMod DEF AsU08
  <2>3. ref - n = (U08_MAX * ((a - b) + c)) + delta
    <3> HIDE DEF a, b, c, delta
    <3>1. U08_MAX * ((a - b) + c)
            = ((U08_MAX * a) - (U08_MAX * b)) + (U08_MAX * c)
      BY <2>1, <2>2
    <3>2. delta \in Int
      BY <2>1 DEF delta, AsU08
    <3> QED BY <2>1, <2>2, <3>1, <3>2
  <2>4. (a - b) + c \in Int
    BY <2>1, <2>2
  <2> QED BY <2>3, <2>4
<1>2. delta \in 0 .. U08_MAX - 1
  BY DivMod DEF AsU08
<1> HIDE DEF delta
<1>3. CASE n <= ref
  <2>1. delta = ref - n
    BY <1>1, <1>2, <1>3
  <2>2. delta % IntBits = ref - n
    BY <2>1, <1>3
  <2> QED BY <2>1, <2>2 DEF IsAcked, delta
<1>4. CASE n > ref
  <2>1. delta = U08_MAX - (n - ref)
    BY <1>1, <1>2, <1>4
  <2> DEFINE m == U08_MAX \div IntBits
  <2>2. m \in Int /\ U08_MAX = IntBits * m
    BY DivMod
  <2> HIDE DEF m
  <2>3. delta = (IntBits * (m - 1)) + (IntBits - (n - ref))
    BY <2>1, <2>2
  <2>4. delta % IntBits = IntBits - (n - ref)
    BY <2>2, <2>3, <1>4, DivModUnique, IntBits - (n - ref) \in 0 .. IntBits - 1, m - 1 \in Int
  <2>5. ref - n \notin acks /\ IntBits - (n - ref) \notin acks /\ delta # 0
    BY <2>1, <1>4
  <2> QED BY <2>4, <2>5, <1>4 DEF IsAcked, delta
<1> QED BY <1>3, <1>4
=============================================================================

---------------------------- MODULE EncoderProofs ----------------------------
(***************************************************************************)
(* What is written is read back: the theorems about the encoder, for every *)
(* width of a byte and of a word, every set of fields, every size of the   *)
(* memory and every number of writes.                                      *)
(***************************************************************************)
EXTENDS Encoder, SequenceTheorems, FiniteSetTheorems, WellFoundedInduction, TLAPS

-----------------------------------------------------------------------------
(* Loops. *)

(* A set of numbers that is not empty has a least one.                      *)
LEMMA LeastNumber ==
  ASSUME NEW S \in SUBSET Nat, S # {}
  PROVE  \E i \in S : \A j \in S : i <= j
<1>1. PICK i \in S : \A j \in S : ~(<<j, i>> \in OpToRel(<, Nat))
  BY NatLessThanWellFounded, WFMin
<1>2. \A j \in S : ~(j < i)
  BY <1>1 DEF OpToRel
<1> QED BY <1>2

(* What holds of 0 and of each number after one of which it holds.          *)
LEMMA Counting ==
  ASSUME NEW n \in Nat, NEW K, 0 \in K,
         \A k \in 1 .. n : k - 1 \in K => k \in K
  PROVE  \A k \in 0 .. n : k \in K
<1> DEFINE Bad == {k \in 0 .. n : k \notin K}
<1>1. ASSUME Bad # {} PROVE FALSE
  <2>0. Bad \in SUBSET Nat
    OBVIOUS
  <2>1. PICK k \in Bad : \A j \in Bad : k <= j
    <3> HIDE DEF Bad
    <3> QED BY <1>1, <2>0, LeastNumber
  <2>2. k \in 1 .. n /\ k - 1 \in 0 .. n
    BY <2>1
  <2>3. k - 1 \notin Bad
    BY <2>1, <2>2
  <2> QED BY <2>1, <2>2, <2>3
<1> QED BY <1>1

(* What n rounds may do to a state in T.                                    *)
Rounds(n, T) == [1 .. n -> [T -> T]]

(* A loop of n rounds over states in T has a run.                           *)
LEMMA LoopRuns ==
  ASSUME NEW n \in Nat, NEW T, NEW a \in T, NEW F \in Rounds(n, T)
  PROVE  \E g \in [0 .. n -> T] :
           /\ g[0] = a
           /\ \A k \in 1 .. n : g[k] = F[k][g[k - 1]]
<1> DEFINE Runs(j) == \E g \in [0 .. j -> T] :
              /\ g[0] = a
              /\ \A k \in 1 .. j : g[k] = F[k][g[k - 1]]
<1>1. Runs(0)
  <2> DEFINE g == [k \in 0 .. 0 |-> a]
  <2>1. /\ g \in [0 .. 0 -> T] /\ g[0] = a
        /\ \A k \in 1 .. 0 : g[k] = F[k][g[k - 1]]
    OBVIOUS
  <2> QED BY <2>1
<1>2. ASSUME NEW j \in 0 .. n - 1, Runs(j) PROVE Runs(j + 1)
  <2>1. PICK g \in [0 .. j -> T] :
          /\ g[0] = a
          /\ \A k \in 1 .. j : g[k] = F[k][g[k - 1]]
    BY <1>2
  <2> DEFINE h == [k \in 0 .. j + 1 |-> IF k <= j THEN g[k] ELSE F[j + 1][g[j]]]
  <2>2. F[j + 1][g[j]] \in T
    BY <2>1 DEF Rounds
  <2>3. h \in [0 .. j + 1 -> T] /\ h[0] = a
    BY <2>1, <2>2
  <2>4. ASSUME NEW k \in 1 .. j + 1 PROVE h[k] = F[k][h[k - 1]]
    <3>1. CASE k <= j
      <4>1. k \in 1 .. j /\ h[k] = g[k] /\ h[k - 1] = g[k - 1]
        BY <3>1
      <4> QED BY <4>1, <2>1
    <3>2. CASE k = j + 1
      BY <3>2
    <3> QED BY <3>1, <3>2
  <2> HIDE DEF h
  <2> QED BY <2>3, <2>4
<1> DEFINE K == {k \in 0 .. n : Runs(k)}
<1> HIDE DEF Runs
<1>3. ASSUME NEW k \in 1 .. n, k - 1 \in K PROVE k \in K
  <2>1. k - 1 \in 0 .. n - 1 /\ (k - 1) + 1 = k
    OBVIOUS
  <2> QED BY <1>2, <1>3, <2>1
<1>4. 0 \in K
  BY <1>1
<1>5. n \in K
  <2> HIDE DEF K
  <2> QED BY <1>3, <1>4, Counting
<1> QED BY <1>5 DEF Runs

-----------------------------------------------------------------------------
(* Numbers. *)

(* Quotient and remainder of an integer.                                    *)
LEMMA DivMod ==
  ASSUME NEW n \in Int, NEW m \in Nat \ {0}
  PROVE  /\ n \div m \in Int
         /\ n % m \in 0 .. m - 1
         /\ n = (m * (n \div m)) + (n % m)
  OBVIOUS

(* There is only one such pair of quotient and remainder.                   *)
LEMMA DivModUnique ==
  ASSUME NEW q \in Int, NEW m \in Nat \ {0}, NEW r \in 0 .. m - 1
  PROVE  /\ ((m * q) + r) % m = r
         /\ ((m * q) + r) \div m = q
  OBVIOUS

(* A number less than m is its own remainder.                               *)
LEMMA ModSmall ==
  ASSUME NEW m \in Nat \ {0}, NEW r \in 0 .. m - 1
  PROVE  r % m = r /\ r \div m = 0
  OBVIOUS

(* The powers of two, which the model has as a recursive function.          *)
LEMMA TwoToDef ==
  /\ TwoTo \in [Nat -> Nat \ {0}]
  /\ TwoTo[0] = 1
  /\ \A n \in Nat : TwoTo[n + 1] = 2 * TwoTo[n]
<1> DEFINE T == Nat \ {0}
           Double == [t \in T |-> 2 * t]
           Run(n, g) == /\ g \in [0 .. n -> T] /\ g[0] = 1
                        /\ \A k \in 1 .. n : g[k] = 2 * g[k - 1]
           Powers(f) == f = [n \in Nat |-> IF n = 0 THEN 1 ELSE 2 * f[n - 1]]
<1>1. ASSUME NEW n \in Nat PROVE \E g : Run(n, g)
  <2> DEFINE F == [k \in 1 .. n |-> Double]
             a == 1
  <2>1. F \in Rounds(n, T) /\ a \in T
    BY DEF Rounds
  <2>2. PICK g \in [0 .. n -> T] : g[0] = a /\ \A k \in 1 .. n : g[k] = F[k][g[k - 1]]
    <3> HIDE DEF F, T, a
    <3> QED BY <2>1, LoopRuns
  <2>3. ASSUME NEW k \in 1 .. n PROVE g[k] = 2 * g[k - 1]
    <3>1. k - 1 \in 0 .. n
      OBVIOUS
    <3>2. g[k - 1] \in T
      BY <2>2, <3>1
    <3>3. F[k] = Double
      OBVIOUS
    <3>4. g[k] = Double[g[k - 1]]
      <4> HIDE DEF F, Double
      <4> QED BY <2>2, <3>3
    <3> QED BY <3>2, <3>4
  <2>4. Run(n, g)
    BY <2>2, <2>3
  <2> QED BY <2>4
<1> DEFINE run == [n \in Nat |-> CHOOSE g : Run(n, g)]
<1>2. ASSUME NEW n \in Nat PROVE Run(n, run[n])
  <2> HIDE DEF Run
  <2> QED BY <1>1
<1>3. ASSUME NEW n \in Nat, NEW m \in Nat, n <= m PROVE run[n][n] = run[m][n]
  <2> DEFINE K == {k \in 0 .. n : run[n][k] = run[m][k]}
  <2> HIDE DEF run
  <2>1. 0 \in K
    BY <1>2
  <2>2. ASSUME NEW k \in 1 .. n, k - 1 \in K PROVE k \in K
    <3>1. run[n][k] = 2 * run[n][k - 1] /\ k \in 1 .. m
      BY <1>2, <1>3
    <3>2. run[m][k] = 2 * run[m][k - 1]
      BY <1>2, <3>1
    <3> QED BY <2>2, <3>1, <3>2
  <2>3. n \in K
    <3> HIDE DEF K
    <3> QED BY <2>1, <2>2, Counting
  <2> QED BY <2>3
<1> DEFINE h == [n \in Nat |-> run[n][n]]
<1> HIDE DEF run
<1>4. ASSUME NEW n \in Nat PROVE h[n] \in T
  BY <1>2
<1>5. h[0] = 1
  BY <1>2
<1>6. ASSUME NEW n \in Nat, n # 0 PROVE h[n] = 2 * h[n - 1]
  <2>1. n - 1 \in Nat /\ n - 1 <= n /\ n \in 1 .. n
    BY <1>6
  <2>2. run[n][n] = 2 * run[n][n - 1]
    BY <1>2, <2>1
  <2>3. run[n - 1][n - 1] = run[n][n - 1]
    BY <1>3, <2>1
  <2> QED BY <2>1, <2>2, <2>3
<1>7. Powers(h)
  <2>1. ASSUME NEW n \in Nat PROVE h[n] = IF n = 0 THEN 1 ELSE 2 * h[n - 1]
    BY <1>5, <1>6
  <2>2. h = [n \in Nat |-> h[n]]
    OBVIOUS
  <2> HIDE DEF h
  <2> QED BY <2>1, <2>2
<1>8. Powers(TwoTo)
  <2>1. TwoTo = CHOOSE f : Powers(f)
    BY DEF TwoTo
  <2>2. \E f : Powers(f)
    BY <1>7
  <2> HIDE DEF Powers
  <2> QED BY <2>1, <2>2
<1>9. /\ TwoTo[0] = 1
      /\ \A n \in Nat \ {0} : TwoTo[n] = 2 * TwoTo[n - 1]
  BY <1>8
<1>10. ASSUME NEW n \in Nat PROVE TwoTo[n] \in T
  <2> DEFINE K == {k \in 0 .. n : TwoTo[k] \in T}
  <2>1. 0 \in K
    BY <1>9
  <2>2. ASSUME NEW k \in 1 .. n, k - 1 \in K PROVE k \in K
    BY <1>9, <2>2
  <2>3. n \in K
    <3> HIDE DEF K
    <3> QED BY <2>1, <2>2, Counting
  <2> QED BY <2>3
<1>11. ASSUME NEW n \in Nat PROVE TwoTo[n + 1] = 2 * TwoTo[n]
  <2>1. n + 1 \in Nat \ {0} /\ (n + 1) - 1 = n
    OBVIOUS
  <2> QED BY <1>9, <2>1
<1>12. TwoTo \in [Nat -> T]
  <2>1. TwoTo = [n \in Nat |-> TwoTo[n]]
    BY <1>8
  <2> QED BY <1>10, <2>1
<1> QED BY <1>9, <1>11, <1>12

(* They grow.                                                               *)
LEMMA TwoToGrows ==
  ASSUME NEW n \in Nat, NEW m \in Nat, n <= m
  PROVE  TwoTo[n] <= TwoTo[m] /\ n < TwoTo[n]
<1> DEFINE d == m - n
           K == {k \in 0 .. d : TwoTo[n] <= TwoTo[n + k]}
           L == {k \in 0 .. n : k < TwoTo[k]}
<1>1. d \in Nat /\ 0 \in K /\ 0 \in L
  BY TwoToDef
<1>2. ASSUME NEW k \in 1 .. d, k - 1 \in K PROVE k \in K
  <2>1. n + (k - 1) \in Nat /\ (n + (k - 1)) + 1 = n + k
    OBVIOUS
  <2>2. TwoTo[n + k] = 2 * TwoTo[n + (k - 1)] /\ TwoTo[n + (k - 1)] \in Nat
    BY <2>1, TwoToDef
  <2> QED BY <1>2, <2>1, <2>2, TwoToDef
<1>3. ASSUME NEW k \in 1 .. n, k - 1 \in L PROVE k \in L
  <2>1. k - 1 \in Nat /\ (k - 1) + 1 = k
    OBVIOUS
  <2>2. TwoTo[k] = 2 * TwoTo[k - 1] /\ TwoTo[k - 1] \in Nat \ {0}
    BY <2>1, TwoToDef
  <2> QED BY <1>3, <2>1, <2>2
<1>4. d \in K
  <2> HIDE DEF K, d
  <2> QED BY <1>1, <1>2, Counting
<1>5. n \in L
  <2> HIDE DEF L
  <2> QED BY <1>1, <1>3, Counting
<1> QED BY <1>4, <1>5

-----------------------------------------------------------------------------
(* Bits. *)

(* One more bit of a number.                                                *)
LEMMA NextBit ==
  ASSUME NEW number \in Nat, NEW k \in Nat
  PROVE  number % TwoTo[k + 1] =
           (number % TwoTo[k])
             + (IF (number \div TwoTo[k]) % 2 = 1 THEN TwoTo[k] ELSE 0)
<1> DEFINE m == TwoTo[k]
           q == number \div m
           r == number % m
           s == q \div 2
           t == q % 2
<1>1. m \in Nat \ {0} /\ TwoTo[k + 1] = 2 * m
  BY TwoToDef
<1> HIDE DEF m
<1>2. q \in Int /\ r \in 0 .. m - 1 /\ number = (m * q) + r
  <2>1. number \in Int
    OBVIOUS
  <2> HIDE DEF s, t
  <2> QED BY <1>1, <2>1, DivMod
<1>3. s \in Int /\ t \in 0 .. 1 /\ q = (2 * s) + t
  <2>1. 2 \in Nat \ {0}
    OBVIOUS
  <2> HIDE DEF q
  <2> QED BY <1>2, <2>1, DivMod
<1> HIDE DEF q, r, s, t
<1> DEFINE w == 2 * m
           x == (IF t = 1 THEN m ELSE 0) + r
<1>4. w \in Nat \ {0} /\ x \in 0 .. w - 1
  BY <1>1, <1>2, <1>3
<1>5. m * q = (w * s) + (m * t)
  BY <1>1, <1>3
<1>6. m * t = IF t = 1 THEN m ELSE 0
  BY <1>1, <1>3
<1>7. number = (w * s) + x
  BY <1>1, <1>2, <1>3, <1>4, <1>5, <1>6
<1>8. number % w = x
  <2> HIDE DEF w, x
  <2> QED BY <1>3, <1>4, <1>7, DivModUnique
<1>9. number % TwoTo[k + 1] = r + (IF t = 1 THEN m ELSE 0)
  BY <1>1, <1>2, <1>8
<1> QED BY <1>9 DEF m, q, r, t

(* The loop of ReadBits: what it has after k bits.                          *)
LEMMA PopFrontRuns ==
  ASSUME NEW p, NEW n \in Nat
  PROVE  \E g : /\ g[0] = 0
                /\ \A k \in 1 .. n :
                     g[k] = g[k - 1]
                       + (IF p.cursor + k - 1 \in p.ones THEN TwoTo[k - 1] ELSE 0)
                /\ PopFront(p, n) = g[n]
<1> DEFINE Bit(k) == IF p.cursor + k - 1 \in p.ones THEN TwoTo[k - 1] ELSE 0
           Add(k) == [t \in Nat |-> t + Bit(k)]
           F == [k \in 1 .. n |-> Add(k)]
           Runs(g) == g = [k \in 0 .. n |-> IF k = 0 THEN 0
                             ELSE g[k - 1] + (IF p.cursor + k - 1 \in p.ones
                                              THEN TwoTo[k - 1] ELSE 0)]
           number == CHOOSE g : Runs(g)
<1>1. PopFront(p, n) = number[n]
  BY DEF PopFront
<1>2. ASSUME NEW k \in 1 .. n PROVE Bit(k) \in Nat
  <2>1. k - 1 \in Nat
    OBVIOUS
  <2> QED BY <2>1, TwoToDef
<1>3. ASSUME NEW k \in 1 .. n PROVE Add(k) \in [Nat -> Nat]
  <2> HIDE DEF Bit
  <2> QED BY <1>2
<1>4. F \in Rounds(n, Nat)
  <2> HIDE DEF Add
  <2> QED BY <1>3 DEF Rounds
<1>5. PICK g \in [0 .. n -> Nat] : g[0] = 0 /\ \A k \in 1 .. n : g[k] = F[k][g[k - 1]]
  <2> HIDE DEF F
  <2>1. PICK zero \in Nat : zero = 0
    OBVIOUS
  <2>2. \E g \in [0 .. n -> Nat] :
          g[0] = zero /\ \A k \in 1 .. n : g[k] = F[k][g[k - 1]]
    <3>1. F \in Rounds(n, Nat) /\ zero \in Nat
      BY <1>4
    <3> DEFINE T == Nat
    <3>2. F \in Rounds(n, T) /\ zero \in T
      BY <3>1
    <3>3. \E h \in [0 .. n -> T] :
            h[0] = zero /\ \A k \in 1 .. n : h[k] = F[k][h[k - 1]]
      <4> HIDE DEF T
      <4> QED BY <3>2, LoopRuns
    <3> QED BY <3>3
  <2> QED BY <2>1, <2>2
<1>6. ASSUME NEW k \in 1 .. n PROVE g[k] = g[k - 1] + Bit(k)
  <2>1. k - 1 \in 0 .. n
    OBVIOUS
  <2>2. g[k - 1] \in Nat
    BY <1>5, <2>1
  <2>3. F[k] = Add(k)
    OBVIOUS
  <2>4. g[k] = Add(k)[g[k - 1]]
    <3> HIDE DEF F, Add
    <3> QED BY <1>5, <2>3
  <2> HIDE DEF Bit
  <2> QED BY <2>2, <2>4
<1>7. Runs(g)
  <2>1. g = [k \in 0 .. n |-> g[k]]
    BY <1>5
  <2>2. \A k \in 0 .. n : g[k] = IF k = 0 THEN 0 ELSE g[k - 1] + Bit(k)
    <3> HIDE DEF Bit
    <3> QED BY <1>5, <1>6
  <2> QED BY <2>1, <2>2
<1>8. Runs(number)
  <2> HIDE DEF Runs
  <2> QED BY <1>7
<1> HIDE DEF number
<1>9. number[0] = 0
  BY <1>8
<1>10. ASSUME NEW k \in 1 .. n PROVE number[k] = number[k - 1] + Bit(k)
  BY <1>8
<1> QED BY <1>1, <1>9, <1>10

(* Whatever the bits, they make a number.                                   *)
LEMMA PopFrontType ==
  ASSUME NEW p, NEW n \in Nat
  PROVE  PopFront(p, n) \in Nat
<1>1. PICK g : /\ g[0] = 0
               /\ \A k \in 1 .. n :
                    g[k] = g[k - 1]
                      + (IF p.cursor + k - 1 \in p.ones THEN TwoTo[k - 1] ELSE 0)
               /\ PopFront(p, n) = g[n]
  BY PopFrontRuns
<1> DEFINE K == {k \in 0 .. n : g[k] \in Nat}
<1>2. 0 \in K
  BY <1>1
<1>3. ASSUME NEW k \in 1 .. n, k - 1 \in K PROVE k \in K
  <2>1. k - 1 \in Nat /\ g[k - 1] \in Nat
    BY <1>3
  <2>2. TwoTo[k - 1] \in Nat
    BY <2>1, TwoToDef
  <2>3. g[k] \in Nat
    BY <1>1, <2>1, <2>2
  <2> QED BY <2>3
<1>4. n \in K
  <2> HIDE DEF K
  <2> QED BY <1>2, <1>3, Counting
<1> QED BY <1>1, <1>4

(* ReadBits gets the number that WriteBits pushed.                          *)
LEMMA PopsWhatWasPushed ==
  ASSUME NEW p, p.cursor \in Nat, NEW n \in Nat,
         NEW number \in Nat, number < TwoTo[n],
         \A i \in 0 .. n - 1 : p.cursor + i \in p.ones <=> i \in Ones(number, n)
  PROVE  PopFront(p, n) = number
<1>1. PICK g : /\ g[0] = 0
               /\ \A k \in 1 .. n :
                    g[k] = g[k - 1]
                      + (IF p.cursor + k - 1 \in p.ones THEN TwoTo[k - 1] ELSE 0)
               /\ PopFront(p, n) = g[n]
  BY PopFrontRuns
<1> DEFINE K == {k \in 0 .. n : g[k] = number % TwoTo[k]}
<1>2. 0 \in K
  BY <1>1, TwoToDef
<1>3. ASSUME NEW k \in 1 .. n, k - 1 \in K PROVE k \in K
  <2> DEFINE i == k - 1
  <2>1. i \in Nat /\ i \in 0 .. n - 1 /\ i + 1 = k
        /\ p.cursor + k - 1 = p.cursor + i
    OBVIOUS
  <2>2. p.cursor + i \in p.ones <=> (number \div TwoTo[i]) % 2 = 1
    BY <2>1 DEF Ones
  <2>3. g[i] = number % TwoTo[i]
    BY <1>3
  <2>4. g[k] = g[i] + (IF p.cursor + i \in p.ones THEN TwoTo[i] ELSE 0)
    BY <1>1, <2>1
  <2>5. number % TwoTo[i + 1] =
          (number % TwoTo[i])
            + (IF (number \div TwoTo[i]) % 2 = 1 THEN TwoTo[i] ELSE 0)
    BY <2>1, NextBit
  <2> HIDE DEF i
  <2>6. g[k] = number % TwoTo[k]
    BY <2>1, <2>2, <2>3, <2>4, <2>5
  <2> QED BY <2>6
<1>4. n \in K
  <2> HIDE DEF K
  <2> QED BY <1>2, <1>3, Counting
<1>5. number % TwoTo[n] = number
  <2>1. TwoTo[n] \in Nat \ {0}
    BY TwoToDef
  <2> QED BY <2>1, ModSmall
<1> QED BY <1>1, <1>4, <1>5

(* BitsNeeded gives enough bits for every number of the range.              *)
LEMMA EnoughBits ==
  ASSUME NEW range \in Nat, range < TwoTo[WordBits]
  PROVE  /\ BitsNeeded(range) \in 1 .. WordBits
         /\ range < TwoTo[BitsNeeded(range)]
<1> USE BitPackAssumption
<1>1. CASE range = 0
  BY <1>1 DEF BitsNeeded
<1>2. CASE range # 0
  <2> DEFINE S == {k \in Nat : range < TwoTo[k]}
             Fits(k) == TwoTo[k - 1] <= range /\ range < TwoTo[k]
  <2>1. S \in SUBSET Nat /\ WordBits \in S
    OBVIOUS
  <2>2. PICK k \in S : \A j \in S : k <= j
    <3> HIDE DEF S
    <3> QED BY <2>1, LeastNumber
  <2>3. k \in 1 .. WordBits
    BY <1>2, <2>1, <2>2, TwoToDef
  <2>4. k - 1 \in Nat /\ k - 1 \notin S
    BY <2>2, <2>3
  <2>5. Fits(k)
    BY <2>2, <2>4, TwoToDef
  <2>6. BitsNeeded(range) = CHOOSE j \in 1 .. WordBits : Fits(j)
    BY <1>2 DEF BitsNeeded
  <2> HIDE DEF Fits
  <2>7. BitsNeeded(range) \in 1 .. WordBits /\ Fits(BitsNeeded(range))
    BY <2>3, <2>5, <2>6
  <2> QED BY <2>7 DEF Fits
<1> QED BY <1>1, <1>2


-----------------------------------------------------------------------------
(* Bytes. *)

(* The bytes it takes to hold so many bits.                                 *)
Filled(bits) == (bits + ByteBits - 1) \div ByteBits

(* They are the fewest that do.                                             *)
LEMMA FilledIs ==
  ASSUME NEW bits \in Nat, NEW n \in Int,
         bits <= ByteBits * n, ByteBits * n < bits + ByteBits
  PROVE  Filled(bits) = n
<1> USE BitPackAssumption
<1> DEFINE r == (bits + ByteBits - 1) - (ByteBits * n)
<1>1. r \in 0 .. ByteBits - 1 /\ bits + ByteBits - 1 = (ByteBits * n) + r
  OBVIOUS
<1>2. ByteBits \in Nat \ {0}
  OBVIOUS
<1> HIDE DEF r
<1>3. ((ByteBits * n) + r) \div ByteBits = n
  BY <1>1, <1>2, DivModUnique
<1> QED BY <1>1, <1>3 DEF Filled

(* The bounds the definition gives.                                         *)
LEMMA FilledBounds ==
  ASSUME NEW bits \in Nat
  PROVE  /\ Filled(bits) \in Nat
         /\ bits <= ByteBits * Filled(bits)
         /\ ByteBits * Filled(bits) < bits + ByteBits
<1> USE BitPackAssumption
<1> DEFINE x == bits + ByteBits - 1
<1>1. x \in Nat /\ ByteBits \in Nat \ {0} /\ Filled(bits) = x \div ByteBits
  BY DEF Filled
<1>2. /\ Filled(bits) \in Int /\ x % ByteBits \in 0 .. ByteBits - 1
      /\ x = (ByteBits * Filled(bits)) + (x % ByteBits)
  <2> HIDE DEF x
  <2> QED BY <1>1, DivMod
<1>3. bits <= ByteBits * Filled(bits) /\ ByteBits * Filled(bits) < bits + ByteBits
  BY <1>2
<1>4. Filled(bits) >= 0
  BY <1>2, <1>3
<1> QED BY <1>2, <1>3, <1>4

(* The last of them holds one, and none lies behind it.                     *)
LEMMA LastByte ==
  ASSUME NEW bits \in Nat
  PROVE  /\ Filled(bits) \in Nat /\ bits <= Filled(bits) * ByteBits
         /\ (Filled(bits) - 1) * ByteBits < bits
<1> USE BitPackAssumption
<1> DEFINE n == Filled(bits)
<1>1. n \in Nat /\ bits <= ByteBits * n /\ ByteBits * n < bits + ByteBits
  BY FilledBounds
<1> HIDE DEF n
<1>2. n * ByteBits = ByteBits * n /\ (n - 1) * ByteBits = (ByteBits * n) - ByteBits
  BY <1>1
<1> QED BY <1>1, <1>2 DEF n

(* One more bit takes a byte of its own if it is the first bit of one.      *)
LEMMA FilledByOne ==
  ASSUME NEW bits \in Nat
  PROVE  Filled(bits + 1) =
           Filled(bits) + (IF bits % ByteBits = 0 THEN 1 ELSE 0)
<1> USE BitPackAssumption
<1> DEFINE q == bits \div ByteBits
           r == bits % ByteBits
<1>1. /\ q \in Int /\ r \in 0 .. ByteBits - 1
      /\ bits = (ByteBits * q) + r
  OBVIOUS
<1> HIDE DEF q, r
<1>2. ByteBits * (q + 1) = (ByteBits * q) + ByteBits
  BY <1>1
<1>3. CASE r = 0
  <2>1. Filled(bits) = q
    BY <1>1, <1>3, FilledIs
  <2>2. Filled(bits + 1) = q + 1
    BY <1>1, <1>2, <1>3, FilledIs
  <2> QED BY <1>3, <2>1, <2>2 DEF r
<1>4. CASE r # 0
  <2>1. Filled(bits) = q + 1
    BY <1>1, <1>2, <1>4, FilledIs
  <2>2. Filled(bits + 1) = q + 1
    BY <1>1, <1>2, <1>4, FilledIs
  <2> QED BY <1>1, <1>4, <2>1, <2>2 DEF r
<1> QED BY <1>3, <1>4

(* PushBit counts a byte whenever it enters one, and so it counts the bytes *)
(* that hold the bits pushed.                                               *)
LEMMA EnteredBytes ==
  ASSUME NEW c \in Nat, NEW n \in Nat
  PROVE  LET entered == {k \in c .. c + n - 1 : k % ByteBits = 0}
         IN  /\ Cardinality(entered) \in Nat
             /\ Filled(c + n) = Filled(c) + Cardinality(entered)
<1> USE BitPackAssumption
<1> DEFINE E(j) == {k \in c .. c + j - 1 : k % ByteBits = 0}
           Counted(j) == /\ IsFiniteSet(E(j)) /\ Cardinality(E(j)) \in Nat
                         /\ Filled(c + j) = Filled(c) + Cardinality(E(j))
           K == {j \in 0 .. n : Counted(j)}
<1>1. 0 \in K
  <2>1. E(0) = {} /\ c + 0 = c
    OBVIOUS
  <2>2. Filled(c) \in Nat
    BY FilledBounds
  <2> HIDE DEF E
  <2> QED BY <2>1, <2>2, FS_EmptySet
<1>2. ASSUME NEW j \in 1 .. n, j - 1 \in K PROVE j \in K
  <2> DEFINE b == c + (j - 1)
  <2>1. b \in Nat /\ b + 1 = c + j /\ Counted(j - 1)
    BY <1>2
  <2>2. Filled(c + j) = Filled(b) + (IF b % ByteBits = 0 THEN 1 ELSE 0)
    <3> HIDE DEF b, Counted
    <3> QED BY <2>1, FilledByOne
  <2>3. E(j) = IF b % ByteBits = 0 THEN E(j - 1) \cup {b} ELSE E(j - 1)
    <3>1. c .. c + j - 1 = (c .. c + (j - 1) - 1) \cup {b}
      OBVIOUS
    <3> QED BY <3>1
  <2>4. b \notin E(j - 1)
    OBVIOUS
  <2>5. Filled(c) \in Nat
    BY FilledBounds
  <2>6. Counted(j)
    <3> HIDE DEF E
    <3>1. CASE b % ByteBits = 0
      <4>1. /\ IsFiniteSet(E(j - 1) \cup {b})
            /\ Cardinality(E(j - 1) \cup {b}) = Cardinality(E(j - 1)) + 1
        BY <2>1, <2>4, FS_AddElement
      <4> QED BY <2>1, <2>2, <2>3, <2>5, <3>1, <4>1
    <3>2. CASE b % ByteBits # 0
      BY <2>1, <2>2, <2>3, <2>5, <3>2
    <3> QED BY <3>1, <3>2
  <2> HIDE DEF Counted
  <2> QED BY <2>6
<1>3. n \in K
  <2> HIDE DEF K
  <2> QED BY <1>1, <1>2, Counting
<1> QED BY <1>3

(* A position as the numbers m_bytePos and m_bitPos that the code keeps.    *)
LEMMA Position ==
  ASSUME NEW c \in Nat
  PROVE  /\ m_bytePos([cursor |-> c]) \in Int /\ m_bytePos([cursor |-> c]) >= -1
         /\ m_bitPos([cursor |-> c]) \in 0 .. ByteBits - 1
         /\ c = (ByteBits * m_bytePos([cursor |-> c])) + m_bitPos([cursor |-> c]) + 1
<1> USE BitPackAssumption
<1> DEFINE q == (c - 1) \div ByteBits
           r == (c - 1) % ByteBits
<1>1. /\ q \in Int /\ r \in 0 .. ByteBits - 1
      /\ c - 1 = (ByteBits * q) + r
  OBVIOUS
<1>2. m_bytePos([cursor |-> c]) = q /\ m_bitPos([cursor |-> c]) = r
  BY DEF m_bytePos, m_bitPos
<1> HIDE DEF q, r
<1>3. q >= -1
  <2>1. ByteBits * q > -(2 * ByteBits)
    BY <1>1
  <2> QED BY <1>1, <2>1
<1>4. c = (ByteBits * q) + r + 1
  BY <1>1
<1> QED BY <1>1, <1>2, <1>3, <1>4

(* Where a block goes: as many bytes more as it has, behind the cursor and  *)
(* within the bytes counted, and beyond all that was written before if the  *)
(* data before it was byte aligned, as BitPack.h:42 asks, or rather if not  *)
(* only the first bit of a byte is used.                                    *)
LEMMA BlockPlace ==
  ASSUME NEW c \in Nat, NEW n \in Nat \ {0}, NEW kind
  PROVE  LET p     == [cursor |-> c]
             first == BlockByte(p) * ByteBits
             to    == BlockEnd(p, kind, n)
             all   == BlockEnd(p, "c08", n)
         IN  /\ BlockByte(p) \in Nat /\ to \in Nat /\ all \in Nat
             /\ c < to /\ to <= all
             /\ Filled(to) = Filled(c) + n
             /\ all = Filled(to) * ByteBits
             /\ first + (n * ByteBits) <= all
             /\ c % ByteBits # 1 => c <= first /\ first + (n * ByteBits) = all
<1> USE BitPackAssumption
<1> DEFINE p == [cursor |-> c]
           q == m_bytePos(p)
           r == m_bitPos(p)
           b == BlockByte(p)
           to == BlockEnd(p, kind, n)
           all == BlockEnd(p, "c08", n)
<1>1. /\ q \in Int /\ q >= -1 /\ r \in 0 .. ByteBits - 1
      /\ c = (ByteBits * q) + r + 1
  BY Position
<1>2. /\ b = q + (IF r = 0 THEN 0 ELSE 1)
      /\ to = ((q + n) * ByteBits) + (IF kind = "c08" THEN ByteBits ELSE 1)
      /\ all = ((q + n) * ByteBits) + ByteBits
  BY DEF BlockByte, BlockEnd
<1>3. c % ByteBits = 1 <=> r = 0
  <2>1. CASE r = ByteBits - 1
    <3> DEFINE o == q + 1
    <3> HIDE DEF q, r
    <3>1. c = ByteBits * o /\ o \in Int
      BY <1>1, <2>1
    <3>2. PICK z \in 0 .. ByteBits - 1 : z = 0
      OBVIOUS
    <3> HIDE DEF o
    <3>3. ((ByteBits * o) + z) % ByteBits = z
      BY <3>1, DivModUnique
    <3>4. c % ByteBits = 0
      BY <3>1, <3>2, <3>3
    <3> QED BY <2>1, <3>4
  <2>2. CASE r # ByteBits - 1
    <3> HIDE DEF q, r
    <3> DEFINE z == r + 1
    <3>1. z \in 0 .. ByteBits - 1 /\ c = (ByteBits * q) + z
      BY <1>1, <2>2
    <3> HIDE DEF z
    <3>2. c % ByteBits = z
      <4>1. q \in Int /\ z \in 0 .. ByteBits - 1 /\ ByteBits \in Nat \ {0}
        BY <1>1, <3>1
      <4>2. ((ByteBits * q) + z) % ByteBits = z
        BY <4>1, DivModUnique
      <4> QED BY <3>1, <4>2
    <3> QED BY <1>1, <3>2 DEF z
  <2> QED BY <2>1, <2>2
<1> HIDE DEF p, q, r, b, to, all
<1>4. /\ (q + n) * ByteBits = (ByteBits * q) + (n * ByteBits)
      /\ (q + n + 1) * ByteBits = (ByteBits * q) + (n * ByteBits) + ByteBits
      /\ (q + 1) * ByteBits = (ByteBits * q) + ByteBits
      /\ q * ByteBits = ByteBits * q
      /\ n * ByteBits >= ByteBits
  <2>1. (n - 1) * ByteBits >= 0
    BY <1>1
  <2>2. n * ByteBits = ((n - 1) * ByteBits) + ByteBits
    OBVIOUS
  <2> QED BY <1>1, <2>1, <2>2
<1>5. b \in Nat
  <2>1. r = 0 => q >= 0
    <3>1. ASSUME r = 0, q = -1 PROVE FALSE
      BY <1>1, <3>1
    <3> QED BY <1>1, <3>1
  <2> QED BY <1>1, <1>2, <2>1
<1>6. (q + n) * ByteBits \in Nat
  <2>1. q + n \in Nat
    BY <1>1
  <2> QED BY <2>1
<1>7. to \in Nat /\ all \in Nat /\ c < to /\ to <= all
  BY <1>1, <1>2, <1>4, <1>6
<1>8. Filled(to) = q + n + 1
  <2> DEFINE o == q + n + 1
  <2>1. ByteBits * o = ((q + n) * ByteBits) + ByteBits /\ o \in Int
    BY <1>1
  <2>2. to <= ByteBits * o /\ ByteBits * o < to + ByteBits
    BY <1>2, <1>6, <2>1
  <2> HIDE DEF o
  <2>3. Filled(to) = o
    BY <1>7, <2>1, <2>2, FilledIs
  <2> QED BY <2>3 DEF o
<1>9. Filled(c) = q + 1
  <2> DEFINE o == q + 1
  <2>1. ByteBits * o = (ByteBits * q) + ByteBits /\ o \in Int
    BY <1>1
  <2>2. c <= ByteBits * o /\ ByteBits * o < c + ByteBits
    BY <1>1, <2>1
  <2> HIDE DEF o
  <2>3. Filled(c) = o
    BY <2>1, <2>2, FilledIs
  <2> QED BY <2>3 DEF o
<1>10. all = Filled(to) * ByteBits /\ Filled(to) = Filled(c) + n
  BY <1>1, <1>2, <1>4, <1>8, <1>9
<1>11. (b * ByteBits) + (n * ByteBits) <= all
  BY <1>1, <1>2, <1>4
<1>12. r # 0 => c <= b * ByteBits /\ (b * ByteBits) + (n * ByteBits) = all
  BY <1>1, <1>2, <1>4
<1> QED BY <1>3, <1>5, <1>7, <1>10, <1>11, <1>12 DEF p, b, to, all

-----------------------------------------------------------------------------
(* Values. *)

(* The lesser of two numbers.                                               *)
LEMMA MinOfTwo ==
  ASSUME NEW a \in Int, NEW b \in Int
  PROVE  Min({a, b}) = IF a <= b THEN a ELSE b
<1> DEFINE least == IF a <= b THEN a ELSE b
           Least(x) == x \in {a, b} /\ \A y \in {a, b} : x <= y
<1>1. Least(least)
  OBVIOUS
<1>2. \A x : Least(x) => x = least
  OBVIOUS
<1>3. Min({a, b}) = CHOOSE x : Least(x)
  BY DEF Min
<1> HIDE DEF Least, least
<1>4. Min({a, b}) = least
  BY <1>1, <1>2, <1>3
<1> QED BY <1>4 DEF least

(* What the assumption says of one field.                                   *)
LEMMA FieldFacts ==
  ASSUME NEW f \in Fields
  PROVE  /\ f.size \in Nat \ {0}
         /\ f.size * ByteBits \in Nat \ {0}
         /\ IsBlock(f) => f.values \subseteq SUBSET (0 .. f.size * ByteBits - 1)
         /\ ~IsBlock(f) => ANumber(f)
<1> USE BitPackAssumption
<1>1. f.size \in Nat \ {0} /\ (ABlock(f) \/ ANumber(f))
  BY EncoderAssumption
<1>2. f.size * ByteBits \in Nat \ {0}
  <2>1. PICK n \in Nat : n = f.size /\ n # 0
    BY <1>1
  <2>2. n * ByteBits \in Nat /\ n * ByteBits # 0
    BY <2>1
  <2> QED BY <2>1, <2>2
<1> QED BY <1>1, <1>2 DEF ABlock, ANumber, IsBlock

(* The numbers of a field, as numbers.                                      *)
LEMMA NumberFacts ==
  ASSUME NEW f \in Fields, ~IsBlock(f)
  PROVE  LET m == TwoTo[f.size * ByteBits]
         IN  /\ m \in Nat \ {0} /\ m <= TwoTo[WordBits]
             /\ f.least \in Int
             /\ f.values \subseteq f.least .. f.least + m - 1
             /\ f.lo \in f.least .. f.least + m - 1
             /\ f.hi \in f.least .. f.least + m - 1
             /\ f.lo <= f.hi /\ f.hi - f.lo < m
             /\ f.overload \in {"signed", "unsigned", "float"}
             /\ f.overload = "unsigned" => f.least = 0
             /\ f.overload = "float" => f.bits \in Nat /\ f.lo < f.hi
<1>1. ANumber(f) /\ f.size * ByteBits \in Nat
  BY FieldFacts
<1> DEFINE n == f.size * ByteBits
           m == TwoTo[n]
<1>2. n \in Nat /\ WordBits \in Nat /\ n <= WordBits
  BY <1>1, BitPackAssumption DEF ANumber
<1> HIDE DEF n
<1>3. m \in Nat \ {0} /\ m <= TwoTo[WordBits]
  BY <1>2, TwoToDef, TwoToGrows
<1>4. /\ f.least \in Int /\ f.values \subseteq f.least .. f.least + m - 1
      /\ f.lo \in f.least .. f.least + m - 1
      /\ f.hi \in f.least .. f.least + m - 1
      /\ f.lo <= f.hi
      /\ f.overload \in {"signed", "unsigned", "float"}
      /\ f.overload = "unsigned" => f.least = 0
  BY <1>1 DEF ANumber, TypeOf, n
<1>5. f.hi - f.lo < m
  BY <1>3, <1>4
<1>6. f.overload = "float" => f.bits \in Nat /\ f.lo < f.hi
  BY <1>1 DEF ANumber
<1> QED BY <1>3, <1>4, <1>5, <1>6 DEF n

(* A value of a type is itself after the conversion to the type, and so is  *)
(* the number made of its bits.                                             *)
LEMMA TypedBack ==
  ASSUME NEW f \in Fields, ~IsBlock(f),
         NEW x \in f.least .. f.least + TwoTo[f.size * ByteBits] - 1
  PROVE  /\ Typed(f, x) = x
         /\ Typed(f, x % TwoTo[f.size * ByteBits]) = x
<1> DEFINE m == TwoTo[f.size * ByteBits]
           d == x - f.least
           k == x \div m
           r == x % m
<1>1. m \in Nat \ {0} /\ f.least \in Int
  BY NumberFacts
<1>2. \A y : Typed(f, y) = ((y - f.least) % m) + f.least
  BY DEF Typed
<1>3. x \in f.least .. f.least + m - 1
  OBVIOUS
<1> HIDE DEF m
<1>4. x \in Int /\ d \in 0 .. m - 1
  BY <1>1, <1>3
<1>5. d % m = d
  <2> HIDE DEF d
  <2> QED BY <1>1, <1>4, ModSmall
<1>6. k \in Int /\ r \in 0 .. m - 1 /\ x = (m * k) + r
  <2> HIDE DEF d
  <2> QED BY <1>1, <1>4, DivMod
<1> HIDE DEF k, r
<1> DEFINE o == -k
<1>7. o \in Int /\ m * o = -(m * k)
  BY <1>1, <1>6
<1>8. r - f.least = (m * o) + d
  BY <1>1, <1>4, <1>6, <1>7
<1>9. ((m * o) + d) % m = d
  <2> HIDE DEF o, d
  <2> QED BY <1>1, <1>4, <1>7, DivModUnique
<1>10. (d % m) + f.least = x
  BY <1>1, <1>4, <1>5
<1>11. Typed(f, x) = x
  BY <1>2, <1>10
<1>12. Typed(f, r) = x
  <2>1. Typed(f, r) = ((r - f.least) % m) + f.least
    BY <1>2
  <2>2. (r - f.least) % m = d
    BY <1>8, <1>9
  <2> QED BY <1>1, <1>4, <2>1, <2>2
<1> QED BY <1>11, <1>12 DEF m, r

(* The width of a field takes every step of a float and every distance of   *)
(* an integer from the minimum.                                             *)
LEMMA WidthFits ==
  ASSUME NEW f \in Fields, ~IsBlock(f)
  PROVE  /\ Width(f) \in 1 .. WordBits
         /\ f.overload = "float" =>
              Steps(f.bits) \in Nat /\ Steps(f.bits) < TwoTo[Width(f)]
         /\ f.overload # "float" => f.hi - f.lo < TwoTo[Width(f)]
<1> USE BitPackAssumption
<1>1. CASE f.overload = "float"
  <2> DEFINE range == Steps(f.bits)
  <2>1. f.bits \in Nat
    BY <1>1, NumberFacts
  <2> DEFINE b == f.bits % IntBits
  <2>2. b \in Nat /\ b <= WordBits
    <3>1. IntBits \in Nat \ {0} /\ IntBits <= WordBits
      BY DEF IntBits
    <3>2. b \in 0 .. IntBits - 1
      <4>1. \A n \in Int, m \in Nat \ {0} : n % m \in 0 .. m - 1
        BY DivMod
      <4>2. f.bits \in Int
        BY <2>1
      <4> QED BY <3>1, <4>1, <4>2, Zenon
    <3> HIDE DEF b
    <3> QED BY <3>1, <3>2
  <2>3. range = TwoTo[b] - 1
    BY DEF Steps
  <2> HIDE DEF b
  <2>6. TwoTo[b] \in Nat \ {0} /\ TwoTo[b] <= TwoTo[WordBits] /\ TwoTo[WordBits] \in Nat
    BY <2>2, TwoToDef, TwoToGrows
  <2>4. range \in Nat /\ range < TwoTo[WordBits]
    <3> HIDE DEF range
    <3> QED BY <2>3, <2>6
  <2>5. Width(f) = BitsNeeded(range)
    BY <1>1 DEF Width
  <2> HIDE DEF range
  <2>7. Width(f) \in 1 .. WordBits /\ range < TwoTo[Width(f)]
    BY <2>4, <2>5, EnoughBits
  <2> QED BY <1>1, <2>4, <2>7 DEF range
<1>2. CASE f.overload # "float"
  <2> DEFINE range == f.hi - f.lo
             m == TwoTo[f.size * ByteBits]
  <2>1. /\ m \in Nat \ {0} /\ m <= TwoTo[WordBits] /\ f.least \in Int
        /\ f.lo \in f.least .. f.least + m - 1
        /\ f.hi \in f.least .. f.least + m - 1
        /\ f.lo <= f.hi /\ f.hi - f.lo < m
    BY NumberFacts
  <2> HIDE DEF m
  <2>2. range \in Nat /\ range < TwoTo[WordBits]
    BY <2>1, TwoToDef
  <2>3. Width(f) = BitsNeeded(range)
    BY <1>2 DEF Width
  <2> HIDE DEF range
  <2>4. Width(f) \in 1 .. WordBits /\ range < TwoTo[Width(f)]
    BY <2>2, <2>3, EnoughBits
  <2> QED BY <1>2, <2>4 DEF range
<1> QED BY <1>1, <1>2

(* An integer travels as its distance from the minimum, after it is put     *)
(* into the range.                                                          *)
LEMMA IntegerSerialized ==
  ASSUME NEW f \in Fields, f.overload \in {"signed", "unsigned"},
         NEW v \in f.values
  PROVE  /\ InRange(f, v) \in f.lo .. f.hi
         /\ Serialized(f, v) = InRange(f, v) - f.lo
<1> DEFINE m == TwoTo[f.size * ByteBits]
           w == TwoTo[WordBits]
           d == v - f.lo
           r == f.hi - f.lo
<1>0. ~IsBlock(f)
  BY DEF IsBlock
<1>1. /\ m \in Nat \ {0} /\ m <= w /\ f.least \in Int
      /\ v \in f.least .. f.least + m - 1
      /\ f.lo \in f.least .. f.least + m - 1
      /\ f.hi \in f.least .. f.least + m - 1
      /\ f.lo <= f.hi
      /\ f.overload = "unsigned" => f.least = 0
  BY <1>0, NumberFacts
<1>2. w \in Nat \ {0}
  BY TwoToDef, BitPackAssumption
<1> HIDE DEF m, w
<1>3. v \in Int /\ f.lo \in Int /\ f.hi \in Int /\ d \in Int /\ r \in Nat
  BY <1>1
<1>4. InRange(f, v) \in f.lo .. f.hi
  BY <1>1, <1>3 DEF InRange
<1>5. CASE f.overload = "signed"
  <2>1. Serialized(f, v) = IF v < f.lo THEN 0 ELSE Min({d, r})
    BY <1>5 DEF Serialized, Signed
  <2>2. Min({d, r}) = IF d <= r THEN d ELSE r
    <3> HIDE DEF d, r
    <3> QED BY <1>3, MinOfTwo
  <2>3. InRange(f, v) = IF v < f.lo THEN f.lo ELSE IF v > f.hi THEN f.hi ELSE v
    BY <1>5 DEF InRange
  <2>4. Serialized(f, v) = InRange(f, v) - f.lo
    <3> HIDE DEF InRange
    <3> QED BY <1>3, <2>1, <2>2, <2>3
  <2> QED BY <1>4, <2>4
<1>6. CASE f.overload = "unsigned"
  <2>1. Serialized(f, v) = Min({d % w, r})
    BY <1>6 DEF Serialized, Unsigned, w
  <2>2. d % w \in 0 .. w - 1
    <3> HIDE DEF d
    <3> QED BY <1>2, <1>3, DivMod
  <2>3. Min({d % w, r}) = IF d % w <= r THEN d % w ELSE r
    <3> DEFINE x == d % w
    <3>1. x \in Int
      BY <2>2
    <3> HIDE DEF x, r
    <3> QED BY <1>3, <3>1, MinOfTwo DEF x
  <2>4. InRange(f, v) = IF v < f.lo THEN f.hi ELSE IF v > f.hi THEN f.hi ELSE v
    BY <1>6 DEF InRange
  <2>5. v \in 0 .. w - 1 /\ f.lo \in 0 .. w - 1 /\ f.hi \in 0 .. w - 1
    BY <1>1, <1>2, <1>6
  <2>6. CASE v >= f.lo
    <3>1. d \in 0 .. w - 1
      BY <1>2, <1>3, <2>5, <2>6
    <3>2. d % w = d
      <4> HIDE DEF d
      <4> QED BY <1>2, <3>1, ModSmall
    <3> QED BY <1>3, <1>4, <2>1, <2>3, <2>4, <2>6, <3>2
  <2>7. CASE v < f.lo
    <3> DEFINE o == -1
               e == w + d
    <3>1. o \in Int /\ e \in 0 .. w - 1 /\ d = (w * o) + e
      BY <1>2, <2>5, <2>7
    <3>2. ((w * o) + e) % w = e
      <4> HIDE DEF o, e
      <4> QED BY <1>2, <3>1, DivModUnique
    <3>3. d % w = e
      <4> HIDE DEF o, e, d
      <4> QED BY <3>1, <3>2
    <3>4. e >= r
      BY <1>2, <1>3, <2>5, <2>7
    <3>5. Serialized(f, v) = r
      BY <1>3, <2>1, <2>2, <2>3, <3>3, <3>4
    <3> QED BY <1>3, <1>4, <2>4, <2>7, <3>5
  <2> QED BY <1>3, <2>6, <2>7
<1> QED BY <1>5, <1>6

(* A float travels as one of its steps, however the roundings go.           *)
LEMMA FloatSerialized ==
  ASSUME NEW f \in Fields, f.overload = "float", NEW v \in f.values
  PROVE  Serialized(f, v) \in 0 .. Steps(f.bits)
<1> DEFINE s == Steps(f.bits)
<1>1. s \in Nat
  BY WidthFits DEF IsBlock
<1>2. ASSUME NEW n PROVE InInt(n) \in Int
  <2>1. IntBits - 1 \in Nat
    BY BitPackAssumption DEF IntBits
  <2>2. TwoTo[IntBits - 1] \in Nat
    BY <2>1, TwoToDef
  <2> QED BY <2>2 DEF InInt
<1>3. ASSUME NEW x \in Int PROVE Signed(x, 0, s) \in 0 .. s
  <2> HIDE DEF s
  <2>1. Signed(x, 0, s) = IF x < 0 THEN 0 ELSE Min({x, s})
    <3>1. x - 0 = x /\ s - 0 = s
      BY <1>1
    <3> QED BY <3>1 DEF Signed
  <2>2. Min({x, s}) = IF x <= s THEN x ELSE s
    BY <1>1, MinOfTwo
  <2> QED BY <1>1, <2>1, <2>2
<1>4. Serialized(f, v) = SerializeFloat(v, f.lo, f.hi, f.bits)
  BY DEF Serialized
<1>5. \E n : SerializeFloat(v, f.lo, f.hi, f.bits) = Signed(InInt(n), 0, s)
  BY DEF SerializeFloat
<1> HIDE DEF s
<1> QED BY <1>2, <1>3, <1>4, <1>5 DEF s

(* What Kept says, as a formula of constants. Of a float that is packed it  *)
(* says nothing.                                                            *)
KeptBy(packing, f, v, result) ==
  IF IsBlock(f) \/ ~packing THEN result = v
  ELSE f.overload # "float" => result = InRange(f, v)

(* The number that travels fits the width, and the value made of it is the  *)
(* one kept.                                                                *)
LEMMA SerializedKept ==
  ASSUME NEW f \in Fields, ~IsBlock(f), NEW v \in f.values
  PROVE  /\ Serialized(f, v) \in Nat
         /\ Serialized(f, v) < TwoTo[Width(f)]
         /\ KeptBy(TRUE, f, v, Restored(f, Serialized(f, v)))
<1>1. f.overload \in {"signed", "unsigned", "float"}
  BY NumberFacts
<1> DEFINE n == Serialized(f, v)
           w == TwoTo[Width(f)]
<1>2. w \in Nat
  BY WidthFits, TwoToDef
<1>3. CASE f.overload = "float"
  <2>1. Steps(f.bits) \in Nat /\ Steps(f.bits) < w
    BY <1>3, WidthFits
  <2>2. n \in 0 .. Steps(f.bits)
    BY <1>3, FloatSerialized
  <2>3. n \in Nat /\ n < w
    <3> HIDE DEF n, w
    <3> QED BY <1>2, <2>1, <2>2
  <2>4. KeptBy(TRUE, f, v, Restored(f, n))
    BY <1>3 DEF KeptBy
  <2> QED BY <2>3, <2>4
<1>4. CASE f.overload # "float"
  <2>1. f.overload \in {"signed", "unsigned"}
    BY <1>1, <1>4
  <2>2. InRange(f, v) \in f.lo .. f.hi /\ n = InRange(f, v) - f.lo
    BY <2>1, IntegerSerialized
  <2> DEFINE m == TwoTo[f.size * ByteBits]
  <2>3. /\ m \in Nat \ {0} /\ f.least \in Int
        /\ f.lo \in f.least .. f.least + m - 1
        /\ f.hi \in f.least .. f.least + m - 1
    BY NumberFacts
  <2>4. f.hi - f.lo < w
    BY <1>4, WidthFits
  <2> DEFINE x == InRange(f, v)
  <2> HIDE DEF m, n, w, x
  <2>5. /\ x \in f.least .. f.least + m - 1 /\ n \in Nat /\ n < w
        /\ n + f.lo = x
    BY <1>2, <2>2, <2>3, <2>4 DEF x
  <2>6. Typed(f, x) = x
    BY <2>5, TypedBack DEF m
  <2>7. Restored(f, n) = x
    BY <1>4, <2>5, <2>6 DEF Restored
  <2>8. KeptBy(TRUE, f, v, x)
    BY <1>4 DEF KeptBy, x
  <2> QED BY <2>5, <2>7, <2>8 DEF n, w
<1> QED BY <1>3, <1>4

-----------------------------------------------------------------------------
(* Writes. *)

(* What is remembered of a write.                                           *)
Writes == UNION {[field : {f}, value : f.values, at : Nat] : f \in Fields}

(* Where a write leaves its bits: Span bits from Start on, of which those   *)
(* in Content are one; and the cursor behind it. A block is read as if the  *)
(* overload for c08 had written it.                                         *)
Span(packing, w) ==
  IF packing /\ ~IsBlock(w.field) THEN Width(w.field)
  ELSE w.field.size * ByteBits
Start(packing, w) ==
  IF packing /\ IsBlock(w.field)
  THEN BlockByte([cursor |-> w.at]) * ByteBits ELSE w.at
Content(packing, w) ==
  IF IsBlock(w.field) THEN w.value
  ELSE IF packing THEN Ones(Serialized(w.field, w.value), Width(w.field))
  ELSE Raw(w.field, w.value)
Behind(packing, w, kind) ==
  IF packing /\ IsBlock(w.field)
  THEN BlockEnd([cursor |-> w.at], kind, w.field.size)
  ELSE w.at + Span(packing, w)
WrittenTo(packing, w) == Behind(packing, w, w.field.overload)
ReadTo(packing, w) == Behind(packing, w, "c08")

Held(packing, ones, w) ==
  \A i \in 0 .. Span(packing, w) - 1 :
    Start(packing, w) + i \in ones <=> i \in Content(packing, w)

(* The two rules of KeepsToTheRules for one write.                          *)
ByteAligned(packing, w) ==
  (packing /\ IsBlock(w.field)) => w.at % ByteBits # 1
LeavesHalf(packing, w) == packing /\ w.field.overload = "u08"

(* The bits of the last byte that are still to come are zero.               *)
Clean(p) == \A b \in p.cursor .. (p.numBytes * ByteBits) - 1 : b \notin p.ones

(* A bit array, or the memory and the pointer into it.                      *)
Stores == [cursor : Nat, numBytes : Nat, ones : SUBSET Nat]

(* What one write does.                                                     *)
Laid(packing, p, q, w) ==
  /\ q \in Stores
  /\ q.cursor = WrittenTo(packing, w) /\ w.at < q.cursor
  /\ q.numBytes = Filled(q.cursor)
  /\ Start(packing, w) \in Nat
  /\ Start(packing, w) + Span(packing, w) <= q.numBytes * ByteBits
  /\ ReadTo(packing, w) \in Nat /\ ReadTo(packing, w) <= q.numBytes * ByteBits
  /\ \A b \in q.ones : b \in p.ones \/ b < q.numBytes * ByteBits
  /\ ByteAligned(packing, w) =>
       /\ Start(packing, w) <= p.numBytes * ByteBits
       /\ (q.numBytes - 1) * ByteBits < Start(packing, w) + Span(packing, w)
       /\ \A b \in Nat : b < w.at => (b \in q.ones <=> b \in p.ones)
       /\ Clean(p) => Held(packing, q.ones, w)
       /\ (Clean(p) /\ ~LeavesHalf(packing, w)) => Clean(q)
       /\ ~LeavesHalf(packing, w) =>
            /\ Start(packing, w) + Span(packing, w) <= q.cursor
            /\ ReadTo(packing, w) = q.cursor

(* The parts of a write.                                                    *)
LEMMA WriteParts ==
  ASSUME NEW w \in Writes
  PROVE  /\ w.field \in Fields /\ w.value \in w.field.values /\ w.at \in Nat
  BY DEF Writes

(* No bit that was there before is left in the bytes pushed to.             *)
LEMMA NothingLeft ==
  ASSUME NEW p \in Stores, NEW n \in Nat, Clean(p),
         p.numBytes = Filled(p.cursor),
         NEW b \in Nat, b >= p.cursor,
         b < Filled(p.cursor + n) * ByteBits, b \in p.ones
  PROVE  \E k \in p.cursor .. p.cursor + n - 1 :
           k % ByteBits = 0 /\ b \in k .. k + ByteBits - 1
<1> USE BitPackAssumption
<1> DEFINE c == p.cursor
           s == Filled(c)
           t == Filled(c + n)
           q == b \div ByteBits
           r == b % ByteBits
           k == ByteBits * q
<1>1. c \in Nat /\ c + n \in Nat
  BY DEF Stores
<1> HIDE DEF c
<1>2. /\ q \in Int /\ r \in 0 .. ByteBits - 1 /\ b = k + r /\ k \in Int
  <2>1. b \in Int /\ ByteBits \in Nat \ {0}
    OBVIOUS
  <2>2. q \in Int /\ r \in 0 .. ByteBits - 1 /\ b = (ByteBits * q) + r
    BY Zenon, <2>1, DivMod
  <2> HIDE DEF q, r
  <2> QED BY <2>2
<1>3. /\ s \in Nat /\ c <= ByteBits * s
      /\ t \in Nat /\ ByteBits * t < c + n + ByteBits
  <2>1. s \in Nat /\ c <= ByteBits * s
    BY <1>1, FilledBounds
  <2> DEFINE d == c + n
  <2>2. t \in Nat /\ ByteBits * t < d + ByteBits
    <3> HIDE DEF d
    <3> QED BY <1>1, FilledBounds DEF d
  <2> QED BY <2>1, <2>2
<1>4. b < ByteBits * t
  BY <1>3 DEF c
<1> HIDE DEF q, r, s, t
<1>5. k % ByteBits = 0
  <2>1. PICK z \in 0 .. ByteBits - 1 : z = 0
    OBVIOUS
  <2>2. ((ByteBits * q) + z) % ByteBits = z
    <3>1. ByteBits \in Nat \ {0}
      OBVIOUS
    <3> QED BY <1>2, <3>1, DivModUnique
  <2> QED BY <1>2, <2>1, <2>2
<1>6. k < c + n
  <2>1. q < t
    <3>1. ASSUME q >= t PROVE FALSE
      <4>1. ByteBits * (q - t) >= 0
        BY <1>2, <1>3, <3>1
      <4>2. ByteBits * (q - t) = (ByteBits * q) - (ByteBits * t)
        BY <1>2, <1>3
      <4> QED BY <1>2, <1>3, <1>4, <4>1, <4>2
    <3> QED BY <1>2, <1>3, <3>1
  <2>2. ByteBits * (t - (q + 1)) >= 0
    BY <1>2, <1>3, <2>1
  <2>3. ByteBits * (t - (q + 1)) = (ByteBits * t) - (ByteBits * q) - ByteBits
    BY <1>2, <1>3
  <2> QED BY <1>1, <1>2, <1>3, <2>2, <2>3
<1>7. k >= c
  <2>1. ASSUME k < c PROVE FALSE
    <3>1. q < s
      <4>1. ASSUME q >= s PROVE FALSE
        <5>1. ByteBits * (q - s) >= 0
          BY <1>2, <1>3, <4>1
        <5>2. ByteBits * (q - s) = (ByteBits * q) - (ByteBits * s)
          BY <1>2, <1>3
        <5> QED BY <1>1, <1>2, <1>3, <2>1, <5>1, <5>2
      <4> QED BY <1>2, <1>3, <4>1
    <3>2. ByteBits * (s - (q + 1)) >= 0
      BY <1>2, <1>3, <3>1
    <3>3. ByteBits * (s - (q + 1)) = (ByteBits * s) - (ByteBits * q) - ByteBits
      BY <1>2, <1>3
    <3>4. b < s * ByteBits
      BY <1>2, <1>3, <3>2, <3>3
    <3>5. b \in p.cursor .. (p.numBytes * ByteBits) - 1
      BY <1>1, <1>3, <3>4 DEF c, s
    <3> QED BY <3>5 DEF Clean
  <2> QED BY <1>1, <1>2, <2>1
<1>8. k \in c .. c + n - 1 /\ b \in k .. k + ByteBits - 1
  BY <1>1, <1>2, <1>6, <1>7
<1> QED BY <1>5, <1>8 DEF c

(* A value pushed bit by bit.                                               *)
LEMMA PushLaid ==
  ASSUME NEW p \in Stores, p.numBytes = Filled(p.cursor),
         NEW w \in Writes, ~IsBlock(w.field), w.at = p.cursor
  PROVE  Laid(TRUE, p,
              Push(p, Width(w.field),
                   Ones(Serialized(w.field, w.value), Width(w.field))), w)
<1> USE BitPackAssumption
<1> DEFINE n == Width(w.field)
           on == Ones(Serialized(w.field, w.value), n)
           c == p.cursor
           entered == {k \in c .. c + n - 1 : k % ByteBits = 0}
           cleared == UNION {k .. k + ByteBits - 1 : k \in entered}
           pushed == {c + i : i \in on}
           size == p.numBytes + Cardinality(entered)
           ones == (p.ones \ cleared) \cup pushed
           q == [cursor |-> c + n, numBytes |-> size, ones |-> ones]
<1>1. Push(p, n, on) = q
  BY DEF Push
<1>2. n \in 1 .. WordBits /\ n \in Nat /\ n # 0
  <2>1. w.field \in Fields
    BY WriteParts
  <2>2. n \in 1 .. WordBits
    BY <2>1, WidthFits
  <2> QED BY <2>2
<1>3. on \subseteq 0 .. n - 1
  BY DEF Ones
<1>4. c \in Nat /\ p.ones \subseteq Nat /\ p.numBytes = Filled(c) /\ w.at = c
  BY DEF Stores
<1> HIDE DEF n, on, c
<1>5. size \in Nat /\ size = Filled(c + n)
  <2>1. /\ Cardinality(entered) \in Nat
        /\ Filled(c + n) = Filled(c) + Cardinality(entered)
    BY <1>2, <1>4, EnteredBytes
  <2>2. Filled(c) \in Nat
    BY <1>4, FilledBounds
  <2> HIDE DEF entered
  <2> QED BY <1>4, <2>1, <2>2
<1>6. \A k \in entered : k \in Nat /\ k >= c
  BY <1>4
<1>7. c + n <= size * ByteBits
  <2> DEFINE d == c + n
  <2>1. d \in Nat
    BY <1>2, <1>4
  <2>2. Filled(d) \in Nat /\ d <= ByteBits * Filled(d)
    <3> HIDE DEF d
    <3> QED BY <2>1, FilledBounds
  <2> HIDE DEF size
  <2> QED BY <1>5, <2>2
<1> HIDE DEF size
<1>8. pushed \subseteq c .. c + n - 1
  BY <1>2, <1>3, <1>4
<1>9. ones \subseteq Nat
  BY <1>4, <1>8
<1>10. q \in Stores
  <2>1. c + n \in Nat
    BY <1>2, <1>4
  <2> HIDE DEF ones
  <2> QED BY <1>5, <1>9, <2>1 DEF Stores
<1>11. \A b \in ones : b \in p.ones \/ b < size * ByteBits
  <2> SUFFICES ASSUME NEW b \in pushed PROVE b < size * ByteBits
    OBVIOUS
  <2> HIDE DEF pushed
  <2>1. b \in c .. c + n - 1
    BY <1>8
  <2>2. size * ByteBits \in Nat
    BY <1>5
  <2> QED BY <1>2, <1>4, <1>7, <2>1, <2>2
<1>12. \A b \in Nat : b < c => (b \in ones <=> b \in p.ones)
  <2> SUFFICES ASSUME NEW b \in Nat, b < c PROVE b \in ones <=> b \in p.ones
    OBVIOUS
  <2>1. b \notin pushed
    BY <1>4, <1>8, <1>2
  <2>2. b \notin cleared
    <3> HIDE DEF entered
    <3> QED BY <1>4, <1>6
  <2> QED BY <2>1, <2>2
<1>13. ASSUME Clean(p), NEW b \in Nat, b >= c, b < size * ByteBits
       PROVE  b \in ones <=> b \in pushed
  <2>1. ASSUME b \in p.ones PROVE b \in cleared
    <3>1. b < Filled(c + n) * ByteBits
      BY <1>5, <1>13
    <3>2. \E k \in c .. c + n - 1 : k % ByteBits = 0 /\ b \in k .. k + ByteBits - 1
      BY <1>2, <1>4, <1>13, <2>1, <3>1, NothingLeft DEF c
    <3>3. \E k \in entered : b \in k .. k + ByteBits - 1
      BY <3>2
    <3> HIDE DEF entered
    <3> QED BY <3>3
  <2> QED BY <2>1
<1> HIDE DEF pushed, ones
<1>14. Span(TRUE, w) = n /\ Start(TRUE, w) = c /\ Content(TRUE, w) = on
       /\ \A kind : Behind(TRUE, w, kind) = c + n
  BY <1>4 DEF Span, Start, Content, Behind, n, on
<1>15. Clean(p) => Held(TRUE, ones, w)
  <2> SUFFICES ASSUME Clean(p), NEW i \in 0 .. n - 1
               PROVE  c + i \in ones <=> i \in on
    BY <1>14 DEF Held
  <2>1. c + i \in Nat /\ c + i >= c /\ c + i < c + n
    BY <1>2, <1>4
  <2>2. c + i < size * ByteBits
    BY <1>2, <1>4, <1>5, <1>7, <2>1
  <2>3. c + i \in ones <=> c + i \in pushed
    BY <1>13, <2>1, <2>2
  <2>4. c + i \in pushed <=> i \in on
    BY <1>3, <1>4, <1>2 DEF pushed
  <2> QED BY <2>3, <2>4
<1>16. ASSUME Clean(p), NEW b \in c + n .. (size * ByteBits) - 1
       PROVE  b \notin ones
  <2>1. b \in Nat /\ b >= c /\ b < size * ByteBits
    BY <1>2, <1>4, <1>5
  <2>2. b \notin pushed
    BY <1>2, <1>4, <1>8, <2>1 DEF pushed
  <2> QED BY <1>13, <1>16, <2>1, <2>2
<1>17. Clean(p) => Clean(q)
  BY <1>16 DEF Clean
<1>18. Laid(TRUE, p, q, w)
  <2>1. /\ q.cursor = c + n /\ q.numBytes = size /\ q.ones = ones
    OBVIOUS
  <2>2. WrittenTo(TRUE, w) = c + n /\ ReadTo(TRUE, w) = c + n
    BY <1>14 DEF WrittenTo, ReadTo
  <2>3. c < c + n /\ c + n \in Nat
    BY <1>2, <1>4
  <2> HIDE DEF q
  <2>4. /\ q.cursor = WrittenTo(TRUE, w) /\ ReadTo(TRUE, w) = q.cursor
        /\ ReadTo(TRUE, w) \in Nat
    BY <2>1, <2>2, <2>3
  <2>8. w.at < q.cursor /\ Start(TRUE, w) \in Nat
    BY <1>4, <1>14, <2>1, <2>3
  <2>9. q.numBytes = Filled(q.cursor)
    BY <1>5, <2>1
  <2> DEFINE end == c + n
             full == size * ByteBits
  <2>10. end \in Nat /\ full \in Nat /\ end <= full
    BY <1>5, <1>7, <2>3
  <2>11. /\ Start(TRUE, w) + Span(TRUE, w) = end /\ ReadTo(TRUE, w) = end
         /\ q.cursor = end
    BY <1>14, <2>1, <2>2
  <2>13. q.numBytes * ByteBits = full
    BY <2>1
  <2>12. /\ Start(TRUE, w) + Span(TRUE, w) <= q.cursor
         /\ Start(TRUE, w) + Span(TRUE, w) <= q.numBytes * ByteBits
         /\ ReadTo(TRUE, w) <= q.numBytes * ByteBits
    <3> HIDE DEF end, full
    <3>1. end <= end /\ end <= full
      BY <2>10
    <3> QED BY <2>11, <2>13, <3>1
  <2>5. \A b \in q.ones : b \in p.ones \/ b < q.numBytes * ByteBits
    BY <1>11, <2>1
  <2>6. \A b \in Nat : b < w.at => (b \in q.ones <=> b \in p.ones)
    BY <1>4, <1>12, <2>1
  <2>7. Clean(p) => Held(TRUE, q.ones, w)
    BY <1>15, <2>1
  <2>14. c <= Filled(c) * ByteBits
    BY <1>4, LastByte
  <2>15. (Filled(end) - 1) * ByteBits < end
    <3> HIDE DEF end
    <3> QED BY <2>10, LastByte
  <2>16. /\ Start(TRUE, w) <= p.numBytes * ByteBits
         /\ (q.numBytes - 1) * ByteBits < Start(TRUE, w) + Span(TRUE, w)
    BY <1>4, <1>5, <1>14, <2>1, <2>11, <2>14, <2>15
  <2> QED BY <1>10, <1>17, <2>4, <2>5, <2>6, <2>7, <2>8, <2>9, <2>12, <2>16
    DEF Laid
<1> QED BY <1>1, <1>18 DEF n, on

(* Bytes copied to the pointer, without packing.                            *)
LEMMA CopyLaid ==
  ASSUME NEW p \in Stores, p.numBytes = Filled(p.cursor),
         p.cursor = p.numBytes * ByteBits,
         NEW w \in Writes, w.at = p.cursor,
         Content(FALSE, w) \subseteq 0 .. w.field.size * ByteBits - 1
  PROVE  LET q == Copy(p, w.field.size, Content(FALSE, w))
         IN  Laid(FALSE, p, q, w) /\ q.cursor = q.numBytes * ByteBits
<1> USE BitPackAssumption
<1> DEFINE n == w.field.size
           on == Content(FALSE, w)
           c == p.cursor
           s == p.numBytes
           bits == n * ByteBits
           end == c + bits
           size == s + n
           copied == {c + i : i \in on}
           ones == (p.ones \ (c .. c + bits - 1)) \cup copied
           q == [cursor |-> end, numBytes |-> size, ones |-> ones]
<1>1. Copy(p, n, on) = q
  BY DEF Copy
<1>2. n \in Nat \ {0} /\ bits \in Nat \ {0}
  <2>1. w.field \in Fields
    BY WriteParts
  <2> QED BY <2>1, FieldFacts
<1>3. c \in Nat /\ s \in Nat /\ p.ones \subseteq Nat /\ w.at = c
      /\ c = s * ByteBits /\ on \subseteq 0 .. bits - 1
  BY DEF Stores
<1>4. Span(FALSE, w) = bits /\ Start(FALSE, w) = c
      /\ \A kind : Behind(FALSE, w, kind) = end
  BY <1>3 DEF Span, Start, Behind
<1> HIDE DEF n, on, c, s
<1>5. size \in Nat /\ size * ByteBits = end
  BY <1>2, <1>3
<1> HIDE DEF bits
<1>6. end \in Nat /\ c < end
  BY <1>2, <1>3
<1>7. Filled(end) = size
  <2>1. end <= ByteBits * size /\ ByteBits * size < end + ByteBits
    BY <1>5, <1>6
  <2> HIDE DEF end, size
  <2> QED BY <1>5, <1>6, <2>1, FilledIs
<1>8. copied \subseteq c .. c + bits - 1
  BY <1>2, <1>3
<1>9. ones \subseteq Nat
  BY <1>2, <1>3, <1>8
<1>10. q \in Stores
  <2> HIDE DEF ones, end, size
  <2> QED BY <1>5, <1>6, <1>9 DEF Stores
<1>11. \A b \in ones : b \in p.ones \/ b < end
  <2> SUFFICES ASSUME NEW b \in copied PROVE b < end
    OBVIOUS
  <2> HIDE DEF copied
  <2>1. b \in c .. c + bits - 1
    BY <1>8
  <2> QED BY <1>2, <1>3, <2>1
<1>12. \A b \in Nat : b < c => (b \in ones <=> b \in p.ones)
  <2> SUFFICES ASSUME NEW b \in Nat, b < c PROVE b \in ones <=> b \in p.ones
    OBVIOUS
  <2>1. b \notin copied /\ b \notin c .. c + bits - 1
    <3> HIDE DEF copied
    <3> QED BY <1>2, <1>3, <1>8
  <2> QED BY <2>1
<1>13. Held(FALSE, ones, w)
  <2> SUFFICES ASSUME NEW i \in 0 .. bits - 1
               PROVE  c + i \in ones <=> i \in on
    BY <1>4 DEF Held, on
  <2>1. c + i \in c .. c + bits - 1
    BY <1>2, <1>3
  <2>2. c + i \in copied <=> i \in on
    BY <1>2, <1>3
  <2> QED BY <2>1, <2>2
<1> HIDE DEF ones, copied
<1>14. Clean(q)
  <2>1. \A b : b \notin end .. (size * ByteBits) - 1
    <3> HIDE DEF size
    <3> QED BY <1>5, <1>6
  <2> QED BY <2>1 DEF Clean
<1>15. Laid(FALSE, p, q, w)
  <2>1. q.cursor = end /\ q.numBytes = size /\ q.ones = ones
    OBVIOUS
  <2>2. WrittenTo(FALSE, w) = end /\ ReadTo(FALSE, w) = end
        /\ Start(FALSE, w) + Span(FALSE, w) = end
    BY <1>4 DEF WrittenTo, ReadTo
  <2>3. q.numBytes * ByteBits = end
    BY <1>5, <2>1
  <2> HIDE DEF q
  <2>4. end <= end /\ end \in Nat /\ c < end /\ c \in Nat
    BY <1>3, <1>6
  <2> HIDE DEF end, size
  <2>5. \A b \in q.ones : b \in p.ones \/ b < q.numBytes * ByteBits
    BY <1>11, <2>1, <2>3
  <2>6. \A b \in Nat : b < w.at => (b \in q.ones <=> b \in p.ones)
    BY <1>3, <1>12, <2>1
  <2>7. Held(FALSE, q.ones, w)
    BY <1>13, <2>1
  <2>8. /\ q.cursor = WrittenTo(FALSE, w) /\ w.at < q.cursor
        /\ q.numBytes = Filled(q.cursor)
        /\ Start(FALSE, w) \in Nat
        /\ Start(FALSE, w) + Span(FALSE, w) <= q.numBytes * ByteBits
        /\ ReadTo(FALSE, w) \in Nat
        /\ ReadTo(FALSE, w) <= q.numBytes * ByteBits
        /\ Start(FALSE, w) + Span(FALSE, w) <= q.cursor
        /\ ReadTo(FALSE, w) = q.cursor
    BY <1>3, <1>4, <1>7, <2>1, <2>2, <2>3, <2>4
  <2>9. c <= Filled(c) * ByteBits /\ (Filled(end) - 1) * ByteBits < end
    BY <2>4, LastByte
  <2>10. /\ Start(FALSE, w) <= p.numBytes * ByteBits
         /\ (q.numBytes - 1) * ByteBits < Start(FALSE, w) + Span(FALSE, w)
    <3>1. p.numBytes = Filled(c) /\ q.numBytes = Filled(end) /\ Start(FALSE, w) = c
      BY <1>4, <1>7, <2>1 DEF c
    <3> QED BY <2>2, <2>9, <3>1
  <2> QED BY <1>10, <1>14, <2>5, <2>6, <2>7, <2>8, <2>10 DEF Laid
<1>16. q.cursor = q.numBytes * ByteBits
  BY <1>5
<1> QED BY <1>1, <1>15, <1>16 DEF n, on

(* A block appended behind the byte of the cursor.                          *)
LEMMA AppendLaid ==
  ASSUME NEW p \in Stores, p.numBytes = Filled(p.cursor),
         NEW w \in Writes, IsBlock(w.field), w.at = p.cursor
  PROVE  Laid(TRUE, p, AppendData(p, w.field.overload, w.field.size, w.value), w)
<1> USE BitPackAssumption
<1> DEFINE kind == w.field.overload
           n == w.field.size
           on == w.value
           c == p.cursor
           s == p.numBytes
           bits == n * ByteBits
           block == BlockByte([cursor |-> c])
           first == block * ByteBits
           end == BlockEnd([cursor |-> c], kind, n)
           all == BlockEnd([cursor |-> c], "c08", n)
           size == s + n
           put == {first + i : i \in on}
           ones == (p.ones \ Bytes(block, n)) \cup put
           q == [cursor |-> end, numBytes |-> size, ones |-> ones]
<1>1. AppendData(p, kind, n, on) = q
  <2>1. BlockByte(p) = block /\ \A k : BlockEnd(p, k, n) = BlockEnd([cursor |-> c], k, n)
    BY DEF BlockByte, BlockEnd, m_bytePos, m_bitPos
  <2> QED BY <2>1 DEF AppendData
<1>2. /\ n \in Nat \ {0} /\ bits \in Nat \ {0} /\ on \subseteq 0 .. bits - 1
      /\ kind \in {"c08", "u08"}
  <2>1. w.field \in Fields /\ w.value \in w.field.values
    BY WriteParts
  <2> QED BY <2>1, FieldFacts DEF IsBlock
<1>3. c \in Nat /\ s \in Nat /\ p.ones \subseteq Nat /\ w.at = c /\ s = Filled(c)
  BY DEF Stores
<1>4. /\ Span(TRUE, w) = bits /\ Start(TRUE, w) = first /\ Content(TRUE, w) = on
      /\ WrittenTo(TRUE, w) = end /\ ReadTo(TRUE, w) = all
  BY <1>3 DEF Span, Start, Content, Behind, WrittenTo, ReadTo
<1> HIDE DEF n, on, c, s, kind
<1>5. /\ block \in Nat /\ end \in Nat /\ all \in Nat /\ c < end /\ end <= all
      /\ Filled(end) = Filled(c) + n
      /\ all = Filled(end) * ByteBits
      /\ first + bits <= all
      /\ c % ByteBits # 1 => c <= first /\ first + bits = all
  BY <1>2, <1>3, BlockPlace
<1>6. first \in Nat
  BY <1>5
<1>7. Bytes(block, n) = first .. first + bits - 1
  <2>1. (block + n) * ByteBits = first + bits
    BY <1>2, <1>5
  <2>2. Bytes(block, n) = block * ByteBits .. (block + n) * ByteBits - 1
    BY DEF Bytes
  <2> HIDE DEF block, bits
  <2> QED BY <1>2, <1>6, <2>1, <2>2
<1>8. kind = "c08" => end = all
  OBVIOUS
<1> HIDE DEF block, end, all, bits, first
<1>9. size \in Nat /\ size = Filled(end) /\ size * ByteBits = all
  BY <1>2, <1>3, <1>5
<1> HIDE DEF size
<1>10. put \subseteq first .. first + bits - 1
  BY <1>2, <1>6
<1>11. ones \subseteq Nat
  BY <1>2, <1>3, <1>6, <1>10
<1>12. q \in Stores
  <2> HIDE DEF ones
  <2> QED BY <1>5, <1>9, <1>11 DEF Stores
<1>13. \A b \in ones : b \in p.ones \/ b < all
  <2> SUFFICES ASSUME NEW b \in put PROVE b < all
    OBVIOUS
  <2> HIDE DEF put
  <2>1. b \in first .. first + bits - 1
    BY <1>10
  <2> QED BY <1>2, <1>5, <1>6, <2>1
<1>14. ASSUME c <= first, NEW b \in Nat, b < c
       PROVE  b \in ones <=> b \in p.ones
  <2>1. b \notin first .. first + bits - 1
    BY <1>2, <1>3, <1>6, <1>14
  <2>2. b \notin put /\ b \notin Bytes(block, n)
    <3> HIDE DEF put
    <3> QED BY <1>7, <1>10, <2>1
  <2> QED BY <2>2
<1>15. Held(TRUE, ones, w)
  <2> SUFFICES ASSUME NEW i \in 0 .. bits - 1
               PROVE  first + i \in ones <=> i \in on
    BY <1>4 DEF Held
  <2>1. first + i \in Bytes(block, n)
    BY <1>2, <1>6, <1>7
  <2>2. first + i \in put <=> i \in on
    BY <1>2, <1>6
  <2> QED BY <2>1, <2>2
<1> HIDE DEF ones, put
<1>16. ~LeavesHalf(TRUE, w) => end = all
  BY <1>2, <1>8 DEF LeavesHalf, kind
<1>17. end = all => Clean(q)
  <2> SUFFICES ASSUME end = all PROVE Clean(q)
    OBVIOUS
  <2>1. \A b : b \notin all .. all - 1
    BY <1>5
  <2> QED BY <1>9, <2>1 DEF Clean
<1>18. ByteAligned(TRUE, w) => c <= first /\ first + bits = all
  BY <1>3, <1>5 DEF ByteAligned
<1>19. Laid(TRUE, p, q, w)
  <2>1. q.cursor = end /\ q.numBytes = size /\ q.ones = ones
    OBVIOUS
  <2>2. q.numBytes * ByteBits = all
    BY <1>9, <2>1
  <2> HIDE DEF q
  <2>3. \A b \in q.ones : b \in p.ones \/ b < q.numBytes * ByteBits
    BY <1>13, <2>1, <2>2
  <2>4. ByteAligned(TRUE, w) =>
          \A b \in Nat : b < w.at => (b \in q.ones <=> b \in p.ones)
    BY <1>3, <1>14, <1>18, <2>1
  <2>5. Held(TRUE, q.ones, w)
    BY <1>15, <2>1
  <2>6. ~LeavesHalf(TRUE, w) => Clean(q)
    BY <1>16, <1>17
  <2>7. (ByteAligned(TRUE, w) /\ ~LeavesHalf(TRUE, w)) =>
          /\ Start(TRUE, w) + Span(TRUE, w) <= q.cursor
          /\ ReadTo(TRUE, w) = q.cursor
    <3>1. all <= all
      BY <1>5
    <3> QED BY <1>4, <1>16, <1>18, <2>1, <3>1
  <2>8. /\ q.cursor = WrittenTo(TRUE, w) /\ w.at < q.cursor
        /\ q.numBytes = Filled(q.cursor)
        /\ Start(TRUE, w) \in Nat
        /\ ReadTo(TRUE, w) \in Nat
    BY <1>3, <1>4, <1>5, <1>6, <1>9, <2>1
  <2>9. /\ Start(TRUE, w) + Span(TRUE, w) <= q.numBytes * ByteBits
        /\ ReadTo(TRUE, w) <= q.numBytes * ByteBits
    <3>1. all <= all
      BY <1>5
    <3> QED BY <1>4, <1>5, <2>2, <3>1
  <2>10. ASSUME ByteAligned(TRUE, w)
         PROVE  /\ Start(TRUE, w) <= p.numBytes * ByteBits
                /\ (q.numBytes - 1) * ByteBits < Start(TRUE, w) + Span(TRUE, w)
    <3>1. first + bits = all /\ size * ByteBits = all
      BY <1>9, <1>18, <2>10
    <3>2. size * ByteBits = (s * ByteBits) + bits
      BY <1>2, <1>3 DEF size, bits
    <3>3. first = s * ByteBits
      BY <1>2, <1>3, <1>6, <3>1, <3>2
    <3>4. (size - 1) * ByteBits < all
      BY <1>9
    <3>5. (q.numBytes - 1) * ByteBits < first + bits
      BY <2>1, <3>1, <3>4
    <3>6. first <= p.numBytes * ByteBits
      <4>1. p.numBytes * ByteBits = first
        BY <3>3 DEF s
      <4> QED BY <1>6, <4>1
    <3> QED BY <1>4, <3>5, <3>6
  <2> QED BY <1>12, <2>3, <2>4, <2>5, <2>6, <2>7, <2>8, <2>9, <2>10 DEF Laid
<1> QED BY <1>1, <1>19 DEF kind, n, on

-----------------------------------------------------------------------------
(* Layouts. *)

(* Each write begins where the one before it ended.                         *)
EndOf(packing, ws) == IF ws = <<>> THEN 0 ELSE WrittenTo(packing, ws[Len(ws)])
Chained(packing, ws) ==
  \A i \in 1 .. Len(ws) :
    ws[i].at = IF i = 1 THEN 0 ELSE WrittenTo(packing, ws[i - 1])

(* The place of one write among so many bytes.                              *)
Placed(packing, w, size) ==
  /\ WrittenTo(packing, w) \in Nat /\ w.at < WrittenTo(packing, w)
  /\ Start(packing, w) \in Nat
  /\ Start(packing, w) + Span(packing, w) <= size * ByteBits
  /\ ReadTo(packing, w) \in Nat /\ ReadTo(packing, w) <= size * ByteBits
  /\ ~packing => w.at % ByteBits = 0
  /\ (ByteAligned(packing, w) /\ ~LeavesHalf(packing, w)) =>
       /\ Start(packing, w) + Span(packing, w) <= WrittenTo(packing, w)
       /\ ReadTo(packing, w) = WrittenTo(packing, w)

(* A writer that keeps to the rules aligns its blocks and leaves a half     *)
(* counted byte, if at all, at the very end.                                *)
Rules(packing, ws) ==
  \A i \in 1 .. Len(ws) :
    /\ ByteAligned(packing, ws[i])
    /\ LeavesHalf(packing, ws[i]) => i = Len(ws)
HalfAtEnd(packing, ws) == ws # <<>> /\ LeavesHalf(packing, ws[Len(ws)])

(* Each byte begins with a bit that was written, if the blocks are aligned. *)
Covered(packing, ws, size) ==
  (\A i \in 1 .. Len(ws) : ByteAligned(packing, ws[i])) =>
    \A b \in Nat : b < size =>
      \E i \in 1 .. Len(ws) :
        /\ Start(packing, ws[i]) <= b * ByteBits
        /\ b * ByteBits < Start(packing, ws[i]) + Span(packing, ws[i])

(* So many bytes have the places of all that was written, and it is there.  *)
Places(packing, ws, size) ==
  /\ Chained(packing, ws)
  /\ \A i \in 1 .. Len(ws) : Placed(packing, ws[i], size)
  /\ Covered(packing, ws, size)
  /\ ~packing => EndOf(packing, ws) = size * ByteBits
Contents(packing, ws, ones) ==
  Rules(packing, ws) => \A i \in 1 .. Len(ws) : Held(packing, ones, ws[i])
Layout(packing, ws, ones, size) ==
  Places(packing, ws, size) /\ Contents(packing, ws, ones)

(* The writer is at the end of it.                                          *)
Writing(packing, ws, p) ==
  /\ p.cursor = EndOf(packing, ws)
  /\ p.numBytes = Filled(p.cursor)
  /\ \A i \in 1 .. Len(ws) : WrittenTo(packing, ws[i]) <= p.cursor
  /\ (Rules(packing, ws) /\ ~HalfAtEnd(packing, ws)) => Clean(p)

(* More bits do not take fewer bytes.                                       *)
LEMMA FilledGrows ==
  ASSUME NEW a \in Nat, NEW b \in Nat, a <= b
  PROVE  Filled(a) <= Filled(b)
<1> USE BitPackAssumption
<1> DEFINE s == Filled(a)
           t == Filled(b)
<1>1. /\ s \in Nat /\ ByteBits * s < a + ByteBits
      /\ t \in Nat /\ b <= ByteBits * t
  BY FilledBounds
<1> HIDE DEF s, t
<1>2. ASSUME s > t PROVE FALSE
  <2>1. ByteBits * (s - (t + 1)) >= 0
    BY <1>1, <1>2
  <2>2. ByteBits * (s - (t + 1)) = (ByteBits * s) - (ByteBits * t) - ByteBits
    BY <1>1
  <2> QED BY <1>1, <2>1, <2>2
<1>3. s <= t
  BY <1>1, <1>2
<1> QED BY <1>3 DEF s, t

(* A longer sequence.                                                       *)
LEMMA Appended ==
  ASSUME NEW S, NEW ws \in Seq(S), NEW w \in S
  PROVE  /\ Append(ws, w) \in Seq(S) /\ Append(ws, w) # <<>>
         /\ Len(ws) \in Nat /\ Len(Append(ws, w)) = Len(ws) + 1
         /\ Append(ws, w)[Len(ws) + 1] = w
         /\ \A i \in 1 .. Len(ws) : Append(ws, w)[i] = ws[i] /\ ws[i] \in S
         /\ (ws = <<>>) <=> (Len(ws) = 0)
<1>1. /\ Append(ws, w) \in Seq(S) /\ Append(ws, w) # <<>>
      /\ Len(Append(ws, w)) = Len(ws) + 1
      /\ Append(ws, w)[Len(ws) + 1] = w
      /\ \A i \in 1 .. Len(ws) : Append(ws, w)[i] = ws[i]
  BY AppendProperties
<1>2. Len(ws) \in Nat /\ \A i \in 1 .. Len(ws) : ws[i] \in S
  BY LenProperties, ElementOfSeq
<1>3. (ws = <<>>) <=> (Len(ws) = 0)
  BY EmptySeq
<1> QED BY <1>1, <1>2, <1>3

(* A write that keeps to the rules comes after writes that do, none of      *)
(* which leaves half a byte.                                                *)
LEMMA RulesAppended ==
  ASSUME NEW packing, NEW ws \in Seq(Writes), NEW w \in Writes,
         Rules(packing, Append(ws, w))
  PROVE  /\ Rules(packing, ws) /\ ~HalfAtEnd(packing, ws)
         /\ ByteAligned(packing, w)
         /\ \A i \in 1 .. Len(ws) :
              ByteAligned(packing, ws[i]) /\ ~LeavesHalf(packing, ws[i])
<1> DEFINE n == Len(ws)
           vs == Append(ws, w)
<1>1. /\ n \in Nat /\ Len(vs) = n + 1 /\ vs[n + 1] = w
      /\ \A i \in 1 .. n : vs[i] = ws[i]
      /\ (ws = <<>>) <=> (n = 0)
  BY Appended
<1>2. \A i \in 1 .. n + 1 :
        ByteAligned(packing, vs[i]) /\ (LeavesHalf(packing, vs[i]) => i = n + 1)
  BY <1>1 DEF Rules
<1> HIDE DEF vs
<1>3. ByteAligned(packing, w)
  BY <1>1, <1>2
<1>4. \A i \in 1 .. n : ByteAligned(packing, ws[i]) /\ ~LeavesHalf(packing, ws[i])
  <2> SUFFICES ASSUME NEW i \in 1 .. n
               PROVE  ByteAligned(packing, ws[i]) /\ ~LeavesHalf(packing, ws[i])
    OBVIOUS
  <2>1. i \in 1 .. n + 1 /\ i # n + 1 /\ vs[i] = ws[i]
    BY <1>1
  <2> QED BY <1>2, <2>1
<1>5. Rules(packing, ws)
  BY <1>4 DEF Rules
<1>6. ~HalfAtEnd(packing, ws)
  <2> SUFFICES ASSUME ws # <<>> PROVE ~LeavesHalf(packing, ws[n])
    BY DEF HalfAtEnd
  <2>1. n \in 1 .. n
    BY <1>1
  <2> QED BY <1>4, <2>1
<1> QED BY <1>3, <1>4, <1>5, <1>6

(* What lies below what a write changes stays where it is.                  *)
LEMMA HeldStays ==
  ASSUME NEW packing, NEW v, Start(packing, v) \in Nat, Span(packing, v) \in Nat,
         NEW c \in Nat, Start(packing, v) + Span(packing, v) <= c,
         NEW old, NEW new, \A b \in Nat : b < c => (b \in new <=> b \in old),
         Held(packing, old, v)
  PROVE  Held(packing, new, v)
<1> DEFINE s == Start(packing, v)
           n == Span(packing, v)
<1>1. s \in Nat /\ n \in Nat /\ s + n <= c
  OBVIOUS
<1> SUFFICES ASSUME NEW i \in 0 .. n - 1
             PROVE  s + i \in new <=> i \in Content(packing, v)
  BY DEF Held
<1>2. s + i \in old <=> i \in Content(packing, v)
  BY DEF Held
<1> HIDE DEF s, n
<1>3. s + i \in Nat /\ s + i < c
  BY <1>1
<1> QED BY <1>2, <1>3

(* The span of a write is a number of bits.                                 *)
LEMMA SpanFacts ==
  ASSUME NEW packing, NEW w \in Writes
  PROVE  Span(packing, w) \in Nat \ {0}
<1>1. w.field \in Fields
  BY WriteParts
<1>2. w.field.size * ByteBits \in Nat \ {0}
  BY <1>1, FieldFacts
<1>3. ~IsBlock(w.field) => Width(w.field) \in Nat \ {0}
  BY <1>1, WidthFits, BitPackAssumption
<1> QED BY <1>2, <1>3 DEF Span


(* A write goes behind all that was written, and leaves it there.           *)
LEMMA LayoutAppended ==
  ASSUME NEW packing \in BOOLEAN, NEW ws \in Seq(Writes), NEW w \in Writes,
         NEW p \in Stores, NEW q, Laid(packing, p, q, w), w.at = p.cursor,
         Layout(packing, ws, p.ones, p.numBytes), Writing(packing, ws, p),
         ~packing => q.cursor = q.numBytes * ByteBits
  PROVE  /\ Layout(packing, Append(ws, w), q.ones, q.numBytes)
         /\ Writing(packing, Append(ws, w), q)
<1> USE BitPackAssumption
<1> DEFINE n == Len(ws)
           vs == Append(ws, w)
           c == p.cursor
           d == q.cursor
           s == p.numBytes
           t == q.numBytes
<1>1. /\ n \in Nat /\ Len(vs) = n + 1 /\ vs[n + 1] = w /\ vs # <<>>
      /\ \A i \in 1 .. n : vs[i] = ws[i] /\ ws[i] \in Writes
      /\ (ws = <<>>) <=> (n = 0)
  BY Appended
<1>2. /\ c \in Nat /\ d \in Nat /\ s \in Nat /\ t \in Nat
      /\ w.at = c /\ c < d /\ s = Filled(c) /\ t = Filled(d)
      /\ d = WrittenTo(packing, w) /\ c = EndOf(packing, ws)
      /\ ~packing => d = t * ByteBits /\ c = s * ByteBits
  BY DEF Laid, Stores, Writing, Layout, Places
<1>3. \A i \in 1 .. n : WrittenTo(packing, ws[i]) <= c
  BY DEF Writing
<1>4. (\A i \in 1 .. n : Placed(packing, ws[i], s)) /\ Covered(packing, ws, s)
  BY DEF Layout, Places
<1> HIDE DEF vs, n, s, t, c, d
<1>5. s * ByteBits \in Nat /\ t * ByteBits \in Nat
      /\ s * ByteBits <= t * ByteBits
  <2>1. s <= t
    BY <1>2, FilledGrows
  <2>2. (t - s) * ByteBits >= 0
    BY <1>2, <2>1
  <2> QED BY <1>2, <2>2
<1>6. Chained(packing, vs)
  <2> SUFFICES ASSUME NEW i \in 1 .. n + 1
               PROVE  vs[i].at = IF i = 1 THEN 0 ELSE WrittenTo(packing, vs[i - 1])
    BY <1>1 DEF Chained
  <2>1. CASE i = n + 1
    <3>1. vs[i].at = IF n = 0 THEN 0 ELSE WrittenTo(packing, ws[n])
      BY <1>1, <1>2, <2>1 DEF EndOf, n
    <3>2. n # 0 => vs[n] = ws[n] /\ i - 1 = n
      BY <1>1, <2>1
    <3> QED BY <1>1, <2>1, <3>1, <3>2
  <2>2. CASE i # n + 1
    <3>1. i \in 1 .. n /\ (i # 1 => i - 1 \in 1 .. n)
      BY <1>1, <2>2
    <3>2. ws[i].at = IF i = 1 THEN 0 ELSE WrittenTo(packing, ws[i - 1])
      BY <3>1 DEF Layout, Places, Chained, n
    <3> QED BY <1>1, <3>1, <3>2
  <2> QED BY <2>1, <2>2
<1>7. ASSUME NEW v, Placed(packing, v, s), v \in Writes PROVE Placed(packing, v, t)
  <2> DEFINE a == Start(packing, v) + Span(packing, v)
             b == ReadTo(packing, v)
  <2>1. a \in Nat /\ b \in Nat /\ a <= s * ByteBits /\ b <= s * ByteBits
    <3>1. Start(packing, v) \in Nat /\ Span(packing, v) \in Nat
      BY <1>7, SpanFacts DEF Placed
    <3> QED BY <1>7, <3>1 DEF Placed
  <2>2. a <= t * ByteBits /\ b <= t * ByteBits
    <3> HIDE DEF a, b
    <3> QED BY <1>5, <2>1
  <2> QED BY <1>7, <2>2 DEF Placed
<1>8. Placed(packing, w, t)
  <2>1. ~packing => c % ByteBits = 0
    <3> SUFFICES ASSUME ~packing PROVE c % ByteBits = 0
      OBVIOUS
    <3>1. PICK z \in 0 .. ByteBits - 1 : z = 0
      OBVIOUS
    <3>2. ByteBits \in Nat \ {0} /\ s \in Int
      BY <1>2
    <3>3. ((ByteBits * s) + z) % ByteBits = z
      BY <3>2, DivModUnique
    <3>4. c = (ByteBits * s) + z
      BY <1>2, <3>1
    <3> QED BY <3>1, <3>3, <3>4
  <2>2. /\ WrittenTo(packing, w) \in Nat /\ w.at < WrittenTo(packing, w)
        /\ Start(packing, w) \in Nat
        /\ Start(packing, w) + Span(packing, w) <= t * ByteBits
        /\ ReadTo(packing, w) \in Nat /\ ReadTo(packing, w) <= t * ByteBits
    BY <1>2 DEF Laid, t
  <2>3. (ByteAligned(packing, w) /\ ~LeavesHalf(packing, w)) =>
           /\ Start(packing, w) + Span(packing, w) <= WrittenTo(packing, w)
           /\ ReadTo(packing, w) = WrittenTo(packing, w)
    BY <1>2 DEF Laid, d
  <2> QED BY <1>2, <2>1, <2>2, <2>3 DEF Placed
<1>9. \A i \in 1 .. n + 1 : Placed(packing, vs[i], t)
  <2> SUFFICES ASSUME NEW i \in 1 .. n + 1 PROVE Placed(packing, vs[i], t)
    OBVIOUS
  <2>1. i # n + 1 => i \in 1 .. n
    BY <1>1
  <2> QED BY <1>1, <1>4, <1>7, <1>8, <2>1
<1>10. ASSUME Rules(packing, vs) PROVE \A i \in 1 .. n + 1 : Held(packing, q.ones, vs[i])
  <2>1. /\ Rules(packing, ws) /\ ~HalfAtEnd(packing, ws)
        /\ ByteAligned(packing, w)
        /\ \A i \in 1 .. n :
             ByteAligned(packing, ws[i]) /\ ~LeavesHalf(packing, ws[i])
    BY <1>10, RulesAppended DEF vs, n
  <2>2. Clean(p)
    BY <2>1 DEF Writing
  <2>3. Held(packing, q.ones, w)
    BY <2>1, <2>2 DEF Laid
  <2>4. \A b \in Nat : b < c => (b \in q.ones <=> b \in p.ones)
    BY <1>2, <2>1 DEF Laid
  <2>5. ASSUME NEW i \in 1 .. n PROVE Held(packing, q.ones, ws[i])
    <3>1. Held(packing, p.ones, ws[i])
      BY <2>1 DEF Layout, Contents, n
    <3>2. /\ Start(packing, ws[i]) \in Nat /\ WrittenTo(packing, ws[i]) \in Nat
          /\ Start(packing, ws[i]) + Span(packing, ws[i]) <= WrittenTo(packing, ws[i])
          /\ WrittenTo(packing, ws[i]) <= c
      BY <1>3, <1>4, <2>1 DEF Placed
    <3>3. Span(packing, ws[i]) \in Nat
      BY <1>1, SpanFacts
    <3>4. Start(packing, ws[i]) + Span(packing, ws[i]) <= c
      BY <1>2, <3>2, <3>3
    <3> DEFINE v == ws[i]
    <3>5. Start(packing, v) \in Nat /\ Span(packing, v) \in Nat
          /\ Start(packing, v) + Span(packing, v) <= c /\ Held(packing, p.ones, v)
      BY <3>1, <3>2, <3>3, <3>4
    <3> DEFINE old == p.ones
               new == q.ones
    <3>6. \A b \in Nat : b < c => (b \in new <=> b \in old)
      BY <2>4
    <3>7. Held(packing, old, v)
      BY <3>5
    <3> HIDE DEF v, old, new
    <3>8. Held(packing, new, v)
      BY <1>2, <3>5, <3>6, <3>7, HeldStays
    <3> QED BY <3>8 DEF v, new
  <2> SUFFICES ASSUME NEW i \in 1 .. n + 1 PROVE Held(packing, q.ones, vs[i])
    OBVIOUS
  <2>6. i # n + 1 => i \in 1 .. n
    BY <1>1
  <2> QED BY <1>1, <2>3, <2>5, <2>6
<1>11. EndOf(packing, vs) = d
  BY <1>1, <1>2 DEF EndOf
<1>16. Covered(packing, vs, t)
  <2> SUFFICES ASSUME \A i \in 1 .. n + 1 : ByteAligned(packing, vs[i]),
                      NEW b \in Nat, b < t
               PROVE  \E i \in 1 .. n + 1 :
                        /\ Start(packing, vs[i]) <= b * ByteBits
                        /\ b * ByteBits < Start(packing, vs[i]) + Span(packing, vs[i])
    BY <1>1 DEF Covered
  <2>1. n + 1 \in 1 .. n + 1 /\ \A i \in 1 .. n : i \in 1 .. n + 1
    BY <1>1
  <2>2. CASE b < s
    <3>1. \A i \in 1 .. n : ByteAligned(packing, ws[i])
      BY <1>1, <2>1
    <3>2. PICK i \in 1 .. n :
            /\ Start(packing, ws[i]) <= b * ByteBits
            /\ b * ByteBits < Start(packing, ws[i]) + Span(packing, ws[i])
      BY <1>4, <2>2, <3>1 DEF Covered, n
    <3>3. vs[i] = ws[i] /\ i \in 1 .. n + 1
      BY <1>1, <2>1
    <3> QED BY <3>2, <3>3
  <2>3. CASE ~(b < s)
    <3> DEFINE x == Start(packing, w)
               y == Start(packing, w) + Span(packing, w)
    <3>1. x \in Nat /\ y \in Nat
      BY <1>8, SpanFacts DEF Placed
    <3>2. x <= s * ByteBits /\ (t - 1) * ByteBits < y
      BY <1>1, <2>1 DEF Laid, s, t
    <3> HIDE DEF x, y
    <3>3. (b - s) * ByteBits >= 0 /\ ((t - 1) - b) * ByteBits >= 0
      <4>1. b - s \in Nat /\ (t - 1) - b \in Nat
        BY <1>2, <2>3
      <4> QED BY <4>1
    <3>4. /\ (b - s) * ByteBits = (b * ByteBits) - (s * ByteBits)
          /\ ((t - 1) - b) * ByteBits = ((t - 1) * ByteBits) - (b * ByteBits)
      BY <1>2
    <3>5. b * ByteBits \in Nat /\ s * ByteBits \in Nat /\ (t - 1) * ByteBits \in Int
      BY <1>2
    <3>6. x <= b * ByteBits /\ b * ByteBits < y
      BY <3>1, <3>2, <3>3, <3>4, <3>5
    <3> QED BY <1>1, <2>1, <3>6 DEF x, y
  <2> QED BY <2>2, <2>3
<1>12. Layout(packing, vs, q.ones, t)
  <2>1. Places(packing, vs, t)
    BY <1>1, <1>2, <1>6, <1>9, <1>11, <1>16 DEF Places
  <2>2. Contents(packing, vs, q.ones)
    BY <1>1, <1>10 DEF Contents
  <2> QED BY <2>1, <2>2 DEF Layout
<1>13. \A i \in 1 .. n + 1 : WrittenTo(packing, vs[i]) <= d
  <2> SUFFICES ASSUME NEW i \in 1 .. n + 1 PROVE WrittenTo(packing, vs[i]) <= d
    OBVIOUS
  <2>1. CASE i = n + 1
    BY <1>1, <1>2, <2>1
  <2>2. CASE i # n + 1
    <3>1. i \in 1 .. n /\ vs[i] = ws[i]
      BY <1>1, <2>2
    <3> DEFINE x == WrittenTo(packing, ws[i])
    <3>2. x \in Nat /\ x <= c
      BY <1>3, <1>4, <3>1 DEF Placed
    <3> HIDE DEF x
    <3>3. x <= d
      BY <1>2, <3>2
    <3> QED BY <3>1, <3>3 DEF x
  <2> QED BY <2>1, <2>2
<1>14. (Rules(packing, vs) /\ ~HalfAtEnd(packing, vs)) => Clean(q)
  <2> SUFFICES ASSUME Rules(packing, vs), ~HalfAtEnd(packing, vs) PROVE Clean(q)
    OBVIOUS
  <2>1. Rules(packing, ws) /\ ~HalfAtEnd(packing, ws) /\ ByteAligned(packing, w)
    BY RulesAppended DEF vs
  <2>2. Clean(p)
    BY <2>1 DEF Writing
  <2>3. ~LeavesHalf(packing, w)
    BY <1>1 DEF HalfAtEnd
  <2> QED BY <2>1, <2>2, <2>3 DEF Laid
<1>15. Writing(packing, vs, q)
  BY <1>1, <1>2, <1>11, <1>13, <1>14 DEF Writing, d, t
<1> QED BY <1>12, <1>15 DEF vs, t

-----------------------------------------------------------------------------
(* Reading. *)

(* What has been read: a number, or the one bits of a block.                *)
Results == UNION {Int, SUBSET Int}

(* What Read makes of the bits at the cursor.                               *)
NumberRead(packing, p, f) ==
  IF packing THEN Restored(f, PopFront(p, Width(f)))
             ELSE Typed(f, PopFront(p, f.size * ByteBits))
BlockRead(packing, p, f) ==
  LET first == IF packing THEN BlockByte(p) ELSE p.cursor \div ByteBits
  IN  {i \in 0 .. f.size * ByteBits - 1 : first * ByteBits + i \in p.ones}

(* Whatever the bits, it is a number.                                       *)
LEMMA NumberReadType ==
  ASSUME NEW packing, NEW p, NEW f \in Fields, ~IsBlock(f)
  PROVE  NumberRead(packing, p, f) \in Int
<1> DEFINE m == TwoTo[f.size * ByteBits]
<1>1. m \in Nat \ {0} /\ f.least \in Int /\ f.lo \in Int
  BY NumberFacts
<1>2. ASSUME NEW x \in Int PROVE Typed(f, x) \in Int
  <2> DEFINE d == x - f.least
  <2>1. d \in Int
    BY <1>1
  <2>2. d % m \in 0 .. m - 1
    <3> HIDE DEF d, m
    <3> QED BY <1>1, <2>1, DivMod
  <2>3. Typed(f, x) = (d % m) + f.least
    BY DEF Typed
  <2> HIDE DEF d, m
  <2> QED BY <1>1, <2>2, <2>3
<1>3. Width(f) \in Nat /\ f.size * ByteBits \in Nat
  BY WidthFits, FieldFacts
<1>4. PopFront(p, Width(f)) \in Nat /\ PopFront(p, f.size * ByteBits) \in Nat
  BY <1>3, PopFrontType
<1> DEFINE number == PopFront(p, Width(f))
           typed == PopFront(p, f.size * ByteBits)
<1>5. number \in Nat /\ typed \in Nat
  BY <1>4
<1> HIDE DEF number, typed
<1>6. number + f.lo \in Int
  BY <1>1, <1>5
<1>7. Typed(f, number + f.lo) \in Int /\ Typed(f, typed) \in Int
  BY <1>2, <1>5, <1>6
<1>8. Restored(f, number) \in Int
  BY <1>5, <1>7 DEF Restored
<1> QED BY <1>7, <1>8 DEF NumberRead, number, typed

(* A number is read back at the cursor where it was written.                *)
LEMMA NumberReadKept ==
  ASSUME NEW packing \in BOOLEAN, NEW w \in Writes, ~IsBlock(w.field),
         NEW p, p.cursor = w.at, Held(packing, p.ones, w)
  PROVE  KeptBy(packing, w.field, w.value, NumberRead(packing, p, w.field))
<1> DEFINE f == w.field
           v == w.value
           n == Span(packing, w)
<1>1. f \in Fields /\ v \in f.values /\ p.cursor \in Nat
  BY WriteParts
<1>2. n \in Nat
  BY SpanFacts
<1>3. Start(packing, w) = p.cursor
  BY DEF Start
<1>4. \A i \in 0 .. n - 1 : p.cursor + i \in p.ones <=> i \in Content(packing, w)
  BY <1>3 DEF Held
<1>5. CASE packing
  <2> DEFINE number == Serialized(f, v)
  <2>1. number \in Nat /\ number < TwoTo[Width(f)]
        /\ KeptBy(TRUE, f, v, Restored(f, number))
    BY <1>1, SerializedKept
  <2>2. n = Width(f) /\ Content(packing, w) = Ones(number, n)
    BY <1>5 DEF Span, Content
  <2>3. number < TwoTo[n]
        /\ \A i \in 0 .. n - 1 : p.cursor + i \in p.ones <=> i \in Ones(number, n)
    BY <1>4, <2>1, <2>2
  <2>4. PopFront(p, n) = number
    <3> HIDE DEF n, number
    <3> QED BY <1>1, <1>2, <2>1, <2>3, PopsWhatWasPushed
  <2>5. NumberRead(packing, p, f) = Restored(f, number)
    <3> HIDE DEF n, number
    <3> QED BY <1>5, <2>2, <2>4 DEF NumberRead
  <2>6. packing = TRUE
    BY <1>5
  <2> QED BY <2>1, <2>5, <2>6
<1>6. CASE ~packing
  <2> DEFINE m == TwoTo[f.size * ByteBits]
             number == v % m
  <2>1. n = f.size * ByteBits /\ Content(packing, w) = Ones(number, n)
    BY <1>6 DEF Span, Content, Raw
  <2>2. m \in Nat \ {0} /\ v \in f.least .. f.least + m - 1 /\ f.least \in Int
    BY <1>1, NumberFacts
  <2>3. number \in 0 .. m - 1
    <3>1. v \in Int
      BY <2>2
    <3> HIDE DEF m, v
    <3> QED BY <2>2, <3>1, DivMod
  <2>4. Typed(f, number) = v
    BY <1>1, <2>2, TypedBack
  <2>5. PopFront(p, n) = number
    <3>1. number \in Nat /\ number < TwoTo[n]
      <4> HIDE DEF number
      <4>1. number \in Nat /\ number < m
        BY <2>2, <2>3
      <4> QED BY <2>1, <4>1
    <3>2. \A i \in 0 .. n - 1 : p.cursor + i \in p.ones <=> i \in Ones(number, n)
      BY <1>4, <2>1
    <3> HIDE DEF n, number
    <3> QED BY <1>1, <1>2, <3>1, <3>2, PopsWhatWasPushed
  <2>6. NumberRead(packing, p, f) = v
    BY <1>6, <2>1, <2>4, <2>5 DEF NumberRead
  <2> QED BY <1>6, <2>6 DEF KeptBy
<1> QED BY <1>5, <1>6

(* And a block where it was put, from the cursor before it.                 *)
LEMMA BlockReadKept ==
  ASSUME NEW packing \in BOOLEAN, NEW w \in Writes, IsBlock(w.field),
         NEW p, p.cursor = w.at, Held(packing, p.ones, w),
         ~packing => w.at % ByteBits = 0
  PROVE  BlockRead(packing, p, w.field) = w.value
<1> USE BitPackAssumption
<1> DEFINE n == w.field.size * ByteBits
           first == IF packing THEN BlockByte(p) ELSE p.cursor \div ByteBits
<1>1. w.at \in Nat /\ w.value \subseteq 0 .. n - 1
  <2>1. w.field \in Fields /\ w.value \in w.field.values /\ w.at \in Nat
    BY WriteParts
  <2> QED BY <2>1, FieldFacts
<1>2. Start(packing, w) = first * ByteBits
  <2>1. CASE packing
    <3>1. BlockByte(p) = BlockByte([cursor |-> w.at])
      BY DEF BlockByte, m_bytePos, m_bitPos
    <3> QED BY <2>1, <3>1 DEF Start
  <2>2. CASE ~packing
    <3> DEFINE c == w.at
               q == c \div ByteBits
    <3>1. c \in Int /\ ByteBits \in Nat \ {0}
      BY <1>1
    <3>2. q \in Int /\ c = (ByteBits * q) + (c % ByteBits)
      <4> HIDE DEF c
      <4> QED BY <3>1, DivMod
    <3>3. c % ByteBits = 0
      BY <2>2
    <3> HIDE DEF c, q
    <3>4. c = q * ByteBits
      BY <3>1, <3>2, <3>3
    <3> QED BY <2>2, <3>4 DEF Start, c, q
  <2> QED BY <2>1, <2>2
<1>3. Span(packing, w) = n /\ Content(packing, w) = w.value
  BY DEF Span, Content
<1> HIDE DEF first, n
<1>4. \A i \in 0 .. n - 1 : first * ByteBits + i \in p.ones <=> i \in w.value
  BY <1>2, <1>3 DEF Held
<1>5. {i \in 0 .. n - 1 : first * ByteBits + i \in p.ones} = w.value
  BY <1>1, <1>4
<1> QED BY <1>5 DEF BlockRead, n, first

-----------------------------------------------------------------------------
(* The inductive invariant. *)

(* The types, with those of the sequences.                                  *)
Typing ==
  TypeOK /\ written \in Seq(Writes) /\ results \in Seq(Results)

(* The bytes counted have the places of what was written; it is in them     *)
(* unless a reader was given memory that was deleted.                       *)
Intact == phase = "reading" => m_packedData.state # "freed"
AllLaid ==
  /\ Places(m_isPacking, written, BytesCounted)
  /\ Intact => Contents(m_isPacking, written, store.ones)

(* A writer is behind all it wrote, and nothing has been read.              *)
AtTheEnd ==
  phase # "reading" =>
    Writing(m_isPacking, written, store) /\ results = <<>>

(* The copy of DoneWriting is a copy of what was written until StartWriting *)
(* deletes it.                                                              *)
CopyIsOfAll ==
  /\ ~m_isPacking => m_packedData.state = "none"
  /\ (m_isPacking /\ phase = "writing") => m_packedData.state # "live"
  /\ (m_isPacking /\ phase = "done") =>
       /\ m_packedData.state # "none"
       /\ m_packedData.state = "live" =>
            m_packedData.ones = store.ones \cap Bytes(0, store.numBytes)

(* A reader of what was written by the rules is behind the field it read    *)
(* last, and has the values that were written if they were there.           *)
FollowsWriter ==
  (phase = "reading" /\ Rules(m_isPacking, written)) =>
    /\ store.cursor = IF results = <<>> THEN 0
                      ELSE ReadTo(m_isPacking, written[Len(results)])
    /\ Intact => \A i \in 1 .. Len(results) :
         KeptBy(m_isPacking, written[i].field, written[i].value, results[i])

IInv == Typing /\ AllLaid /\ AtTheEnd /\ CopyIsOfAll /\ FollowsWriter

(* The bit array of TypeOK, part by part.                                   *)
StoreTyped(p) ==
  /\ p.cursor \in Nat /\ p.numBytes \in 0 .. Allocated /\ p.ones \subseteq Memory
StoreSet == [cursor : Nat, numBytes : 0 .. Allocated, ones : SUBSET Memory]

(* The parts of it.                                                         *)
LEMMA StoreParts ==
  ASSUME NEW p \in StoreSet
  PROVE  StoreTyped(p) /\ p \in Stores
<1>1. StoreTyped(p)
  BY DEF StoreSet, StoreTyped
<1>2. Allocated \in Nat /\ Memory \subseteq Nat
  BY EncoderAssumption DEF Memory
<1>3. p = [cursor |-> p.cursor, numBytes |-> p.numBytes, ones |-> p.ones]
  BY DEF StoreSet
<1>4. p.cursor \in Nat /\ p.numBytes \in Nat
  BY <1>1, <1>2 DEF StoreTyped
<1>5. p.ones \in SUBSET Nat
  <2>1. p.ones \subseteq Memory
    BY <1>1 DEF StoreTyped
  <2> QED BY <1>2, <2>1
<1>6. p \in Stores
  BY <1>3, <1>4, <1>5 DEF Stores
<1> QED BY <1>1, <1>6

(* A write of Writes has the type TypeOK asks for.                          *)
LEMMA WriteTyped ==
  ASSUME NEW w \in Writes
  PROVE  w \in [field : Fields, value : w.field.values, at : Nat]
  BY DEF Writes

(* The bytes of the memory are those it takes to hold its bits.             *)
LEMMA FilledAll ==
  ASSUME NEW n \in Nat
  PROVE  n * ByteBits \in Nat /\ Filled(n * ByteBits) = n
<1> USE BitPackAssumption
<1> DEFINE bits == n * ByteBits
<1>1. bits \in Nat /\ bits <= ByteBits * n /\ ByteBits * n < bits + ByteBits
  OBVIOUS
<1> HIDE DEF bits
<1>2. Filled(bits) = n
  BY <1>1, FilledIs
<1> QED BY <1>1, <1>2 DEF bits

(* Nothing written and nothing pushed.                                      *)
LEMMA LayoutEmpty ==
  ASSUME NEW packing \in BOOLEAN, NEW p, p.cursor = 0, p.numBytes = 0
  PROVE  Layout(packing, <<>>, p.ones, p.numBytes) /\ Writing(packing, <<>>, p)
<1> USE BitPackAssumption
<1>1. Len(<<>>) = 0 /\ 1 .. 0 = {} /\ 0 * ByteBits = 0
  OBVIOUS
<1>2. Filled(0) = 0
  <2>1. PICK z \in Nat : z = 0
    OBVIOUS
  <2>2. z * ByteBits = z /\ Filled(z * ByteBits) = z
    BY <2>1, FilledAll
  <2> QED BY <2>1, <2>2
<1>3. Clean(p)
  <2>1. 0 .. (0 * ByteBits) - 1 = {}
    BY <1>1
  <2> QED BY <2>1 DEF Clean
<1>4. EndOf(packing, <<>>) = 0
  BY DEF EndOf
<1>5. Layout(packing, <<>>, p.ones, p.numBytes)
  BY <1>1, <1>4 DEF Layout, Places, Contents, Covered, Chained
<1>6. Writing(packing, <<>>, p)
  BY <1>1, <1>2, <1>3, <1>4 DEF Writing
<1> QED BY <1>5, <1>6

(* The initial states.                                                      *)
LEMMA EncoderInit == Init => IInv
<1> SUFFICES ASSUME Init PROVE IInv
  OBVIOUS
<1> USE BitPackAssumption, EncoderAssumption
<1>1. /\ m_isPacking \in BOOLEAN /\ phase = "writing"
      /\ m_packedData = [state |-> "none", ones |-> {}]
      /\ m_dataSize = Allocated
      /\ written = <<>> /\ discarded = 0 /\ results = <<>>
  BY DEF Init
<1>2. PICK garbage \in {{}, Memory} :
        store = [cursor |-> 0, numBytes |-> 0, ones |-> garbage]
  BY Zenon DEF Init
<1>3. store.cursor = 0 /\ store.numBytes = 0 /\ store.ones \subseteq Memory
  BY <1>2
<1>4. store \in StoreSet
  BY <1>2 DEF StoreSet
<1>5. m_packedData \in [state : {"none", "live", "freed"}, ones : SUBSET Memory]
  BY <1>1
<1>6. Len(written) = 0 /\ Len(results) = 0
  BY <1>1
<1>7. TypeOK
  <2>1. 0 <= Allocated * ByteBits
    OBVIOUS
  <2>2. store.cursor <= Allocated * ByteBits
    BY <1>3, <2>1
  <2>3. 0 + 0 <= MaxFields /\ m_dataSize \in 0 .. Allocated /\ 0 \in Nat
    BY <1>1
  <2> QED BY <1>1, <1>4, <1>5, <1>6, <2>2, <2>3 DEF TypeOK, StoreSet
<1>8. Typing
  BY <1>1, <1>7 DEF Typing
<1>9. Layout(m_isPacking, written, store.ones, store.numBytes)
      /\ Writing(m_isPacking, written, store)
  BY <1>1, <1>3, LayoutEmpty
<1> QED BY <1>1, <1>8, <1>9
    DEF IInv, AllLaid, Layout, BytesCounted, AtTheEnd, CopyIsOfAll, FollowsWriter

(* One more write.                                                          *)
LEMMA Wrote ==
  ASSUME IInv, MayWrite, NEW w \in Writes, w.at = store.cursor,
         Laid(m_isPacking, store, store', w),
         ~m_isPacking => store'.cursor = store'.numBytes * ByteBits,
         store' = [cursor |-> store'.cursor, numBytes |-> store'.numBytes,
                   ones |-> store'.ones],
         store'.cursor <= Allocated * ByteBits,
         written' = Append(written, w),
         UNCHANGED <<m_isPacking, phase, m_packedData, m_dataSize, discarded, results>>
  PROVE  IInv'
<1> USE BitPackAssumption, EncoderAssumption
<1> DEFINE c == store'.cursor
           s == store'.numBytes
           full == Allocated * ByteBits
<1>1. /\ phase = "writing" /\ phase' = "writing" /\ results = <<>>
      /\ discarded + Len(written) < MaxFields
      /\ discarded \in Nat /\ m_isPacking \in BOOLEAN
      /\ written \in Seq(Writes) /\ results \in Seq(Results)
      /\ store \in StoreSet
      /\ m_packedData.state # "live" \/ ~m_isPacking
  BY DEF IInv, Typing, AtTheEnd, MayWrite, TypeOK, CopyIsOfAll, StoreSet
<1>2. /\ Layout(m_isPacking, written, store.ones, store.numBytes)
      /\ Writing(m_isPacking, written, store)
  BY <1>1 DEF IInv, AllLaid, Layout, Intact, BytesCounted, AtTheEnd
<1>3. StoreTyped(store) /\ store \in Stores
  BY <1>1, StoreParts
<1>4. /\ Layout(m_isPacking, written', store'.ones, store'.numBytes)
      /\ Writing(m_isPacking, written', store')
  <2> DEFINE q == store'
  <2>1. Laid(m_isPacking, store, q, w) /\ (~m_isPacking => q.cursor = q.numBytes * ByteBits)
    OBVIOUS
  <2> HIDE DEF q
  <2>2. /\ Layout(m_isPacking, Append(written, w), q.ones, q.numBytes)
        /\ Writing(m_isPacking, Append(written, w), q)
    BY <1>1, <1>2, <1>3, <2>1, LayoutAppended
  <2> QED BY <2>2 DEF q
<1>5. /\ c \in Nat /\ s = Filled(c) /\ store'.ones \subseteq Nat
      /\ \A b \in store'.ones : b \in store.ones \/ b < s * ByteBits
  BY DEF Laid, Stores
<1>6. full \in Nat /\ c <= full /\ Filled(full) = Allocated
  BY FilledAll
<1> HIDE DEF c, full
<1>7. s \in 0 .. Allocated /\ s * ByteBits \in Nat /\ s * ByteBits <= full
  <2>1. Filled(c) <= Filled(full) /\ Filled(c) \in Nat
    BY <1>5, <1>6, FilledGrows, FilledBounds
  <2> HIDE DEF s
  <2>2. s \in 0 .. Allocated
    BY <1>5, <1>6, <2>1
  <2>3. (Allocated - s) * ByteBits >= 0
    BY <2>2
  <2> QED BY <2>2, <2>3 DEF full
<1>8. store'.ones \subseteq Memory
  <2> SUFFICES ASSUME NEW b \in store'.ones PROVE b \in Memory
    OBVIOUS
  <2>1. b \in Nat /\ (b \in store.ones \/ b < s * ByteBits)
    BY <1>5
  <2>2. store.ones \subseteq Memory
    BY <1>3 DEF StoreTyped
  <2> HIDE DEF s
  <2>3. b < s * ByteBits => b \in Memory
    BY <1>6, <1>7, <2>1 DEF Memory, full
  <2> QED BY <2>1, <2>2, <2>3
<1>9. store' \in StoreSet
  <2> DEFINE o == store'.ones
  <2>1. store' = [cursor |-> c, numBytes |-> s, ones |-> o] /\ o \in SUBSET Memory
    BY <1>8 DEF c
  <2> HIDE DEF o, s
  <2> QED BY <1>5, <1>7, <2>1 DEF StoreSet
<1>10. /\ written' \in Seq(Writes) /\ Len(written') = Len(written) + 1
       /\ Len(written) \in Nat
  BY <1>1, Appended
<1>11. \A i \in 1 .. Len(written') :
         written'[i] \in [field : Fields, value : written'[i].field.values, at : Nat]
  <2>1. \A i \in 1 .. Len(written') : written'[i] \in Writes
    BY <1>10, ElementOfSeq
  <2> QED BY <2>1, WriteTyped
<1>12. TypeOK'
  <2>1. discarded' + Len(written') <= MaxFields /\ Len(results') <= Len(written')
    <3>1. Len(results) = 0
      BY <1>1
    <3> QED BY <1>1, <1>10, <3>1
  <2>2. store'.cursor <= Allocated * ByteBits
    OBVIOUS
  <2> QED BY <1>9, <1>11, <2>1, <2>2 DEF IInv, Typing, TypeOK, StoreSet
<1>13. Typing'
  BY <1>1, <1>10, <1>12 DEF Typing
<1>14. AllLaid' /\ AtTheEnd' /\ FollowsWriter'
  BY <1>1, <1>4 DEF AllLaid, Layout, BytesCounted, AtTheEnd, FollowsWriter
<1>15. CopyIsOfAll'
  BY <1>1 DEF IInv, CopyIsOfAll
<1> QED BY <1>13, <1>14, <1>15 DEF IInv

(* A number written.                                                        *)
LEMMA WriteKeeps == IInv /\ Write => IInv'
<1> SUFFICES ASSUME IInv, Write PROVE IInv'
  OBVIOUS
<1> USE BitPackAssumption
<1>0. PICK f \in Fields : \E v \in f.values :
        /\ ~IsBlock(f)
        /\ store' =
             IF m_isPacking
             THEN Push(store, Width(f), Ones(Serialized(f, v), Width(f)))
             ELSE Copy(store, f.size, Raw(f, v))
        /\ store'.cursor <= Allocated * ByteBits
        /\ written' = Append(written, [field |-> f, value |-> v, at |-> store.cursor])
  BY Zenon DEF Write
<1>1. PICK v \in f.values :
        /\ ~IsBlock(f)
        /\ store' =
             IF m_isPacking
             THEN Push(store, Width(f), Ones(Serialized(f, v), Width(f)))
             ELSE Copy(store, f.size, Raw(f, v))
        /\ store'.cursor <= Allocated * ByteBits
        /\ written' = Append(written, [field |-> f, value |-> v, at |-> store.cursor])
  BY <1>0
<1>2. /\ MayWrite
      /\ UNCHANGED <<m_isPacking, phase, m_packedData, m_dataSize, discarded, results>>
  BY Zenon DEF Write
<1> DEFINE w == [field |-> f, value |-> v, at |-> store.cursor]
<1>3. m_isPacking \in BOOLEAN /\ store \in StoreSet /\ phase # "reading"
  BY <1>2 DEF IInv, Typing, TypeOK, StoreSet, MayWrite
<1>4. store \in Stores /\ store.cursor \in Nat
  BY <1>3, StoreParts DEF StoreTyped
<1>5. w.field = f /\ w.value = v /\ w.at = store.cursor
  OBVIOUS
<1>6. w \in Writes
  BY <1>4 DEF Writes
<1> HIDE DEF w
<1>7. /\ store.numBytes = Filled(store.cursor)
      /\ ~m_isPacking => store.cursor = store.numBytes * ByteBits
  BY <1>3 DEF IInv, AllLaid, Places, BytesCounted, AtTheEnd, EndOf, Writing
<1>8. Laid(m_isPacking, store, store', w)
      /\ (~m_isPacking => store'.cursor = store'.numBytes * ByteBits)
  <2>1. CASE m_isPacking
    <3>1. store' = Push(store, Width(w.field), Ones(Serialized(w.field, w.value), Width(w.field)))
      BY <1>1, <1>5, <2>1
    <3>2. Laid(TRUE, store, Push(store, Width(w.field),
                 Ones(Serialized(w.field, w.value), Width(w.field))), w)
      BY <1>1, <1>4, <1>5, <1>6, <1>7, PushLaid
    <3>3. m_isPacking = TRUE
      BY <1>3, <2>1
    <3> QED BY <3>1, <3>2, <3>3
  <2>2. CASE ~m_isPacking
    <3>1. Content(FALSE, w) = Raw(w.field, w.value)
      BY <1>1, <1>5 DEF Content
    <3>2. store' = Copy(store, w.field.size, Content(FALSE, w))
      BY <1>1, <1>5, <2>2, <3>1
    <3>3. Content(FALSE, w) \subseteq 0 .. w.field.size * ByteBits - 1
      BY <3>1 DEF Raw, Ones
    <3> DEFINE q == Copy(store, w.field.size, Content(FALSE, w))
    <3>4. Laid(FALSE, store, q, w) /\ q.cursor = q.numBytes * ByteBits
      BY <1>4, <1>5, <1>6, <1>7, <2>2, <3>3, CopyLaid
    <3>5. m_isPacking = FALSE
      BY <1>3, <2>2
    <3> QED BY <3>2, <3>4, <3>5
  <2> QED BY <2>1, <2>2
<1>9. store' = [cursor |-> store'.cursor, numBytes |-> store'.numBytes,
                ones |-> store'.ones]
  BY <1>1 DEF Push, Copy
<1>10. written' = Append(written, w)
  BY <1>1 DEF w
<1> QED BY <1>1, <1>2, <1>5, <1>6, <1>8, <1>9, <1>10, Wrote

(* A block written.                                                         *)
LEMMA WriteDataKeeps == IInv /\ WriteData => IInv'
<1> SUFFICES ASSUME IInv, WriteData PROVE IInv'
  OBVIOUS
<1> USE BitPackAssumption
<1>0. PICK f \in Fields : \E on \in f.values :
        /\ IsBlock(f)
        /\ store' = IF m_isPacking THEN AppendData(store, f.overload, f.size, on)
                                   ELSE Copy(store, f.size, on)
        /\ store'.cursor <= Allocated * ByteBits
        /\ written' = Append(written, [field |-> f, value |-> on, at |-> store.cursor])
  BY Zenon DEF WriteData
<1>1. PICK on \in f.values :
        /\ IsBlock(f)
        /\ store' = IF m_isPacking THEN AppendData(store, f.overload, f.size, on)
                                   ELSE Copy(store, f.size, on)
        /\ store'.cursor <= Allocated * ByteBits
        /\ written' = Append(written, [field |-> f, value |-> on, at |-> store.cursor])
  BY <1>0
<1>2. /\ MayWrite
      /\ UNCHANGED <<m_isPacking, phase, m_packedData, m_dataSize, discarded, results>>
  BY Zenon DEF WriteData
<1> DEFINE w == [field |-> f, value |-> on, at |-> store.cursor]
<1>3. m_isPacking \in BOOLEAN /\ store \in StoreSet /\ phase # "reading"
  BY <1>2 DEF IInv, Typing, TypeOK, StoreSet, MayWrite
<1>4. store \in Stores /\ store.cursor \in Nat
  BY <1>3, StoreParts DEF StoreTyped
<1>5. w.field = f /\ w.value = on /\ w.at = store.cursor
  OBVIOUS
<1>6. w \in Writes
  BY <1>4 DEF Writes
<1> HIDE DEF w
<1>7. /\ store.numBytes = Filled(store.cursor)
      /\ ~m_isPacking => store.cursor = store.numBytes * ByteBits
  BY <1>3 DEF IInv, AllLaid, Places, BytesCounted, AtTheEnd, EndOf, Writing
<1>8. Laid(m_isPacking, store, store', w)
      /\ (~m_isPacking => store'.cursor = store'.numBytes * ByteBits)
  <2>1. CASE m_isPacking
    <3>1. store' = AppendData(store, w.field.overload, w.field.size, w.value)
      BY <1>1, <1>5, <2>1
    <3>2. Laid(TRUE, store, AppendData(store, w.field.overload, w.field.size, w.value), w)
      BY <1>1, <1>4, <1>5, <1>6, <1>7, AppendLaid
    <3>3. m_isPacking = TRUE
      BY <1>3, <2>1
    <3> QED BY <3>1, <3>2, <3>3
  <2>2. CASE ~m_isPacking
    <3>1. Content(FALSE, w) = w.value
      BY <1>1, <1>5 DEF Content
    <3>2. store' = Copy(store, w.field.size, Content(FALSE, w))
      BY <1>1, <1>5, <2>2, <3>1
    <3>3. Content(FALSE, w) \subseteq 0 .. w.field.size * ByteBits - 1
      <4>1. f.values \subseteq SUBSET (0 .. f.size * ByteBits - 1)
        BY <1>1, FieldFacts
      <4> QED BY <1>5, <3>1, <4>1
    <3> DEFINE q == Copy(store, w.field.size, Content(FALSE, w))
    <3>4. Laid(FALSE, store, q, w) /\ q.cursor = q.numBytes * ByteBits
      BY <1>4, <1>5, <1>6, <1>7, <2>2, <3>3, CopyLaid
    <3>5. m_isPacking = FALSE
      BY <1>3, <2>2
    <3> QED BY <3>2, <3>4, <3>5
  <2> QED BY <2>1, <2>2
<1>9. store' = [cursor |-> store'.cursor, numBytes |-> store'.numBytes,
                ones |-> store'.ones]
  BY <1>1 DEF AppendData, Copy
<1>10. written' = Append(written, w)
  BY <1>1 DEF w
<1> QED BY <1>1, <1>2, <1>5, <1>6, <1>8, <1>9, <1>10, Wrote

(* Writing starts anew.                                                     *)
LEMMA StartWritingKeeps == IInv /\ StartWriting => IInv'
<1> SUFFICES ASSUME IInv, StartWriting PROVE IInv'
  OBVIOUS
<1> USE BitPackAssumption, EncoderAssumption
<1>1. /\ phase \in {"writing", "done"} /\ phase' \in {"writing", "aborted"}
      /\ m_packedData.state # "freed" => phase' = "writing"
      /\ UNCHANGED <<m_isPacking, m_dataSize, results>>
  BY DEF StartWriting
<1>2. /\ m_isPacking \in BOOLEAN /\ store \in StoreSet
      /\ discarded \in Nat /\ discarded + Len(written) <= MaxFields
      /\ written \in Seq(Writes) /\ results = <<>>
      /\ m_packedData \in [state : {"none", "live", "freed"}, ones : SUBSET Memory]
  BY <1>1 DEF IInv, Typing, TypeOK, StoreSet, AtTheEnd
<1>3. CASE m_isPacking
  <2>1. /\ store' = ResetForWrite(store)
        /\ m_packedData' = [m_packedData EXCEPT
             !.state = IF m_packedData.state = "none" THEN "none" ELSE "freed"]
        /\ written' = <<>>
        /\ discarded' = discarded + Len(written)
    BY <1>3 DEF StartWriting
  <2>2. /\ store'.cursor = 0 /\ store'.numBytes = 0 /\ store'.ones = store.ones
        /\ store' \in StoreSet
    <3>1. store' = [cursor |-> 0, numBytes |-> 0, ones |-> store.ones]
      BY <1>2, <2>1 DEF ResetForWrite, StoreSet
    <3>2. store.ones \in SUBSET Memory
      BY <1>2, StoreParts DEF StoreTyped
    <3> QED BY <3>1, <3>2 DEF StoreSet
  <2>3. /\ m_packedData' \in [state : {"none", "live", "freed"}, ones : SUBSET Memory]
        /\ m_packedData'.state # "live"
    BY <1>2, <2>1
  <2>4. Len(written) \in Nat /\ Len(written') = 0 /\ Len(results') = 0
    BY <1>1, <1>2, <2>1
  <2>5. TypeOK'
    <3>1. /\ discarded' \in Nat /\ discarded' + Len(written') <= MaxFields
          /\ Len(results') <= Len(written')
      BY <1>2, <2>1, <2>4
    <3>2. store'.cursor <= Allocated * ByteBits
      <4>1. 0 <= Allocated * ByteBits
        OBVIOUS
      <4> QED BY <2>2, <4>1
    <3>3. \A i \in 1 .. Len(written') :
            written'[i] \in [field : Fields, value : written'[i].field.values, at : Nat]
      BY <2>4
    <3> QED BY <1>1, <2>2, <2>3, <3>1, <3>2, <3>3
      DEF IInv, Typing, TypeOK, StoreSet
  <2>6. Typing'
    BY <1>1, <1>2, <2>1, <2>5 DEF IInv, Typing
  <2>7. /\ Layout(m_isPacking, <<>>, store'.ones, store'.numBytes)
        /\ Writing(m_isPacking, <<>>, store')
    <3> DEFINE q == store'
    <3>1. q.cursor = 0 /\ q.numBytes = 0
      BY <2>2
    <3> HIDE DEF q
    <3>2. Layout(m_isPacking, <<>>, q.ones, q.numBytes) /\ Writing(m_isPacking, <<>>, q)
      BY <1>2, <3>1, LayoutEmpty
    <3> QED BY <3>2 DEF q
  <2>8. AllLaid' /\ AtTheEnd' /\ FollowsWriter'
    BY <1>1, <1>2, <2>1, <2>7
      DEF AllLaid, Layout, BytesCounted, AtTheEnd, FollowsWriter
  <2>9. CopyIsOfAll'
    BY <1>1, <1>3, <2>3 DEF CopyIsOfAll
  <2> QED BY <2>6, <2>8, <2>9 DEF IInv
<1>4. CASE ~m_isPacking
  <2>1. UNCHANGED <<store, m_packedData, written, discarded>>
    BY <1>4 DEF StartWriting
  <2>2. TypeOK'
    BY <1>1, <2>1 DEF IInv, Typing, TypeOK
  <2>3. Typing'
    BY <1>1, <2>1, <2>2 DEF IInv, Typing
  <2>4. AllLaid' /\ AtTheEnd' /\ FollowsWriter'
    BY <1>1, <2>1 DEF IInv, AllLaid, Intact, BytesCounted, AtTheEnd, FollowsWriter
  <2>5. CopyIsOfAll'
    BY <1>1, <1>4, <2>1 DEF IInv, CopyIsOfAll
  <2> QED BY <2>3, <2>4, <2>5 DEF IInv
<1> QED BY <1>3, <1>4

(* Writing ends, and with packing the copy is made, once.                   *)
LEMMA DoneWritingKeeps == IInv /\ DoneWriting => IInv'
<1> SUFFICES ASSUME IInv, DoneWriting PROVE IInv'
  OBVIOUS
<1>1. /\ phase = "writing" /\ phase' = "done"
      /\ UNCHANGED <<m_isPacking, store, written, discarded, results>>
  BY DEF DoneWriting
<1>2. /\ m_isPacking \in BOOLEAN /\ store \in StoreSet
      /\ m_packedData \in [state : {"none", "live", "freed"}, ones : SUBSET Memory]
  BY DEF IInv, Typing, TypeOK, StoreSet
<1>3. StoreTyped(store)
  BY <1>2, StoreParts
<1>4. CASE m_isPacking /\ m_packedData.state = "none"
  <2>1. /\ m_packedData' = [state |-> "live",
                            ones |-> store.ones \cap Bytes(0, store.numBytes)]
        /\ m_dataSize' = store.numBytes
    BY <1>4 DEF DoneWriting
  <2>2. /\ m_packedData' \in [state : {"none", "live", "freed"}, ones : SUBSET Memory]
        /\ m_packedData'.state = "live"
        /\ m_packedData'.ones = store.ones \cap Bytes(0, store.numBytes)
    <3> DEFINE o == store.ones \cap Bytes(0, store.numBytes)
    <3>1. o \in SUBSET Memory /\ m_packedData' = [state |-> "live", ones |-> o]
      BY <1>3, <2>1 DEF StoreTyped
    <3> HIDE DEF o
    <3>2. /\ m_packedData' \in [state : {"none", "live", "freed"}, ones : SUBSET Memory]
          /\ m_packedData'.state = "live" /\ m_packedData'.ones = o
      BY <3>1
    <3> QED BY <3>2 DEF o
  <2>3. TypeOK'
    BY <1>1, <1>3, <2>1, <2>2 DEF IInv, Typing, TypeOK, StoreTyped
  <2>4. CopyIsOfAll'
    BY <1>1, <1>4, <2>2 DEF CopyIsOfAll
  <2> QED BY <1>1, <2>3, <2>4
    DEF IInv, Typing, AllLaid, Intact, BytesCounted, AtTheEnd, FollowsWriter
<1>5. CASE ~(m_isPacking /\ m_packedData.state = "none")
  <2>1. UNCHANGED <<m_packedData, m_dataSize>>
    BY <1>5 DEF DoneWriting
  <2>2. TypeOK'
    BY <1>1, <2>1 DEF IInv, Typing, TypeOK
  <2>3. CopyIsOfAll'
    BY <1>1, <1>5, <2>1 DEF IInv, CopyIsOfAll
  <2> QED BY <1>1, <2>2, <2>3
    DEF IInv, Typing, AllLaid, Intact, BytesCounted, AtTheEnd, FollowsWriter
<1> QED BY <1>4, <1>5

(* The other encoder has the bytes in which all was laid.                   *)
LEMMA OpenForReadingKeeps == IInv /\ OpenForReading => IInv'
<1> SUFFICES ASSUME IInv, OpenForReading PROVE IInv'
  OBVIOUS
<1> USE BitPackAssumption, EncoderAssumption
<1> DEFINE n == store.numBytes
           full == n * ByteBits
<1>1. /\ phase = "done" /\ phase' = "reading" /\ m_dataSize' = n
      /\ UNCHANGED <<m_isPacking, m_packedData, written, discarded, results>>
  BY DEF OpenForReading, GetDataSize
<1>0. PICK data \in Found(Bytes(0, GetDataSize), GetData) :
        \E garbage \in {{}, Memory} :
          store' = [cursor |-> 0, numBytes |-> 0,
                    ones |-> data \cup (garbage \ Bytes(0, GetDataSize))]
  BY Zenon DEF OpenForReading
<1>2. PICK garbage \in {{}, Memory} :
        store' = [cursor |-> 0, numBytes |-> 0,
                  ones |-> data \cup (garbage \ Bytes(0, GetDataSize))]
  BY <1>0
<1>3. /\ m_isPacking \in BOOLEAN /\ store \in StoreSet /\ results = <<>>
      /\ written \in Seq(Writes)
      /\ m_packedData \in [state : {"none", "live", "freed"}, ones : SUBSET Memory]
  BY <1>1 DEF IInv, Typing, TypeOK, StoreSet, AtTheEnd
<1>4. /\ n \in 0 .. Allocated /\ store.ones \subseteq Memory /\ n \in Nat
  BY <1>3, StoreParts DEF StoreTyped
<1>5. full \in Nat /\ Bytes(0, n) = 0 .. full - 1
  <2>1. 0 * ByteBits = 0 /\ 0 + n = n
    BY <1>4
  <2>2. full \in Nat
    BY <1>4
  <2> QED BY <2>1, <2>2 DEF Bytes
<1>6. ASSUME m_packedData.state # "freed"
      PROVE  data = store.ones \cap Bytes(0, n)
  <2>1. data = GetData
    BY <1>0, <1>6 DEF Found
  <2>2. CASE m_isPacking
    <3>1. m_packedData.ones = store.ones \cap Bytes(0, n)
      BY <1>1, <1>3, <1>6, <2>2 DEF IInv, CopyIsOfAll
    <3> QED BY <2>1, <2>2, <3>1 DEF GetData
  <2>3. CASE ~m_isPacking
    BY <2>1, <2>3 DEF GetData, GetDataSize
  <2> QED BY <2>2, <2>3
<1>7. /\ store'.cursor = 0 /\ store'.numBytes = 0
      /\ store'.ones = data \cup (garbage \ Bytes(0, n))
  BY <1>2 DEF GetDataSize
<1>8. store' \in StoreSet
  <2> DEFINE o == store'.ones
  <2>1. o \in SUBSET Memory
    <3>1. CASE m_packedData.state = "freed"
      <4>1. data \subseteq Bytes(0, n)
        BY <1>0, <3>1 DEF Found, GetDataSize
      <4>2. Bytes(0, n) \subseteq Memory
        <5>1. full \in Nat /\ full <= Allocated * ByteBits /\ Allocated * ByteBits \in Nat
          <6>1. (Allocated - n) * ByteBits >= 0
            BY <1>4
          <6>2. (Allocated - n) * ByteBits = (Allocated * ByteBits) - (n * ByteBits)
            BY <1>4
          <6> QED BY <1>5, <6>1, <6>2
        <5> QED BY <1>5, <5>1 DEF Memory
      <4> QED BY <1>7, <4>1, <4>2
    <3>2. CASE m_packedData.state # "freed"
      BY <1>4, <1>6, <1>7, <3>2
    <3> QED BY <3>1, <3>2
  <2>2. store' = [cursor |-> 0, numBytes |-> 0, ones |-> o]
    BY <1>2
  <2> HIDE DEF o
  <2>3. 0 \in 0 .. Allocated /\ 0 \in Nat
    OBVIOUS
  <2> QED BY <2>1, <2>2, <2>3 DEF StoreSet
<1>9. ASSUME m_packedData.state # "freed", NEW b \in Nat, b < full
      PROVE  b \in store'.ones <=> b \in store.ones
  <2> HIDE DEF full, n
  <2>1. b \in Bytes(0, n)
    BY <1>5, <1>9
  <2> QED BY <1>6, <1>7, <1>9, <2>1
<1>10. TypeOK'
  BY <1>1, <1>4, <1>8 DEF IInv, Typing, TypeOK, StoreSet
<1>11. Places(m_isPacking, written, n) /\ Contents(m_isPacking, written, store.ones)
  BY <1>1 DEF IInv, AllLaid, Intact, BytesCounted
<1>12. ASSUME m_packedData.state # "freed",
              Rules(m_isPacking, written), NEW i \in 1 .. Len(written)
       PROVE  Held(m_isPacking, store'.ones, written[i])
  <2> DEFINE v == written[i]
             old == store.ones
             new == store'.ones
  <2>1. Placed(m_isPacking, v, n) /\ Held(m_isPacking, old, v) /\ v \in Writes
    BY <1>3, <1>11, <1>12, ElementOfSeq DEF Places, Contents
  <2>2. /\ Start(m_isPacking, v) \in Nat /\ Span(m_isPacking, v) \in Nat
        /\ Start(m_isPacking, v) + Span(m_isPacking, v) <= full
    <3> HIDE DEF v
    <3> QED BY <2>1, SpanFacts DEF Placed
  <2>3. \A b \in Nat : b < full => (b \in new <=> b \in old)
    BY <1>9, <1>12
  <2> HIDE DEF v, old, new, full
  <2>4. Held(m_isPacking, new, v)
    BY <1>5, <2>1, <2>2, <2>3, HeldStays
  <2> QED BY <2>4 DEF new, v
<1>13. m_packedData.state # "freed" => Contents(m_isPacking, written, store'.ones)
  BY <1>12 DEF Contents
<1>14. AllLaid' /\ AtTheEnd'
  <2> HIDE DEF n
  <2> QED BY <1>1, <1>11, <1>13 DEF AllLaid, Intact, BytesCounted, AtTheEnd
<1>15. Typing' /\ CopyIsOfAll'
  BY <1>1, <1>10 DEF IInv, Typing, CopyIsOfAll
<1>16. FollowsWriter'
  <2>1. results' = <<>> /\ Len(results') = 0
    BY <1>1, <1>3
  <2> QED BY <1>7, <2>1 DEF FollowsWriter
<1> QED BY <1>14, <1>15, <1>16 DEF IInv

(* Reading starts anew.                                                     *)
LEMMA StartReadingKeeps == IInv /\ StartReading => IInv'
<1> SUFFICES ASSUME IInv, StartReading PROVE IInv'
  OBVIOUS
<1>1. /\ phase = "reading" /\ store' = ResetForRead(store) /\ results' = <<>>
      /\ UNCHANGED <<m_isPacking, phase, m_packedData, m_dataSize, written, discarded>>
  BY DEF StartReading
<1>2. store \in StoreSet /\ written \in Seq(Writes)
  BY DEF IInv, Typing, TypeOK, StoreSet
<1>3. /\ store'.cursor = 0 /\ store'.ones = store.ones /\ store' \in StoreSet
  BY <1>1, <1>2 DEF ResetForRead, StoreSet
<1>4. results' \in Seq(Results) /\ Len(results') = 0 /\ Len(written) \in Nat
  BY <1>1, <1>2
<1>5. TypeOK'
  BY <1>1, <1>3, <1>4 DEF IInv, Typing, TypeOK, StoreSet
<1>6. Typing'
  BY <1>1, <1>4, <1>5 DEF IInv, Typing
<1>7. AllLaid' /\ AtTheEnd' /\ CopyIsOfAll'
  BY <1>1, <1>3 DEF IInv, AllLaid, Intact, BytesCounted, AtTheEnd, CopyIsOfAll
<1>8. FollowsWriter'
  BY <1>1, <1>3, <1>4 DEF FollowsWriter
<1> QED BY <1>6, <1>7, <1>8 DEF IInv

(* A reader that follows is where the next field was written.               *)
LEMMA AtTheNext ==
  ASSUME IInv, MayRead, Rules(m_isPacking, written)
  PROVE  LET w == written[Len(results) + 1]
         IN  /\ store.cursor = w.at
             /\ Intact => Held(m_isPacking, store.ones, w)
<1> DEFINE k == Len(results)
           w == written[k + 1]
<1>1. /\ phase = "reading" /\ k < Len(written) /\ k \in Nat /\ Len(written) \in Nat
      /\ (results = <<>>) <=> (k = 0)
  BY EmptySeq, LenProperties DEF IInv, Typing, MayRead
<1>2. /\ Places(m_isPacking, written, m_dataSize)
      /\ Intact => Contents(m_isPacking, written, store.ones)
  BY <1>1 DEF IInv, AllLaid, BytesCounted
<1>3. store.cursor = IF results = <<>> THEN 0 ELSE ReadTo(m_isPacking, written[k])
  BY <1>1 DEF IInv, FollowsWriter
<1> HIDE DEF k
<1>4. k + 1 \in 1 .. Len(written) /\ (k + 1) - 1 = k /\ (k + 1 = 1 <=> k = 0)
  BY <1>1
<1>5. w.at = IF k = 0 THEN 0 ELSE WrittenTo(m_isPacking, written[k])
  <2> DEFINE j == k + 1
  <2>1. j \in 1 .. Len(written) /\ j - 1 = k /\ (j = 1 <=> k = 0)
    BY <1>4
  <2> HIDE DEF j
  <2>2. written[j].at = IF j = 1 THEN 0 ELSE WrittenTo(m_isPacking, written[j - 1])
    BY <1>2, <2>1 DEF Places, Chained
  <2>3. written[j].at = IF k = 0 THEN 0 ELSE WrittenTo(m_isPacking, written[k])
    BY <2>1, <2>2
  <2> QED BY <2>3 DEF j
<1>6. k # 0 => ReadTo(m_isPacking, written[k]) = WrittenTo(m_isPacking, written[k])
  <2> SUFFICES ASSUME k # 0
               PROVE  ReadTo(m_isPacking, written[k]) = WrittenTo(m_isPacking, written[k])
    OBVIOUS
  <2>1. k \in 1 .. Len(written) /\ k # Len(written)
    BY <1>1
  <2>2. ByteAligned(m_isPacking, written[k]) /\ ~LeavesHalf(m_isPacking, written[k])
    BY <2>1 DEF Rules
  <2>3. Placed(m_isPacking, written[k], m_dataSize)
    BY <1>2, <2>1 DEF Places
  <2> QED BY <2>2, <2>3 DEF Placed
<1>7. store.cursor = w.at
  BY <1>1, <1>3, <1>5, <1>6
<1>8. Intact => Held(m_isPacking, store.ones, w)
  BY <1>2, <1>4 DEF Contents
<1> QED BY <1>7, <1>8 DEF k

(* One more field read.                                                     *)
LEMMA WasRead ==
  ASSUME IInv, MayRead, NEW e \in Nat, NEW r \in Results,
         store' = [store EXCEPT !.cursor = e],
         results' = Append(results, r),
         LET w == written[Len(results) + 1]
         IN  store.cursor = w.at =>
               /\ e = ReadTo(m_isPacking, w)
               /\ (Intact /\ Held(m_isPacking, store.ones, w)) =>
                    KeptBy(m_isPacking, w.field, w.value, r),
         UNCHANGED <<m_isPacking, phase, m_packedData, m_dataSize, written, discarded>>
  PROVE  IInv'
<1> DEFINE k == Len(results)
           w == written[k + 1]
<1>1. /\ phase = "reading" /\ k < Len(written) /\ Len(written) \in Nat
      /\ results \in Seq(Results) /\ store \in StoreSet
  BY LenProperties DEF IInv, Typing, TypeOK, StoreSet, MayRead
<1>2. /\ results' \in Seq(Results) /\ results' # <<>> /\ Len(results') = k + 1
      /\ results'[k + 1] = r /\ k \in Nat
      /\ \A i \in 1 .. k : results'[i] = results[i]
  BY <1>1, Appended
<1>3. store'.cursor = e /\ store'.ones = store.ones /\ store' \in StoreSet
  BY <1>1 DEF StoreSet
<1>4. Len(results') <= Len(written)
  BY <1>1, <1>2
<1>5. TypeOK'
  BY <1>1, <1>3, <1>4 DEF IInv, Typing, TypeOK, StoreSet
<1>6. Typing'
  BY <1>2, <1>5 DEF IInv, Typing
<1>7. AllLaid' /\ AtTheEnd' /\ CopyIsOfAll'
  BY <1>1, <1>3 DEF IInv, AllLaid, Intact, BytesCounted, AtTheEnd, CopyIsOfAll
<1>8. ASSUME Rules(m_isPacking, written)
      PROVE  /\ e = ReadTo(m_isPacking, w)
             /\ Intact => \A i \in 1 .. k + 1 :
                  KeptBy(m_isPacking, written[i].field, written[i].value, results'[i])
  <2>1. store.cursor = w.at /\ (Intact => Held(m_isPacking, store.ones, w))
    BY <1>8, AtTheNext
  <2>2. /\ e = ReadTo(m_isPacking, w)
        /\ Intact => KeptBy(m_isPacking, w.field, w.value, r)
    BY <2>1
  <2>3. Intact => \A i \in 1 .. k :
          KeptBy(m_isPacking, written[i].field, written[i].value, results[i])
    BY <1>1, <1>8 DEF IInv, FollowsWriter
  <2> HIDE DEF k
  <2> SUFFICES ASSUME Intact, NEW i \in 1 .. k + 1
               PROVE  KeptBy(m_isPacking, written[i].field, written[i].value, results'[i])
    BY <2>2
  <2>4. i # k + 1 => i \in 1 .. k
    BY <1>2
  <2> QED BY <1>2, <2>2, <2>3, <2>4
<1>9. FollowsWriter'
  <2> HIDE DEF k
  <2> QED BY <1>2, <1>3, <1>8 DEF FollowsWriter, Intact
<1> QED BY <1>6, <1>7, <1>9 DEF IInv

(* The field the next read is for.                                          *)
LEMMA NextIsWritten ==
  ASSUME IInv, MayRead
  PROVE  /\ written[Len(results) + 1] \in Writes
         /\ NextField = written[Len(results) + 1].field
         /\ NextField \in Fields
         /\ m_isPacking \in BOOLEAN /\ store \in StoreSet /\ store.cursor \in Nat
<1>1. /\ Len(results) < Len(written) /\ Len(written) \in Nat /\ Len(results) \in Nat
      /\ written \in Seq(Writes)
  BY LenProperties DEF IInv, Typing, MayRead
<1>2. Len(results) + 1 \in 1 .. Len(written)
  BY <1>1
<1>3. written[Len(results) + 1] \in Writes
  BY <1>1, <1>2, ElementOfSeq
<1>4. m_isPacking \in BOOLEAN /\ store \in StoreSet
  BY DEF IInv, Typing, TypeOK, StoreSet
<1> QED BY <1>3, <1>4, WriteParts, StoreParts DEF NextField, StoreTyped

(* A number read.                                                           *)
LEMMA ReadKeeps == IInv /\ Read => IInv'
<1> SUFFICES ASSUME IInv, Read PROVE IInv'
  OBVIOUS
<1> USE BitPackAssumption
<1> DEFINE f == NextField
           w == written[Len(results) + 1]
           n == IF m_isPacking THEN Width(f) ELSE f.size * ByteBits
           r == NumberRead(m_isPacking, store, f)
           e == store.cursor + n
<1>1. /\ MayRead /\ ~IsBlock(f)
      /\ UNCHANGED <<m_isPacking, phase, m_packedData, m_dataSize, written, discarded>>
  BY DEF Read
<1>2. /\ results' = Append(results, IF m_isPacking THEN Restored(f, PopFront(store, n))
                                                   ELSE Typed(f, PopFront(store, n)))
      /\ store' = Popped(store, n)
  BY DEF Read
<1>3. /\ w \in Writes /\ f = w.field /\ f \in Fields
      /\ m_isPacking \in BOOLEAN /\ store.cursor \in Nat
  BY <1>1, NextIsWritten
<1>4. n \in Nat
  BY <1>1, <1>3, WidthFits, FieldFacts
<1>5. results' = Append(results, r)
  BY <1>2 DEF NumberRead
<1>6. store' = [store EXCEPT !.cursor = e]
  BY <1>2 DEF Popped
<1>7. r \in Results
  BY <1>1, <1>3, NumberReadType DEF Results
<1>8. ASSUME store.cursor = w.at
      PROVE  /\ e = ReadTo(m_isPacking, w)
             /\ (Intact /\ Held(m_isPacking, store.ones, w)) =>
                  KeptBy(m_isPacking, w.field, w.value, r)
  <2>1. e = ReadTo(m_isPacking, w)
    BY <1>1, <1>3, <1>8 DEF ReadTo, Behind, Span
  <2>2. ~IsBlock(w.field)
    BY <1>1, <1>3
  <2> HIDE DEF w, f
  <2>3. Held(m_isPacking, store.ones, w) =>
          KeptBy(m_isPacking, w.field, w.value, NumberRead(m_isPacking, store, w.field))
    BY <1>3, <1>8, <2>2, NumberReadKept
  <2> QED BY <1>3, <2>1, <2>3
<1>9. e \in Nat
  BY <1>3, <1>4
<1> HIDE DEF r, e, n, f
<1> QED BY <1>1, <1>5, <1>6, <1>7, <1>8, <1>9, WasRead

(* A block read.                                                            *)
LEMMA ReadDataKeeps == IInv /\ ReadData => IInv'
<1> SUFFICES ASSUME IInv, ReadData PROVE IInv'
  OBVIOUS
<1> USE BitPackAssumption
<1> DEFINE f == NextField
           w == written[Len(results) + 1]
           block == BlockRead(m_isPacking, store, f)
           e == IF m_isPacking THEN BlockEnd(store, "c08", f.size)
                               ELSE store.cursor + f.size * ByteBits
<1>1. /\ MayRead /\ IsBlock(f)
      /\ UNCHANGED <<m_isPacking, phase, m_packedData, m_dataSize, written, discarded>>
  BY DEF ReadData
<1>2. PICK r \in Found(0 .. f.size * ByteBits - 1, block) : results' = Append(results, r)
  <2>1. PICK r \in Found(0 .. f.size * ByteBits - 1, BlockAt(store, f.size)) :
          results' = Append(results, r)
    BY Zenon DEF ReadData
  <2>2. BlockAt(store, f.size) = block
    BY DEF BlockAt, BlockRead
  <2> QED BY <2>1, <2>2
<1>10. store' = [store EXCEPT !.cursor =
           IF m_isPacking THEN BlockEnd(store, "c08", f.size)
                          ELSE @ + f.size * ByteBits]
  BY DEF ReadData
<1>3. /\ w \in Writes /\ f = w.field /\ f \in Fields
      /\ m_isPacking \in BOOLEAN /\ store.cursor \in Nat
  BY <1>1, NextIsWritten
<1>4. f.size \in Nat \ {0} /\ f.size * ByteBits \in Nat
  BY <1>3, FieldFacts
<1>5. store' = [store EXCEPT !.cursor = e]
  BY <1>10
<1>6. BlockEnd(store, "c08", f.size) = BlockEnd([cursor |-> store.cursor], "c08", f.size)
  BY DEF BlockEnd, m_bytePos
<1>7. e \in Nat
  <2>1. BlockEnd([cursor |-> store.cursor], "c08", f.size) \in Nat
    <3> DEFINE c == store.cursor
               n == f.size
    <3>1. c \in Nat /\ n \in Nat \ {0}
      BY <1>3, <1>4
    <3> HIDE DEF c, n
    <3>2. BlockEnd([cursor |-> c], "c08", n) \in Nat
      BY <3>1, BlockPlace
    <3> QED BY <3>2 DEF c, n
  <2> QED BY <1>3, <1>4, <1>6, <2>1
<1>8. r \in Results
  <2> DEFINE top == f.size * ByteBits
  <2>1. r \subseteq 0 .. top - 1 /\ top \in Nat
    <3>1. block \subseteq 0 .. top - 1
      BY DEF BlockRead
    <3> HIDE DEF block
    <3> QED BY <1>2, <1>4, <3>1 DEF Found
  <2> HIDE DEF top
  <2>2. r \subseteq Int
    BY <2>1
  <2> QED BY <2>2 DEF Results
<1>9. ASSUME store.cursor = w.at
      PROVE  /\ e = ReadTo(m_isPacking, w)
             /\ (Intact /\ Held(m_isPacking, store.ones, w)) =>
                  KeptBy(m_isPacking, w.field, w.value, r)
  <2>1. e = ReadTo(m_isPacking, w)
    BY <1>1, <1>3, <1>6, <1>9 DEF ReadTo, Behind, Span
  <2>2. IsBlock(w.field)
    BY <1>1, <1>3
  <2>3. ~m_isPacking => w.at % ByteBits = 0
    <3>1. phase = "reading" /\ Len(results) + 1 \in 1 .. Len(written)
      BY <1>1, LenProperties DEF IInv, Typing, MayRead
    <3>2. Placed(m_isPacking, w, m_dataSize)
      BY <3>1 DEF IInv, AllLaid, BytesCounted, Places
    <3> QED BY <3>2 DEF Placed
  <2>4. Intact => r = block
    BY <1>1, <1>2 DEF Found, Intact, MayRead
  <2> HIDE DEF w, f
  <2>5. Held(m_isPacking, store.ones, w) =>
          BlockRead(m_isPacking, store, w.field) = w.value
    BY <1>3, <1>9, <2>2, <2>3, BlockReadKept
  <2>6. (Intact /\ Held(m_isPacking, store.ones, w)) =>
          KeptBy(m_isPacking, w.field, w.value, r)
    BY <1>3, <2>2, <2>4, <2>5 DEF KeptBy
  <2> QED BY <2>1, <2>6
<1> HIDE DEF block, e, f
<1> QED BY <1>1, <1>2, <1>5, <1>7, <1>8, <1>9, WasRead

(* A step in which nothing happens.                                         *)
LEMMA StutterKeeps == IInv /\ UNCHANGED vars => IInv'
<1> SUFFICES ASSUME IInv, UNCHANGED vars PROVE IInv'
  OBVIOUS
<1>1. UNCHANGED <<m_isPacking, phase, store, m_packedData, m_dataSize, written,
                  discarded, results>>
  BY DEF vars
<1>2. TypeOK'
  BY <1>1 DEF IInv, Typing, TypeOK
<1>3. Typing' /\ AllLaid' /\ AtTheEnd'
  BY <1>1, <1>2 DEF IInv, Typing, AllLaid, Intact, BytesCounted, AtTheEnd
<1>4. CopyIsOfAll' /\ FollowsWriter'
  BY <1>1 DEF IInv, CopyIsOfAll, FollowsWriter, Intact
<1> QED BY <1>3, <1>4 DEF IInv

(* Every step keeps the invariant.                                          *)
LEMMA EncoderStep == IInv /\ [Next]_vars => IInv'
<1> SUFFICES ASSUME IInv, [Next]_vars PROVE IInv'
  OBVIOUS
<1>1. CASE Write
  BY <1>1, WriteKeeps
<1>2. CASE WriteData
  BY <1>2, WriteDataKeeps
<1>3. CASE StartWriting
  BY <1>3, StartWritingKeeps
<1>4. CASE DoneWriting
  BY <1>4, DoneWritingKeeps
<1>5. CASE OpenForReading
  BY <1>5, OpenForReadingKeeps
<1>6. CASE StartReading
  BY <1>6, StartReadingKeeps
<1>7. CASE Read
  BY <1>7, ReadKeeps
<1>8. CASE ReadData
  BY <1>8, ReadDataKeeps
<1>9. CASE UNCHANGED vars
  BY <1>9, StutterKeeps
<1> QED BY <1>1, <1>2, <1>3, <1>4, <1>5, <1>6, <1>7, <1>8, <1>9 DEF Next

(* It holds in every state.                                                 *)
LEMMA EncoderInvariant == Spec => []IInv
  BY EncoderInit, EncoderStep, PTL DEF Spec

-----------------------------------------------------------------------------
(* The theorems. *)

(* The rules of the module are those of its last property.                  *)
LEMMA RulesAreKept ==
  ASSUME IInv
  PROVE  (m_isPacking => KeepsToTheRules) <=> Rules(m_isPacking, written)
<1>1. m_isPacking \in BOOLEAN
  BY DEF IInv, Typing, TypeOK
<1> QED BY <1>1 DEF KeepsToTheRules, BlocksAreAligned, Rules, ByteAligned, LeavesHalf

(* An encoder never counts more bytes than it was given, whatever is        *)
(* written, with packing and without.                                       *)
THEOREM EncoderTypeCorrect == Spec => []TypeOK
<1>1. IInv => TypeOK
  BY DEF IInv, Typing
<1> QED BY <1>1, EncoderInvariant, PTL

(* What a writer that keeps to the rules writes is what the reader reads,   *)
(* whatever was in the memory of either, unless the encoder was written     *)
(* again after DoneWriting: every integer and block, and every value that   *)
(* is not packed.                                                           *)
THEOREM EncoderReadsBack == Spec => []ReadsBack
<1>1. IInv => ReadsBack
  <2> SUFFICES ASSUME IInv, ReadsTheData, m_isPacking => KeepsToTheRules,
                      NEW i \in 1 .. Len(results),
                      ~IsPackedFloat(written[i].field)
               PROVE  Kept(written[i].field, written[i].value, results[i])
    BY DEF ReadsBack
  <2>1. Rules(m_isPacking, written)
    BY RulesAreKept
  <2>2. phase = "reading" /\ Intact
    BY DEF ReadsTheData, Intact
  <2>3. KeptBy(m_isPacking, written[i].field, written[i].value, results[i])
    BY <2>1, <2>2 DEF IInv, FollowsWriter
  <2>4. m_isPacking \in BOOLEAN
    BY DEF IInv, Typing, TypeOK
  <2> QED BY <2>3, <2>4 DEF Kept, KeptBy, IsPackedFloat
<1> QED BY <1>1, EncoderInvariant, PTL

(* What is sent is what was written to: no bit of a write is cut off, and   *)
(* if the blocks are byte aligned no byte is sent that was left as it was,  *)
(* also after StartWriting, and also when a block of u08 is followed by     *)
(* more.                                                                    *)
THEOREM EncoderBytesHoldBits == Spec => []BytesHoldBits
<1>1. IInv => BytesHoldBits
  <2> SUFFICES ASSUME IInv PROVE BytesHoldBits
    OBVIOUS
  <2> USE BitPackAssumption
  <2> DEFINE n == BytesCounted
             first(i) == Start(m_isPacking, written[i])
             span(i) == Span(m_isPacking, written[i])
  <2>1. /\ m_isPacking \in BOOLEAN /\ written \in Seq(Writes)
        /\ Places(m_isPacking, written, n)
    BY DEF IInv, Typing, TypeOK, AllLaid
  <2>2. n \in Nat
    <3>1. Allocated \in Nat /\ m_dataSize \in 0 .. Allocated /\ store \in StoreSet
      BY EncoderAssumption DEF IInv, Typing, TypeOK, StoreSet
    <3>2. store.numBytes \in 0 .. Allocated
      BY <3>1, StoreParts DEF StoreTyped
    <3> QED BY <3>1, <3>2 DEF BytesCounted
  <2>3. Bytes(0, n) = 0 .. (n * ByteBits) - 1
    <3>1. 0 * ByteBits = 0 /\ 0 + n = n
      BY <2>2
    <3> QED BY <3>1 DEF Bytes
  <2>4. \A i \in 1 .. Len(written) :
          BitsOf(written[i]) = first(i) .. first(i) + span(i) - 1
    BY <2>1 DEF BitsOf, Start, Span
  <2>5. \A i \in 1 .. Len(written) :
          /\ first(i) \in Nat /\ span(i) \in Nat
          /\ first(i) + span(i) <= n * ByteBits
    BY <2>1, ElementOfSeq, SpanFacts DEF Places, Placed
  <2>6. Covered(m_isPacking, written, n)
    BY <2>1 DEF Places
  <2>7. (m_isPacking => BlocksAreAligned) =>
          \A i \in 1 .. Len(written) : ByteAligned(m_isPacking, written[i])
    BY DEF BlocksAreAligned, ByteAligned
  <2>8. (m_isPacking => BlocksAreAligned) =>
          \A b \in Nat : b < n =>
            \E i \in 1 .. Len(written) :
              first(i) <= b * ByteBits /\ b * ByteBits < first(i) + span(i)
    BY <2>6, <2>7 DEF Covered
  <2> HIDE DEF n, first, span
  <2> DEFINE bits == UNION {BitsOf(written[i]) : i \in 1 .. Len(written)}
  <2>9. bits \subseteq Bytes(0, n)
    <3> SUFFICES ASSUME NEW i \in 1 .. Len(written), NEW x \in BitsOf(written[i])
                 PROVE  x \in Bytes(0, n)
      OBVIOUS
    <3>1. x \in first(i) .. first(i) + span(i) - 1
      BY <2>4
    <3>2. n * ByteBits \in Nat
      BY <2>2
    <3> QED BY <2>3, <2>5, <3>1, <3>2
  <2>10. ASSUME m_isPacking => BlocksAreAligned, NEW b \in 0 .. n - 1
         PROVE  b * ByteBits \in bits
    <3>1. b \in Nat /\ b < n /\ b * ByteBits \in Nat
      BY <2>2
    <3>2. PICK i \in 1 .. Len(written) :
            first(i) <= b * ByteBits /\ b * ByteBits < first(i) + span(i)
      BY <2>8, <2>10, <3>1
    <3> DEFINE x == b * ByteBits
    <3>3. x \in Nat /\ first(i) <= x /\ x < first(i) + span(i)
      BY <3>1, <3>2
    <3> HIDE DEF x
    <3>4. x \in first(i) .. first(i) + span(i) - 1
      BY <2>5, <3>3
    <3>5. x \in BitsOf(written[i])
      BY <2>4, <3>4
    <3> QED BY <3>5 DEF x
  <2> HIDE DEF bits
  <2> QED BY <2>9, <2>10 DEF BytesHoldBits, bits, n
<1> QED BY <1>1, EncoderInvariant, PTL

(* A reader of what such a writer wrote stays within the bytes sent.        *)
THEOREM EncoderReadsWithinData == Spec => []ReadsWithinData
<1>1. IInv => ReadsWithinData
  <2> SUFFICES ASSUME IInv, phase = "reading", m_isPacking => KeepsToTheRules
               PROVE  store.cursor <= m_dataSize * ByteBits
    BY DEF ReadsWithinData
  <2> USE BitPackAssumption
  <2>1. Rules(m_isPacking, written)
    BY RulesAreKept
  <2>2. /\ m_dataSize \in 0 .. Allocated /\ Allocated \in Nat
        /\ results \in Seq(Results)
        /\ Len(results) <= Len(written) /\ Len(written) \in Nat
    BY EncoderAssumption, LenProperties DEF IInv, Typing, TypeOK
  <2>3. Len(results) \in Nat /\ ((results = <<>>) <=> (Len(results) = 0))
    BY <2>2, LenProperties, EmptySeq
  <2>4. m_dataSize * ByteBits \in Nat
    BY <2>2
  <2>5. store.cursor = IF results = <<>> THEN 0
                       ELSE ReadTo(m_isPacking, written[Len(results)])
    BY <2>1 DEF IInv, FollowsWriter
  <2>6. CASE results = <<>>
    BY <2>4, <2>5, <2>6
  <2>7. CASE results # <<>>
    <3>1. Len(results) \in 1 .. Len(written)
      BY <2>2, <2>3, <2>7
    <3>2. Placed(m_isPacking, written[Len(results)], m_dataSize)
      BY <3>1 DEF IInv, AllLaid, BytesCounted, Places
    <3> QED BY <2>5, <2>7, <3>2 DEF Placed
  <2> QED BY <2>6, <2>7
<1> QED BY <1>1, EncoderInvariant, PTL

(* Without packing, a loop "while not AtEnd" reads all that was written and *)
(* nothing more.                                                            *)
THEOREM EncoderAtEndIffAllRead == Spec => []AtEndIffAllRead
<1>1. IInv => AtEndIffAllRead
  <2> SUFFICES ASSUME IInv, ~m_isPacking, phase = "reading"
               PROVE  AtEnd <=> Len(results) = Len(written)
    BY DEF AtEndIffAllRead
  <2> USE BitPackAssumption
  <2> DEFINE k == Len(results)
             n == Len(written)
             end == m_dataSize * ByteBits
  <2>1. AtEnd <=> store.cursor >= end
    BY DEF AtEnd
  <2>2. m_isPacking = FALSE /\ Rules(m_isPacking, written)
    <3>1. m_isPacking \in BOOLEAN
      BY DEF IInv, Typing, TypeOK
    <3>2. Rules(m_isPacking, written)
      BY RulesAreKept
    <3> QED BY <3>1, <3>2
  <2>3. /\ k \in Nat /\ n \in Nat /\ k <= n
        /\ (results = <<>>) <=> (k = 0)
        /\ (written = <<>>) <=> (n = 0)
        /\ m_dataSize \in Nat /\ store.cursor \in Nat
    <3>1. /\ results \in Seq(Results) /\ written \in Seq(Writes) /\ k <= n
          /\ m_dataSize \in 0 .. Allocated /\ store \in StoreSet
      BY DEF IInv, Typing, TypeOK, StoreSet
    <3>2. Allocated \in Nat
      BY EncoderAssumption
    <3> QED BY <3>1, <3>2, LenProperties, EmptySeq, StoreParts DEF StoreTyped
  <2>4. end \in Nat
    BY <2>3
  <2>5. Places(m_isPacking, written, m_dataSize)
    BY DEF IInv, AllLaid, BytesCounted
  <2>6. EndOf(m_isPacking, written) = end
    BY <2>5 DEF Places
  <2> HIDE DEF k, n, end
  <2>7. ASSUME NEW i \in 1 .. n
        PROVE  /\ WrittenTo(m_isPacking, written[i]) \in Nat
               /\ written[i].at < WrittenTo(m_isPacking, written[i])
               /\ ReadTo(m_isPacking, written[i]) = WrittenTo(m_isPacking, written[i])
               /\ WrittenTo(m_isPacking, written[i]) <= end
    <3>1. Placed(m_isPacking, written[i], m_dataSize)
      BY <2>5, <2>7 DEF Places, n
    <3>2. ByteAligned(m_isPacking, written[i]) /\ ~LeavesHalf(m_isPacking, written[i])
      BY <2>2 DEF ByteAligned, LeavesHalf
    <3> QED BY <3>1, <3>2 DEF Placed, end
  <2>8. CASE k = n
    <3>1. store.cursor = IF results = <<>> THEN 0 ELSE ReadTo(m_isPacking, written[k])
      BY <2>2 DEF IInv, FollowsWriter, k
    <3>2. end = IF written = <<>> THEN 0 ELSE WrittenTo(m_isPacking, written[n])
      BY <2>6 DEF EndOf, n
    <3>3. n # 0 => n \in 1 .. n
      BY <2>3
    <3>4. store.cursor = end
      BY <2>3, <2>7, <2>8, <3>1, <3>2, <3>3
    <3> QED BY <2>1, <2>3, <2>4, <2>8, <3>4 DEF k, n
  <2>9. CASE k # n
    <3>1. k < n /\ k + 1 \in 1 .. n
      BY <2>3, <2>9
    <3>2. MayRead
      BY <3>1 DEF MayRead, k, n
    <3>3. store.cursor = written[k + 1].at
      BY <2>2, <3>2, AtTheNext DEF k
    <3>4. store.cursor < end
      <4> DEFINE x == WrittenTo(m_isPacking, written[k + 1])
      <4>1. x \in Nat /\ written[k + 1].at < x /\ x <= end
        BY <2>7, <3>1
      <4> HIDE DEF x
      <4> QED BY <2>3, <2>4, <3>3, <4>1
    <3> QED BY <2>1, <2>3, <2>4, <2>9, <3>4 DEF k, n
  <2> QED BY <2>8, <2>9
<1> QED BY <1>1, EncoderInvariant, PTL
=============================================================================

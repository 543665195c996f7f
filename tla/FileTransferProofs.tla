-------------------------- MODULE FileTransferProofs --------------------------
(***************************************************************************)
(* A file transfer implements FileCopy for a file of any length and        *)
(* connections that hand up any number of copies: over its first connection*)
(* the file at the receiver only ever grows by its next chunk, also after  *)
(* the end has started the count anew; when a late SYN has made another    *)
(* one, by the next chunk or the first.                                    *)
(***************************************************************************)
EXTENDS FileTransfer, SequenceTheorems, FiniteSetTheorems,
        WellFoundedInduction, TLAPS

ChunkNumbers == 1 .. Chunks

(* The places of the receiver's connection that hold n.                     *)
Places(s, n) == {i \in DOMAIN s : s[i] = n}

(* No more copies of a packet are waiting than have been handed up.         *)
CopiesAreHandedUp ==
  \A n \in Numbers :
    Cardinality(Places(handed, n)) + messagesReceived_[n] <= got[n]

(* The file is a beginning of the file sent. The next chunk is counted from *)
(* its length until the end has started the count anew.                     *)
FileIsBeginning ==
  /\ Len(file) <= Chunks
  /\ \A i \in DOMAIN file : file[i] = i
  /\ lastSeqTaken = Len(file) \/ (ended /\ lastSeqTaken = 0)

(* What is in the file, or was the end, has been handed up.                 *)
WrittenIsHandedUp ==
  /\ \A n \in 1 .. Len(file) : got[n] > 0
  /\ ended => got[Final] > 0

(* A message is late when the end comes before it.                          *)
IsLate(i) ==
  ended \/ messagesReceived_[Final] > 0 \/ \E j \in 1 .. i - 1 : handed[j] = Final

(* A late chunk is the only copy of a chunk that is not in the file: the    *)
(* connection hands up what is not its newest packet once.                  *)
LateIsNew ==
  \A i \in DOMAIN handed : handed[i] # Final /\ IsLate(i) =>
    /\ messagesReceived_[handed[i]] = 0 /\ handed[i] > Len(file)
    /\ \A j \in DOMAIN handed : handed[j] = handed[i] => j = i

(* So once the end is taken no chunk waits that is in the file.             *)
WaitingIsNew ==
  ended => \A n \in ChunkNumbers : messagesReceived_[n] > 0 =>
    /\ messagesReceived_[n] = 1 /\ n > Len(file)
    /\ \A i \in DOMAIN handed : handed[i] # n

FirstCopyInv ==
  /\ TypeOK /\ CopiesAreHandedUp /\ FileIsBeginning /\ WrittenIsHandedUp
  /\ LateIsNew /\ WaitingIsNew

(* Before the first connection nothing has been handed up.                  *)
SilentBefore == made = 0 => got = Silence /\ handed = <<>> /\ ~connected

(* The count is that of the last chunk of the file, or starts anew.         *)
LastIsTaken ==
  lastSeqTaken = 0 \/ (file # <<>> /\ file[Len(file)] = lastSeqTaken)

TransferInv ==
  /\ TypeOK /\ SilentBefore /\ LastIsTaken
  /\ made <= 1 => FirstCopyInv

-----------------------------------------------------------------------------
(* Facts about the operators of the model. *)

(* A set of numbers that is not empty has a least one.                      *)
LEMMA LeastNumber ==
  ASSUME NEW S \in SUBSET Nat, S # {}
  PROVE  \E i \in S : \A j \in S : i <= j
<1> DEFINE Less == OpToRel(<, Nat)
<1>1. IsWellFoundedOn(Less, Nat)
  BY NatLessThanWellFounded
<1>2. PICK i \in S : \A j \in S : ~(<<j, i>> \in Less)
  <2> HIDE DEF Less
  <2> QED BY <1>1, WFMin
<1>3. ASSUME NEW j \in S PROVE i <= j
  <2>1. <<j, i>> \in Nat \X Nat
    OBVIOUS
  <2>2. ~(j < i)
    BY <1>2, <2>1 DEF OpToRel
  <2> QED BY <2>2
<1> QED BY <1>3

(* The numbers of a transfer.                                               *)
LEMMA NumbersAre ==
  /\ Chunks \in Nat \ {0} /\ MaxCopies \in Nat \ {0} /\ MaxMade \in Nat \ {0}
  /\ MaxLines \in Nat /\ Packets = 0 .. Chunks + 1
  /\ Final = Chunks + 1 /\ Numbers = 1 .. Chunks + 1 /\ Final \in Numbers
  /\ Numbers \subseteq Nat /\ ChunkNumbers \subseteq Numbers
  /\ \A n \in Numbers : n \in ChunkNumbers <=> n # Final
BY TransferAssumption, ConsoleAssumption DEF Final, Numbers, Packets, ChunkNumbers

(* The top of the priority queue is its least number.                       *)
LEMMA TopIsLeast ==
  ASSUME Waiting # {}
  PROVE  /\ Top \in Numbers /\ messagesReceived_[Top] > 0
         /\ \A n \in Numbers : messagesReceived_[n] > 0 => Top <= n
<1>1. Waiting \in SUBSET Nat
  BY NumbersAre DEF Waiting
<1>2. \E n \in Waiting : \A m \in Waiting : n <= m
  BY <1>1, LeastNumber
<1>3. Top \in Waiting /\ \A m \in Waiting : Top <= m
  BY <1>2 DEF Top
<1> QED BY <1>3 DEF Waiting

(* A message handed up is in one place more,                                *)
LEMMA PlacesOfAppend ==
  ASSUME NEW s \in Seq(Numbers), NEW k \in Numbers, NEW n \in Numbers
  PROVE  /\ Cardinality(Places(s, n)) \in Nat
         /\ Cardinality(Places(Append(s, k), n)) =
              IF k = n THEN Cardinality(Places(s, n)) + 1
                       ELSE Cardinality(Places(s, n))
<1>1. Len(s) \in Nat /\ DOMAIN s = 1 .. Len(s)
  BY LenProperties
<1>2. /\ DOMAIN Append(s, k) = 1 .. Len(s) + 1
      /\ \A i \in 1 .. Len(s) : Append(s, k)[i] = s[i]
      /\ Append(s, k)[Len(s) + 1] = k
  BY <1>1, AppendProperties
<1>3. IsFiniteSet(Places(s, n)) /\ Len(s) + 1 \notin Places(s, n)
  <2>1. IsFiniteSet(1 .. Len(s))
    BY <1>1, FS_Interval
  <2>2. Places(s, n) \subseteq 1 .. Len(s)
    BY <1>1 DEF Places
  <2> QED BY <1>1, <2>1, <2>2, FS_Subset
<1>4. Places(Append(s, k), n) =
        IF k = n THEN Places(s, n) \cup {Len(s) + 1} ELSE Places(s, n)
  BY <1>1, <1>2 DEF Places
<1>5. Cardinality(Places(s, n) \cup {Len(s) + 1}) = Cardinality(Places(s, n)) + 1
  <2> DEFINE P == Places(s, n)
             e == Len(s) + 1
  <2>1. IsFiniteSet(P) /\ e \notin P
    BY <1>3
  <2> HIDE DEF P, e
  <2>2. Cardinality(P \cup {e}) = Cardinality(P) + 1
    BY <2>1, FS_AddElement
  <2> QED BY <2>2 DEF P, e
<1>6. Cardinality(Places(s, n)) \in Nat
  BY <1>3, FS_CardinalityType
<1> QED BY <1>4, <1>5, <1>6

(* and one that is received leaves one: the places behind it move up.       *)
LEMMA PlacesOfTail ==
  ASSUME NEW s \in Seq(Numbers), s # <<>>, NEW n \in Numbers
  PROVE  /\ Cardinality(Places(Tail(s), n)) \in Nat
         /\ Cardinality(Places(s, n)) =
              IF Head(s) = n THEN Cardinality(Places(Tail(s), n)) + 1
                             ELSE Cardinality(Places(Tail(s), n))
<1> DEFINE T == Places(Tail(s), n)
           P == Places(s, n) \ {1}
           up == [i \in T |-> i + 1]
<1>1. Len(s) \in Nat \ {0} /\ DOMAIN s = 1 .. Len(s)
  BY LenProperties, EmptySeq
<1>2. /\ Tail(s) \in Seq(Numbers) /\ DOMAIN Tail(s) = 1 .. Len(s) - 1
      /\ \A i \in 1 .. Len(s) - 1 : Tail(s)[i] = s[i + 1]
      /\ Head(s) = s[1]
  BY <1>1, HeadTailProperties, LenProperties
<1>3. T \subseteq 1 .. Len(s) - 1 /\ Places(s, n) \subseteq 1 .. Len(s)
  BY <1>1, <1>2 DEF Places
<1>4. IsFiniteSet(T) /\ IsFiniteSet(Places(s, n))
  <2> HIDE DEF T
  <2>1. IsFiniteSet(1 .. Len(s) - 1) /\ IsFiniteSet(1 .. Len(s))
    <3>1. Len(s) - 1 \in Int /\ Len(s) \in Int /\ 1 \in Int
      BY <1>1
    <3> QED BY <3>1, FS_Interval
  <2> QED BY <1>3, <2>1, FS_Subset
<1>5. up \in Bijection(T, P)
  <2>1. \A i \in T : i + 1 \in P
    BY <1>1, <1>2 DEF Places
  <2>2. \A j \in P : j - 1 \in T /\ (j - 1) + 1 = j
    BY <1>1, <1>2 DEF Places
  <2>3. T \subseteq Nat
    BY <1>3
  <2> HIDE DEF T, P
  <2>4. up \in [T -> P] /\ \A i, j \in T : up[i] = up[j] => i = j
    BY <2>1, <2>3
  <2>5. \A j \in P : \E i \in T : up[i] = j
    BY <2>2
  <2> QED BY <2>4, <2>5 DEF Bijection, Injection, Surjection, IsInjective
<1>6. Cardinality(P) = Cardinality(T)
  <2> HIDE DEF T, P, up
  <2>1. ExistsBijection(T, P)
    BY <1>5 DEF ExistsBijection
  <2> QED BY <1>4, <2>1, FS_Bijection
<1>7. Cardinality(T) \in Nat
  <2> HIDE DEF T
  <2> QED BY <1>4, FS_CardinalityType
<1>8. CASE Head(s) = n
  <2>1. 1 \in Places(s, n)
    BY <1>1, <1>2, <1>8 DEF Places
  <2>2. Cardinality(P) = Cardinality(Places(s, n)) - 1
    BY <1>4, <2>1, FS_RemoveElement
  <2>3. Cardinality(Places(s, n)) \in Nat
    BY <1>4, FS_CardinalityType
  <2> HIDE DEF P, T
  <2>4. Cardinality(Places(s, n)) = Cardinality(T) + 1
    BY <1>6, <1>7, <2>2, <2>3
  <2> QED BY <1>7, <1>8, <2>4 DEF T
<1>9. CASE Head(s) # n
  <2>1. P = Places(s, n)
    BY <1>1, <1>2, <1>9 DEF Places
  <2> QED BY <1>6, <1>7, <1>9, <2>1
<1> QED BY <1>8, <1>9

-----------------------------------------------------------------------------
(* The types the proofs use, with the bounds of the model unfolded.         *)
LEMMA TransferTypes ==
  ASSUME TypeOK
  PROVE  /\ got \in [Numbers -> Nat] /\ messagesReceived_ \in [Numbers -> Nat]
         /\ \A n \in Numbers : got[n] <= MaxCopies
         /\ handed \in Seq(Numbers) /\ Len(handed) \in Nat
         /\ DOMAIN handed = 1 .. Len(handed)
         /\ \A i \in DOMAIN handed : handed[i] \in Numbers
         /\ file \in Seq(ChunkNumbers) /\ Len(file) \in Nat
         /\ DOMAIN file = 1 .. Len(file)
         /\ lastSeqTaken \in Nat /\ lastSeqTaken <= Final /\ ended \in BOOLEAN
<1>1. handed \in Seq(Numbers) /\ file \in Seq(ChunkNumbers)
  BY DEF TypeOK, ChunkNumbers
<1>2. /\ Len(handed) \in Nat /\ DOMAIN handed = 1 .. Len(handed)
      /\ Len(file) \in Nat /\ DOMAIN file = 1 .. Len(file)
      /\ \A i \in DOMAIN handed : handed[i] \in Numbers
  BY <1>1, LenProperties, ElementOfSeq
<1>3. /\ got \in [Numbers -> 0 .. MaxCopies]
      /\ messagesReceived_ \in [Numbers -> Nat]
      /\ lastSeqTaken \in 0 .. Chunks /\ ended \in BOOLEAN
  BY DEF TypeOK
<1>4. 0 .. MaxCopies \subseteq Nat /\ \A c \in 0 .. MaxCopies : c <= MaxCopies
  BY NumbersAre
<1> QED BY <1>1, <1>2, <1>3, <1>4, NumbersAre

(* A step that touches nothing of the transfer.                             *)
LEMMA ElsewhereKeepsTransfer ==
  ASSUME FirstCopyInv, TypeOK',
         UNCHANGED <<got, handed, messagesReceived_, lastSeqTaken, file, ended>>
  PROVE  FirstCopyInv'
<1>1. CopiesAreHandedUp' /\ FileIsBeginning' /\ WrittenIsHandedUp'
  BY DEF FirstCopyInv, CopiesAreHandedUp, FileIsBeginning, WrittenIsHandedUp,
         Places
<1>2. LateIsNew' /\ WaitingIsNew'
  BY DEF FirstCopyInv, LateIsNew, WaitingIsNew, IsLate
<1> QED BY <1>1, <1>2 DEF FirstCopyInv

(* The packet that is handed up goes behind the others. Behind the end it   *)
(* is not the newest any more, so it has never been handed up before.       *)
LEMMA ArriveKeepsTransfer ==
  ASSUME FirstCopyInv, NEW n \in Numbers, Accepts(n), got[n] < MaxCopies,
         got' = [got EXCEPT ![n] = @ + 1], handed' = Append(handed, n),
         UNCHANGED <<messagesReceived_, lastSeqTaken, file, ended>>, TypeOK'
  PROVE  FirstCopyInv'
<1>1. TypeOK /\ CopiesAreHandedUp /\ FileIsBeginning /\ WrittenIsHandedUp
      /\ LateIsNew /\ WaitingIsNew
  BY DEF FirstCopyInv
<1>2. /\ got \in [Numbers -> Nat] /\ messagesReceived_ \in [Numbers -> Nat]
      /\ handed \in Seq(Numbers) /\ Len(handed) \in Nat
      /\ DOMAIN handed = 1 .. Len(handed) /\ Len(file) \in Nat
      /\ DOMAIN file = 1 .. Len(file)
  BY <1>1, TransferTypes
<1>3. \A m \in Numbers : got'[m] = IF m = n THEN got[m] + 1 ELSE got[m]
  BY <1>2
<1>4. /\ DOMAIN handed' = 1 .. Len(handed) + 1
      /\ \A i \in 1 .. Len(handed) : handed'[i] = handed[i]
      /\ handed'[Len(handed) + 1] = n
  BY <1>2, AppendProperties
<1>5. CopiesAreHandedUp'
  <2> SUFFICES ASSUME NEW m \in Numbers
               PROVE  Cardinality(Places(handed', m)) + messagesReceived_'[m]
                        <= got'[m]
    BY DEF CopiesAreHandedUp, Places
  <2>1. Cardinality(Places(handed, m)) + messagesReceived_[m] <= got[m]
    BY <1>1 DEF CopiesAreHandedUp
  <2>2. /\ Cardinality(Places(handed, m)) \in Nat
        /\ Cardinality(Places(Append(handed, n), m)) =
             IF n = m THEN Cardinality(Places(handed, m)) + 1
                      ELSE Cardinality(Places(handed, m))
    BY <1>2, PlacesOfAppend
  <2>3. messagesReceived_[m] \in Nat /\ got[m] \in Nat
    BY <1>2
  <2> QED BY <1>3, <2>1, <2>2, <2>3
<1>6. FileIsBeginning'
  BY <1>1 DEF FileIsBeginning
<1>7. WrittenIsHandedUp'
  <2>1. \A m \in 1 .. Len(file) : m \in Numbers
    BY <1>1, <1>2, NumbersAre DEF FileIsBeginning
  <2> QED BY <1>1, <1>2, <1>3, <2>1, NumbersAre DEF WrittenIsHandedUp
<1>8. \* what is in some place has been handed up
      \A m \in Numbers :
        /\ messagesReceived_[m] > 0 => got[m] > 0
        /\ \A i \in DOMAIN handed : handed[i] = m => got[m] > 0
  <2> SUFFICES ASSUME NEW m \in Numbers
               PROVE  /\ messagesReceived_[m] > 0 => got[m] > 0
                      /\ \A i \in DOMAIN handed : handed[i] = m => got[m] > 0
    OBVIOUS
  <2>1. Cardinality(Places(handed, m)) + messagesReceived_[m] <= got[m]
    BY <1>1 DEF CopiesAreHandedUp
  <2>2. Cardinality(Places(handed, m)) \in Nat /\ IsFiniteSet(Places(handed, m))
    <3>1. IsFiniteSet(1 .. Len(handed))
      BY <1>2, FS_Interval
    <3>2. Places(handed, m) \subseteq 1 .. Len(handed)
      BY <1>2 DEF Places
    <3>3. IsFiniteSet(Places(handed, m))
      BY <3>1, <3>2, FS_Subset
    <3> QED BY <3>3, FS_CardinalityType
  <2>3. messagesReceived_[m] \in Nat /\ got[m] \in Nat
    BY <1>2
  <2>4. ASSUME NEW i \in DOMAIN handed, handed[i] = m PROVE got[m] > 0
    <3>1. i \in Places(handed, m)
      BY <2>4 DEF Places
    <3>2. Cardinality(Places(handed, m)) # 0
      BY <2>2, <3>1, FS_EmptySet
    <3> QED BY <2>1, <2>2, <2>3, <3>2
  <2> QED BY <2>1, <2>2, <2>3, <2>4
<1>9. ASSUME n # Final, got[Final] > 0
      PROVE  /\ messagesReceived_[n] = 0 /\ n > Len(file)
             /\ \A i \in DOMAIN handed : handed[i] # n
  <2>1. ~IsNewest(n)
    BY <1>2, <1>9, NumbersAre DEF IsNewest
  <2>2. got[n] = 0
    BY <2>1 DEF Accepts
  <2>3. ~(n \in 1 .. Len(file))
    BY <1>1, <2>2 DEF WrittenIsHandedUp
  <2>4. n \in Nat /\ n >= 1
    BY NumbersAre
  <2> QED BY <1>2, <1>8, <2>2, <2>3, <2>4
<1>10. \* behind the end the end has been handed up
       \A i \in 1 .. Len(handed) + 1 : IsLate(i)' => got[Final] > 0
  <2> SUFFICES ASSUME NEW i \in 1 .. Len(handed) + 1, IsLate(i)'
               PROVE  got[Final] > 0
    OBVIOUS
  <2>1. \/ ended \/ messagesReceived_[Final] > 0
        \/ \E j \in 1 .. i - 1 : handed'[j] = Final
    BY DEF IsLate
  <2>2. ASSUME NEW j \in 1 .. i - 1, handed'[j] = Final PROVE got[Final] > 0
    <3>1. j \in 1 .. Len(handed)
      BY <1>2
    <3> QED BY <1>2, <1>4, <1>8, <2>2, <3>1, NumbersAre
  <2> QED BY <1>1, <1>8, <2>1, <2>2, NumbersAre DEF WrittenIsHandedUp
<1>11. LateIsNew'
  <2> SUFFICES ASSUME NEW i \in 1 .. Len(handed) + 1, handed'[i] # Final,
                      IsLate(i)'
               PROVE  /\ messagesReceived_[handed'[i]] = 0
                      /\ handed'[i] > Len(file)
                      /\ \A j \in 1 .. Len(handed) + 1 :
                           handed'[j] = handed'[i] => j = i
    BY <1>4 DEF LateIsNew
  <2>1. got[Final] > 0
    BY <1>10
  <2>2. CASE i = Len(handed) + 1
    <3>1. handed'[i] = n
      BY <1>4, <2>2
    <3>2. \A j \in 1 .. Len(handed) : handed'[j] # n
      BY <1>2, <1>4, <1>9, <2>1, <3>1
    <3> QED BY <1>2, <1>9, <2>1, <2>2, <3>1, <3>2
  <2>3. CASE i \in 1 .. Len(handed)
    <3>1. IsLate(i)
      <4>1. \A j \in 1 .. i - 1 : handed'[j] = handed[j]
        BY <1>2, <1>4, <2>3
      <4> QED BY <4>1 DEF IsLate
    <3>2. /\ messagesReceived_[handed[i]] = 0 /\ handed[i] > Len(file)
          /\ \A j \in DOMAIN handed : handed[j] = handed[i] => j = i
      BY <1>1, <1>2, <1>4, <2>3, <3>1 DEF LateIsNew
    <3>3. n = Final \/ handed[i] # n
      BY <1>2, <1>9, <2>1, <2>3
    <3>4. handed'[Len(handed) + 1] # handed'[i]
      BY <1>4, <2>3, <3>3
    <3>5. ASSUME NEW j \in 1 .. Len(handed) + 1, handed'[j] = handed'[i]
          PROVE  j = i
      <4>1. j \in 1 .. Len(handed)
        BY <1>2, <3>4, <3>5
      <4> QED BY <1>2, <1>4, <2>3, <3>2, <3>5, <4>1
    <3> QED BY <1>4, <2>3, <3>2, <3>5
  <2> QED BY <1>2, <2>2, <2>3
<1>12. WaitingIsNew'
  <2> SUFFICES ASSUME ended, NEW m \in ChunkNumbers, messagesReceived_[m] > 0
               PROVE  /\ messagesReceived_[m] = 1 /\ m > Len(file)
                      /\ \A i \in 1 .. Len(handed) + 1 : handed'[i] # m
    BY <1>4 DEF WaitingIsNew
  <2>1. /\ messagesReceived_[m] = 1 /\ m > Len(file)
        /\ \A i \in DOMAIN handed : handed[i] # m
    BY <1>1 DEF WaitingIsNew
  <2>2. got[Final] > 0
    BY <1>1 DEF WrittenIsHandedUp
  <2>3. n # m
    BY <1>2, <1>9, <2>2, NumbersAre DEF ChunkNumbers
  <2>4. ASSUME NEW i \in 1 .. Len(handed) + 1 PROVE handed'[i] # m
    <3>1. i \in 1 .. Len(handed) \/ i = Len(handed) + 1
      BY <1>2
    <3> QED BY <1>2, <1>4, <2>1, <2>3, <3>1
  <2> QED BY <2>1, <2>4
<1> QED BY <1>5, <1>6, <1>7, <1>11, <1>12 DEF FirstCopyInv

(* Without its connection the receiver has nothing more to receive.         *)
LEMMA RemoveKeepsTransfer ==
  ASSUME FirstCopyInv, handed' = <<>>,
         UNCHANGED <<got, messagesReceived_, lastSeqTaken, file, ended>>, TypeOK'
  PROVE  FirstCopyInv'
<1>1. TypeOK /\ CopiesAreHandedUp /\ FileIsBeginning /\ WrittenIsHandedUp
      /\ WaitingIsNew
  BY DEF FirstCopyInv
<1>2. DOMAIN handed' = {}
  BY EmptySeq
<1>3. CopiesAreHandedUp'
  <2> SUFFICES ASSUME NEW m \in Numbers
               PROVE  Cardinality(Places(handed', m)) + messagesReceived_[m]
                        <= got[m]
    BY DEF CopiesAreHandedUp, Places
  <2>1. Places(handed', m) = {}
    BY <1>2 DEF Places
  <2>2. Cardinality(Places(handed', m)) = 0
    BY <2>1, FS_EmptySet
  <2>3. Cardinality(Places(handed, m)) \in Nat
    BY <1>1, TransferTypes, PlacesOfAppend
  <2>4. Cardinality(Places(handed, m)) + messagesReceived_[m] <= got[m]
    BY <1>1 DEF CopiesAreHandedUp
  <2>5. messagesReceived_[m] \in Nat /\ got[m] \in Nat
    BY <1>1, TransferTypes
  <2> QED BY <2>2, <2>3, <2>4, <2>5
<1>4. FileIsBeginning' /\ WrittenIsHandedUp'
  BY <1>1 DEF FileIsBeginning, WrittenIsHandedUp
<1>5. LateIsNew' /\ WaitingIsNew'
  BY <1>1, <1>2 DEF LateIsNew, WaitingIsNew
<1> QED BY <1>3, <1>4, <1>5 DEF FirstCopyInv

(* ReceiveFileMsg: the first message goes to the priority queue. When it is *)
(* the end all others were late already; when it is late it is the only one.*)
LEMMA ReceiveKeepsTransfer ==
  ASSUME FirstCopyInv, handed # <<>>, handed' = Tail(handed),
         messagesReceived_' = [messagesReceived_ EXCEPT ![Head(handed)] = @ + 1],
         UNCHANGED <<got, lastSeqTaken, file, ended>>, TypeOK'
  PROVE  FirstCopyInv'
<1> DEFINE n == Head(handed)
           L == Len(handed)
<1>1. TypeOK /\ CopiesAreHandedUp /\ FileIsBeginning /\ WrittenIsHandedUp
      /\ LateIsNew /\ WaitingIsNew
  BY DEF FirstCopyInv
<1>2. /\ messagesReceived_ \in [Numbers -> Nat] /\ got \in [Numbers -> Nat]
      /\ handed \in Seq(Numbers) /\ L \in Nat /\ DOMAIN handed = 1 .. L
      /\ Len(file) \in Nat
  BY <1>1, TransferTypes
<1>3. /\ L > 0 /\ n = handed[1] /\ n \in Numbers
      /\ DOMAIN handed' = 1 .. L - 1
      /\ \A i \in 1 .. L - 1 : handed'[i] = handed[i + 1]
  <2>1. L # 0
    BY <1>2, EmptySeq
  <2>2. 1 \in DOMAIN handed
    BY <1>2, <2>1
  <2> QED BY <1>2, <2>1, <2>2, HeadTailProperties, LenProperties, ElementOfSeq
<1> HIDE DEF n, L
<1>4. \A m \in Numbers : messagesReceived_'[m] =
        IF m = n THEN messagesReceived_[m] + 1 ELSE messagesReceived_[m]
  BY <1>2 DEF n
<1>5. CopiesAreHandedUp'
  <2> SUFFICES ASSUME NEW m \in Numbers
               PROVE  Cardinality(Places(handed', m)) + messagesReceived_'[m]
                        <= got[m]
    BY DEF CopiesAreHandedUp, Places
  <2>1. /\ Cardinality(Places(Tail(handed), m)) \in Nat
        /\ Cardinality(Places(handed, m)) =
             IF n = m THEN Cardinality(Places(Tail(handed), m)) + 1
                      ELSE Cardinality(Places(Tail(handed), m))
    BY <1>2, PlacesOfTail DEF n
  <2>2. Cardinality(Places(handed, m)) + messagesReceived_[m] <= got[m]
    BY <1>1 DEF CopiesAreHandedUp
  <2>3. messagesReceived_[m] \in Nat /\ got[m] \in Nat
    BY <1>2
  <2> QED BY <1>4, <2>1, <2>2, <2>3
<1>6. FileIsBeginning' /\ WrittenIsHandedUp'
  BY <1>1 DEF FileIsBeginning, WrittenIsHandedUp
<1>7. \* what is late was late
      \A i \in 1 .. L - 1 : IsLate(i)' => IsLate(i + 1)
  <2> SUFFICES ASSUME NEW i \in 1 .. L - 1, IsLate(i)'
               PROVE  IsLate(i + 1)
    OBVIOUS
  <2>1. \/ ended \/ messagesReceived_'[Final] > 0
        \/ \E j \in 1 .. i - 1 : handed'[j] = Final
    BY DEF IsLate
  <2>2. CASE ended
    BY <2>2 DEF IsLate
  <2>3. CASE messagesReceived_'[Final] > 0
    <3>1. CASE n = Final
      <4>1. 1 \in 1 .. (i + 1) - 1
        BY <1>2
      <4> QED BY <1>3, <3>1, <4>1 DEF IsLate
    <3>2. CASE n # Final
      BY <1>4, <2>3, <3>2, NumbersAre DEF IsLate
    <3> QED BY <3>1, <3>2
  <2>4. ASSUME NEW j \in 1 .. i - 1, handed'[j] = Final
        PROVE  IsLate(i + 1)
    <3>1. j + 1 \in 1 .. (i + 1) - 1 /\ j \in 1 .. L - 1
      BY <1>2
    <3> QED BY <1>3, <2>4, <3>1 DEF IsLate
  <2> QED BY <2>1, <2>2, <2>3, <2>4
<1>8. LateIsNew'
  <2> SUFFICES ASSUME NEW i \in 1 .. L - 1, handed'[i] # Final, IsLate(i)'
               PROVE  /\ messagesReceived_'[handed'[i]] = 0
                      /\ handed'[i] > Len(file)
                      /\ \A j \in 1 .. L - 1 : handed'[j] = handed'[i] => j = i
    BY <1>3 DEF LateIsNew
  <2>1. i + 1 \in 1 .. L /\ 1 \in 1 .. L /\ i + 1 # 1
    BY <1>2
  <2>2. /\ messagesReceived_[handed[i + 1]] = 0 /\ handed[i + 1] > Len(file)
        /\ \A j \in 1 .. L : handed[j] = handed[i + 1] => j = i + 1
    BY <1>1, <1>2, <1>3, <1>7, <2>1 DEF LateIsNew
  <2>3. handed[i + 1] # n /\ handed[i + 1] \in Numbers
    BY <1>2, <1>3, <2>1, <2>2, ElementOfSeq
  <2>4. ASSUME NEW j \in 1 .. L - 1, handed'[j] = handed'[i] PROVE j = i
    <3>1. j + 1 \in 1 .. L /\ handed[j + 1] = handed[i + 1]
      BY <1>2, <1>3, <2>4
    <3>2. j + 1 = i + 1
      BY <2>2, <3>1
    <3> QED BY <1>2, <3>2
  <2> QED BY <1>3, <1>4, <2>2, <2>3, <2>4
<1>9. WaitingIsNew'
  <2> SUFFICES ASSUME ended, NEW m \in ChunkNumbers, messagesReceived_'[m] > 0
               PROVE  /\ messagesReceived_'[m] = 1 /\ m > Len(file)
                      /\ \A i \in 1 .. L - 1 : handed'[i] # m
    BY <1>3 DEF WaitingIsNew
  <2>1. m \in Numbers /\ m # Final
    BY NumbersAre
  <2>2. CASE m = n
    <3>1. IsLate(1) /\ 1 \in DOMAIN handed
      BY <1>2, <1>3 DEF IsLate
    <3>2. /\ messagesReceived_[n] = 0 /\ n > Len(file)
          /\ \A j \in 1 .. L : handed[j] = n => j = 1
      BY <1>1, <1>2, <1>3, <2>1, <2>2, <3>1 DEF LateIsNew
    <3>3. ASSUME NEW i \in 1 .. L - 1 PROVE handed'[i] # m
      <4>1. i + 1 \in 1 .. L /\ i + 1 # 1
        BY <1>2
      <4> QED BY <1>3, <2>2, <3>2, <4>1
    <3>4. messagesReceived_'[m] = messagesReceived_[m] + 1
      BY <1>4, <2>1, <2>2
    <3>5. messagesReceived_[m] = 0 /\ m > Len(file)
      BY <2>2, <3>2
    <3>6. messagesReceived_'[m] = 1
      BY <3>4, <3>5
    <3> QED BY <3>3, <3>5, <3>6
  <2>3. CASE m # n
    <3>1. /\ messagesReceived_[m] = 1 /\ m > Len(file)
          /\ \A i \in 1 .. L : handed[i] # m
      BY <1>1, <1>2, <1>4, <2>1, <2>3 DEF WaitingIsNew
    <3>2. ASSUME NEW i \in 1 .. L - 1 PROVE handed'[i] # m
      <4>1. i + 1 \in 1 .. L
        BY <1>2
      <4> QED BY <1>3, <3>1, <4>1
    <3> QED BY <1>4, <2>1, <2>3, <3>1, <3>2
  <2> QED BY <2>2, <2>3
<1> QED BY <1>5, <1>6, <1>8, <1>9 DEF FirstCopyInv

(* GetNextMessage drops a message that is older than the last taken.        *)
LEMMA DropKeepsTransfer ==
  ASSUME FirstCopyInv, Waiting # {}, Pop,
         UNCHANGED <<got, handed, lastSeqTaken, file, ended>>, TypeOK'
  PROVE  FirstCopyInv'
<1>1. TypeOK /\ CopiesAreHandedUp /\ FileIsBeginning /\ WrittenIsHandedUp
      /\ LateIsNew /\ WaitingIsNew
  BY DEF FirstCopyInv
<1>2. messagesReceived_ \in [Numbers -> Nat] /\ got \in [Numbers -> Nat]
  BY <1>1, TransferTypes
<1>3. Top \in Numbers /\ messagesReceived_[Top] > 0
  BY TopIsLeast
<1>4. \A m \in Numbers :
        /\ messagesReceived_'[m] \in Nat
        /\ messagesReceived_'[m] <= messagesReceived_[m]
        /\ messagesReceived_'[m] > 0 =>
             messagesReceived_[m] > 0
             /\ (messagesReceived_[m] = 1 => messagesReceived_'[m] = 1)
  BY <1>2, <1>3 DEF Pop
<1>5. CopiesAreHandedUp'
  <2> SUFFICES ASSUME NEW m \in Numbers
               PROVE  Cardinality(Places(handed, m)) + messagesReceived_'[m]
                        <= got[m]
    BY DEF CopiesAreHandedUp, Places
  <2>1. Cardinality(Places(handed, m)) + messagesReceived_[m] <= got[m]
    BY <1>1 DEF CopiesAreHandedUp
  <2>2. Cardinality(Places(handed, m)) \in Nat
    BY <1>1, TransferTypes, PlacesOfAppend
  <2> QED BY <1>2, <1>4, <2>1, <2>2
<1>6. FileIsBeginning' /\ WrittenIsHandedUp'
  BY <1>1 DEF FileIsBeginning, WrittenIsHandedUp
<1>7. LateIsNew'
  <2> SUFFICES ASSUME NEW i \in DOMAIN handed, handed[i] # Final, IsLate(i)'
               PROVE  /\ messagesReceived_'[handed[i]] = 0
                      /\ handed[i] > Len(file)
                      /\ \A j \in DOMAIN handed : handed[j] = handed[i] => j = i
    BY DEF LateIsNew
  <2>1. IsLate(i)
    BY <1>4, NumbersAre DEF IsLate
  <2>2. handed[i] \in Numbers
    BY <1>1, TransferTypes
  <2>3. messagesReceived_[handed[i]] = 0
    BY <1>1, <2>1 DEF LateIsNew
  <2>4. messagesReceived_'[handed[i]] = 0
    BY <1>2, <1>4, <2>2, <2>3
  <2> QED BY <1>1, <2>1, <2>4 DEF LateIsNew
<1>8. WaitingIsNew'
  BY <1>1, <1>4, NumbersAre DEF WaitingIsNew
<1> QED BY <1>5, <1>6, <1>7, <1>8 DEF FirstCopyInv

(* TakeNext with a chunk: it is the one the file ends before.               *)
LEMMA ChunkIsNext ==
  ASSUME FirstCopyInv, Waiting # {}, IsNext(Top), Top # Final
  PROVE  Top = Len(file) + 1 /\ Top <= Chunks
<1>1. TypeOK /\ FileIsBeginning /\ WaitingIsNew
  BY DEF FirstCopyInv
<1>2. Top \in Numbers /\ messagesReceived_[Top] > 0
  BY TopIsLeast
<1>3. Top \in ChunkNumbers /\ Top = lastSeqTaken + 1 /\ Top <= Chunks
  BY <1>2, NumbersAre DEF IsNext, ChunkNumbers
<1>4. CASE lastSeqTaken = Len(file)
  BY <1>3, <1>4
<1>5. CASE ended /\ lastSeqTaken = 0
  <2>1. Top > Len(file)
    BY <1>1, <1>2, <1>3, <1>5 DEF WaitingIsNew
  <2>2. Top = 1 /\ Len(file) \in Nat
    BY <1>1, <1>3, <1>5, TransferTypes
  <2> QED BY <1>3, <2>1, <2>2
<1> QED BY <1>1, <1>3, <1>4, <1>5 DEF FileIsBeginning

(* TakeNext with a chunk that is next.                                      *)
LEMMA TakeChunkKeepsTransfer ==
  ASSUME FirstCopyInv, Waiting # {}, IsNext(Top), Top # Final, Pop,
         file' = Append(file, Top), lastSeqTaken' = lastSeqTaken + 1,
         UNCHANGED <<got, handed, ended>>, TypeOK'
  PROVE  FirstCopyInv'
<1>1. TypeOK /\ CopiesAreHandedUp /\ FileIsBeginning /\ WrittenIsHandedUp
      /\ LateIsNew /\ WaitingIsNew
  BY DEF FirstCopyInv
<1>2. /\ messagesReceived_ \in [Numbers -> Nat] /\ got \in [Numbers -> Nat]
      /\ file \in Seq(ChunkNumbers) /\ Len(file) \in Nat
      /\ DOMAIN file = 1 .. Len(file) /\ lastSeqTaken \in Nat
      /\ \A i \in DOMAIN handed : handed[i] \in Numbers
  BY <1>1, TransferTypes
<1>3. Top \in Numbers /\ messagesReceived_[Top] > 0
  BY TopIsLeast
<1>4. Top = Len(file) + 1 /\ Top <= Chunks /\ Top \in ChunkNumbers
  BY <1>2, <1>3, ChunkIsNext, NumbersAre
<1>5. /\ Len(file') = Len(file) + 1 /\ DOMAIN file' = 1 .. Len(file) + 1
      /\ \A i \in 1 .. Len(file) : file'[i] = file[i]
      /\ file'[Len(file) + 1] = Top
  BY <1>2, <1>4, AppendProperties, LenProperties
<1>6. \A m \in Numbers : messagesReceived_'[m] =
        IF m = Top THEN messagesReceived_[m] - 1 ELSE messagesReceived_[m]
  BY <1>2, <1>3 DEF Pop
<1>7. \A m \in Numbers :
        /\ messagesReceived_'[m] \in Nat
        /\ messagesReceived_'[m] <= messagesReceived_[m]
  BY <1>2, <1>3, <1>6
<1>8. CopiesAreHandedUp'
  <2> SUFFICES ASSUME NEW m \in Numbers
               PROVE  Cardinality(Places(handed, m)) + messagesReceived_'[m]
                        <= got[m]
    BY DEF CopiesAreHandedUp, Places
  <2>1. Cardinality(Places(handed, m)) + messagesReceived_[m] <= got[m]
    BY <1>1 DEF CopiesAreHandedUp
  <2>2. Cardinality(Places(handed, m)) \in Nat
    BY <1>1, TransferTypes, PlacesOfAppend
  <2> QED BY <1>2, <1>7, <2>1, <2>2
<1>9. FileIsBeginning'
  <2>1. \A i \in DOMAIN file' : file'[i] = i
    <3> SUFFICES ASSUME NEW i \in DOMAIN file' PROVE file'[i] = i
      OBVIOUS
    <3>1. i \in 1 .. Len(file) \/ i = Len(file) + 1
      BY <1>2, <1>5
    <3> QED BY <1>1, <1>2, <1>4, <1>5, <3>1 DEF FileIsBeginning
  <2>2. lastSeqTaken' = Len(file')
    BY <1>2, <1>3, <1>4, <1>5, NumbersAre DEF IsNext
  <2> QED BY <1>4, <1>5, <2>1, <2>2 DEF FileIsBeginning
<1>10. WrittenIsHandedUp'
  <2>1. got[Top] > 0
    <3>1. Cardinality(Places(handed, Top)) + messagesReceived_[Top] <= got[Top]
      BY <1>1, <1>3 DEF CopiesAreHandedUp
    <3>2. Cardinality(Places(handed, Top)) \in Nat
      BY <1>1, <1>3, TransferTypes, PlacesOfAppend
    <3> QED BY <1>2, <1>3, <3>1, <3>2
  <2>2. ASSUME NEW m \in 1 .. Len(file) + 1 PROVE got[m] > 0
    <3>1. m \in 1 .. Len(file) \/ m = Top
      BY <1>2, <1>4
    <3> QED BY <1>1, <2>1, <3>1 DEF WrittenIsHandedUp
  <2> QED BY <1>1, <1>5, <2>2 DEF WrittenIsHandedUp
<1>11. LateIsNew'
  <2> SUFFICES ASSUME NEW i \in DOMAIN handed, handed[i] # Final, IsLate(i)'
               PROVE  /\ messagesReceived_'[handed[i]] = 0
                      /\ handed[i] > Len(file) + 1
                      /\ \A j \in DOMAIN handed : handed[j] = handed[i] => j = i
    BY <1>5 DEF LateIsNew
  <2>1. IsLate(i)
    BY <1>2, <1>6, <1>7, NumbersAre DEF IsLate
  <2>2. /\ messagesReceived_[handed[i]] = 0 /\ handed[i] > Len(file)
        /\ \A j \in DOMAIN handed : handed[j] = handed[i] => j = i
    BY <1>1, <2>1 DEF LateIsNew
  <2>3. handed[i] # Top /\ handed[i] \in Nat /\ handed[i] \in Numbers
    BY <1>2, <1>3, <2>2, NumbersAre
  <2> QED BY <1>2, <1>4, <1>6, <2>2, <2>3
<1>12. WaitingIsNew'
  <2> SUFFICES ASSUME ended, NEW m \in ChunkNumbers, messagesReceived_'[m] > 0
               PROVE  /\ messagesReceived_'[m] = 1 /\ m > Len(file) + 1
                      /\ \A i \in DOMAIN handed : handed[i] # m
    BY <1>5 DEF WaitingIsNew
  <2>1. m \in Numbers /\ m \in Nat
    BY NumbersAre
  <2>2. /\ messagesReceived_[m] = 1 /\ m > Len(file)
        /\ \A i \in DOMAIN handed : handed[i] # m
    BY <1>1, <1>2, <1>6, <2>1 DEF WaitingIsNew
  <2>3. m # Top
    BY <1>6, <2>1, <2>2
  <2> QED BY <1>2, <1>4, <1>6, <2>1, <2>2, <2>3
<1> QED BY <1>8, <1>9, <1>10, <1>11, <1>12 DEF FirstCopyInv

(* TakeNext with the end: nothing else waits, all others are late.          *)
LEMMA TakeEndKeepsTransfer ==
  ASSUME FirstCopyInv, Waiting # {}, Top = Final, Pop, ended', lastSeqTaken' = 0,
         UNCHANGED <<got, handed, file>>, TypeOK'
  PROVE  FirstCopyInv'
<1>1. TypeOK /\ CopiesAreHandedUp /\ FileIsBeginning /\ WrittenIsHandedUp
      /\ LateIsNew /\ WaitingIsNew
  BY DEF FirstCopyInv
<1>2. /\ messagesReceived_ \in [Numbers -> Nat] /\ got \in [Numbers -> Nat]
      /\ \A i \in DOMAIN handed : handed[i] \in Numbers
  BY <1>1, TransferTypes
<1>3. /\ messagesReceived_[Final] > 0
      /\ \A n \in Numbers : messagesReceived_[n] > 0 => Final <= n
  BY TopIsLeast
<1>4. \A n \in ChunkNumbers : messagesReceived_[n] = 0
  BY <1>2, <1>3, NumbersAre DEF ChunkNumbers
<1>5. \A m \in Numbers : messagesReceived_'[m] =
        IF m = Final THEN messagesReceived_[m] - 1 ELSE messagesReceived_[m]
  BY <1>2, <1>3 DEF Pop
<1>6. CopiesAreHandedUp'
  <2> SUFFICES ASSUME NEW m \in Numbers
               PROVE  Cardinality(Places(handed, m)) + messagesReceived_'[m]
                        <= got[m]
    BY DEF CopiesAreHandedUp, Places
  <2>1. Cardinality(Places(handed, m)) + messagesReceived_[m] <= got[m]
    BY <1>1 DEF CopiesAreHandedUp
  <2>2. Cardinality(Places(handed, m)) \in Nat
    BY <1>1, TransferTypes, PlacesOfAppend
  <2> QED BY <1>2, <1>5, <2>1, <2>2
<1>7. FileIsBeginning'
  BY <1>1 DEF FileIsBeginning
<1>8. WrittenIsHandedUp'
  <2>1. Cardinality(Places(handed, Final)) + messagesReceived_[Final] <= got[Final]
    BY <1>1, NumbersAre DEF CopiesAreHandedUp
  <2>2. Cardinality(Places(handed, Final)) \in Nat
    BY <1>1, NumbersAre, TransferTypes, PlacesOfAppend
  <2> QED BY <1>1, <1>2, <1>3, <2>1, <2>2, NumbersAre DEF WrittenIsHandedUp
<1>9. LateIsNew'
  <2> SUFFICES ASSUME NEW i \in DOMAIN handed, handed[i] # Final
               PROVE  /\ messagesReceived_'[handed[i]] = 0
                      /\ handed[i] > Len(file)
                      /\ \A j \in DOMAIN handed : handed[j] = handed[i] => j = i
    BY DEF LateIsNew
  <2>1. IsLate(i)
    BY <1>3 DEF IsLate
  <2>2. handed[i] \in ChunkNumbers /\ handed[i] \in Numbers
    BY <1>2, NumbersAre
  <2> QED BY <1>1, <1>4, <1>5, <2>1, <2>2 DEF LateIsNew
<1>10. WaitingIsNew'
  BY <1>4, <1>5, NumbersAre DEF WaitingIsNew
<1> QED BY <1>6, <1>7, <1>8, <1>9, <1>10 DEF FirstCopyInv

-----------------------------------------------------------------------------
(* The types of the model. *)

(* The console: its queues hold lines, its counters stay in bounds.         *)
LEMMA ConsoleTypes ==
  ASSUME ConsoleTypeOK,
         ReadInput \/ ConsoleStep \/ \E line \in Lines : Type(line)
  PROVE  ConsoleTypeOK'
<1> USE DEF ConsoleTypeOK
<1>1. CASE TestReading
  BY <1>1 DEF TestReading
<1>2. CASE ReadLine
  <2>1. Head(input) \in Lines /\ Tail(input) \in Seq(Lines)
    BY <1>2, HeadTailProperties DEF ReadLine
  <2>2. Append(safeQueue, Head(input)) \in Seq(Lines)
    BY <2>1, AppendProperties
  <2> QED BY <1>2, <2>1, <2>2 DEF ReadLine
<1>3. CASE NextLine
  <2>1. safeQueue' \in Seq(Lines)
    <3>1. safeQueue # <<>> => Tail(safeQueue) \in Seq(Lines)
      BY HeadTailProperties
    <3>2. CASE safeQueue = <<>>
      BY <1>3, <3>2 DEF NextLine
    <3>3. CASE safeQueue # <<>>
      BY <1>3, <3>1, <3>3 DEF NextLine
    <3> QED BY <3>2, <3>3
  <2>2. run' \in {"close", "receive"}
    BY <1>3 DEF NextLine
  <2> QED BY <1>3, <2>1, <2>2 DEF NextLine
<1>4. CASE End
  BY <1>4 DEF End
<1>5. CASE Join
  BY <1>5 DEF Join
<1>6. ASSUME NEW line \in Lines, Type(line) PROVE ConsoleTypeOK'
  <2>1. input' \in Seq(Lines)
    BY <1>6, AppendProperties DEF Type
  <2>2. typed' \in 0 .. MaxLines
    BY <1>6, NumbersAre DEF Type
  <2> QED BY <1>6, <2>1, <2>2 DEF Type
<1> QED BY <1>1, <1>2, <1>3, <1>4, <1>5, <1>6 DEF ReadInput, ConsoleStep

(* Taking a message from the priority queue keeps its type.                 *)
LEMMA PopTypes ==
  ASSUME TypeOK, Waiting # {}, Pop
  PROVE  messagesReceived_' \in [Numbers -> Nat]
<1>1. Top \in Numbers /\ messagesReceived_[Top] > 0
  BY TopIsLeast
<1>2. messagesReceived_[Top] - 1 \in Nat
  BY <1>1 DEF TypeOK
<1> QED BY <1>1, <1>2 DEF TypeOK, Pop

(* A packet on its way, and one that is taken from the way.                 *)
LEMMA SendFileMsgTypes ==
  ASSUME TypeOK, SendFileMsg
  PROVE  TypeOK'
<1>1. /\ flight' \subseteq Packets /\ nextMessageSeq' \in 1 .. Final + 1
      /\ syns' \in Packets
  BY NumbersAre DEF SendFileMsg, TypeOK
<1> QED BY <1>1 DEF SendFileMsg, TypeOK, ConsoleTypeOK, console, client

LEMMA ParseMessagesTypes ==
  ASSUME TypeOK, NEW n \in Packets, NEW again \in BOOLEAN, ParseMessages(n, again)
  PROVE  TypeOK'
<1>1. /\ flight' \subseteq Packets
      /\ UNCHANGED <<console, weather, nextMessageSeq, syns, client>>
  BY DEF ParseMessages, Arrive, ArriveNew, ArriveUnknown, Delivered, TypeOK
<1>2. ConsoleTypeOK'
  BY <1>1 DEF TypeOK, ConsoleTypeOK, console
<1>3. CASE Arrive(n, again) /\ n \in Numbers /\ Accepts(n)
  <2>1. /\ got[n] < MaxCopies /\ got' = [got EXCEPT ![n] = @ + 1]
        /\ handed' = Append(handed, n)
        /\ UNCHANGED <<made, connected, disconnect>>
    BY <1>3 DEF Arrive
  <2>2. got[n] + 1 \in 0 .. MaxCopies
    BY <1>3, <2>1, TransferTypes, NumbersAre
  <2>3. got' \in [Numbers -> 0 .. MaxCopies]
    BY <1>3, <2>1, <2>2 DEF TypeOK
  <2>4. handed' \in Seq(Numbers)
    BY <1>3, <2>1, AppendProperties DEF TypeOK
  <2> QED BY <1>1, <1>2, <2>1, <2>3, <2>4 DEF TypeOK, client
<1>4. CASE Arrive(n, again) /\ ~(n \in Numbers /\ Accepts(n))
  <2>1. UNCHANGED <<got, handed, made, connected, disconnect>>
    BY <1>4 DEF Arrive
  <2> QED BY <1>1, <1>2, <2>1 DEF TypeOK, client
<1>5. CASE ArriveNew(n, again)
  <2>1. /\ made < MaxMade /\ made' = made + 1
        /\ connected' = TRUE /\ disconnect' = FALSE
        /\ got' = [m \in Numbers |-> IF m = n THEN 1 ELSE 0]
        /\ handed' = IF n \in Numbers THEN <<n>> ELSE <<>>
    BY <1>5 DEF ArriveNew
  <2>2. made' \in 0 .. MaxMade
    BY <2>1, NumbersAre DEF TypeOK
  <2>3. got' \in [Numbers -> 0 .. MaxCopies]
    BY <2>1, NumbersAre
  <2>4. handed' \in Seq(Numbers)
    BY <2>1, EmptySeq
  <2> QED BY <1>1, <1>2, <2>1, <2>2, <2>3, <2>4 DEF TypeOK, client
<1>6. CASE ArriveUnknown(n, again)
  <2>1. UNCHANGED <<got, handed, made, connected, disconnect>>
    BY <1>6 DEF ArriveUnknown
  <2> QED BY <1>1, <1>2, <2>1 DEF TypeOK, client
<1> QED BY <1>3, <1>4, <1>5, <1>6 DEF ParseMessages

(* The receiver: a message received, taken or neither.                      *)
LEMMA ReceiveFileMsgTypes ==
  ASSUME TypeOK, ReceiveFileMsg
  PROVE  TypeOK'
<1>1. ConsoleTypeOK'
  BY DEF TypeOK, ConsoleTypeOK, ReceiveFileMsg
<1>2. UNCHANGED <<link, nextMessageSeq, disconnect, lastSeqTaken, file, ended>>
  BY DEF ReceiveFileMsg
<1>3. CASE handed = <<>>
  BY <1>1, <1>2, <1>3 DEF ReceiveFileMsg, TypeOK, link
<1>4. CASE handed # <<>>
  <2> DEFINE n == Head(handed)
  <2>1. /\ handed' = Tail(handed)
        /\ messagesReceived_' = [messagesReceived_ EXCEPT ![n] = @ + 1]
    BY <1>4 DEF ReceiveFileMsg
  <2>2. n \in Numbers /\ handed' \in Seq(Numbers)
    BY <1>4, <2>1, HeadTailProperties DEF TypeOK
  <2>3. messagesReceived_' \in [Numbers -> Nat]
    <3> HIDE DEF n
    <3> QED BY <2>1, <2>2 DEF TypeOK
  <2> QED BY <1>1, <1>2, <2>2, <2>3 DEF TypeOK, link
<1> QED BY <1>3, <1>4

LEMMA MaintainTypes ==
  ASSUME TypeOK, NoNextMessage \/ TakeNext
  PROVE  TypeOK'
<1>1. ConsoleTypeOK' /\ UNCHANGED <<link, nextMessageSeq, handed>>
  BY DEF TypeOK, ConsoleTypeOK, NoNextMessage, TakeNext, Maintaining
<1>2. CASE NoNextMessage
  <2>1. UNCHANGED <<disconnect, lastSeqTaken, file, ended>>
    BY <1>2 DEF NoNextMessage
  <2>2. messagesReceived_' \in [Numbers -> Nat]
    <3>1. CASE Waiting # {} /\ Top < lastSeqTaken
      BY <1>2, <3>1, PopTypes DEF NoNextMessage
    <3>2. CASE ~(Waiting # {} /\ Top < lastSeqTaken)
      BY <1>2, <3>2 DEF NoNextMessage, TypeOK
    <3> QED BY <3>1, <3>2
  <2> QED BY <1>1, <2>1, <2>2 DEF TypeOK, link
<1>3. CASE TakeNext
  <2>1. Waiting # {} /\ IsNext(Top) /\ Pop
    BY <1>3 DEF TakeNext
  <2>2. messagesReceived_' \in [Numbers -> Nat] /\ Top \in Numbers
    BY <2>1, PopTypes, TopIsLeast
  <2>3. ended' \in BOOLEAN /\ disconnect' \in BOOLEAN
    BY <1>3 DEF TakeNext, HandleFileSaveMessage, TypeOK
  <2>4. CASE Top = Final
    <3>1. file' = file /\ lastSeqTaken' = 0
      BY <1>3, <2>4 DEF TakeNext, HandleFileSaveMessage
    <3> QED BY <1>1, <2>2, <2>3, <3>1, NumbersAre DEF TypeOK, link
  <2>5. CASE Top # Final
    <3>1. file' = Append(file, Top) /\ lastSeqTaken' = lastSeqTaken + 1
      BY <1>3, <2>5 DEF TakeNext, HandleFileSaveMessage
    <3>2. Top = lastSeqTaken + 1 /\ Top \in 1 .. Chunks
      BY <2>1, <2>2, <2>5, NumbersAre DEF IsNext, ChunkNumbers
    <3>3. file' \in Seq(1 .. Chunks)
      BY <3>1, <3>2, AppendProperties DEF TypeOK
    <3>4. lastSeqTaken' \in 0 .. Chunks
      BY <3>1, <3>2, NumbersAre
    <3> QED BY <1>1, <2>2, <2>3, <3>3, <3>4 DEF TypeOK, link
  <2> QED BY <2>4, <2>5
<1> QED BY <1>2, <1>3

(* Every step keeps the types.                                              *)
LEMMA NextTypes ==
  ASSUME TypeOK, [Next]_vars
  PROVE  TypeOK'
<1>1. CASE SendFileMsg
  BY <1>1, SendFileMsgTypes
<1>2. CASE LinkStep
  <2>1. ASSUME NEW n \in Packets, Lose(n) PROVE TypeOK'
    BY <2>1 DEF Lose, TypeOK, ConsoleTypeOK, console, client
  <2>2. CASE RemoveConnection
    <3>1. handed' \in Seq(Numbers)
      BY <2>2, EmptySeq DEF RemoveConnection
    <3> QED BY <2>2, <3>1 DEF RemoveConnection, TypeOK, ConsoleTypeOK, console,
                              client
  <2> QED BY <1>2, <2>1, <2>2, ParseMessagesTypes DEF LinkStep
<1>3. CASE RunStep
  <2>1. CASE ConsoleStep /\ UNCHANGED transfer
    <3>1. ConsoleTypeOK'
      BY <2>1, ConsoleTypes DEF TypeOK
    <3> QED BY <2>1, <3>1 DEF TypeOK, transfer, link, client
  <2> QED BY <1>3, <2>1, MaintainTypes, ReceiveFileMsgTypes DEF RunStep
<1>4. CASE Reading \/ \E line \in Lines : weather \in TypedIn /\ Type(line) /\ UNCHANGED transfer
  <2>1. ReadInput \/ \E line \in Lines : Type(line)
    BY <1>4 DEF Reading
  <2>2. UNCHANGED transfer
    BY <1>4 DEF Reading
  <2>3. ConsoleTypeOK'
    BY <2>1, ConsoleTypes DEF TypeOK
  <2> QED BY <2>2, <2>3 DEF TypeOK, transfer, link, client
<1>5. CASE UNCHANGED vars
  BY <1>5 DEF TypeOK, ConsoleTypeOK, vars, console, link, client
<1> QED BY <1>1, <1>2, <1>3, <1>4, <1>5 DEF Next

-----------------------------------------------------------------------------
(* The steps of the model. *)

(* The packet that makes the first connection is handed up by it.           *)
LEMMA FirstArriveKeeps ==
  ASSUME FirstCopyInv, SilentBefore, made = 0, TypeOK',
         NEW n \in Packets, NEW again \in BOOLEAN, ArriveNew(n, again)
  PROVE  FirstCopyInv'
<1>1. /\ got = Silence /\ handed = <<>>
      /\ got' = [m \in Numbers |-> IF m = n THEN 1 ELSE 0]
      /\ handed' = IF n \in Numbers THEN <<n>> ELSE <<>>
      /\ UNCHANGED <<messagesReceived_, lastSeqTaken, file, ended>>
  BY DEF SilentBefore, ArriveNew, Delivered, client
<1>2. CASE n \in Numbers
  <2>1. got[n] = 0 /\ got' = [got EXCEPT ![n] = @ + 1]
    BY <1>1, <1>2 DEF Silence
  <2>2. handed' = Append(handed, n)
    BY <1>1, <1>2
  <2> QED BY <1>1, <1>2, <2>1, <2>2, ArriveKeepsTransfer, NumbersAre DEF Accepts
<1>3. CASE n \notin Numbers
  <2>1. got' = got /\ handed' = handed
    BY <1>1, <1>3 DEF Silence
  <2> QED BY <1>1, <2>1, ElsewhereKeepsTransfer
<1> QED BY <1>2, <1>3

(* A message is taken: over the first connection it grows the file by the   *)
(* next chunk, later by the one that continues it or by the first.          *)
LEMMA TakeNextKeeps ==
  ASSUME TransferInv, TakeNext, TypeOK'
  PROVE  TransferInv' /\ (file' = file \/ Promised!Copy \/ Promised!CopyAnew)
<1>1. TypeOK /\ SilentBefore /\ LastIsTaken
  BY DEF TransferInv
<1>2. UNCHANGED <<made, connected, got, handed>>
  BY DEF TakeNext, Maintaining, link
<1>3. Waiting # {} /\ IsNext(Top) /\ Pop /\ Top \in Numbers
  BY TopIsLeast DEF TakeNext
<1>4. SilentBefore'
  BY <1>1, <1>2 DEF SilentBefore, Silence
<1>5. made \in Nat
  BY <1>1, NumbersAre DEF TypeOK
<1>6. CASE Top = Final
  <2>1. file' = file /\ ended' = TRUE /\ lastSeqTaken' = 0
    BY <1>6 DEF TakeNext, HandleFileSaveMessage
  <2>2. LastIsTaken'
    BY <2>1 DEF LastIsTaken
  <2>3. made <= 1 => FirstCopyInv'
    BY <1>2, <1>3, <1>6, <2>1, TakeEndKeepsTransfer DEF TransferInv
  <2> QED BY <1>2, <1>4, <2>1, <2>2, <2>3 DEF TransferInv
<1>7. CASE Top # Final
  <2>1. /\ file' = Append(file, Top) /\ lastSeqTaken' = lastSeqTaken + 1
        /\ ended' = ended
    BY <1>1, <1>7 DEF TakeNext, HandleFileSaveMessage, TypeOK
  <2>2. Top = lastSeqTaken + 1 /\ Top \in ChunkNumbers
    BY <1>3, <1>7, NumbersAre DEF IsNext
  <2>3. /\ file \in Seq(ChunkNumbers) /\ Len(file) \in Nat
        /\ Len(file') = Len(file) + 1 /\ file'[Len(file) + 1] = Top
    BY <1>1, <2>1, <2>2, TransferTypes, AppendProperties, LenProperties
  <2>4. LastIsTaken'
    <3>1. file' # <<>>
      BY <2>3, EmptySeq
    <3> QED BY <2>1, <2>2, <2>3, <3>1 DEF LastIsTaken
  <2>5. CASE made <= 1
    <3>1. FirstCopyInv'
      BY <1>2, <1>3, <1>7, <2>1, <2>5, TakeChunkKeepsTransfer DEF TransferInv
    <3>2. Top = Len(file) + 1 /\ Top <= Chunks
      BY <1>3, <1>7, <2>5, ChunkIsNext DEF TransferInv
    <3>3. Promised!Copy
      BY <2>1, <2>3, <3>2, NumbersAre DEF Promised!Copy
    <3> QED BY <1>2, <1>4, <2>4, <3>1, <3>3 DEF TransferInv
  <2>6. CASE made > 1
    <3>1. Top = 1 \/ (file # <<>> /\ Top = file[Len(file)] + 1)
      <4>1. CASE lastSeqTaken = 0
        BY <2>2, <4>1
      <4>2. CASE lastSeqTaken # 0
        BY <1>1, <2>2, <4>2 DEF LastIsTaken
      <4> QED BY <4>1, <4>2
    <3>2. Promised!CopyAnew
      BY <2>1, <2>2, <2>6, <3>1
      DEF Promised!CopyAnew, Promised!Continues, ChunkNumbers
    <3>3. ~(made' <= 1)
      BY <1>2, <1>5, <2>6
    <3> QED BY <1>4, <2>4, <3>2, <3>3 DEF TransferInv
  <2> QED BY <1>5, <2>5, <2>6
<1> QED BY <1>6, <1>7

(* Every other step leaves the file and its count alone.                    *)
LEMMA FileStays ==
  ASSUME TransferInv, TypeOK', UNCHANGED <<lastSeqTaken, file>>, SilentBefore',
         made' <= 1 => FirstCopyInv'
  PROVE  TransferInv'
<1>1. LastIsTaken'
  BY DEF TransferInv, LastIsTaken
<1> QED BY <1>1 DEF TransferInv

LEMMA LinkStepKeeps ==
  ASSUME TransferInv, LinkStep, TypeOK'
  PROVE  TransferInv' /\ file' = file
<1>1. TypeOK /\ SilentBefore /\ made \in Nat
  <2>1. TypeOK /\ SilentBefore
    BY DEF TransferInv
  <2>2. made \in Nat
    BY <2>1, NumbersAre DEF TypeOK
  <2> QED BY <2>1, <2>2
<1>2. UNCHANGED <<messagesReceived_, lastSeqTaken, file, ended>>
  BY DEF LinkStep, ParseMessages, Arrive, ArriveNew, ArriveUnknown, Delivered,
         Lose, RemoveConnection, client
<1>3. ASSUME NEW n \in Packets, NEW again \in BOOLEAN, Arrive(n, again)
      PROVE  TransferInv'
  <2>1. connected /\ made' = made
    BY <1>3 DEF Arrive
  <2>2. SilentBefore'
    BY <1>1, <2>1 DEF SilentBefore
  <2>3. CASE n \in Numbers /\ Accepts(n)
    <3>1. /\ got[n] < MaxCopies /\ got' = [got EXCEPT ![n] = @ + 1]
          /\ handed' = Append(handed, n)
      BY <1>3, <2>3 DEF Arrive
    <3>2. made <= 1 => FirstCopyInv'
      BY <1>2, <2>3, <3>1, ArriveKeepsTransfer DEF TransferInv
    <3> QED BY <1>2, <2>1, <2>2, <3>2, FileStays
  <2>4. CASE ~(n \in Numbers /\ Accepts(n))
    <3>1. UNCHANGED <<got, handed>>
      BY <1>3, <2>4 DEF Arrive
    <3>2. made <= 1 => FirstCopyInv'
      BY <1>2, <3>1, ElsewhereKeepsTransfer DEF TransferInv
    <3> QED BY <1>2, <2>1, <2>2, <3>2, FileStays
  <2> QED BY <2>3, <2>4
<1>4. ASSUME NEW n \in Packets, NEW again \in BOOLEAN, ArriveNew(n, again)
      PROVE  TransferInv'
  <2>1. made' = made + 1
    BY <1>4 DEF ArriveNew
  <2>2. SilentBefore'
    BY <1>1, <2>1 DEF SilentBefore
  <2>3. made' <= 1 => FirstCopyInv'
    <3>1. made' <= 1 => made = 0
      BY <1>1, <2>1
    <3> QED BY <1>1, <1>4, <3>1, FirstArriveKeeps DEF TransferInv
  <2> QED BY <1>2, <2>2, <2>3, FileStays
<1>5. ASSUME NEW n \in Packets, NEW again \in BOOLEAN,
             ArriveUnknown(n, again) \/ Lose(n)
      PROVE  TransferInv'
  <2>1. UNCHANGED <<made, connected, got, handed>>
    BY <1>5 DEF ArriveUnknown, Lose
  <2>2. SilentBefore'
    BY <1>1, <2>1 DEF SilentBefore, Silence
  <2>3. made <= 1 => FirstCopyInv'
    BY <1>2, <2>1, ElsewhereKeepsTransfer DEF TransferInv
  <2> QED BY <1>2, <2>1, <2>2, <2>3, FileStays
<1>6. CASE RemoveConnection
  <2>1. connected /\ handed' = <<>> /\ UNCHANGED <<made, got>>
    BY <1>6 DEF RemoveConnection
  <2>2. SilentBefore'
    BY <1>1, <2>1 DEF SilentBefore
  <2>3. made <= 1 => FirstCopyInv'
    BY <1>2, <2>1, RemoveKeepsTransfer DEF TransferInv
  <2> QED BY <1>2, <2>1, <2>2, <2>3, FileStays
<1> QED BY <1>2, <1>3, <1>4, <1>5, <1>6 DEF LinkStep, ParseMessages

(* Steps of the user, the reader, the sender and the rest of the loop.      *)
LEMMA OtherStepKeeps ==
  ASSUME TransferInv, TypeOK',
         UNCHANGED <<made, connected, got, handed, messagesReceived_,
                     lastSeqTaken, file, ended>>
  PROVE  TransferInv'
<1>1. SilentBefore'
  BY DEF TransferInv, SilentBefore, Silence
<1>2. made <= 1 => FirstCopyInv'
  BY ElsewhereKeepsTransfer DEF TransferInv
<1> QED BY <1>1, <1>2, FileStays

LEMMA ReceiveFileMsgKeeps ==
  ASSUME TransferInv, ReceiveFileMsg, TypeOK'
  PROVE  TransferInv' /\ file' = file
<1>1. UNCHANGED <<made, connected, got, lastSeqTaken, file, ended>>
  BY DEF ReceiveFileMsg, link
<1>2. CASE handed = <<>>
  BY <1>1, <1>2, OtherStepKeeps DEF ReceiveFileMsg
<1>3. CASE handed # <<>>
  <2>1. SilentBefore'
    BY <1>1, <1>3 DEF TransferInv, SilentBefore
  <2>2. made <= 1 => FirstCopyInv'
    BY <1>1, <1>3, ReceiveKeepsTransfer DEF ReceiveFileMsg, TransferInv
  <2> QED BY <1>1, <2>1, <2>2, FileStays
<1> QED BY <1>2, <1>3

LEMMA NoNextMessageKeeps ==
  ASSUME TransferInv, NoNextMessage, TypeOK'
  PROVE  TransferInv' /\ file' = file
<1>1. UNCHANGED <<made, connected, got, handed, lastSeqTaken, file, ended>>
  BY DEF NoNextMessage, Maintaining, link
<1>2. CASE Waiting # {} /\ Top < lastSeqTaken
  <2>1. Pop
    BY <1>2 DEF NoNextMessage
  <2>2. SilentBefore'
    BY <1>1 DEF TransferInv, SilentBefore, Silence
  <2>3. made <= 1 => FirstCopyInv'
    BY <1>1, <1>2, <2>1, DropKeepsTransfer DEF TransferInv
  <2> QED BY <1>1, <2>2, <2>3, FileStays
<1>3. CASE ~(Waiting # {} /\ Top < lastSeqTaken)
  BY <1>1, <1>3, OtherStepKeeps DEF NoNextMessage
<1> QED BY <1>2, <1>3

(* Every step keeps the invariant and copies as FileCopy allows.            *)
LEMMA NextTransfer ==
  ASSUME TransferInv, [Next]_vars
  PROVE  TransferInv' /\ [Promised!Copy \/ Promised!CopyAnew]_file
<1>1. TypeOK'
  BY NextTypes DEF TransferInv
<1>2. CASE SendFileMsg
  BY <1>1, <1>2, OtherStepKeeps DEF SendFileMsg, client
<1>3. CASE LinkStep
  BY <1>1, <1>3, LinkStepKeeps
<1>4. CASE RunStep
  <2>1. CASE ConsoleStep /\ UNCHANGED transfer
    BY <1>1, <2>1, OtherStepKeeps DEF transfer, link, client
  <2> QED BY <1>1, <1>4, <2>1, NoNextMessageKeeps, TakeNextKeeps,
             ReceiveFileMsgKeeps DEF RunStep
<1>5. CASE Reading \/ \E line \in Lines : weather \in TypedIn /\ Type(line) /\ UNCHANGED transfer
  <2>1. UNCHANGED transfer
    BY <1>5 DEF Reading
  <2> QED BY <1>1, <2>1, OtherStepKeeps DEF transfer, link, client
<1>6. CASE UNCHANGED vars
  BY <1>1, <1>6, OtherStepKeeps DEF vars, link, client
<1> QED BY <1>2, <1>3, <1>4, <1>5, <1>6 DEF Next

(* Nothing has been sent.                                                   *)
LEMMA InitTransfer ==
  ASSUME Init
  PROVE  TransferInv
<1>1. TypeOK
  <2>1. ConsoleTypeOK
    BY EmptySeq, NumbersAre DEF Init, ConsoleInit, ConsoleTypeOK
  <2>2. /\ 0 \in 0 .. MaxCopies /\ 0 \in 0 .. Chunks /\ 1 \in 1 .. Final + 1
        /\ 0 \in 0 .. MaxMade /\ 0 \in Packets
    BY NumbersAre
  <2>3. /\ got \in [Numbers -> 0 .. MaxCopies]
        /\ messagesReceived_ \in [Numbers -> Nat]
    BY <2>2 DEF Init, Silence
  <2>4. handed \in Seq(Numbers) /\ file \in Seq(1 .. Chunks)
    BY EmptySeq DEF Init
  <2> QED BY <2>1, <2>2, <2>3, <2>4 DEF Init, TypeOK
<1>2. DOMAIN handed = {} /\ DOMAIN file = {} /\ Len(file) = 0
  BY EmptySeq DEF Init
<1>3. CopiesAreHandedUp
  <2> SUFFICES ASSUME NEW n \in Numbers
               PROVE  Cardinality(Places(handed, n)) + messagesReceived_[n]
                        <= got[n]
    BY DEF CopiesAreHandedUp
  <2>1. Places(handed, n) = {}
    BY <1>2 DEF Places
  <2>2. Cardinality(Places(handed, n)) = 0
    BY <2>1, FS_EmptySet
  <2> QED BY <2>2 DEF Init, Silence
<1>4. FileIsBeginning /\ WrittenIsHandedUp
  BY <1>2, NumbersAre DEF Init, FileIsBeginning, WrittenIsHandedUp
<1>5. LateIsNew /\ WaitingIsNew
  BY <1>2 DEF Init, LateIsNew, WaitingIsNew
<1>6. SilentBefore /\ LastIsTaken
  BY DEF Init, SilentBefore, LastIsTaken
<1> QED BY <1>1, <1>3, <1>4, <1>5, <1>6 DEF TransferInv, FirstCopyInv

(* The invariant holds for a file of any length, any number of connections, *)
(* of copies and of lines the user types.                                   *)
THEOREM TransferIsConsistent == Spec => []TransferInv
<1>1. Init => TransferInv
  BY InitTransfer
<1>2. TransferInv /\ [Next]_vars => TransferInv'
  BY NextTransfer
<1> QED BY <1>1, <1>2, PTL DEF Spec

(* No number, queue or counter of a transfer leaves its range.              *)
THEOREM TransferTypeCorrect == Spec => []TypeOK
<1>1. TransferInv => TypeOK
  BY DEF TransferInv
<1> QED BY <1>1, TransferIsConsistent, PTL

(* The transfer implements FileCopy: over the first connection no chunk is  *)
(* left out, repeated or swapped in the file (FSClient.cpp:255), also when  *)
(* the end has started the count anew (FSClient.cpp:286); when a late SYN   *)
(* has made another one (NetworkingSystem.cpp:1126) the file may also start *)
(* over.                                                                    *)
THEOREM TransferImplementsFileCopy == Spec => CopiesInOrder
<1>1. Init => file = <<>>
  BY DEF Init
<1>2. TransferInv /\ [Next]_vars => [Promised!Copy \/ Promised!CopyAnew]_file
  BY NextTransfer
<1> QED BY <1>1, <1>2, TransferIsConsistent, PTL
        DEF Spec, CopiesInOrder, Promised!Spec
=============================================================================

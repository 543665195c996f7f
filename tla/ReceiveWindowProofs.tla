------------------------- MODULE ReceiveWindowProofs -------------------------
(***************************************************************************)
(* The receive window is exact, and implements PacketWindow, for every     *)
(* width of the wire number, every pair of limits, every width of the bit  *)
(* field and every number of packets, as long as no packet arrives farther *)
(* from the newest one than the limits reach: WithinReach(MaxJump).        *)
(***************************************************************************)
EXTENDS ReceiveWindow, SequenceNumbersProofs

(* The inductive invariant: what the two received fields say is what the    *)
(* history says.                                                            *)
WindowInv == TypeOK /\ LastIsTrue /\ AcksAreTrue

(* Before the first packet nothing is received and nothing is acknowledged. *)
LEMMA InitWindowInv == Init => WindowInv
  BY SequenceAssumption, ReceiveAssumption
     DEF Init, WindowInv, TypeOK, LastIsTrue, AcksAreTrue, Packets

(* The code rebuilds the true number of every packet that arrives.          *)
LEMMA ArrivalIsExact ==
  ASSUME WithinReach(MaxJump), WindowInv, NEW n \in Packets, CanArrive(n)
  PROVE  ConvertSequenceNumber(AsU08(n), lastSeqRecieved_) = n
<1> USE SequenceAssumption, ReceiveAssumption DEF Packets, Expired
<1>1. PICK newest \in delivered \cup {0} :
        /\ \A k \in delivered : k <= newest
        /\ newest - MaxJump <= n
        /\ n <= newest + MaxJump
  BY DEF CanArrive
<1>2. newest = lastSeqRecieved_
  BY <1>1 DEF WindowInv, TypeOK, LastIsTrue
<1>3. lastSeqRecieved_ \in Nat /\ n \in Nat /\ n < U32_MAX
  BY DEF WindowInv, TypeOK
<1>4. n <= lastSeqRecieved_ + MaxJump /\ lastSeqRecieved_ <= n + MaxJump
  BY <1>1, <1>2, <1>3
<1> QED BY <1>3, <1>4, ConvertIsTrue

(* With the true number known, ReadHeader is this step.                     *)
LEMMA ReadHeaderStep ==
  ASSUME WithinReach(MaxJump), WindowInv, NEW n \in Packets, ReadHeader(n)
  PROVE  LET accepted == IsAccepted(packetsRecieved_, lastSeqRecieved_, n)
         IN  /\ lastSeqRecieved_' = LastAfter(lastSeqRecieved_, n)
             /\ packetsRecieved_' =
                  AcksAfter(packetsRecieved_, lastSeqRecieved_, n)
             /\ delivered' = IF accepted THEN delivered \cup {n} ELSE delivered
             /\ outcome' = [packet |-> n, accepted |-> accepted]
<1>1. ConvertSequenceNumber(AsU08(n), lastSeqRecieved_) = n
  BY ArrivalIsExact DEF ReadHeader
<1>2. n # Expired
  BY SequenceAssumption, ReceiveAssumption DEF Packets, Expired
<1>3. IsAccepted(packetsRecieved_, lastSeqRecieved_, n) \in BOOLEAN
  BY DEF IsAccepted
<1> QED BY <1>1, <1>2, <1>3, Zenon DEF ReadHeader

(* The bit field keeps its width.                                           *)
LEMMA AcksStayInField ==
  ASSUME NEW last \in Nat, NEW n \in Nat,
         NEW acks \in SUBSET (0 .. AckBits - 1)
  PROVE  AcksAfter(acks, last, n) \in SUBSET (0 .. AckBits - 1)
<1> USE SequenceAssumption
<1>1. ShiftAcks(acks, n - last) \cup {0} \subseteq 0 .. AckBits - 1
  BY DEF ShiftAcks
<1>2. IsAccepted(acks, last, n) => Distance(last, n) \in 0 .. AckBits - 1
  BY DEF IsAccepted, Distance, LastAfter
<1> QED BY <1>1, <1>2 DEF AcksAfter

(* One packet, newer, late or repeated, keeps the two fields true.          *)
LEMMA ReadHeaderKeepsWindowInv ==
  ASSUME WithinReach(MaxJump), WindowInv, NEW n \in Packets, ReadHeader(n)
  PROVE  WindowInv'
<1> USE SequenceAssumption, ReceiveAssumption DEF Packets, Expired
<1> DEFINE last == lastSeqRecieved_
           acks == packetsRecieved_
<1>1. /\ last \in Nat /\ n \in Nat \ {0}
      /\ acks \subseteq 0 .. AckBits - 1
      /\ delivered \subseteq Packets
  BY DEF WindowInv, TypeOK
<1>2. /\ lastSeqRecieved_' = LastAfter(last, n)
      /\ packetsRecieved_' = AcksAfter(acks, last, n)
      /\ delivered' = IF IsAccepted(acks, last, n)
                      THEN delivered \cup {n} ELSE delivered
      /\ outcome' = [packet |-> n, accepted |-> IsAccepted(acks, last, n)]
  BY ReadHeaderStep
<1>3. n > last => IsAccepted(acks, last, n)
  BY <1>1 DEF IsAccepted, Distance, LastAfter
<1>4. TypeOK'
  <2>1. lastSeqRecieved_' \in 0 .. U32_MAX - 1
    BY <1>1, <1>2 DEF LastAfter, WindowInv, TypeOK
  <2>2. packetsRecieved_' \in SUBSET (0 .. AckBits - 1)
    BY <1>1, <1>2, AcksStayInField
  <2>3. delivered' \in SUBSET Packets
    BY <1>1, <1>2
  <2>4. outcome' \in [packet : Packets \cup {0}, accepted : BOOLEAN]
    <3>1. IsAccepted(acks, last, n) \in BOOLEAN
      BY DEF IsAccepted
    <3> QED BY <1>2, <3>1
  <2> QED BY <2>1, <2>2, <2>3, <2>4 DEF TypeOK
<1>5. LastIsTrue'
  <2>1. lastSeqRecieved_ \in delivered \cup {0}
        /\ \A k \in delivered : k <= lastSeqRecieved_
    BY DEF WindowInv, LastIsTrue
  <2>2. CASE n > last
    <3>1. lastSeqRecieved_' = n /\ delivered' = delivered \cup {n}
      BY <1>2, <1>3, <2>2 DEF LastAfter
    <3> QED BY <1>1, <2>1, <2>2, <3>1 DEF LastIsTrue
  <2>3. CASE n <= last
    <3>1. lastSeqRecieved_' = last /\ delivered' \in {delivered, delivered \cup {n}}
      BY <1>1, <1>2, <2>3 DEF LastAfter
    <3> QED BY <1>1, <2>1, <2>3, <3>1 DEF LastIsTrue
  <2> QED BY <1>1, <2>2, <2>3
<1>6. AcksAreTrue'
  <2>1. CASE n > last
    <3>1. lastSeqRecieved_' = n /\ delivered' = delivered \cup {n}
      BY <1>1, <1>2, <1>3, <2>1 DEF LastAfter
    <3>2. packetsRecieved_' = ShiftAcks(acks, n - last) \cup {0}
      BY <1>1, <1>2, <1>3, <2>1 DEF AcksAfter, Distance, LastAfter
    <3>3. ASSUME NEW d \in 1 .. AckBits - 1
          PROVE  d \in ShiftAcks(acks, n - last) <=> n - d \in delivered
      <4>1. d \in ShiftAcks(acks, n - last) <=> d - (n - last) \in acks
        BY <1>1, <2>1 DEF ShiftAcks
      <4>2. CASE d >= n - last
        <5>1. d - (n - last) \in 0 .. AckBits - 1
          BY <1>1, <2>1, <4>2
        <5>2. last - (d - (n - last)) = n - d
          BY <1>1
        <5> QED BY <4>1, <5>1, <5>2 DEF WindowInv, AcksAreTrue
      <4>3. CASE d < n - last
        BY <1>1, <2>1, <4>1, <4>3 DEF WindowInv, LastIsTrue
      <4> QED BY <1>1, <4>2, <4>3
    <3>4. ShiftAcks(acks, n - last) \subseteq 1 .. AckBits - 1
      BY <1>1, <2>1 DEF ShiftAcks
    <3>5. ASSUME NEW d \in 0 .. AckBits - 1
          PROVE  d \in packetsRecieved_' <=> n - d \in delivered'
      BY <1>1, <3>1, <3>2, <3>3, <3>4
    <3> QED BY <1>4, <3>1, <3>5 DEF AcksAreTrue, TypeOK
  <2>2. CASE n <= last
    <3>1. lastSeqRecieved_' = last
      BY <1>1, <2>2, <1>2 DEF LastAfter
    <3>2. CASE IsAccepted(acks, last, n)
      <4>1. packetsRecieved_' = acks \cup {last - n}
        BY <1>1, <2>2, <3>2, <1>2 DEF AcksAfter, Distance, LastAfter
      <4>2. delivered' = delivered \cup {n}
        BY <3>2, <1>2
      <4>3. ASSUME NEW d \in 0 .. AckBits - 1
            PROVE  d \in packetsRecieved_' <=> last - d \in delivered'
        BY <1>1, <4>1, <4>2 DEF WindowInv, AcksAreTrue
      <4> QED BY <1>4, <3>1, <4>3 DEF AcksAreTrue, TypeOK
    <3>3. CASE ~IsAccepted(acks, last, n)
      <4>1. packetsRecieved_' = acks /\ delivered' = delivered
        BY <1>1, <1>2, <2>2, <3>3 DEF AcksAfter
      <4> QED BY <3>1, <4>1 DEF WindowInv, AcksAreTrue
    <3> QED BY <3>2, <3>3
  <2> QED BY <1>1, <2>1, <2>2
<1> QED BY <1>4, <1>5, <1>6 DEF WindowInv

(* Connection::ReadHeader keeps the receive window exact: the type of the   *)
(* state, the number of the newest packet and every ack bit.                *)
THEOREM WindowIsExact ==
  ASSUME WithinReach(MaxJump)
  PROVE  Spec => [](TypeOK /\ LastIsTrue /\ AcksAreTrue)
<1>1. Init => WindowInv
  BY InitWindowInv
<1>2. WindowInv /\ [Next]_vars => WindowInv'
  <2>1. ASSUME WindowInv, Next PROVE WindowInv'
    BY <2>1, ReadHeaderKeepsWindowInv DEF Next
  <2>2. ASSUME WindowInv, UNCHANGED vars PROVE WindowInv'
    BY <2>2 DEF vars, WindowInv, TypeOK, LastIsTrue, AcksAreTrue
  <2> QED BY <2>1, <2>2
<1>3. WindowInv => TypeOK /\ LastIsTrue /\ AcksAreTrue
  BY DEF WindowInv
<1> QED BY <1>1, <1>2, <1>3, PTL DEF Spec


(* Every variable of the window keeps its type, the rebuilt number its      *)
(* width.                                                                   *)
THEOREM WindowTypeCorrect ==
  ASSUME WithinReach(MaxJump)
  PROVE  Spec => []TypeOK
BY WindowIsExact, PTL

(* The rebuilt number of the newest packet is always the number its sender  *)
(* gave it.                                                                 *)
THEOREM LastIsAlwaysTrue ==
  ASSUME WithinReach(MaxJump)
  PROVE  Spec => []LastIsTrue
BY WindowIsExact, PTL

-----------------------------------------------------------------------------
(* Under the invariant the code's verdict is the abstract one.              *)
LEMMA VerdictIsWanted ==
  ASSUME WithinReach(MaxJump), WindowInv, NEW n \in Packets
  PROVE  IsAccepted(packetsRecieved_, lastSeqRecieved_, n) = Abstract!Wanted(n)
<1> USE SequenceAssumption, ReceiveAssumption DEF Packets, Expired
<1>1. lastSeqRecieved_ \in Nat /\ n \in Nat
  BY DEF WindowInv, TypeOK
<1>2. CASE n > lastSeqRecieved_
  BY <1>1, <1>2 DEF IsAccepted, Distance, LastAfter, Abstract!Wanted
<1>3. CASE n <= lastSeqRecieved_
  <2>1. Distance(lastSeqRecieved_, n) = lastSeqRecieved_ - n
    BY <1>1, <1>3 DEF Distance, LastAfter
  <2>2. lastSeqRecieved_ - n < AckBits
          => (lastSeqRecieved_ - n \in packetsRecieved_ <=> n \in delivered)
    BY <1>1, <1>3 DEF WindowInv, AcksAreTrue
  <2>3. IsAccepted(packetsRecieved_, lastSeqRecieved_, n)
          <=> Abstract!Wanted(n)
    BY <1>1, <1>3, <2>1, <2>2 DEF IsAccepted, Abstract!Wanted
  <2> QED BY <2>3 DEF IsAccepted, Abstract!Wanted
<1> QED BY <1>1, <1>2, <1>3

(* The receive window with 8-bit numbers implements the window with true    *)
(* numbers: ReadHeader hands up a packet exactly when PacketWindow does.    *)
THEOREM WindowImplementsPacketWindow ==
  ASSUME WithinReach(MaxJump)
  PROVE  Spec => RefinesPacketWindow
<1>1. Init => Abstract!Init
  BY DEF Init, Abstract!Init
<1>2. WindowInv /\ [Next]_vars => [Abstract!Next]_(Abstract!vars)
  <2>1. ASSUME WindowInv, NEW n \in Packets, ReadHeader(n)
        PROVE  Abstract!Arrive(n)
    BY <2>1, ReadHeaderStep, VerdictIsWanted DEF LastAfter, Abstract!Arrive
  <2> QED BY <2>1 DEF Next, Abstract!Next, vars, Abstract!vars
<1>3. Spec => []WindowInv
  BY WindowIsExact, PTL DEF WindowInv
<1> QED BY <1>1, <1>2, <1>3, PTL DEF Spec, RefinesPacketWindow, Abstract!Spec

-----------------------------------------------------------------------------
(* A packet passes twice only while it is the newest, and a packet that is  *)
(* neither old nor seen is never refused.                                   *)
THEOREM WindowVerdicts ==
  ASSUME WithinReach(MaxJump)
  PROVE  Spec => OnlyNewestRepeats /\ RefusedOnlyIfOldOrSeen
<1> DEFINE Repeat == outcome'.accepted /\ outcome'.packet \in delivered
                       => outcome'.packet = lastSeqRecieved_
           Refuse == ~outcome'.accepted
                       => \/ outcome'.packet \in delivered
                          \/ outcome'.packet <= lastSeqRecieved_ - AckBits
<1>1. ASSUME WindowInv, NEW n \in Packets, ReadHeader(n)
      PROVE  Repeat /\ Refuse
  <2>1. outcome'.packet = n /\ outcome'.accepted = Abstract!Wanted(n)
    BY <1>1, ReadHeaderStep, VerdictIsWanted
  <2>2. lastSeqRecieved_ \in Nat /\ n \in Nat
    BY <1>1, ReceiveAssumption, SequenceAssumption
       DEF WindowInv, TypeOK, Packets, Expired
  <2>3. \A k \in delivered : k <= lastSeqRecieved_
    BY <1>1 DEF WindowInv, LastIsTrue
  <2> QED BY <2>1, <2>2, <2>3, SequenceAssumption DEF Abstract!Wanted
<1>2. WindowInv /\ [Next]_vars => [Repeat]_vars /\ [Refuse]_vars
  BY <1>1 DEF Next
<1>3. Spec => []WindowInv
  BY WindowIsExact, PTL DEF WindowInv
<1> QED BY <1>2, <1>3, PTL DEF Spec, OnlyNewestRepeats, RefusedOnlyIfOldOrSeen

-----------------------------------------------------------------------------
(* The code's widths and limits: packets up to 50 away are within reach.    *)
LEMMA CodeReach ==
  ASSUME U08_MAX = 256, LowerLimit = 50, UpperLimit = 200
  PROVE  WithinReach(50)
BY DEF WithinReach

(* What RemoveAckedMessages concludes from a header is what ReadHeader did  *)
(* at the other end, when the wire number is a whole number of int widths   *)
(* and the field is narrower than an int, as in the code.                   *)
THEOREM AcksAreUnderstood ==
  ASSUME WithinReach(MaxJump), IntBits > AckBits,
         U08_MAX >= IntBits, U08_MAX % IntBits = 0
  PROVE  Spec => []AckMeansHandedUp
<1>1. ASSUME WindowInv PROVE AckMeansHandedUp
  <2> SUFFICES ASSUME NEW n \in Packets,
                      n - lastSeqRecieved_ <= IntBits - AckBits,
                      lastSeqRecieved_ - n < IntBits
               PROVE  IsAcked(AsU08(n), AsU08(lastSeqRecieved_),
                              packetsRecieved_)
                        <=> /\ n \in delivered
                            /\ lastSeqRecieved_ - n < AckBits
    BY DEF AckMeansHandedUp
  <2>1. /\ lastSeqRecieved_ \in Nat /\ n \in Nat \ {0}
        /\ packetsRecieved_ \in SUBSET (0 .. AckBits - 1)
    BY <1>1, SequenceAssumption, ReceiveAssumption
       DEF WindowInv, TypeOK, Packets
  <2>2. IsAcked(AsU08(n), AsU08(lastSeqRecieved_), packetsRecieved_)
          <=> \/ lastSeqRecieved_ = n
              \/ lastSeqRecieved_ - n \in packetsRecieved_
    BY <2>1, AckTestIsTrue
  <2>3. lastSeqRecieved_ = n => n \in delivered
    BY <1>1, <2>1 DEF WindowInv, LastIsTrue
  <2>4. n \in delivered => n <= lastSeqRecieved_
    BY <1>1, <2>1 DEF WindowInv, LastIsTrue
  <2>5. lastSeqRecieved_ - n \in packetsRecieved_
          <=> /\ lastSeqRecieved_ - n \in 0 .. AckBits - 1
              /\ n \in delivered
    <3>1. lastSeqRecieved_ - (lastSeqRecieved_ - n) = n
      BY <2>1
    <3> QED BY <1>1, <3>1 DEF WindowInv, AcksAreTrue
  <2>6. lastSeqRecieved_ - n \in 0 .. AckBits - 1
          <=> n <= lastSeqRecieved_ /\ lastSeqRecieved_ - n < AckBits
    BY <2>1, SequenceAssumption
  <2>7. lastSeqRecieved_ = n => lastSeqRecieved_ - n < AckBits
    BY <2>1, SequenceAssumption
  <2> QED BY <2>2, <2>3, <2>4, <2>5, <2>6, <2>7
<1>2. Spec => []WindowInv
  BY WindowIsExact, PTL DEF WindowInv
<1> QED BY <1>1, <1>2, PTL
=============================================================================

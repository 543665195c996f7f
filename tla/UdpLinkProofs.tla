--------------------------- MODULE UdpLinkProofs ---------------------------
(***************************************************************************)
(* Two systems joined by UDP, for any widths of the header's fields, any   *)
(* messages and any bound on what may still arrive.                        *)
(***************************************************************************)
EXTENDS UdpLink, SequenceNumbersProofs, SequenceTheorems, WellFoundedInduction

-----------------------------------------------------------------------------
(* Loops. The code walks a list; the model says so with a function of the   *)
(* number of elements done.                                                 *)

(* A set of numbers that is not empty has a least one.                      *)
LEMMA LeastNumber ==
  ASSUME NEW S \in SUBSET Nat, S # {}
  PROVE  \E i \in S : \A j \in S : i <= j
<1>1. PICK i \in S : \A j \in S : ~(<<j, i>> \in OpToRel(<, Nat))
  BY NatLessThanWellFounded, WFMin
<1>2. \A j \in S : ~(j < i)
  BY <1>1 DEF OpToRel
<1> QED BY <1>2

(* What holds of 0 and of each number after one of which it holds.          *)
LEMMA Counting ==
  ASSUME NEW n \in Nat, NEW K, 0 \in K,
         \A k \in 1 .. n : k - 1 \in K => k \in K
  PROVE  \A k \in 0 .. n : k \in K
<1> DEFINE Bad == {k \in 0 .. n : k \notin K}
<1>1. ASSUME Bad # {} PROVE FALSE
  <2>0. Bad \in SUBSET Nat
    OBVIOUS
  <2>1. PICK k \in Bad : \A j \in Bad : k <= j
    <3> HIDE DEF Bad
    <3> QED BY <1>1, <2>0, LeastNumber
  <2>2. k \in 1 .. n /\ k - 1 \in 0 .. n
    BY <2>1
  <2>3. k - 1 \notin Bad
    BY <2>1, <2>2
  <2> QED BY <2>1, <2>2, <2>3
<1> QED BY <1>1

(* What n rounds may do to a state in T.                                    *)
Rounds(n, T) == [1 .. n -> [T -> T]]

(* A loop of n rounds over states in T has a run.                           *)
LEMMA LoopRuns ==
  ASSUME NEW n \in Nat, NEW T, NEW a \in T, NEW F \in Rounds(n, T)
  PROVE  \E g \in [0 .. n -> T] :
           /\ g[0] = a
           /\ \A k \in 1 .. n : g[k] = F[k][g[k - 1]]
<1> DEFINE Runs(j) == \E g \in [0 .. j -> T] :
              /\ g[0] = a
              /\ \A k \in 1 .. j : g[k] = F[k][g[k - 1]]
<1>1. Runs(0)
  <2> DEFINE g == [k \in 0 .. 0 |-> a]
  <2>1. /\ g \in [0 .. 0 -> T] /\ g[0] = a
        /\ \A k \in 1 .. 0 : g[k] = F[k][g[k - 1]]
    OBVIOUS
  <2> QED BY <2>1
<1>2. ASSUME NEW j \in 0 .. n - 1, Runs(j) PROVE Runs(j + 1)
  <2>1. PICK g \in [0 .. j -> T] :
          /\ g[0] = a
          /\ \A k \in 1 .. j : g[k] = F[k][g[k - 1]]
    BY <1>2
  <2> DEFINE h == [k \in 0 .. j + 1 |-> IF k <= j THEN g[k] ELSE F[j + 1][g[j]]]
  <2>2. F[j + 1][g[j]] \in T
    BY <2>1 DEF Rounds
  <2>3. h \in [0 .. j + 1 -> T] /\ h[0] = a
    BY <2>1, <2>2
  <2>4. ASSUME NEW k \in 1 .. j + 1 PROVE h[k] = F[k][h[k - 1]]
    <3>1. CASE k <= j
      <4>1. k \in 1 .. j /\ h[k] = g[k] /\ h[k - 1] = g[k - 1]
        BY <3>1
      <4> QED BY <4>1, <2>1
    <3>2. CASE k = j + 1
      BY <3>2
    <3> QED BY <3>1, <3>2
  <2> HIDE DEF h
  <2> QED BY <2>3, <2>4
<1> DEFINE K == {k \in 0 .. n : Runs(k)}
<1> HIDE DEF Runs
<1>3. ASSUME NEW k \in 1 .. n, k - 1 \in K PROVE k \in K
  <2>1. k - 1 \in 0 .. n - 1 /\ (k - 1) + 1 = k
    OBVIOUS
  <2> QED BY <1>2, <1>3, <2>1
<1>4. 0 \in K
  BY <1>1
<1>5. n \in K
  <2> HIDE DEF K
  <2> QED BY <1>3, <1>4, Counting
<1> QED BY <1>5 DEF Runs

-----------------------------------------------------------------------------
(* Numbers. *)

(* The remainder is the number on the wire.                                 *)
LEMMA CastOf ==
  ASSUME NEW q \in Int, NEW r \in 0 .. U08_MAX - 1,
         NEW n, n = (U08_MAX * q) + r
  PROVE  AsU08(n) = r
BY DivModUnique, SequenceAssumption DEF AsU08

(* Small numbers are themselves.                                            *)
LEMMA CastSmall ==
  ASSUME NEW n \in 0 .. U08_MAX - 1
  PROVE  AsU08(n) = n
<1>1. n = (U08_MAX * 0) + n
  BY SequenceAssumption
<1> QED BY <1>1, DivModUnique, SequenceAssumption DEF AsU08

(* Casting twice is casting once.                                           *)
LEMMA CastPlus ==
  ASSUME NEW n \in Nat
  PROVE  /\ AsU08(n) \in Wire
         /\ AsU08(AsU08(n) + 1) = AsU08(n + 1)
<1> DEFINE q == n \div U08_MAX
           r == AsU08(n)
<1> USE SequenceAssumption
<1>1. /\ q \in Int /\ r \in 0 .. U08_MAX - 1
      /\ n = (U08_MAX * q) + r
  BY DivMod DEF AsU08
<1> HIDE DEF q, r
<1> DEFINE r1 == r + 1
           n1 == n + 1
<1>2. CASE r + 1 < U08_MAX
  <2>1. r1 \in 0 .. U08_MAX - 1
    BY <1>1, <1>2
  <2>2. n1 = (U08_MAX * q) + r1
    BY <1>1
  <2> HIDE DEF r1, n1
  <2>3. AsU08(n1) = r1
    BY <1>1, <2>1, <2>2, CastOf
  <2>4. AsU08(r1) = r1
    BY <2>1, CastSmall
  <2> QED BY <1>1, <2>3, <2>4 DEF Wire, r, r1, n1
<1>3. CASE r + 1 = U08_MAX
  <2> DEFINE p == q + 1
  <2>1. /\ n1 = (U08_MAX * p) + 0 /\ r1 = (U08_MAX * 1) + 0
        /\ 0 \in 0 .. U08_MAX - 1 /\ p \in Int
    BY <1>1, <1>3
  <2> HIDE DEF r1, n1, p
  <2>2. AsU08(n1) = 0
    BY <2>1, CastOf
  <2>3. PICK o \in Int : r1 = (U08_MAX * o) + 0
    BY <2>1
  <2>4. AsU08(r1) = 0
    BY <2>1, <2>3, CastOf
  <2> QED BY <1>1, <2>2, <2>4 DEF Wire, r, r1, n1
<1> QED BY <1>1, <1>2, <1>3

-----------------------------------------------------------------------------
(* What a pass has done so far. *)

PassState ==
  [d : ConnectionData, beat : BOOLEAN, out : Seq(PacketType), sent : Nat,
   dropped : SUBSET Nat]

(* A message is queued or waits for its ack.                                *)
WaitsIn(d, m) ==
  \/ m \in ToSet(d.messagesToSend_)
  \/ \E i \in DOMAIN d.messagesSent_ : d.messagesSent_[i].m_ = m

(* The wire number of the next packet is that of the n + 1st.               *)
IsCounted(c, n) == c.nextSequenceNum_ = AsU08(n + 1)

(* The receiving half is left alone; echoes are only paid, and a FIN goes   *)
(* out only for sendFin_. What a connection that takes itself for TCP       *)
(* writes reaches nobody.                                                   *)
ConnectionAfter(c, n, s) ==
  /\ s.d.con_.lastSeqRecieved_ = c.lastSeqRecieved_
  /\ s.d.con_.packetsRecieved_ = c.packetsRecieved_
  /\ s.d.con_.ackRefNum_ = c.ackRefNum_
  /\ s.d.con_.destAcks_ = c.destAcks_
  /\ s.d.con_.UDP_ = c.UDP_
  /\ s.d.con_.startConnection_ = c.startConnection_
  /\ IsCounted(c, n) => IsCounted(s.d.con_, s.sent)
  /\ s.d.con_.sendSyn_ => c.sendSyn_
  /\ s.d.con_.sendHeartBeat_ => c.sendHeartBeat_
  /\ c.UDP_ => s.d.con_.sendFin_ = c.sendFin_
  /\ c.UDP_ /\ s.d.con_.terminateConnection_ =>
       c.terminateConnection_ \/ (c.sendFin_ /\ s.out # <<>>)
  /\ ~c.UDP_ => s.out = <<>>

(* The second header of a resent message that waited in d.                  *)
IsInner(beat, inner) ==
  \E k \in Wire, b \in BOOLEAN : inner = ResendHeader(k, b) /\ (b => beat)

IsPacketOf(d, beat, n, upTo, p) ==
  /\ p.number \in Nat /\ p.number > n /\ p.number <= upTo
  /\ p.ref = d.con_.lastSeqRecieved_
  /\ p.header.ackRef = AsU08(p.ref)
  /\ p.header.acks = d.con_.packetsRecieved_
  /\ "FIN" \in p.header.flags <=> d.con_.sendFin_
  /\ "RST" \in p.header.flags => d.con_.sendSyn_ \/ d.con_.sendHeartBeat_
  /\ "RSN" \in p.header.flags => IsInner(beat, p.inner)

PacketsAfter(d, beat, n, s) ==
  \A i \in DOMAIN s.out : IsPacketOf(d, beat, n, s.sent, s.out[i])

(* The packet of the pass a message last travelled in carries it.           *)
IsCarried(s, entry) ==
  \A i \in DOMAIN s.out :
    s.out[i].number = entry.number => entry.m_ \in s.out[i].body

(* An entry is an old one, or its last packet is one of this pass.          *)
IsEntryOf(d, n, s, entry) ==
  \/ \E i \in DOMAIN d.messagesSent_ : entry = d.messagesSent_[i]
  \/ /\ entry.number \in Nat /\ entry.number > n /\ entry.number <= s.sent
     /\ IsCounted(d.con_, n) => entry.ackNum_ = AsU08(entry.number)
     /\ IsCarried(s, entry)

EntriesAfter(d, n, s) ==
  \A i \in DOMAIN s.d.messagesSent_ : IsEntryOf(d, n, s, s.d.messagesSent_[i])

(* What a pass may have come to that began with the data d, udpConnection_'s *)
(* sendHeartBeat_ at beat, and n packets sent.                               *)
Pass(d, beat, n) ==
  {s \in PassState :
     /\ s.d.given = d.given /\ s.d.ref = d.ref
     /\ n <= s.sent
     /\ s.beat => beat
     /\ ConnectionAfter(d.con_, n, s)
     /\ PacketsAfter(d, beat, n, s)
     /\ EntriesAfter(d, n, s)
     /\ d.con_.UDP_ =>
          \A m \in MustSend : WaitsIn(d, m) => WaitsIn(s.d, m)}

(* A pass begins with nothing done.                                         *)
LEMMA StartIsPass ==
  ASSUME NEW e, NEW d \in ConnectionData, NEW dropped \in SUBSET Nat,
         udpBeat[e] \in BOOLEAN, sent[e] \in Nat
  PROVE  Start(e, d, dropped) \in Pass(d, udpBeat[e], sent[e])
<1> DEFINE s == Start(e, d, dropped)
           n == sent[e]
           beat == udpBeat[e]
<1>1. /\ s.d = d /\ s.out = <<>> /\ s.sent = n /\ s.beat = beat
      /\ s = [d |-> d, beat |-> beat, out |-> <<>>, sent |-> n,
              dropped |-> dropped]
  BY DEF Start
<1>2. s \in PassState
  <2>1. <<>> \in Seq(PacketType)
    BY EmptySeq
  <2> QED BY <1>1, <2>1 DEF PassState
<1> HIDE DEF s
<1>3. ConnectionAfter(d.con_, n, s)
  BY <1>1 DEF ConnectionAfter
<1>4. PacketsAfter(d, beat, n, s)
  BY <1>1 DEF PacketsAfter
<1>5. EntriesAfter(d, n, s)
  BY <1>1 DEF EntriesAfter, IsEntryOf
<1>6. s \in Pass(d, beat, n)
  BY <1>1, <1>2, <1>3, <1>4, <1>5 DEF Pass
<1> QED BY <1>6 DEF s, n, beat

-----------------------------------------------------------------------------
(* Sending. *)

(* The fields of a connection, one by one.                                  *)
LEMMA ConnectionFields ==
  ASSUME NEW c \in ConnectionType
  PROVE  /\ c.nextSequenceNum_ \in Wire /\ c.nextSequenceNum_ \in Nat
         /\ c.lastSeqRecieved_ \in 0 .. U32_MAX - 1 /\ c.lastSeqRecieved_ \in Nat
         /\ c.packetsRecieved_ \in AckFields
         /\ c.ackRefNum_ \in Wire /\ c.destAcks_ \in AckFields
         /\ c.UDP_ \in BOOLEAN
         /\ c.sendHeartBeat_ \in BOOLEAN /\ c.sendSyn_ \in BOOLEAN
         /\ c.sendFin_ \in BOOLEAN /\ c.startConnection_ \in BOOLEAN
         /\ c.terminateConnection_ \in BOOLEAN
<1>1. /\ c.nextSequenceNum_ \in Wire
      /\ c.lastSeqRecieved_ \in 0 .. U32_MAX - 1
      /\ c.packetsRecieved_ \in AckFields
      /\ c.ackRefNum_ \in Wire /\ c.destAcks_ \in AckFields
      /\ c.UDP_ \in BOOLEAN
      /\ c.sendHeartBeat_ \in BOOLEAN /\ c.sendSyn_ \in BOOLEAN
      /\ c.sendFin_ \in BOOLEAN /\ c.startConnection_ \in BOOLEAN
      /\ c.terminateConnection_ \in BOOLEAN
  BY DEF ConnectionType
<1>2. c.nextSequenceNum_ \in Nat /\ c.lastSeqRecieved_ \in Nat
  BY <1>1, SequenceAssumption DEF Wire
<1> QED BY <1>1, <1>2

(* A connection begins well.                                                *)
LEMMA NewConnectionType ==
  ASSUME NEW acks \in AckFields, NEW beat \in BOOLEAN, NEW udp \in BOOLEAN
  PROVE  NewConnection(acks, beat, udp) \in ConnectionType
<1>1. /\ 1 \in Wire /\ 0 \in Wire /\ 0 \in 0 .. U32_MAX - 1
      /\ {} \in AckFields
  BY SequenceAssumption, ConnectionAssumption DEF Wire, AckFields
<1> QED BY <1>1 DEF NewConnection, ConnectionType

(* Every header is one.                                                     *)
LEMMA HeaderIsTyped ==
  ASSUME NEW c \in ConnectionType, NEW flags \in SUBSET Flags, NEW seq \in Wire
  PROVE  /\ SentFlags(c, flags) \in SUBSET Flags
         /\ Header(c, flags, seq) \in HeaderType
<1>1. SentFlags(c, flags) \in SUBSET Flags
  BY DEF SentFlags, Flags
<1>2. AsU08(c.lastSeqRecieved_) \in Wire /\ c.packetsRecieved_ \in AckFields
  BY ConnectionFields, CastPlus
<1> QED BY <1>1, <1>2 DEF Header, HeaderType

(* The second header of a resent message has a SYN and its number; it       *)
(* echoes only what sendHeartBeat_ happened to begin with.                  *)
LEMMA ResendHeaderIs ==
  ASSUME NEW k \in Wire, NEW beat \in BOOLEAN
  PROVE  LET h == ResendHeader(k, beat) IN
         /\ h \in HeaderType
         /\ h.flags = IF beat THEN {"SYN", "HRT", "RST"} ELSE {"SYN"}
         /\ h.seq = k
         /\ h.ackRef = 0 /\ h.acks = {}
<1> DEFINE c == NewConnection({}, beat, TRUE)
<1>1. c \in ConnectionType
  BY NewConnectionType DEF AckFields
<1>2. /\ c.sendHeartBeat_ = beat /\ ~c.sendSyn_ /\ ~c.sendFin_
      /\ c.startConnection_
      /\ c.lastSeqRecieved_ = 0 /\ c.packetsRecieved_ = {}
  BY DEF NewConnection
<1>3. AsU08(0) = 0
  BY CastSmall, SequenceAssumption
<1> HIDE DEF c
<1>4. SentFlags(c, {}) = IF beat THEN {"SYN", "HRT", "RST"} ELSE {"SYN"}
  BY <1>2 DEF SentFlags
<1> DEFINE h == ResendHeader(k, beat)
<1>5. h = Header(c, {}, k)
  BY DEF ResendHeader, c
<1> HIDE DEF h
<1>6. h \in HeaderType
  BY <1>1, <1>5, HeaderIsTyped
<1> QED BY <1>2, <1>3, <1>4, <1>5, <1>6 DEF Header, h

(* SendWith takes a number and, unless the packet is dropped, pays the      *)
(* echoes and ends the connection with its FIN; a socket that cannot be     *)
(* used terminates.                                                         *)
LEMMA SendWithFields ==
  ASSUME NEW c \in ConnectionType, NEW flags \in SUBSET Flags,
         "FIN" \notin flags, NEW dropped \in BOOLEAN
  PROVE  LET t == SendWith(c, flags, dropped) IN
         /\ t \in ConnectionType
         /\ t.nextSequenceNum_ = AsU08(c.nextSequenceNum_ + 1)
         /\ t.lastSeqRecieved_ = c.lastSeqRecieved_
         /\ t.packetsRecieved_ = c.packetsRecieved_
         /\ t.ackRefNum_ = c.ackRefNum_ /\ t.destAcks_ = c.destAcks_
         /\ t.UDP_ = c.UDP_
         /\ t.startConnection_ = c.startConnection_
         /\ t.sendSyn_ => c.sendSyn_
         /\ t.sendHeartBeat_ => c.sendHeartBeat_
         /\ c.UDP_ => t.sendFin_ = c.sendFin_
         /\ t.terminateConnection_ =>
              c.terminateConnection_ \/ (c.sendFin_ /\ ~dropped)
<1> DEFINE t == SendWith(c, flags, dropped)
           h == HandleSendFlags(c, flags)
           b == BaseSend(h)
           fin == c.sendFin_ \/ ~c.UDP_
           end == c.terminateConnection_ \/ "FIN" \in SentFlags(c, flags)
           next == AsU08(c.nextSequenceNum_ + 1)
<1>1. /\ c.nextSequenceNum_ + 1 \in Nat /\ next \in Wire
      /\ end \in BOOLEAN /\ fin \in BOOLEAN
      /\ c.sendFin_ \in BOOLEAN /\ c.UDP_ \in BOOLEAN
  BY ConnectionFields, CastPlus
<1>2. "FIN" \in SentFlags(c, flags) => c.sendFin_
  BY DEF SentFlags
<1>3. h = [c EXCEPT !.sendHeartBeat_ = FALSE, !.sendSyn_ = FALSE,
                    !.terminateConnection_ = end]
  BY DEF HandleSendFlags
<1>4. b = [c EXCEPT !.sendHeartBeat_ = FALSE, !.sendSyn_ = FALSE,
                    !.terminateConnection_ = end, !.sendFin_ = fin]
  <2>1. h.UDP_ = c.UDP_ /\ h.sendFin_ = c.sendFin_
    BY <1>3 DEF ConnectionType
  <2>2. CASE c.UDP_
    <3>1. fin = c.sendFin_ /\ b = h
      BY <1>1, <2>1, <2>2 DEF BaseSend
    <3> HIDE DEF fin, b, h, end
    <3> QED BY <1>3, <2>1, <3>1 DEF ConnectionType
  <2>3. CASE ~c.UDP_
    <3>1. fin = TRUE /\ b = [h EXCEPT !.sendFin_ = TRUE]
      BY <1>1, <2>1, <2>3 DEF BaseSend, Terminate
    <3> HIDE DEF fin, b, h, end
    <3> QED BY <1>3, <3>1 DEF ConnectionType
  <2> QED BY <2>2, <2>3
<1>5. t = [(IF dropped THEN c ELSE b) EXCEPT !.nextSequenceNum_ = next]
  <2>1. b.nextSequenceNum_ = c.nextSequenceNum_
    BY <1>4 DEF ConnectionType
  <2> QED BY <2>1 DEF SendWith
<1> HIDE DEF t, h, b, end, next, fin
<1>6. CASE dropped
  BY <1>1, <1>5, <1>6 DEF ConnectionType, next, t
<1>7. CASE ~dropped
  <2>1. t = [c EXCEPT !.sendHeartBeat_ = FALSE, !.sendSyn_ = FALSE,
                      !.terminateConnection_ = end, !.sendFin_ = fin,
                      !.nextSequenceNum_ = next]
    BY <1>4, <1>5, <1>7 DEF ConnectionType
  <2>2. t \in ConnectionType
    BY <1>1, <2>1 DEF ConnectionType
  <2>3. end => c.terminateConnection_ \/ c.sendFin_
    BY <1>2 DEF end
  <2>4. c.UDP_ => fin = c.sendFin_
    BY <1>1 DEF fin
  <2>5. /\ t.nextSequenceNum_ = next
        /\ t.lastSeqRecieved_ = c.lastSeqRecieved_
        /\ t.packetsRecieved_ = c.packetsRecieved_
        /\ t.ackRefNum_ = c.ackRefNum_ /\ t.destAcks_ = c.destAcks_
        /\ t.UDP_ = c.UDP_ /\ t.sendFin_ = fin
        /\ t.startConnection_ = c.startConnection_
        /\ ~t.sendSyn_ /\ ~t.sendHeartBeat_
        /\ t.terminateConnection_ = end
    BY <2>1 DEF ConnectionType
  <2> QED BY <1>7, <2>2, <2>3, <2>4, <2>5 DEF next, t
<1> QED BY <1>6, <1>7

(* A packet of the pass, as Emit writes it.                                 *)
PacketOf(c, flags, inner, body, number) ==
  [header |-> Header(c, flags, c.nextSequenceNum_), inner |-> inner,
   body |-> body, number |-> number, ref |-> c.lastSeqRecieved_]

(* The flags of the callers of SendWith.                                    *)
CallersFlags == {{}, {"RSN"}, {"HRT"}}

(* A resent message has its second header.                                  *)
MayCarry(beat, flags, inner) ==
  (inner = Null /\ flags # {"RSN"}) \/ IsInner(beat, inner)

(* One call of SendWith is part of the pass.                                *)
LEMMA EmitIsPass ==
  ASSUME NEW d \in ConnectionData, NEW beat \in BOOLEAN, NEW n \in Nat,
         NEW s \in Pass(d, beat, n),
         NEW flags \in CallersFlags, NEW inner,
         NEW body \in SUBSET Messages, MayCarry(beat, flags, inner)
  PROVE  LET t == Emit(s, flags, inner, body) IN
         /\ t \in Pass(d, beat, n)
         /\ t.d.messagesToSend_ = s.d.messagesToSend_
         /\ t.d.messagesSent_ = s.d.messagesSent_
         /\ t.sent = s.sent + 1
         /\ \A i \in DOMAIN t.out :
              t.out[i].number = t.sent => t.out[i].body = body
<1> DEFINE c == s.d.con_
           number == s.sent + 1
           p == PacketOf(c, flags, inner, body, number)
           dropped == c.UDP_ /\ number \in s.dropped
           c2 == SendWith(c, flags, dropped)
           d2 == [s.d EXCEPT !.con_ = c2]
           out2 == IF c.UDP_ /\ ~dropped THEN Append(s.out, p) ELSE s.out
           t == Emit(s, flags, inner, body)
<1>1. /\ s \in PassState /\ s.d \in ConnectionData /\ s.out \in Seq(PacketType)
      /\ s.sent \in Nat /\ s.dropped \in SUBSET Nat /\ c \in ConnectionType
      /\ s.d.given = d.given /\ s.d.ref = d.ref /\ n <= s.sent
      /\ s.beat \in BOOLEAN /\ (s.beat => beat)
      /\ ConnectionAfter(d.con_, n, s) /\ PacketsAfter(d, beat, n, s)
      /\ EntriesAfter(d, n, s)
      /\ d.con_.UDP_ =>
           \A m \in MustSend : WaitsIn(d, m) => WaitsIn(s.d, m)
  BY DEF Pass, PassState, ConnectionData
<1>2. c.UDP_ = d.con_.UDP_ /\ c.UDP_ \in BOOLEAN
  BY <1>1, ConnectionFields DEF ConnectionAfter
<1>3. ASSUME c.UDP_
      PROVE  /\ p \in PacketType /\ IsPacketOf(d, beat, n, number, p)
             /\ p.number = number /\ p.body = body
  <2>0. p = PacketOf(c, flags, inner, body, number)
    OBVIOUS
  <2>1. /\ s.d \in ConnectionData /\ s.sent \in Nat /\ c \in ConnectionType
        /\ ConnectionAfter(d.con_, n, s) /\ n <= s.sent
    BY DEF Pass, PassState, ConnectionData
  <2>2. /\ c.nextSequenceNum_ \in Wire
        /\ c.lastSeqRecieved_ = d.con_.lastSeqRecieved_
        /\ c.lastSeqRecieved_ \in Nat
        /\ c.packetsRecieved_ = d.con_.packetsRecieved_
        /\ c.sendFin_ = d.con_.sendFin_
        /\ c.sendSyn_ => d.con_.sendSyn_
        /\ c.sendHeartBeat_ => d.con_.sendHeartBeat_
    BY <1>2, <1>3, <2>1, ConnectionFields DEF ConnectionAfter
  <2>3. number \in Nat /\ number > n /\ number <= number
    BY <2>1
  <2> HIDE DEF c, number, p, dropped, c2, d2, out2, t
  <2>4. flags \in SUBSET Flags /\ "FIN" \notin flags /\ "RST" \notin flags
    BY DEF Flags, CallersFlags
  <2>5. /\ SentFlags(c, flags) \in SUBSET Flags
        /\ Header(c, flags, c.nextSequenceNum_) \in HeaderType
    BY <2>1, <2>2, <2>4, HeaderIsTyped
  <2>6. inner \in HeaderType \cup {Null}
    BY ResendHeaderIs DEF MayCarry, IsInner
  <2>7. p \in PacketType
    BY <2>0, <2>2, <2>3, <2>5, <2>6 DEF PacketType, PacketOf
  <2>8. /\ p.header.flags = SentFlags(c, flags)
        /\ p.header.ackRef = AsU08(c.lastSeqRecieved_)
        /\ p.header.acks = c.packetsRecieved_
        /\ p.inner = inner /\ p.body = body
        /\ p.number = number /\ p.ref = c.lastSeqRecieved_
    BY <2>0 DEF PacketOf, Header
  <2>9. /\ "FIN" \in p.header.flags <=> c.sendFin_
        /\ "RST" \in p.header.flags => c.sendSyn_ \/ c.sendHeartBeat_
        /\ "RSN" \in p.header.flags => "RSN" \in flags
    BY <2>4, <2>8 DEF SentFlags
  <2>10. "RSN" \in flags => flags = {"RSN"}
    BY DEF CallersFlags
  <2>11. IsPacketOf(d, beat, n, number, p)
    BY <2>2, <2>3, <2>8, <2>9, <2>10 DEF IsPacketOf, MayCarry
  <2> QED BY <2>7, <2>8, <2>11
<1>4. t = [s EXCEPT !.d = d2, !.out = out2, !.sent = number]
  BY <1>1 DEF Emit, PacketOf, PassState
<1>5. flags \in SUBSET Flags /\ "FIN" \notin flags /\ dropped \in BOOLEAN
  BY <1>2 DEF Flags, CallersFlags
<1>6. /\ c2 \in ConnectionType
      /\ c2.nextSequenceNum_ = AsU08(c.nextSequenceNum_ + 1)
      /\ c2.lastSeqRecieved_ = c.lastSeqRecieved_
      /\ c2.packetsRecieved_ = c.packetsRecieved_
      /\ c2.ackRefNum_ = c.ackRefNum_ /\ c2.destAcks_ = c.destAcks_
      /\ c2.UDP_ = c.UDP_
      /\ c2.startConnection_ = c.startConnection_
      /\ c2.sendSyn_ => c.sendSyn_
      /\ c2.sendHeartBeat_ => c.sendHeartBeat_
      /\ c.UDP_ => c2.sendFin_ = c.sendFin_
      /\ c2.terminateConnection_ =>
           c.terminateConnection_ \/ (c.sendFin_ /\ ~dropped)
  <2> HIDE DEF dropped
  <2> QED BY <1>1, <1>5, SendWithFields
<1> HIDE DEF c2, p
<1>7. /\ out2 \in Seq(PacketType)
      /\ \A i \in DOMAIN out2 : \/ i \in DOMAIN s.out /\ out2[i] = s.out[i]
                                \/ c.UDP_ /\ out2[i] = p
      /\ (c.UDP_ /\ ~dropped) \/ s.out # <<>> => out2 # <<>>
      /\ ~c.UDP_ => out2 = s.out
  <2>1. DOMAIN s.out = 1 .. Len(s.out) /\ Len(s.out) \in Nat
    BY <1>1, LenProperties
  <2>2. CASE ~c.UDP_ \/ dropped
    BY <1>1, <2>1, <2>2
  <2>3. CASE c.UDP_ /\ ~dropped
    <3> DEFINE a == Append(s.out, p)
    <3>1. /\ a \in Seq(PacketType) /\ a # <<>> /\ Len(a) = Len(s.out) + 1
          /\ \A i \in 1 .. Len(s.out) : a[i] = s.out[i]
          /\ a[Len(s.out) + 1] = p
      BY <1>1, <1>3, <2>3, AppendProperties
    <3>2. DOMAIN a = 1 .. Len(a)
      BY <3>1, LenProperties
    <3>3. out2 = a
      BY <2>3
    <3> HIDE DEF a, out2
    <3> QED BY <2>1, <2>3, <3>1, <3>2, <3>3
  <2> QED BY <2>2, <2>3
<1> HIDE DEF out2, dropped
<1>8. d2 \in ConnectionData
  BY <1>1, <1>6 DEF ConnectionData
<1>9. /\ d2.con_ = c2 /\ d2.given = s.d.given /\ d2.ref = s.d.ref
      /\ d2.messagesToSend_ = s.d.messagesToSend_
      /\ d2.messagesSent_ = s.d.messagesSent_
  BY <1>1 DEF ConnectionData
<1> HIDE DEF d2
<1>10. number \in Nat /\ number = s.sent + 1 /\ number > s.sent
  BY <1>1
<1> HIDE DEF number
<1>11. /\ t \in PassState
       /\ t.d = d2 /\ t.out = out2 /\ t.sent = number /\ t.beat = s.beat
  BY <1>1, <1>4, <1>7, <1>8, <1>10 DEF PassState
<1> HIDE DEF t
<1>12. ConnectionAfter(d.con_, n, t)
  <2>1. ASSUME IsCounted(c, s.sent) PROVE IsCounted(c2, number)
    <3> DEFINE k == s.sent + 1
    <3>1. k \in Nat /\ c.nextSequenceNum_ = AsU08(k) /\ number = k
      BY <1>10, <2>1 DEF IsCounted
    <3> HIDE DEF k
    <3> QED BY <1>6, <3>1, CastPlus DEF IsCounted
  <2> QED BY <1>1, <1>2, <1>6, <1>7, <1>9, <1>11, <2>1 DEF ConnectionAfter, c
<1>13. PacketsAfter(d, beat, n, t)
  <2>1. ASSUME NEW q, IsPacketOf(d, beat, n, s.sent, q)
        PROVE  IsPacketOf(d, beat, n, number, q)
    BY <1>1, <1>10, <2>1 DEF IsPacketOf
  <2> QED BY <1>1, <1>3, <1>7, <1>11, <2>1 DEF PacketsAfter
<1>14. ASSUME NEW i \in DOMAIN s.out PROVE s.out[i].number <= s.sent
  BY <1>1 DEF PacketsAfter, IsPacketOf
<1>15. EntriesAfter(d, n, t)
  <2>1. ASSUME NEW i \in DOMAIN s.d.messagesSent_
        PROVE  IsEntryOf(d, n, t, s.d.messagesSent_[i])
    <3> DEFINE x == s.d.messagesSent_[i]
    <3>1. IsEntryOf(d, n, s, x)
      BY <1>1 DEF EntriesAfter
    <3> HIDE DEF x
    <3>2. ASSUME x.number \in Nat, x.number <= s.sent, IsCarried(s, x)
          PROVE  IsCarried(t, x) /\ x.number <= number
      <4>1. x.number # number /\ x.number <= number
        BY <1>1, <1>10, <3>2
      <4>2. SUFFICES ASSUME NEW k \in DOMAIN out2, out2[k].number = x.number
                     PROVE  x.m_ \in out2[k].body
        BY <1>11, <4>1 DEF IsCarried
      <4>3. k \in DOMAIN s.out /\ out2[k] = s.out[k]
        BY <1>3, <1>7, <4>1, <4>2
      <4> QED BY <3>2, <4>2, <4>3 DEF IsCarried
    <3> QED BY <1>11, <3>1, <3>2 DEF IsEntryOf, x
  <2> QED BY <1>9, <1>11, <2>1 DEF EntriesAfter
<1>16. d.con_.UDP_ => \A m \in MustSend : WaitsIn(d, m) => WaitsIn(t.d, m)
  BY <1>1, <1>9, <1>11 DEF WaitsIn
<1>17. t \in Pass(d, beat, n)
  BY <1>1, <1>9, <1>10, <1>11, <1>12, <1>13, <1>15, <1>16 DEF Pass
<1>18. ASSUME NEW i \in DOMAIN out2, out2[i].number = number
       PROVE  out2[i].body = body
  <2>1. i \in DOMAIN s.out /\ out2[i] = s.out[i] => FALSE
    BY <1>1, <1>10, <1>13, <1>14, <1>18
  <2> QED BY <1>3, <1>7, <2>1
<1> QED BY <1>9, <1>10, <1>11, <1>17, <1>18 DEF t

(* A message sent again: its entry expects the ack of the new packet.       *)
LEMMA ResendIsPass ==
  ASSUME NEW d \in ConnectionData, NEW beat \in BOOLEAN, NEW n \in Nat,
         NEW s \in Pass(d, beat, n),
         NEW i \in 1 .. Len(s.d.messagesSent_)
  PROVE  /\ Resend(s, i) \in Pass(d, beat, n)
         /\ Len(Resend(s, i).d.messagesSent_) = Len(s.d.messagesSent_)
<1> DEFINE ms == s.d.messagesSent_
           x == ms[i]
           next == s.d.con_.nextSequenceNum_
           s1 == [s EXCEPT !.beat = FALSE]
           inner == ResendHeader(x.seqNum_, s.beat)
           u == Emit(s1, {"RSN"}, inner, {x.m_})
           y == [x EXCEPT !.ackNum_ = next, !.number = u.sent]
           ms2 == [ms EXCEPT ![i] = y]
           d2 == [u.d EXCEPT !.messagesSent_ = ms2]
           t == Resend(s, i)
<1>1. /\ s.d \in ConnectionData /\ s.sent \in Nat /\ ms \in Seq(SentEntry)
      /\ s.d.con_ \in ConnectionType /\ s.beat \in BOOLEAN /\ (s.beat => beat)
      /\ ConnectionAfter(d.con_, n, s) /\ EntriesAfter(d, n, s)
      /\ n <= s.sent
  BY DEF Pass, PassState, ConnectionData
<1>2. /\ Len(ms) \in Nat /\ DOMAIN ms = 1 .. Len(ms) /\ x \in SentEntry
  BY <1>1, LenProperties, ElementOfSeq
<1>3. /\ x.seqNum_ \in Wire /\ x.m_ \in Messages /\ next \in Wire
  <2>1. next \in Wire
    <3> DEFINE c == s.d.con_
    <3>1. c \in ConnectionType
      BY <1>1
    <3> HIDE DEF c
    <3>2. c.nextSequenceNum_ \in Wire
      BY <3>1, ConnectionFields
    <3> QED BY <3>2 DEF c
  <2> HIDE DEF x
  <2>2. x.seqNum_ \in Wire /\ x.m_ \in Messages
    BY <1>2 DEF SentEntry
  <2> QED BY <2>1, <2>2
<1>4. IsCounted(d.con_, n) => next = AsU08(s.sent + 1)
  BY <1>1 DEF ConnectionAfter, IsCounted
<1>5. /\ s1 \in Pass(d, beat, n) /\ s1.d = s.d /\ s1.sent = s.sent
  <2>1. /\ s1 \in PassState /\ s1.d = s.d /\ s1.sent = s.sent
        /\ s1.out = s.out /\ s1.beat = FALSE
    BY DEF Pass, PassState
  <2> HIDE DEF s1
  <2>2. /\ ConnectionAfter(d.con_, n, s1) /\ PacketsAfter(d, beat, n, s1)
        /\ EntriesAfter(d, n, s1)
    BY <2>1 DEF Pass, ConnectionAfter, PacketsAfter, EntriesAfter, IsEntryOf,
                IsCarried
  <2> QED BY <2>1, <2>2 DEF Pass
<1> HIDE DEF x, ms, next, s1
<1>6. /\ u \in Pass(d, beat, n)
      /\ u.d.messagesToSend_ = s.d.messagesToSend_
      /\ u.d.messagesSent_ = ms
      /\ u.sent = s.sent + 1
      /\ \A k \in DOMAIN u.out :
           u.out[k].number = u.sent => u.out[k].body = {x.m_}
  <2> DEFINE flags == {"RSN"}
             body == {x.m_}
  <2>1. flags \in CallersFlags /\ body \in SUBSET Messages
    BY <1>3 DEF CallersFlags
  <2>2. MayCarry(beat, flags, inner)
    <3> DEFINE k == x.seqNum_
               b == s.beat
    <3>1. k \in Wire /\ b \in BOOLEAN /\ (b => beat)
      BY <1>1, <1>3
    <3>2. inner = ResendHeader(k, b)
      OBVIOUS
    <3> HIDE DEF k, b, inner
    <3> QED BY <3>1, <3>2 DEF MayCarry, IsInner
  <2>3. u = Emit(s1, flags, inner, body)
    OBVIOUS
  <2> HIDE DEF flags, inner, body, u
  <2>4. /\ u \in Pass(d, beat, n)
        /\ u.d.messagesToSend_ = s1.d.messagesToSend_
        /\ u.d.messagesSent_ = s1.d.messagesSent_
        /\ u.sent = s1.sent + 1
        /\ \A k \in DOMAIN u.out :
             u.out[k].number = u.sent => u.out[k].body = body
    BY <1>5, <2>1, <2>2, <2>3, EmitIsPass
  <2> QED BY <1>5, <2>4 DEF ms, body
<1>7. /\ y \in SentEntry /\ y.m_ = x.m_ /\ y.ackNum_ = next
      /\ y.number = s.sent + 1 /\ y.number \in Nat
  <2>1. u.sent \in Nat /\ u.sent = s.sent + 1
    BY <1>1, <1>6
  <2> HIDE DEF u, inner
  <2> QED BY <1>2, <1>3, <2>1 DEF SentEntry
<1>8. /\ ms2 \in Seq(SentEntry) /\ Len(ms2) = Len(ms) /\ DOMAIN ms2 = DOMAIN ms
      /\ \A k \in DOMAIN ms : ms2[k] = IF k = i THEN y ELSE ms[k]
  <2> HIDE DEF y
  <2>1. i \in 1 .. Len(ms)
    BY DEF ms
  <2>2. /\ ms2 \in Seq(SentEntry) /\ Len(ms2) = Len(ms)
        /\ \A k \in 1 .. Len(ms) : ms2[k] = IF k = i THEN y ELSE ms[k]
    BY <1>1, <1>7, <2>1, ExceptSeq
  <2> QED BY <1>2, <2>2
<1>9. t = [u EXCEPT !.d = d2]
  <2>1. /\ u = [d |-> u.d, beat |-> u.beat, out |-> u.out, sent |-> u.sent,
                dropped |-> u.dropped]
        /\ u.d = [con_ |-> u.d.con_, messagesToSend_ |-> u.d.messagesToSend_,
                  messagesSent_ |-> u.d.messagesSent_, given |-> u.d.given,
                  ref |-> u.d.ref]
    BY <1>6 DEF Pass, PassState, ConnectionData
  <2>2. t = [u EXCEPT !.d.messagesSent_[i] = y]
    BY DEF Resend, u, x, ms, next, s1, inner, y
  <2> HIDE DEF u, y
  <2>3. u.d.messagesSent_ = ms
    BY <1>6
  <2> QED BY <2>1, <2>2, <2>3
<1> HIDE DEF y, ms2, u
<1>10. /\ u \in PassState /\ u.d \in ConnectionData /\ u.d.given = d.given
       /\ u.d.ref = d.ref /\ n <= u.sent /\ (u.beat => beat)
       /\ ConnectionAfter(d.con_, n, u) /\ PacketsAfter(d, beat, n, u)
       /\ EntriesAfter(d, n, u)
       /\ d.con_.UDP_ =>
            \A m \in MustSend : WaitsIn(d, m) => WaitsIn(u.d, m)
  BY <1>6 DEF Pass, PassState
<1>11. /\ d2 \in ConnectionData /\ d2.con_ = u.d.con_ /\ d2.given = u.d.given
       /\ d2.ref = u.d.ref
       /\ d2.messagesToSend_ = u.d.messagesToSend_ /\ d2.messagesSent_ = ms2
  BY <1>8, <1>10 DEF ConnectionData
<1> HIDE DEF d2
<1>12. /\ t \in PassState /\ t.d = d2 /\ t.out = u.out /\ t.sent = u.sent
       /\ t.beat = u.beat
  BY <1>9, <1>10, <1>11 DEF PassState
<1> HIDE DEF t
<1>13. ConnectionAfter(d.con_, n, t) /\ PacketsAfter(d, beat, n, t)
  BY <1>10, <1>11, <1>12 DEF ConnectionAfter, PacketsAfter
<1>14. IsEntryOf(d, n, t, y)
  <2>1. IsCarried(t, y)
    BY <1>6, <1>7, <1>12 DEF IsCarried
  <2>2. y.number > n /\ y.number <= t.sent
    BY <1>1, <1>6, <1>7, <1>12
  <2> QED BY <1>4, <1>7, <2>1, <2>2 DEF IsEntryOf
<1>15. EntriesAfter(d, n, t)
  <2>1. ASSUME NEW k \in DOMAIN ms, k # i PROVE IsEntryOf(d, n, t, ms[k])
    <3>1. IsEntryOf(d, n, u, ms[k])
      BY <1>6, <1>10, <2>1 DEF EntriesAfter
    <3> QED BY <1>12, <3>1 DEF IsEntryOf, IsCarried
  <2> QED BY <1>8, <1>11, <1>12, <1>14, <2>1 DEF EntriesAfter
<1>16. d.con_.UDP_ => \A m \in MustSend : WaitsIn(d, m) => WaitsIn(t.d, m)
  <2> SUFFICES ASSUME d.con_.UDP_, NEW m \in MustSend, WaitsIn(d, m)
               PROVE  WaitsIn(t.d, m)
    OBVIOUS
  <2>1. WaitsIn(u.d, m)
    BY <1>10
  <2>2. \A k \in DOMAIN ms : ms2[k].m_ = ms[k].m_
    BY <1>7, <1>8 DEF x
  <2> QED BY <1>6, <1>8, <1>11, <1>12, <2>1, <2>2 DEF WaitsIn
<1>17. t \in Pass(d, beat, n)
  BY <1>10, <1>11, <1>12, <1>13, <1>15, <1>16 DEF Pass
<1> QED BY <1>8, <1>11, <1>12, <1>17 DEF t, ms

(* All the messages that are due.                                           *)
LEMMA UpdateResendIsPass ==
  ASSUME NEW d \in ConnectionData, NEW beat \in BOOLEAN, NEW n0 \in Nat,
         NEW s \in Pass(d, beat, n0), NEW due
  PROVE  UpdateResend(s, due) \in Pass(d, beat, n0)
<1> DEFINE n == Len(s.d.messagesSent_)
           T == {t \in Pass(d, beat, n0) : Len(t.d.messagesSent_) = n}
           Round(t, i) == IF i \in due THEN Resend(t, i) ELSE t
           F == [i \in 1 .. n |-> [t \in T |-> Round(t, i)]]
           Runs(g) ==
             g = [i \in 0 .. n |->
                    IF i = 0 THEN s
                    ELSE IF i \in due THEN Resend(g[i - 1], i) ELSE g[i - 1]]
           after == CHOOSE g : Runs(g)
<1>1. n \in Nat
  <2>1. s.d.messagesSent_ \in Seq(SentEntry)
    BY DEF Pass, PassState, ConnectionData
  <2> QED BY <2>1, LenProperties
<1>2. UpdateResend(s, due) = after[n]
  BY DEF UpdateResend
<1> HIDE DEF n
<1>3. s \in T
  BY DEF n
<1>4. ASSUME NEW t \in T, NEW i \in 1 .. n PROVE Round(t, i) \in T
  <2>1. t \in Pass(d, beat, n0) /\ i \in 1 .. Len(t.d.messagesSent_)
    OBVIOUS
  <2>2. Resend(t, i) \in Pass(d, beat, n0) /\ Len(Resend(t, i).d.messagesSent_) = n
    BY <2>1, ResendIsPass
  <2> QED BY <2>2
<1> HIDE DEF T
<1>5. F \in Rounds(n, T)
  BY <1>4 DEF Rounds
<1>6. \E g : Runs(g)
  <2>1. PICK g \in [0 .. n -> T] :
          g[0] = s /\ \A k \in 1 .. n : g[k] = F[k][g[k - 1]]
    <3> HIDE DEF F
    <3> HIDE DEF Runs, Round, after
    <3> QED BY <1>1, <1>3, <1>5, LoopRuns
  <2>2. ASSUME NEW k \in 1 .. n PROVE g[k] = Round(g[k - 1], k)
    <3>1. k - 1 \in 0 .. n
      BY <1>1, <2>2
    <3>2. g[k - 1] \in T
      BY <2>1, <3>1
    <3> QED BY <2>1, <3>2
  <2>3. ASSUME NEW k \in 0 .. n
        PROVE  g[k] = IF k = 0 THEN s
                      ELSE IF k \in due THEN Resend(g[k - 1], k) ELSE g[k - 1]
    BY <1>1, <2>1, <2>2
  <2> HIDE DEF F
  <2>4. Runs(g)
    BY <2>1, <2>3
  <2> QED BY <2>4
<1>7. Runs(after)
  <2> HIDE DEF Runs
  <2> QED BY <1>6
<1> HIDE DEF after
<1>8. after[0] \in T
  BY <1>1, <1>3, <1>7
<1>9. ASSUME NEW k \in 1 .. n, after[k - 1] \in T PROVE after[k] \in T
  <2>1. after[k] = Round(after[k - 1], k)
    BY <1>1, <1>7
  <2> HIDE DEF Round
  <2> QED BY <1>4, <1>9, <2>1
<1> DEFINE K == {k \in 0 .. n : after[k] \in T}
<1>10. 0 \in K /\ \A k \in 1 .. n : k - 1 \in K => k \in K
  BY <1>1, <1>8, <1>9
<1>11. n \in K
  <2> HIDE DEF K
  <2> QED BY <1>1, <1>10, Counting
<1> QED BY <1>2, <1>11 DEF T

(* One queued message sent, and kept for its ack if it must arrive.         *)
LEMMA UpdateSendIsPass ==
  ASSUME NEW d \in ConnectionData, NEW beat \in BOOLEAN, NEW n \in Nat,
         NEW s \in Pass(d, beat, n), NEW ready
  PROVE  UpdateSend(s, ready) \in Pass(d, beat, n)
<1> DEFINE queue == s.d.messagesToSend_
           ms == s.d.messagesSent_
           m == Head(queue)
           next == s.d.con_.nextSequenceNum_
           u == Emit(s, {}, Null, {m})
           entry == [m_ |-> m, seqNum_ |-> next, ackNum_ |-> next,
                     number |-> u.sent]
           kept == s.d.con_.UDP_ /\ m \in MustSend
           ms2 == IF kept THEN Append(ms, entry) ELSE ms
           d2 == [u.d EXCEPT !.messagesToSend_ = Tail(queue),
                             !.messagesSent_ = ms2]
           t == UpdateSend(s, ready)
<1>1. SUFFICES ASSUME queue # <<>>, ready PROVE t \in Pass(d, beat, n)
  BY DEF UpdateSend
<1>2. /\ s.d \in ConnectionData /\ s.sent \in Nat /\ n <= s.sent
      /\ queue \in Seq(Messages) /\ ms \in Seq(SentEntry)
      /\ s.d.con_ \in ConnectionType
      /\ ConnectionAfter(d.con_, n, s) /\ EntriesAfter(d, n, s)
  BY DEF Pass, PassState, ConnectionData
<1>3. /\ next \in Wire
      /\ IsCounted(d.con_, n) => next = AsU08(s.sent + 1)
      /\ s.d.con_.UDP_ = d.con_.UDP_
  BY <1>2, ConnectionFields DEF ConnectionAfter, IsCounted
<1>4. m \in Messages /\ Tail(queue) \in Seq(Messages)
      /\ \A i \in DOMAIN queue : queue[i] = m \/ queue[i] \in ToSet(Tail(queue))
  <2> HIDE DEF queue
  <2>1. /\ Head(queue) \in Messages /\ Tail(queue) \in Seq(Messages)
        /\ Len(Tail(queue)) = Len(queue) - 1
        /\ \A i \in 1 .. Len(Tail(queue)) : Tail(queue)[i] = queue[i + 1]
    BY <1>1, <1>2, HeadTailProperties
  <2>2. /\ DOMAIN queue = 1 .. Len(queue) /\ Len(queue) \in Nat
        /\ DOMAIN Tail(queue) = 1 .. Len(Tail(queue))
    BY <1>2, <2>1, LenProperties
  <2>3. ASSUME NEW i \in DOMAIN queue, i # 1
        PROVE  queue[i] \in ToSet(Tail(queue))
    <3>1. i - 1 \in 1 .. Len(Tail(queue)) /\ (i - 1) + 1 = i
      BY <2>1, <2>2, <2>3
    <3>2. Tail(queue)[i - 1] = queue[i]
      BY <2>1, <3>1
    <3> QED BY <2>2, <3>1, <3>2 DEF ToSet
  <2>4. Head(queue) = queue[1]
    BY <1>1, <1>2
  <2> QED BY <2>1, <2>3, <2>4
<1> HIDE DEF queue, ms, m, next
<1>5. /\ u \in Pass(d, beat, n)
      /\ u.d.messagesToSend_ = queue
      /\ u.d.messagesSent_ = ms
      /\ u.sent = s.sent + 1
      /\ \A k \in DOMAIN u.out :
           u.out[k].number = u.sent => u.out[k].body = {m}
  <2> DEFINE flags == {}
             body == {m}
  <2>1. flags \in CallersFlags /\ body \in SUBSET Messages
    BY <1>4 DEF CallersFlags
  <2>2. MayCarry(beat, flags, Null)
    BY DEF MayCarry
  <2>3. u = Emit(s, flags, Null, body)
    OBVIOUS
  <2> HIDE DEF flags, body, u
  <2>4. /\ u \in Pass(d, beat, n)
        /\ u.d.messagesToSend_ = s.d.messagesToSend_
        /\ u.d.messagesSent_ = s.d.messagesSent_
        /\ u.sent = s.sent + 1
        /\ \A k \in DOMAIN u.out :
             u.out[k].number = u.sent => u.out[k].body = body
    BY <2>1, <2>2, <2>3, EmitIsPass
  <2> QED BY <2>4 DEF queue, ms, body
<1>6. u.sent \in Nat /\ u.sent > n
  BY <1>2, <1>5
<1>7. entry \in SentEntry
  <2> HIDE DEF u
  <2> QED BY <1>3, <1>4, <1>6 DEF SentEntry
<1>8. entry.m_ = m /\ entry.ackNum_ = next /\ entry.number = u.sent
  OBVIOUS
<1> HIDE DEF entry
<1>9. /\ ms2 \in Seq(SentEntry)
      /\ \A i \in DOMAIN ms : i \in DOMAIN ms2 /\ ms2[i] = ms[i]
      /\ \A i \in DOMAIN ms2 :
           ms2[i] = entry \/ (i \in DOMAIN ms /\ ms2[i] = ms[i])
      /\ kept => \E i \in DOMAIN ms2 : ms2[i] = entry
  <2>1. CASE ~kept
    <3>1. ms2 = ms
      BY <2>1
    <3> HIDE DEF ms2, kept
    <3> QED BY <1>2, <2>1, <3>1 DEF ms
  <2>2. CASE kept
    <3> DEFINE a == Append(ms, entry)
    <3>1. ms \in Seq(SentEntry)
      BY <1>2 DEF ms
    <3>2. /\ a \in Seq(SentEntry) /\ Len(a) = Len(ms) + 1
          /\ \A i \in 1 .. Len(ms) : a[i] = ms[i]
          /\ a[Len(ms) + 1] = entry
      BY <1>7, <3>1, AppendProperties
    <3>3. /\ DOMAIN a = 1 .. Len(a) /\ DOMAIN ms = 1 .. Len(ms)
          /\ Len(ms) \in Nat
      BY <3>1, <3>2, LenProperties
    <3>4. ms2 = a
      BY <2>2
    <3> HIDE DEF a, ms2
    <3>5. Len(ms) + 1 \in DOMAIN a
      BY <3>2, <3>3
    <3> QED BY <3>2, <3>3, <3>4, <3>5
  <2> QED BY <2>1, <2>2
<1>10. t = [u EXCEPT !.d = d2]
  <2>1. /\ u = [d |-> u.d, beat |-> u.beat, out |-> u.out, sent |-> u.sent,
                dropped |-> u.dropped]
        /\ u.d = [con_ |-> u.d.con_, messagesToSend_ |-> u.d.messagesToSend_,
                  messagesSent_ |-> u.d.messagesSent_, given |-> u.d.given,
                  ref |-> u.d.ref]
    BY <1>5 DEF Pass, PassState, ConnectionData
  <2>2. t = [u EXCEPT !.d.messagesToSend_ = Tail(@),
                      !.d.messagesSent_ = IF kept THEN Append(@, entry) ELSE @]
    BY <1>1 DEF UpdateSend, u, queue, m, next, entry
  <2> HIDE DEF u, kept
  <2> QED BY <1>5, <2>1, <2>2
<1> HIDE DEF ms2, u
<1>11. /\ u \in PassState /\ u.d \in ConnectionData /\ u.d.given = d.given
       /\ u.d.ref = d.ref /\ n <= u.sent /\ (u.beat => beat)
       /\ ConnectionAfter(d.con_, n, u) /\ PacketsAfter(d, beat, n, u)
       /\ EntriesAfter(d, n, u)
       /\ d.con_.UDP_ =>
            \A k \in MustSend : WaitsIn(d, k) => WaitsIn(u.d, k)
  BY <1>5 DEF Pass, PassState
<1>12. /\ d2 \in ConnectionData /\ d2.con_ = u.d.con_ /\ d2.given = u.d.given
       /\ d2.ref = u.d.ref
       /\ d2.messagesToSend_ = Tail(queue) /\ d2.messagesSent_ = ms2
  BY <1>4, <1>9, <1>11 DEF ConnectionData
<1> HIDE DEF d2
<1>13. /\ t \in PassState /\ t.d = d2 /\ t.out = u.out /\ t.sent = u.sent
       /\ t.beat = u.beat
  BY <1>10, <1>11, <1>12 DEF PassState
<1> HIDE DEF t
<1>14. ConnectionAfter(d.con_, n, t) /\ PacketsAfter(d, beat, n, t)
  BY <1>11, <1>12, <1>13 DEF ConnectionAfter, PacketsAfter
<1>15. IsEntryOf(d, n, t, entry)
  <2>1. IsCarried(t, entry)
    BY <1>5, <1>8, <1>13 DEF IsCarried
  <2>2. entry.number \in Nat /\ entry.number > n /\ entry.number <= t.sent
    BY <1>6, <1>8, <1>13
  <2> QED BY <1>3, <1>5, <1>8, <2>1, <2>2 DEF IsEntryOf
<1>16. EntriesAfter(d, n, t)
  <2>1. ASSUME NEW k \in DOMAIN ms PROVE IsEntryOf(d, n, t, ms[k])
    <3>1. IsEntryOf(d, n, u, ms[k])
      BY <1>5, <1>11, <2>1 DEF EntriesAfter
    <3> QED BY <1>13, <3>1 DEF IsEntryOf, IsCarried
  <2> QED BY <1>9, <1>12, <1>13, <1>15, <2>1 DEF EntriesAfter
<1>17. d.con_.UDP_ => \A k \in MustSend : WaitsIn(d, k) => WaitsIn(t.d, k)
  <2> SUFFICES ASSUME d.con_.UDP_, NEW k \in MustSend, WaitsIn(d, k)
               PROVE  WaitsIn(t.d, k)
    OBVIOUS
  <2>1. \/ \E i \in DOMAIN queue : queue[i] = k
        \/ \E i \in DOMAIN ms : ms[i].m_ = k
    BY <1>5, <1>11 DEF WaitsIn, ToSet
  <2>2. CASE \E i \in DOMAIN ms : ms[i].m_ = k
    BY <1>9, <1>12, <1>13, <2>2 DEF WaitsIn
  <2>3. CASE \E i \in DOMAIN queue : queue[i] = k
    BY <1>3, <1>4, <1>8, <1>9, <1>12, <1>13, <2>3 DEF WaitsIn
  <2> QED BY <2>1, <2>2, <2>3
<1> QED BY <1>11, <1>12, <1>13, <1>14, <1>16, <1>17 DEF Pass

(* A heartbeat, or the echo of one.                                         *)
LEMMA UpdateHeartbeatIsPass ==
  ASSUME NEW d \in ConnectionData, NEW beat0 \in BOOLEAN, NEW n \in Nat,
         NEW s \in Pass(d, beat0, n), NEW beat
  PROVE  UpdateHeartbeat(s, beat) \in Pass(d, beat0, n)
<1>1. ASSUME NEW flags \in {{}, {"HRT"}}
      PROVE  Emit(s, flags, Null, {}) \in Pass(d, beat0, n)
  <2>1. flags \in CallersFlags /\ flags # {"RSN"}
    BY DEF CallersFlags
  <2> DEFINE body == {}
  <2>2. body \in SUBSET Messages
    OBVIOUS
  <2>3. MayCarry(beat0, flags, Null)
    BY <2>1 DEF MayCarry
  <2> HIDE DEF body
  <2>4. Emit(s, flags, Null, body) \in Pass(d, beat0, n)
    BY <2>1, <2>2, <2>3, EmitIsPass
  <2> QED BY <2>4 DEF body
<1> DEFINE flags == IF s.d.con_.UDP_ THEN {} ELSE {"HRT"}
<1>2. {"HRT"} \in {{}, {"HRT"}} /\ flags \in {{}, {"HRT"}}
  OBVIOUS
<1>3. /\ Emit(s, {"HRT"}, Null, {}) \in Pass(d, beat0, n)
      /\ Emit(s, flags, Null, {}) \in Pass(d, beat0, n)
  BY <1>1, <1>2
<1> QED BY <1>3 DEF UpdateHeartbeat

(* The pass as a whole.                                                     *)
LEMMA UpdateIsPass ==
  ASSUME NEW e, NEW d \in ConnectionData, NEW dropped \in SUBSET Nat,
         udpBeat[e] \in BOOLEAN, sent[e] \in Nat,
         NEW due, NEW ready, NEW beat
  PROVE  UpdateHeartbeat(
           UpdateSend(UpdateResend(Start(e, d, dropped), due), ready), beat)
         \in Pass(d, udpBeat[e], sent[e])
BY StartIsPass, UpdateResendIsPass, UpdateSendIsPass, UpdateHeartbeatIsPass

(* RemoveAckedMessages keeps messages that waited, and all those without an *)
(* ack.                                                                     *)
LEMMA RemoveAckedKeeps ==
  ASSUME NEW d \in ConnectionData
  PROVE  LET r == RemoveAckedMessages(d) IN
         /\ r \in ConnectionData
         /\ r.con_ = d.con_ /\ r.given = d.given /\ r.ref = d.ref
         /\ r.messagesToSend_ = d.messagesToSend_
         /\ \A i \in DOMAIN r.messagesSent_ :
              \E k \in DOMAIN d.messagesSent_ :
                r.messagesSent_[i] = d.messagesSent_[k]
         /\ \A k \in DOMAIN d.messagesSent_ :
              \/ IsTakenAsAcked(d, k)
              \/ \E i \in DOMAIN r.messagesSent_ :
                   r.messagesSent_[i] = d.messagesSent_[k]
<1> DEFINE ms == d.messagesSent_
           n == Len(ms)
           T == Seq(SentEntry)
           Round(t, i) == IF IsTakenAsAcked(d, i) THEN t ELSE Append(t, ms[i])
           F == [i \in 1 .. n |-> [t \in T |-> Round(t, i)]]
           Runs(g) ==
             g = [i \in 0 .. n |->
                    IF i = 0 THEN <<>>
                    ELSE IF IsTakenAsAcked(d, i) THEN g[i - 1]
                    ELSE Append(g[i - 1], ms[i])]
           kept == CHOOSE g : Runs(g)
           r == RemoveAckedMessages(d)
<1>1. /\ ms \in Seq(SentEntry) /\ n \in Nat /\ DOMAIN ms = 1 .. n
      /\ \A i \in 1 .. n : ms[i] \in SentEntry
  <2>1. ms \in Seq(SentEntry)
    BY DEF ConnectionData
  <2> QED BY <2>1, LenProperties, ElementOfSeq
<1>2. r = [d EXCEPT !.messagesSent_ = kept[n]]
  BY DEF RemoveAckedMessages, IsTakenAsAcked
<1> HIDE DEF n, ms, r
<1>3. <<>> \in T
  BY EmptySeq
<1>4. ASSUME NEW t \in T, NEW i \in 1 .. n PROVE Round(t, i) \in T
  BY <1>1, AppendProperties
<1> HIDE DEF T
<1>5. F \in Rounds(n, T)
  BY <1>4 DEF Rounds
<1>6. \E g : Runs(g)
  <2>1. PICK g \in [0 .. n -> T] :
          g[0] = <<>> /\ \A k \in 1 .. n : g[k] = F[k][g[k - 1]]
    <3> HIDE DEF F
    <3> QED BY <1>1, <1>3, <1>5, LoopRuns
  <2>2. ASSUME NEW k \in 1 .. n PROVE g[k] = Round(g[k - 1], k)
    <3>1. k - 1 \in 0 .. n
      BY <1>1, <2>2
    <3>2. g[k - 1] \in T
      BY <2>1, <3>1
    <3> QED BY <2>1, <3>2
  <2>3. ASSUME NEW k \in 0 .. n
        PROVE  g[k] = IF k = 0 THEN <<>>
                      ELSE IF IsTakenAsAcked(d, k) THEN g[k - 1]
                      ELSE Append(g[k - 1], ms[k])
    <3>1. CASE k = 0
      BY <2>1, <3>1
    <3>2. CASE k # 0
      <4>1. k \in 1 .. n
        BY <1>1, <3>2
      <4>2. g[k] = Round(g[k - 1], k)
        BY <2>2, <4>1
      <4> QED BY <3>2, <4>2
    <3> QED BY <3>1, <3>2
  <2> HIDE DEF F
  <2>4. Runs(g)
    BY <2>1, <2>3
  <2> QED BY <2>4
<1>7. Runs(kept)
  <2> HIDE DEF Runs
  <2> QED BY <1>6
<1> HIDE DEF kept
<1>8. kept[0] = <<>>
  <2>1. 0 \in 0 .. n
    BY <1>1
  <2> QED BY <1>7, <2>1
<1>9. ASSUME NEW k \in 1 .. n PROVE kept[k] = Round(kept[k - 1], k)
  <2>1. k \in 0 .. n /\ k # 0
    BY <1>1
  <2>2. kept[k] = IF k = 0 THEN <<>>
                  ELSE IF IsTakenAsAcked(d, k) THEN kept[k - 1]
                  ELSE Append(kept[k - 1], ms[k])
    BY <1>7, <2>1
  <2> QED BY <2>1, <2>2
<1> HIDE DEF Runs, F
<1> DEFINE Good(k) ==
      /\ kept[k] \in T
      /\ \A i \in DOMAIN kept[k] : \E j \in 1 .. n : kept[k][i] = ms[j]
      /\ \A j \in 1 .. k :
           \/ IsTakenAsAcked(d, j)
           \/ \E i \in DOMAIN kept[k] : kept[k][i] = ms[j]
           K == {k \in 0 .. n : Good(k)}
<1>10. 0 \in K
  <2>1. Good(0)
    BY <1>3, <1>8
  <2> QED BY <1>1, <2>1
<1>11. ASSUME NEW k \in 1 .. n, k - 1 \in K PROVE k \in K
  <2> DEFINE a == kept[k - 1]
             b == kept[k]
  <2>1. Good(k - 1) /\ b = Round(a, k)
    BY <1>9, <1>11
  <2> HIDE DEF Good
  <2>2. CASE IsTakenAsAcked(d, k)
    <3>1. b = a
      BY <2>1, <2>2
    <3>2. \A j \in 1 .. k : j \in 1 .. k - 1 \/ j = k
      BY <1>11
    <3>3. Good(k)
      BY <2>1, <2>2, <3>1, <3>2 DEF Good
    <3> QED BY <1>11, <3>3
  <2>3. CASE ~IsTakenAsAcked(d, k)
    <3>1. b = Append(a, ms[k]) /\ a \in T
      BY <2>1, <2>3 DEF Good
    <3> HIDE DEF a, b
    <3>2. /\ b \in T /\ Len(b) = Len(a) + 1
          /\ \A i \in 1 .. Len(a) : b[i] = a[i]
          /\ b[Len(a) + 1] = ms[k]
      BY <1>1, <3>1, AppendProperties DEF T
    <3>3. /\ DOMAIN b = 1 .. Len(b) /\ DOMAIN a = 1 .. Len(a) /\ Len(a) \in Nat
      BY <3>1, <3>2, LenProperties DEF T
    <3>4. Len(a) + 1 \in DOMAIN b
      BY <3>2, <3>3
    <3>5. \A i \in DOMAIN b : i \in DOMAIN a \/ i = Len(a) + 1
      BY <3>2, <3>3
    <3>6. /\ \A i \in DOMAIN a : \E j \in 1 .. n : a[i] = ms[j]
          /\ \A j \in 1 .. k - 1 :
               IsTakenAsAcked(d, j) \/ \E i \in DOMAIN a : a[i] = ms[j]
      BY <2>1 DEF Good, a
    <3>7. \A i \in DOMAIN b : \E j \in 1 .. n : b[i] = ms[j]
      BY <3>2, <3>3, <3>5, <3>6
    <3>8. ASSUME NEW j \in 1 .. k
          PROVE  IsTakenAsAcked(d, j) \/ \E i \in DOMAIN b : b[i] = ms[j]
      <4>1. CASE j = k
        BY <3>2, <3>4, <4>1
      <4>2. CASE j \in 1 .. k - 1
        <5>1. \A i \in DOMAIN a : i \in DOMAIN b /\ b[i] = a[i]
          BY <3>2, <3>3
        <5> QED BY <3>6, <4>2, <5>1
      <4> QED BY <1>11, <4>1, <4>2
    <3>9. Good(k)
      BY <3>2, <3>7, <3>8 DEF Good, b
    <3> QED BY <1>11, <3>9
  <2> QED BY <2>2, <2>3
<1>12. Good(n)
  <2>1. n \in K
    <3> HIDE DEF K
    <3> QED BY <1>1, <1>10, <1>11, Counting
  <2> HIDE DEF Good
  <2> QED BY <2>1
<1>13. /\ r \in ConnectionData /\ r.messagesSent_ = kept[n]
       /\ r.con_ = d.con_ /\ r.given = d.given /\ r.ref = d.ref
       /\ r.messagesToSend_ = d.messagesToSend_
  BY <1>2, <1>12 DEF ConnectionData, T
<1> QED BY <1>1, <1>12, <1>13 DEF r, ms

-----------------------------------------------------------------------------
(* Receiving. *)

(* The rebuilt number fits its type.                                        *)
LEMMA RebuiltIsTyped ==
  ASSUME NEW c \in ConnectionType, NEW header \in HeaderType
  PROVE  Rebuilt(c, header) \in 0 .. U32_MAX - 1
<1> DEFINE seq == header.seq
           last == c.lastSeqRecieved_
           wraps == WrapCount(seq, last)
<1> USE SequenceAssumption
<1>1. seq \in Nat /\ last \in Nat
  BY ConnectionFields DEF HeaderType, Wire
<1> HIDE DEF seq, last
<1>2. last \div U08_MAX \in Int
  BY <1>1, DivMod
<1>3. wraps \in Int
  BY <1>2 DEF WrapCount
<1> HIDE DEF wraps
<1> DEFINE n == seq + U08_MAX * wraps
<1>4. n \in Int
  BY <1>1, <1>3
<1>5. Rebuilt(c, header) = n % U32_MAX
  BY DEF Rebuilt, ConvertSequenceNumber, wraps, seq, last
<1> HIDE DEF n
<1> QED BY <1>4, <1>5, DivMod

(* The window keeps its type.                                               *)
LEMMA WindowIsTyped ==
  ASSUME NEW last \in 0 .. U32_MAX - 1, NEW wrapped \in 0 .. U32_MAX - 1,
         NEW acks \in AckFields
  PROVE  /\ LastAfter(last, wrapped) \in 0 .. U32_MAX - 1
         /\ AcksAfter(acks, last, wrapped) \in AckFields
<1> USE SequenceAssumption
<1>1. LastAfter(last, wrapped) \in 0 .. U32_MAX - 1
  BY DEF LastAfter
<1>2. Distance(last, wrapped) \in Nat
  BY DEF Distance, LastAfter
<1>3. 0 \in 0 .. AckBits - 1
  OBVIOUS
<1>4. ShiftAcks(acks, wrapped - last) \subseteq 0 .. AckBits - 1
  BY DEF ShiftAcks
<1>5. IsAccepted(acks, last, wrapped) =>
        Distance(last, wrapped) \in 0 .. AckBits - 1
  BY <1>2 DEF IsAccepted
<1>6. acks \subseteq 0 .. AckBits - 1
  BY DEF AckFields
<1> QED BY <1>1, <1>3, <1>4, <1>5, <1>6 DEF AcksAfter, AckFields

(* A packet as some pass wrote it.                                          *)
IsMade(p) ==
  "RSN" \in p.header.flags => IsInner(TRUE, p.inner)

(* Some header of the packet says that it answers.                          *)
SaysReset(p) ==
  \/ "RST" \in p.header.flags
  \/ "RSN" \in p.header.flags /\ "RST" \in p.inner.flags

(* A resent packet that passes is read with its second header last.         *)
ReadsInner(c, p) == PassesWindow(c, p.header) /\ "RSN" \in p.header.flags

(* What HandleReceiveFlags does to each field.                              *)
LEMMA HandleFlagsFields ==
  ASSUME NEW c \in ConnectionType, NEW flags
  PROVE  LET t == HandleReceiveFlags(c, flags) IN
         /\ t \in ConnectionType
         /\ t.nextSequenceNum_ = c.nextSequenceNum_
         /\ t.sendFin_ = c.sendFin_ /\ t.UDP_ = c.UDP_
         /\ t.lastSeqRecieved_ = c.lastSeqRecieved_
         /\ t.packetsRecieved_ = c.packetsRecieved_
         /\ t.ackRefNum_ = c.ackRefNum_ /\ t.destAcks_ = c.destAcks_
         /\ t.terminateConnection_ => c.terminateConnection_ \/ "FIN" \in flags
         /\ ~t.startConnection_ => ~c.startConnection_ \/ "RST" \in flags
<1> DEFINE end == c.terminateConnection_ \/ "FIN" \in flags
           start == c.startConnection_ /\ ~({"SYN", "RST"} \subseteq flags)
           syn == c.sendSyn_ \/ ("SYN" \in flags /\ "RST" \notin flags)
           beat == c.sendHeartBeat_ \/ ("HRT" \in flags /\ "RST" \notin flags)
           t == HandleReceiveFlags(c, flags)
<1>1. /\ end \in BOOLEAN /\ start \in BOOLEAN
      /\ syn \in BOOLEAN /\ beat \in BOOLEAN
  OBVIOUS
<1>2. ~start => ~c.startConnection_ \/ "RST" \in flags
  OBVIOUS
<1>3. end => c.terminateConnection_ \/ "FIN" \in flags
  OBVIOUS
<1>4. t = [c EXCEPT !.terminateConnection_ = end, !.startConnection_ = start,
                    !.sendSyn_ = syn, !.sendHeartBeat_ = beat]
  BY DEF HandleReceiveFlags
<1> HIDE DEF end, start, syn, beat, t
<1>5. /\ t \in ConnectionType
      /\ t.nextSequenceNum_ = c.nextSequenceNum_
      /\ t.sendFin_ = c.sendFin_ /\ t.UDP_ = c.UDP_
      /\ t.lastSeqRecieved_ = c.lastSeqRecieved_
      /\ t.packetsRecieved_ = c.packetsRecieved_
      /\ t.ackRefNum_ = c.ackRefNum_ /\ t.destAcks_ = c.destAcks_
      /\ t.terminateConnection_ = end /\ t.startConnection_ = start
  BY <1>1, <1>4 DEF ConnectionType
<1> QED BY <1>2, <1>3, <1>5 DEF t

(* What one call of ReadHeader does to each field.                          *)
LEMMA ReadHeaderFields ==
  ASSUME NEW c \in ConnectionType, NEW p \in PacketType, IsMade(p)
  PROVE  LET t == ReadHeader(c, p)
             wrapped == Rebuilt(c, p.header)
             passes == PassesWindow(c, p.header) IN
         /\ t \in ConnectionType
         /\ t.nextSequenceNum_ = c.nextSequenceNum_
         /\ t.sendFin_ = c.sendFin_ /\ t.UDP_ = c.UDP_
         /\ t.lastSeqRecieved_ = LastAfter(c.lastSeqRecieved_, wrapped)
         /\ t.packetsRecieved_ =
              AcksAfter(c.packetsRecieved_, c.lastSeqRecieved_, wrapped)
         /\ ~ReadsInner(c, p) =>
              t.ackRefNum_ = p.header.ackRef /\ t.destAcks_ = p.header.acks
         /\ ReadsInner(c, p) => t.ackRefNum_ = 0 /\ t.destAcks_ = {}
         /\ t.terminateConnection_ =>
              c.terminateConnection_ \/ "FIN" \in p.header.flags
         /\ ~t.startConnection_ =>
              ~c.startConnection_ \/ (passes /\ SaysReset(p))
         /\ t.sendSyn_ => c.sendSyn_ \/ passes
         /\ t.sendHeartBeat_ => c.sendHeartBeat_ \/ passes
<1> DEFINE h == p.header
           wrapped == Rebuilt(c, h)
           last2 == LastAfter(c.lastSeqRecieved_, wrapped)
           acks2 == AcksAfter(c.packetsRecieved_, c.lastSeqRecieved_, wrapped)
           passes == PassesWindow(c, h)
           inner == ReadsInner(c, p)
           resets == SaysReset(p)
           m == [c EXCEPT !.ackRefNum_ = h.ackRef, !.destAcks_ = h.acks,
                          !.lastSeqRecieved_ = last2, !.packetsRecieved_ = acks2]
           t == ReadHeader(c, p)
<1>0. /\ inner <=> passes /\ "RSN" \in h.flags
      /\ "RST" \in h.flags => resets
      /\ "RSN" \in h.flags /\ "RST" \in p.inner.flags => resets
  BY DEF ReadsInner, SaysReset
<1>1. /\ h \in HeaderType /\ h.ackRef \in Wire /\ h.acks \in AckFields
      /\ h.flags \in SUBSET Flags
  BY DEF PacketType, HeaderType
<1>2. wrapped \in 0 .. U32_MAX - 1
  BY <1>1, RebuiltIsTyped
<1>3. last2 \in 0 .. U32_MAX - 1 /\ acks2 \in AckFields
  <2> HIDE DEF wrapped
  <2> QED BY <1>2, ConnectionFields, WindowIsTyped
<1>4. MoveWindow(ReadAcks(c, h), h) = m
  <2> DEFINE r == ReadAcks(c, h)
  <2>1. /\ r = [c EXCEPT !.ackRefNum_ = h.ackRef, !.destAcks_ = h.acks]
        /\ r.lastSeqRecieved_ = c.lastSeqRecieved_
        /\ r.packetsRecieved_ = c.packetsRecieved_
    BY DEF ReadAcks, ConnectionType
  <2> HIDE DEF r
  <2>2. Rebuilt(r, h) = wrapped
    BY <2>1 DEF Rebuilt
  <2>3. MoveWindow(r, h) = [r EXCEPT !.lastSeqRecieved_ = last2,
                                     !.packetsRecieved_ = acks2]
    <3> HIDE DEF wrapped
    <3> QED BY <2>1, <2>2 DEF MoveWindow
  <2> HIDE DEF last2, acks2
  <2>4. MoveWindow(r, h) = m
    BY <2>1, <2>3 DEF ConnectionType
  <2> QED BY <2>4 DEF r
<1> HIDE DEF wrapped, last2, acks2, h, inner, resets
<1>5. /\ m \in ConnectionType
      /\ m.nextSequenceNum_ = c.nextSequenceNum_ /\ m.sendFin_ = c.sendFin_
      /\ m.UDP_ = c.UDP_
      /\ m.lastSeqRecieved_ = last2 /\ m.packetsRecieved_ = acks2
      /\ m.ackRefNum_ = h.ackRef /\ m.destAcks_ = h.acks
      /\ m.terminateConnection_ = c.terminateConnection_
      /\ m.startConnection_ = c.startConnection_
      /\ m.sendSyn_ = c.sendSyn_ /\ m.sendHeartBeat_ = c.sendHeartBeat_
  BY <1>1, <1>3 DEF ConnectionType
<1> HIDE DEF m
<1> DEFINE g == HandleReceiveFlags(m, h.flags)
<1>6. /\ g \in ConnectionType
      /\ g.nextSequenceNum_ = m.nextSequenceNum_ /\ g.sendFin_ = m.sendFin_
      /\ g.UDP_ = m.UDP_
      /\ g.lastSeqRecieved_ = m.lastSeqRecieved_
      /\ g.packetsRecieved_ = m.packetsRecieved_
      /\ g.ackRefNum_ = m.ackRefNum_ /\ g.destAcks_ = m.destAcks_
      /\ g.terminateConnection_ => m.terminateConnection_ \/ "FIN" \in h.flags
      /\ ~g.startConnection_ => ~m.startConnection_ \/ "RST" \in h.flags
  BY <1>5, HandleFlagsFields
<1> HIDE DEF g
<1> DEFINE Goal(u) ==
     /\ u \in ConnectionType
     /\ u.nextSequenceNum_ = c.nextSequenceNum_ /\ u.sendFin_ = c.sendFin_
     /\ u.UDP_ = c.UDP_
     /\ u.lastSeqRecieved_ = last2 /\ u.packetsRecieved_ = acks2
     /\ ~inner => u.ackRefNum_ = h.ackRef /\ u.destAcks_ = h.acks
     /\ inner => u.ackRefNum_ = 0 /\ u.destAcks_ = {}
     /\ u.terminateConnection_ => c.terminateConnection_ \/ "FIN" \in h.flags
     /\ ~u.startConnection_ =>
          ~c.startConnection_ \/ (passes /\ resets)
     /\ u.sendSyn_ => c.sendSyn_ \/ passes
     /\ u.sendHeartBeat_ => c.sendHeartBeat_ \/ passes
<1>7. CASE ~passes
  <2>1. t = m
    BY <1>4, <1>7 DEF ReadHeader, h
  <2> HIDE DEF t, passes
  <2>2. Goal(t)
    BY <1>0, <1>5, <1>7, <2>1
  <2> QED BY <2>2 DEF t, passes, h, last2, acks2, wrapped, inner, resets
<1>8. CASE passes /\ "RSN" \notin h.flags
  <2>1. t = g
    BY <1>4, <1>8 DEF ReadHeader, h, g
  <2> HIDE DEF t, passes
  <2>2. Goal(t)
    BY <1>0, <1>5, <1>6, <1>8, <2>1
  <2> QED BY <2>2 DEF t, passes, h, last2, acks2, wrapped, inner, resets
<1>9. CASE passes /\ "RSN" \in h.flags
  <2>1. PICK k \in Wire, b \in BOOLEAN : p.inner = ResendHeader(k, b)
    BY <1>9 DEF IsMade, IsInner, h
  <2> DEFINE q == p.inner
             a == ReadAcks(g, q)
  <2>2. /\ "FIN" \notin q.flags /\ q.ackRef = 0 /\ q.acks = {}
    BY <2>1, ResendHeaderIs
  <2>3. 0 \in Wire /\ {} \in AckFields
    BY SequenceAssumption DEF Wire, AckFields
  <2>4. t = HandleReceiveFlags(a, q.flags)
    BY <1>4, <1>9 DEF ReadHeader, h, g
  <2>5. "RST" \in q.flags => resets
    BY <1>0, <1>9
  <2> HIDE DEF q
  <2>6. a = [g EXCEPT !.ackRefNum_ = 0, !.destAcks_ = {}]
    BY <2>2 DEF ReadAcks
  <2>7. /\ a \in ConnectionType
        /\ a.nextSequenceNum_ = g.nextSequenceNum_ /\ a.sendFin_ = g.sendFin_
        /\ a.UDP_ = g.UDP_
        /\ a.lastSeqRecieved_ = g.lastSeqRecieved_
        /\ a.packetsRecieved_ = g.packetsRecieved_
        /\ a.ackRefNum_ = 0 /\ a.destAcks_ = {}
        /\ a.terminateConnection_ = g.terminateConnection_
        /\ a.startConnection_ = g.startConnection_
    BY <1>6, <2>3, <2>6 DEF ConnectionType
  <2> HIDE DEF a, t, passes
  <2>8. /\ t \in ConnectionType
        /\ t.nextSequenceNum_ = a.nextSequenceNum_ /\ t.sendFin_ = a.sendFin_
        /\ t.UDP_ = a.UDP_
        /\ t.lastSeqRecieved_ = a.lastSeqRecieved_
        /\ t.packetsRecieved_ = a.packetsRecieved_
        /\ t.ackRefNum_ = a.ackRefNum_ /\ t.destAcks_ = a.destAcks_
        /\ t.terminateConnection_ => a.terminateConnection_
        /\ ~t.startConnection_ => ~a.startConnection_ \/ "RST" \in q.flags
    BY <2>2, <2>4, <2>7, HandleFlagsFields
  <2>9. Goal(t)
    BY <1>0, <1>5, <1>6, <1>9, <2>5, <2>7, <2>8
  <2> QED BY <2>9 DEF t, passes, h, last2, acks2, wrapped, inner, resets
<1> QED BY <1>7, <1>8, <1>9
-----------------------------------------------------------------------------
(* The two ends. *)

LinkFacts ==
  /\ MustSend \subseteq Messages
  /\ From \in [Messages -> Ends]
  /\ GarbageAcks \subseteq AckFields
  /\ GarbageBeats \subseteq BOOLEAN /\ GarbageUDP \subseteq BOOLEAN
  /\ MaxSent \in [Ends -> Nat] /\ Droppable \subseteq Nat
  /\ MaxDelay \in Nat \ {0}

(* The parameters of the link, one by one.                                  *)
LEMMA LinkFactsHold == LinkFacts
BY LinkAssumption DEF LinkFacts

(* Each end has one peer, whose peer it is.                                 *)
LEMMA PeerIs ==
  ASSUME NEW e \in Ends
  PROVE  /\ Peer(e) \in Ends /\ Peer(e) # e /\ Peer(Peer(e)) = e
         /\ \A f \in Ends : f = e \/ f = Peer(e)
<1>1. PICK a \in Ends, b \in Ends : a # b /\ Ends = {a, b}
  BY LinkAssumption
<1>2. \A f \in Ends : \E g \in Ends : g # f
  BY <1>1
<1>3. \A f \in Ends : Peer(f) \in Ends /\ Peer(f) # f
  BY <1>2 DEF Peer
<1> QED BY <1>1, <1>3

(* A pass at e with the outcome s, as the two ends and the network see it.  *)
PassDone(e, s) ==
  /\ s \in Pass(RemoveAckedMessages(data[e]), udpBeat[e], sent[e])
  /\ sent' = [sent EXCEPT ![e] = s.sent] /\ s.sent <= MaxSent[e]
  /\ udpBeat' = [udpBeat EXCEPT ![e] = s.beat]
  /\ UNCHANGED <<app, received, heard, guessed>>
  /\ astray \subseteq astray' /\ astray' \subseteq astray \cup {e}
  /\ data'[e] = Null \/ AckOutOfReach(data[e]) => e \in astray'
  /\ net' \in [Ends -> Seq(PacketType)] /\ Len(net'[e]) <= MaxDelay
  /\ data' \in [Ends -> ConnectionData \cup {Null}]
  /\ \A f \in Ends : f # e => net'[f] = net[f] /\ data'[f] = data[f]
  /\ \A i \in DOMAIN net'[e] :
       \/ \E j \in DOMAIN net[e] : net'[e][i] = net[e][j]
       \/ \E j \in DOMAIN s.out : net'[e][i] = s.out[j]
  /\ s.out # <<>> =>
       net'[e] # <<>> /\ \E j \in DOMAIN s.out : Last(net'[e]) = s.out[j]
  /\ data'[e] = Null => s.d.con_.terminateConnection_ \/ MayTimeOut
  /\ data'[e] # Null => data'[e] = s.d /\ ~s.d.con_.terminateConnection_

(* What is left on the network after packets were written.                  *)
LEMMA Written ==
  ASSUME NEW old \in Seq(PacketType), NEW out \in Seq(PacketType)
  PROVE  LET packets == old \o out
             left == IF Len(packets) > MaxDelay THEN KeepNewest(packets)
                                                ELSE packets IN
         /\ left \in Seq(PacketType) /\ Len(left) <= MaxDelay
         /\ \A i \in DOMAIN left : \/ \E j \in DOMAIN old : left[i] = old[j]
                                   \/ \E j \in DOMAIN out : left[i] = out[j]
         /\ out # <<>> =>
              left # <<>> /\ \E j \in DOMAIN out : Last(left) = out[j]
<1> DEFINE packets == old \o out
           left == IF Len(packets) > MaxDelay THEN KeepNewest(packets)
                                              ELSE packets
           n == Len(packets)
           k == n - MaxDelay
<1>1. MaxDelay \in Nat /\ MaxDelay > 0
  BY LinkFactsHold DEF LinkFacts
<1>2. /\ Len(old) \in Nat /\ Len(out) \in Nat
      /\ DOMAIN old = 1 .. Len(old) /\ DOMAIN out = 1 .. Len(out)
  BY LenProperties
<1>3. /\ packets \in Seq(PacketType) /\ n = Len(old) + Len(out)
      /\ \A i \in 1 .. n :
           packets[i] = IF i <= Len(old) THEN old[i] ELSE out[i - Len(old)]
  BY ConcatProperties
<1>4. n \in Nat /\ DOMAIN packets = 1 .. n
  BY <1>2, <1>3, LenProperties
<1>5. \A i \in 1 .. n : \/ \E j \in DOMAIN old : packets[i] = old[j]
                        \/ \E j \in DOMAIN out : packets[i] = out[j]
  <2>1. ASSUME NEW i \in 1 .. n, i > Len(old)
        PROVE  \E j \in DOMAIN out : packets[i] = out[j]
    <3>1. i - Len(old) \in DOMAIN out /\ packets[i] = out[i - Len(old)]
      BY <1>2, <1>3, <2>1
    <3> QED BY <3>1
  <2>2. ASSUME NEW i \in 1 .. n, i <= Len(old)
        PROVE  \E j \in DOMAIN old : packets[i] = old[j]
    <3>1. i \in DOMAIN old /\ packets[i] = old[i]
      BY <1>2, <1>3, <2>2
    <3> QED BY <3>1
  <2> QED BY <1>2, <1>4, <2>1, <2>2
<1>6. ASSUME out # <<>>
      PROVE  n \in 1 .. n /\ \E j \in DOMAIN out : packets[n] = out[j]
  <2>1. Len(out) > 0
    BY <1>2, <1>6, EmptySeq
  <2>2. n \in 1 .. n /\ Len(out) \in DOMAIN out /\ packets[n] = out[Len(out)]
    BY <1>2, <1>3, <2>1
  <2> QED BY <2>2
<1> HIDE DEF packets, n
<1> DEFINE Goal(p) ==
      /\ p \in Seq(PacketType) /\ Len(p) <= MaxDelay
      /\ \A i \in DOMAIN p : \/ \E j \in DOMAIN old : p[i] = old[j]
                             \/ \E j \in DOMAIN out : p[i] = out[j]
      /\ out # <<>> => p # <<>> /\ \E j \in DOMAIN out : Last(p) = out[j]
<1>7. CASE n <= MaxDelay
  <2>1. left = packets
    BY <1>1, <1>4, <1>7 DEF n
  <2>2. out # <<>> => packets # <<>> /\ Last(packets) = packets[n]
    BY <1>3, <1>4, <1>6, EmptySeq DEF Last, n
  <2>3. Goal(packets)
    BY <1>3, <1>4, <1>5, <1>6, <1>7, <2>2 DEF n
  <2> QED BY <2>1, <2>3 DEF packets
<1>8. CASE n > MaxDelay
  <2> DEFINE kept == SubSeq(packets, 1 + k, n)
  <2>1. left = kept
    BY <1>1, <1>4, <1>8 DEF n, KeepNewest
  <2>2. k \in Nat /\ 1 + k \in Int /\ n \in Int /\ n - (1 + k) + 1 = MaxDelay
        /\ 1 + k <= n
    BY <1>1, <1>4, <1>8
  <2> DEFINE first == 1 + k
  <2>3. \A i \in first .. n : packets[i] \in PacketType
    BY <1>3, <1>4, <2>2, ElementOfSeq DEF n
  <2>4. first \in Int /\ first <= n /\ n - first + 1 = MaxDelay
    BY <2>2
  <2> HIDE DEF first
  <2> DEFINE q == SubSeq(packets, first, n)
  <2>5. /\ q \in Seq(PacketType)
        /\ Len(q) = IF first <= n THEN n - first + 1 ELSE 0
        /\ \A i \in 1 .. n - first + 1 : q[i] = packets[first + i - 1]
    BY <2>2, <2>3, <2>4, SubSeqProperties
  <2>6. kept = q
    BY DEF first
  <2> HIDE DEF q
  <2>7. Len(q) = MaxDelay /\ DOMAIN q = 1 .. MaxDelay
    BY <2>4, <2>5, LenProperties
  <2>8. \A i \in 1 .. MaxDelay : q[i] = packets[first + i - 1]
    BY <2>4, <2>5
  <2>9. \A i \in 1 .. MaxDelay : first + i - 1 \in 1 .. n
    BY <2>2, <2>4 DEF first
  <2>10. MaxDelay \in 1 .. MaxDelay /\ first + MaxDelay - 1 = n
    BY <1>1, <2>2 DEF first
  <2>11. q # <<>> /\ Last(q) = packets[n]
    BY <1>1, <2>7, <2>8, <2>10, EmptySeq DEF Last
  <2>12. ASSUME NEW i \in DOMAIN q
         PROVE  \/ \E j \in DOMAIN old : q[i] = old[j]
                \/ \E j \in DOMAIN out : q[i] = out[j]
    <3>1. first + i - 1 \in 1 .. n /\ q[i] = packets[first + i - 1]
      BY <2>7, <2>8, <2>9
    <3> QED BY <1>5, <3>1
  <2>13. Goal(q)
    BY <1>1, <1>6, <2>5, <2>7, <2>11, <2>12
  <2>14. left = q
    BY <2>1, <2>6
  <2> HIDE DEF left, Goal
  <2>15. Goal(left)
    BY <2>13, <2>14
  <2> QED BY <2>15 DEF Goal, left, packets
<1> QED BY <1>1, <1>4, <1>7, <1>8

(* Every pass has an outcome.                                               *)
LEMMA UpdateDoes ==
  ASSUME TypeOK, NEW e \in Ends, Update(e)
  PROVE  /\ data[e] # Null /\ data[e] \in ConnectionData
         /\ \E s : PassDone(e, s)
<1> DEFINE d == RemoveAckedMessages(data[e])
<1>1. /\ data[e] # Null /\ data[e] \in ConnectionData
      /\ net[e] \in Seq(PacketType)
      /\ udpBeat[e] \in BOOLEAN /\ sent[e] \in Nat
  BY DEF Update, TypeOK
<1>2. d \in ConnectionData
  BY <1>1, RemoveAckedKeeps
<1>3. PICK due \in SUBSET DOMAIN d.messagesSent_, ready \in BOOLEAN,
           beat \in BOOLEAN, timedOut \in BOOLEAN, lost \in SUBSET Droppable :
       LET dropped == {sent[e] + k : k \in lost}
           resent == UpdateResend(Start(e, d, dropped), due)
           done == UpdateHeartbeat(UpdateSend(resent, ready), beat)
           packets == net[e] \o done.out
           ends == done.d.con_.terminateConnection_ \/ timedOut
       IN /\ ready => d.messagesToSend_ # <<>>
          /\ beat => e \in Beaters
          /\ timedOut => MayTimeOut
          /\ done.sent <= MaxSent[e] /\ dropped \subseteq 1 .. done.sent
          /\ sent' = [sent EXCEPT ![e] = done.sent]
          /\ udpBeat' = [udpBeat EXCEPT ![e] = done.beat]
          /\ net' = [net EXCEPT ![e] =
                       IF Len(packets) > MaxDelay THEN KeepNewest(packets)
                                                  ELSE packets]
          /\ data' = [data EXCEPT ![e] = IF ends THEN Null ELSE done.d]
          /\ astray' = IF ends \/ AckOutOfReach(data[e]) THEN astray \cup {e}
                                                         ELSE astray
  BY Zenon DEF Update
<1> DEFINE dropped == {sent[e] + k : k \in lost}
           s == UpdateHeartbeat(
                  UpdateSend(UpdateResend(Start(e, d, dropped), due), ready),
                  beat)
           packets == net[e] \o s.out
           left == IF Len(packets) > MaxDelay THEN KeepNewest(packets)
                                              ELSE packets
           ends == s.d.con_.terminateConnection_ \/ timedOut
           new == IF ends THEN Null ELSE s.d
<1>4. dropped \in SUBSET Nat
  <2>1. \A k \in lost : k \in Nat
    BY LinkFactsHold DEF LinkFacts
  <2>2. \A k \in lost : sent[e] + k \in Nat
    BY <1>1, <2>1
  <2> QED BY <2>2
<1>5. s \in Pass(d, udpBeat[e], sent[e])
  <2> HIDE DEF d, dropped
  <2> QED BY <1>1, <1>2, <1>4, UpdateIsPass
<1>6. /\ timedOut => MayTimeOut
      /\ s.sent <= MaxSent[e]
      /\ sent' = [sent EXCEPT ![e] = s.sent]
      /\ udpBeat' = [udpBeat EXCEPT ![e] = s.beat]
      /\ net' = [net EXCEPT ![e] = left]
      /\ data' = [data EXCEPT ![e] = new]
      /\ astray' = IF ends \/ AckOutOfReach(data[e]) THEN astray \cup {e}
                                                     ELSE astray
  BY <1>3
<1>7. UNCHANGED <<app, received, heard, guessed>>
  BY DEF Update
<1> HIDE DEF s, d, dropped
<1>8. s.out \in Seq(PacketType) /\ s.d \in ConnectionData
  BY <1>5 DEF Pass, PassState
<1>9. /\ left \in Seq(PacketType) /\ Len(left) <= MaxDelay
      /\ \A i \in DOMAIN left : \/ \E j \in DOMAIN net[e] : left[i] = net[e][j]
                                \/ \E j \in DOMAIN s.out : left[i] = s.out[j]
      /\ s.out # <<>> =>
           left # <<>> /\ \E j \in DOMAIN s.out : Last(left) = s.out[j]
  <2> DEFINE old == net[e]
             out == s.out
  <2>1. old \in Seq(PacketType) /\ out \in Seq(PacketType)
    BY <1>1, <1>8
  <2>2. left = IF Len(old \o out) > MaxDelay THEN KeepNewest(old \o out)
                                             ELSE old \o out
    OBVIOUS
  <2> HIDE DEF left, old, out
  <2>3. /\ left \in Seq(PacketType) /\ Len(left) <= MaxDelay
        /\ \A i \in DOMAIN left : \/ \E j \in DOMAIN old : left[i] = old[j]
                                  \/ \E j \in DOMAIN out : left[i] = out[j]
        /\ out # <<>> =>
             left # <<>> /\ \E j \in DOMAIN out : Last(left) = out[j]
    BY <2>1, <2>2, Written
  <2> QED BY <2>3 DEF old, out
<1> HIDE DEF left, packets
<1>10. /\ new \in ConnectionData \cup {Null}
       /\ new = Null => ends /\ (s.d.con_.terminateConnection_ \/ MayTimeOut)
       /\ new # Null => new = s.d /\ ~s.d.con_.terminateConnection_
  BY <1>6, <1>8, NullAssumption
<1> HIDE DEF new, ends
<1>11. /\ data' \in [Ends -> ConnectionData \cup {Null}] /\ data'[e] = new
       /\ net' \in [Ends -> Seq(PacketType)] /\ net'[e] = left
       /\ \A f \in Ends : f # e => net'[f] = net[f] /\ data'[f] = data[f]
  BY <1>6, <1>9, <1>10 DEF TypeOK
<1>12. /\ astray \subseteq astray' /\ astray' \subseteq astray \cup {e}
       /\ data'[e] = Null \/ AckOutOfReach(data[e]) => e \in astray'
  BY <1>6, <1>10, <1>11
<1>13. PassDone(e, s)
  BY <1>5, <1>6, <1>7, <1>9, <1>10, <1>11, <1>12 DEF PassDone, d
<1> QED BY <1>1, <1>13

-----------------------------------------------------------------------------
(* Types. *)

(* Every packet on the network was written by some pass.                    *)
PacketsAreMade == \A e \in Ends : \A i \in DOMAIN net[e] : IsMade(net[e][i])

LinkInv == TypeOK /\ PacketsAreMade


(* A connection that begins.                                                *)
IsBegun(e, d) ==
  \E acks \in GarbageAcks, beat \in GarbageBeats, udp \in GarbageUDP :
    d = NewData(acks, beat, udp) /\ Guess(e, beat)

(* A connection's data to begin with.                                       *)
LEMMA BegunIs ==
  ASSUME TypeOK, NEW e \in Ends, NEW d, IsBegun(e, d)
  PROVE  /\ d \in ConnectionData /\ d # Null
         /\ d.con_.nextSequenceNum_ = 1
         /\ d.con_.lastSeqRecieved_ = 0 /\ d.con_.packetsRecieved_ = {}
         /\ d.con_.ackRefNum_ = 0 /\ d.con_.destAcks_ \in AckFields
         /\ ~d.con_.sendSyn_ /\ ~d.con_.sendFin_
         /\ ~d.con_.terminateConnection_ /\ d.con_.startConnection_
         /\ d.con_.sendHeartBeat_ => e \in guessed'
         /\ d.messagesToSend_ = <<>> /\ d.messagesSent_ = <<>>
         /\ d.given = {} /\ d.ref = 0
         /\ guessed \subseteq guessed' /\ guessed' \subseteq Ends
<1>1. PICK acks \in GarbageAcks, beat \in GarbageBeats, udp \in GarbageUDP :
        d = NewData(acks, beat, udp) /\ Guess(e, beat)
  BY DEF IsBegun
<1>2. acks \in AckFields /\ beat \in BOOLEAN /\ udp \in BOOLEAN
  BY LinkFactsHold DEF LinkFacts
<1> DEFINE c == NewConnection(acks, beat, udp)
<1>3. c \in ConnectionType
  BY <1>2, NewConnectionType
<1>4. /\ c.nextSequenceNum_ = 1
      /\ c.lastSeqRecieved_ = 0 /\ c.packetsRecieved_ = {}
      /\ c.ackRefNum_ = 0 /\ c.destAcks_ = acks
      /\ ~c.sendSyn_ /\ ~c.sendFin_
      /\ ~c.terminateConnection_ /\ c.startConnection_
      /\ c.sendHeartBeat_ = beat
  BY DEF NewConnection
<1>5. <<>> \in Seq(Messages) /\ <<>> \in Seq(SentEntry)
  BY EmptySeq
<1>6. /\ d.con_ = c /\ d.messagesToSend_ = <<>> /\ d.messagesSent_ = <<>>
      /\ d.given = {} /\ d.ref = 0
  BY <1>1 DEF NewData
<1>7. d \in ConnectionData
  <2> HIDE DEF c
  <2> QED BY <1>1, <1>3, <1>5 DEF NewData, ConnectionData, c
<1>8. /\ beat => e \in guessed'
      /\ guessed \subseteq guessed' /\ guessed' \subseteq Ends
  BY <1>1 DEF Guess, TypeOK
<1> HIDE DEF c
<1> QED BY <1>2, <1>4, <1>6, <1>7, <1>8, NullAssumption

(* A packet p parsed at e for the connection with the data d.               *)
TakeDone(e, d, p) ==
  LET passes == PassesWindow(d.con_, p.header)
      up == IsHandedUp(d.con_, p) IN
  /\ p \in PacketType /\ IsMade(p)
  /\ d \in ConnectionData
  /\ data' \in [Ends -> ConnectionData \cup {Null}]
  /\ \A f \in Ends : f # e => data'[f] = data[f]
  /\ data'[e] \in ConnectionData /\ data'[e] # Null
  /\ data'[e].con_ = ReadHeader(d.con_, p)
  /\ data'[e].messagesToSend_ = d.messagesToSend_
  /\ data'[e].messagesSent_ = d.messagesSent_
  /\ data'[e].given = d.given
  /\ ReadsInner(d.con_, p) => data'[e].ref = 0
  /\ ~ReadsInner(d.con_, p) => data'[e].ref = p.ref
  /\ UNCHANGED <<udpBeat, app, net, sent>>
  /\ received' \in [Ends -> SUBSET Messages]
  /\ \A f \in Ends : received[f] \subseteq received'[f]
  /\ up => p.body \subseteq received'[e]
  /\ heard \subseteq heard' /\ heard' \subseteq Ends
  /\ passes => Peer(e) \in heard'
  /\ astray \subseteq astray' /\ astray' \subseteq Ends
  /\ passes /\ Peer(e) \notin astray' =>
       up /\ Rebuilt(d.con_, p.header) = p.number

(* The connection a packet is parsed for: the one there is, or a new one.   *)
IsFor(e, d) ==
  \/ data[e] # Null /\ d = data[e] /\ guessed' = guessed
  \/ data[e] = Null /\ IsBegun(e, d)

(* What parsing a packet does.                                              *)
LEMMA TakeDoes ==
  ASSUME LinkInv, NEW e \in Ends, NEW d \in ConnectionData,
         NEW i \in DOMAIN net[Peer(e)], Take(e, d, net[Peer(e)][i])
  PROVE  TakeDone(e, d, net[Peer(e)][i])
<1> DEFINE p == net[Peer(e)][i]
           t == ReadHeader(d.con_, p)
           inner == ReadsInner(d.con_, p)
           ref == IF inner THEN 0 ELSE p.ref
           d2 == [d EXCEPT !.con_ = t, !.ref = ref]
           passes == PassesWindow(d.con_, p.header)
           up == IsHandedUp(d.con_, p)
           asItself == up /\ Rebuilt(d.con_, p.header) = p.number
<1>1. Peer(e) \in Ends
  BY PeerIs
<1>2. p \in PacketType /\ IsMade(p)
  <2>1. net[Peer(e)] \in Seq(PacketType)
    BY <1>1 DEF LinkInv, TypeOK
  <2>2. i \in 1 .. Len(net[Peer(e)])
    BY <2>1, LenProperties
  <2>3. p \in PacketType
    BY <2>1, <2>2, ElementOfSeq
  <2> QED BY <1>1, <2>3 DEF LinkInv, PacketsAreMade
<1>3. /\ data' = [data EXCEPT ![e] = d2]
      /\ received' = IF up THEN [received EXCEPT ![e] = @ \cup p.body]
                           ELSE received
      /\ heard' = IF passes THEN heard \cup {Peer(e)} ELSE heard
      /\ astray' = IF passes /\ ~asItself THEN astray \cup {Peer(e)} ELSE astray
      /\ UNCHANGED <<udpBeat, app, net, sent>>
  BY DEF Take, ReadsInner
<1> HIDE DEF p
<1>4. t \in ConnectionType
  BY <1>2, ReadHeaderFields DEF ConnectionData
<1>5. ref \in Nat
  BY <1>2 DEF PacketType
<1> HIDE DEF t, ref
<1>6. d2 \in ConnectionData /\ d2.con_ = t
      /\ d2.messagesToSend_ = d.messagesToSend_ /\ d2.ref = ref
      /\ d2.messagesSent_ = d.messagesSent_ /\ d2.given = d.given
  BY <1>4, <1>5 DEF ConnectionData
<1> HIDE DEF d2
<1>7. /\ data \in [Ends -> ConnectionData \cup {Null}]
      /\ received \in [Ends -> SUBSET Messages]
      /\ heard \subseteq Ends /\ astray \subseteq Ends
  BY DEF LinkInv, TypeOK
<1>8. p.body \in SUBSET Messages
  BY <1>2 DEF PacketType
<1>9. /\ data' \in [Ends -> ConnectionData \cup {Null}] /\ data'[e] = d2
      /\ \A f \in Ends : f # e => data'[f] = data[f]
  BY <1>3, <1>6, <1>7
<1> HIDE DEF up, passes
<1>10. /\ received' \in [Ends -> SUBSET Messages]
       /\ \A f \in Ends : received[f] \subseteq received'[f]
       /\ up => p.body \subseteq received'[e]
  BY <1>1, <1>3, <1>7, <1>8
<1>11. /\ heard \subseteq heard' /\ heard' \subseteq Ends
       /\ passes => Peer(e) \in heard'
       /\ astray \subseteq astray' /\ astray' \subseteq Ends
       /\ passes /\ Peer(e) \notin astray' => asItself
  BY <1>1, <1>3, <1>7
<1>12. d2 # Null
  BY <1>6, NullAssumption
<1> HIDE DEF inner
<1>13. /\ inner => d2.ref = 0
       /\ ~inner => d2.ref = p.ref
  BY <1>6 DEF ref
<1> QED
  BY <1>2, <1>3, <1>6, <1>9, <1>10, <1>11, <1>12, <1>13
  DEF TakeDone, p, t, up, passes, inner

(* Both ways of parsing a packet are one.                                   *)
LEMMA ParseDoes ==
  ASSUME LinkInv, NEW e \in Ends, ParseMessages(e) \/ ParseNewConnection(e)
  PROVE  \E i \in DOMAIN net[Peer(e)], d \in ConnectionData :
           TakeDone(e, d, net[Peer(e)][i]) /\ IsFor(e, d)
<1>1. CASE ParseMessages(e)
  <2>1. PICK i \in DOMAIN net[Peer(e)] :
          /\ data[e] # Null
          /\ Take(e, data[e], net[Peer(e)][i])
          /\ guessed' = guessed
    BY <1>1 DEF ParseMessages
  <2>2. data[e] \in ConnectionData
    BY <2>1 DEF LinkInv, TypeOK
  <2> QED BY <2>1, <2>2, TakeDoes DEF IsFor
<1>2. CASE ParseNewConnection(e)
  <2>1. PICK i \in DOMAIN net[Peer(e)], acks \in GarbageAcks,
             beat \in GarbageBeats, udp \in GarbageUDP :
          /\ data[e] = Null
          /\ Take(e, NewData(acks, beat, udp), net[Peer(e)][i])
          /\ Guess(e, beat)
    BY <1>2 DEF ParseNewConnection
  <2> DEFINE d == NewData(acks, beat, udp)
  <2>2. IsBegun(e, d)
    BY <2>1 DEF IsBegun
  <2>3. d \in ConnectionData
    BY <2>2, BegunIs DEF LinkInv
  <2> HIDE DEF d
  <2>4. Take(e, d, net[Peer(e)][i])
    BY <2>1 DEF d
  <2> QED BY <2>1, <2>2, <2>3, <2>4, TakeDoes DEF IsFor
<1> QED BY <1>1, <1>2

(* A message handed to the connection: queued, and known as given.          *)
SendDone(e, m) ==
  /\ data[e] # Null /\ data[e] \in ConnectionData
  /\ data' \in [Ends -> ConnectionData \cup {Null}]
  /\ \A f \in Ends : f # e => data'[f] = data[f]
  /\ data'[e] \in ConnectionData
  /\ data'[e].con_ = data[e].con_
  /\ data'[e].messagesToSend_ = Append(data[e].messagesToSend_, m)
  /\ data'[e].messagesSent_ = data[e].messagesSent_
  /\ data'[e].given = data[e].given \cup {m}
  /\ data'[e].ref = data[e].ref
  /\ UNCHANGED <<udpBeat, app, net, sent, histories>>

(* What the application's Send does.                                        *)
LEMMA SendDoes ==
  ASSUME TypeOK, NEW e \in Ends, NEW m \in Messages, Send(e, m)
  PROVE  SendDone(e, m)
<1> DEFINE d == data[e]
           queue == Append(d.messagesToSend_, m)
           given == d.given \cup {m}
           d2 == [d EXCEPT !.messagesToSend_ = queue, !.given = given]
<1>1. d \in ConnectionData /\ d # Null
  BY DEF Send, TypeOK
<1>2. queue \in Seq(Messages) /\ given \in SUBSET Messages
  BY <1>1, AppendProperties DEF ConnectionData
<1>3. data' = [data EXCEPT ![e] = d2]
  <2>1. data' = [data EXCEPT ![e].messagesToSend_ = Append(@, m),
                             ![e].given = @ \cup {m}]
    BY DEF Send
  <2> QED BY <1>1, <2>1 DEF TypeOK, ConnectionData
<1> HIDE DEF d, queue, given
<1>4. /\ d2 \in ConnectionData /\ d2.con_ = d.con_
      /\ d2.messagesToSend_ = queue
      /\ d2.messagesSent_ = d.messagesSent_ /\ d2.given = given
      /\ d2.ref = d.ref
  BY <1>1, <1>2 DEF ConnectionData
<1> HIDE DEF d2
<1>5. /\ data' \in [Ends -> ConnectionData \cup {Null}] /\ data'[e] = d2
      /\ \A f \in Ends : f # e => data'[f] = data[f]
  BY <1>3, <1>4 DEF TypeOK
<1>6. UNCHANGED <<udpBeat, app, net, sent, histories>>
  BY DEF Send
<1> QED BY <1>1, <1>4, <1>5, <1>6 DEF SendDone, d, queue, given

(* A connection asked for or given up by the application.                   *)
ConnectDone(e) ==
  /\ data[e] = Null
  /\ data' \in [Ends -> ConnectionData \cup {Null}]
  /\ \A f \in Ends : f # e => data'[f] = data[f]
  /\ IsBegun(e, data'[e])
  /\ app' = [app EXCEPT ![e] = "connected"] /\ app[e] = "idle"
  /\ UNCHANGED <<udpBeat, net, sent, received, heard, astray>>

DisconnectDone(e) ==
  /\ e \in Disconnectors
  /\ data[e] # Null /\ data[e] \in ConnectionData
  /\ data' \in [Ends -> ConnectionData \cup {Null}]
  /\ \A f \in Ends : f # e => data'[f] = data[f]
  /\ data'[e] \in ConnectionData
  /\ data'[e].con_ = [data[e].con_ EXCEPT !.sendFin_ = TRUE]
  /\ data'[e].messagesToSend_ = data[e].messagesToSend_
  /\ data'[e].messagesSent_ = data[e].messagesSent_
  /\ data'[e].given = data[e].given
  /\ data'[e].ref = data[e].ref
  /\ app' = [app EXCEPT ![e] = "disconnected"]
  /\ UNCHANGED <<udpBeat, net, sent, histories>>

(* What the application's Connect and Disconnect do.                        *)
LEMMA CallsDo ==
  ASSUME TypeOK, NEW e \in Ends
  PROVE  /\ Connect(e) => ConnectDone(e)
         /\ Disconnect(e) => DisconnectDone(e)
<1>1. ASSUME Connect(e) PROVE ConnectDone(e)
  <2>1. PICK acks \in GarbageAcks, beat \in GarbageBeats, udp \in GarbageUDP :
          /\ data' = [data EXCEPT ![e] = NewData(acks, beat, udp)]
          /\ Guess(e, beat)
    BY <1>1 DEF Connect
  <2> DEFINE d2 == NewData(acks, beat, udp)
  <2>2. IsBegun(e, d2)
    BY <2>1 DEF IsBegun
  <2>3. d2 \in ConnectionData
    BY <2>2, BegunIs
  <2>4. data' = [data EXCEPT ![e] = d2]
    BY <2>1
  <2> HIDE DEF d2
  <2>5. /\ data' \in [Ends -> ConnectionData \cup {Null}] /\ data'[e] = d2
        /\ \A f \in Ends : f # e => data'[f] = data[f]
    BY <2>3, <2>4 DEF TypeOK
  <2> QED BY <1>1, <2>2, <2>5 DEF Connect, ConnectDone
<1>2. ASSUME Disconnect(e) PROVE DisconnectDone(e)
  <2> DEFINE d == data[e]
             c2 == [d.con_ EXCEPT !.sendFin_ = TRUE]
             d2 == [d EXCEPT !.con_ = c2]
  <2>1. d \in ConnectionData /\ d # Null /\ d.con_ \in ConnectionType
    BY <1>2 DEF Disconnect, TypeOK, ConnectionData
  <2>2. data' = [data EXCEPT ![e] = d2]
    BY <1>2, <2>1 DEF Disconnect, Terminate, TypeOK, ConnectionData
  <2>3. c2 \in ConnectionType
    BY <2>1 DEF ConnectionType
  <2> HIDE DEF d, c2
  <2>4. /\ d2 \in ConnectionData /\ d2.con_ = c2
        /\ d2.messagesToSend_ = d.messagesToSend_
        /\ d2.messagesSent_ = d.messagesSent_ /\ d2.given = d.given
        /\ d2.ref = d.ref
    BY <2>1, <2>3 DEF ConnectionData
  <2> HIDE DEF d2
  <2>5. /\ data' \in [Ends -> ConnectionData \cup {Null}] /\ data'[e] = d2
        /\ \A f \in Ends : f # e => data'[f] = data[f]
    BY <2>2, <2>4 DEF TypeOK
  <2> QED BY <1>2, <2>1, <2>4, <2>5 DEF Disconnect, DisconnectDone, d, c2
<1> QED BY <1>1, <1>2

(* Every step is one of these.                                              *)
LEMMA StepsAre ==
  ASSUME LinkInv, [Next]_vars
  PROVE  \/ UNCHANGED vars
         \/ \E e \in Ends :
              \/ /\ data[e] # Null /\ data[e] \in ConnectionData
                 /\ \E s : PassDone(e, s)
              \/ \E i \in DOMAIN net[Peer(e)], d \in ConnectionData :
                   TakeDone(e, d, net[Peer(e)][i]) /\ IsFor(e, d)
              \/ ConnectDone(e)
              \/ \E m \in Messages : SendDone(e, m)
              \/ DisconnectDone(e)
<1>1. CASE UNCHANGED vars
  BY <1>1
<1>2. CASE Next
  <2>1. TypeOK
    BY DEF LinkInv
  <2>2. PICK e \in Ends :
          \/ Update(e)
          \/ ParseMessages(e) \/ ParseNewConnection(e)
          \/ Connect(e)
          \/ \E m \in Messages : Send(e, m)
          \/ Disconnect(e)
    BY <1>2 DEF Next
  <2>3. CASE Update(e)
    BY <2>1, <2>3, UpdateDoes
  <2>4. CASE ParseMessages(e) \/ ParseNewConnection(e)
    BY <2>4, ParseDoes
  <2>5. CASE Connect(e)
    BY <2>1, <2>5, CallsDo
  <2>6. CASE \E m \in Messages : Send(e, m)
    BY <2>1, <2>6, SendDoes
  <2>7. CASE Disconnect(e)
    BY <2>1, <2>7, CallsDo
  <2> QED BY <2>2, <2>3, <2>4, <2>5, <2>6, <2>7
<1> QED BY <1>1, <1>2

(* Nothing is there at first.                                               *)
LEMMA InitLinkInv == Init => LinkInv
<1> SUFFICES ASSUME Init PROVE LinkInv
  OBVIOUS
<1>1. \A S : <<>> \in Seq(S) /\ Len(<<>>) = 0
  BY EmptySeq
<1>2. /\ \A e \in Ends : net[e] = <<>> /\ sent[e] = 0 /\ MaxSent[e] \in Nat
      /\ \A e \in Ends : Len(net[e]) = 0
      /\ udpBeat \in [Ends -> BOOLEAN] /\ guessed \subseteq Ends
      /\ MaxDelay \in Nat
  BY <1>1, LinkFactsHold DEF Init, LinkFacts
<1>3. net \in [Ends -> Seq(PacketType)]
  BY <1>1 DEF Init
<1>4. PacketsAreMade
  BY <1>2 DEF PacketsAreMade
<1>5. TypeOK
  BY <1>2, <1>3 DEF Init, TypeOK
<1> QED BY <1>4, <1>5 DEF LinkInv

(* Types are kept, and packets are written by passes only.                  *)
LEMMA NextLinkInv ==
  ASSUME LinkInv, [Next]_vars
  PROVE  LinkInv'
<1>0. /\ data \in [Ends -> ConnectionData \cup {Null}]
      /\ app \in [Ends -> {"idle", "connected", "disconnected"}]
      /\ net \in [Ends -> Seq(PacketType)]
      /\ \A e \in Ends : Len(net[e]) <= MaxDelay
      /\ sent \in [Ends -> Nat]
      /\ \A e \in Ends : sent[e] <= MaxSent[e]
      /\ received \in [Ends -> SUBSET Messages]
      /\ heard \subseteq Ends /\ guessed \subseteq Ends /\ astray \subseteq Ends
      /\ udpBeat \in [Ends -> BOOLEAN]
      /\ PacketsAreMade
  BY DEF LinkInv, TypeOK
<1>1. ASSUME NEW e \in Ends, NEW s, PassDone(e, s)
      PROVE  LinkInv'
  <2> DEFINE d == RemoveAckedMessages(data[e])
  <2>1. /\ s.sent \in Nat /\ s.beat \in BOOLEAN
        /\ s \in Pass(d, udpBeat[e], sent[e])
    BY <1>1 DEF PassDone, Pass, PassState
  <2>2. /\ sent' \in [Ends -> Nat] /\ \A f \in Ends : sent'[f] <= MaxSent[f]
        /\ udpBeat' \in [Ends -> BOOLEAN]
    BY <1>0, <1>1, <2>1 DEF PassDone
  <2>3. \A f \in Ends : Len(net'[f]) <= MaxDelay
    BY <1>0, <1>1 DEF PassDone
  <2>4. ASSUME NEW f \in Ends, NEW i \in DOMAIN net'[f] PROVE IsMade(net'[f][i])
    <3>1. CASE f # e
      BY <1>0, <1>1, <2>4, <3>1 DEF PassDone, PacketsAreMade
    <3>2. CASE f = e
      <4>1. \A j \in DOMAIN net[e] : IsMade(net[e][j])
        BY <1>0 DEF PacketsAreMade
      <4>2. \A j \in DOMAIN s.out : IsMade(s.out[j])
        BY <2>1 DEF Pass, PacketsAfter, IsPacketOf, IsMade, IsInner
      <4> QED BY <1>1, <2>4, <3>2, <4>1, <4>2 DEF PassDone
    <3> QED BY <3>1, <3>2
  <2>5. PacketsAreMade'
    BY <2>4 DEF PacketsAreMade
  <2>6. TypeOK'
    BY <1>0, <1>1, <2>2, <2>3 DEF PassDone, TypeOK
  <2> QED BY <2>5, <2>6 DEF LinkInv
<1>2. ASSUME NEW e \in Ends, NEW d, NEW p, TakeDone(e, d, p), IsFor(e, d)
      PROVE  LinkInv'
  <2>1. guessed' \subseteq Ends
    BY <1>0, <1>2, BegunIs DEF IsFor, LinkInv
  <2> QED BY <1>0, <1>2, <2>1 DEF TakeDone, LinkInv, TypeOK, PacketsAreMade
<1>3. ASSUME NEW e \in Ends, ConnectDone(e)
      PROVE  LinkInv'
  <2>1. guessed' \subseteq Ends
    BY <1>3, BegunIs DEF ConnectDone, LinkInv
  <2> QED BY <1>0, <1>3, <2>1 DEF ConnectDone, LinkInv, TypeOK, PacketsAreMade
<1>4. ASSUME NEW e \in Ends, NEW m \in Messages, SendDone(e, m)
      PROVE  LinkInv'
  BY <1>0, <1>4 DEF SendDone, histories, LinkInv, TypeOK, PacketsAreMade
<1>5. ASSUME NEW e \in Ends, DisconnectDone(e)
      PROVE  LinkInv'
  BY <1>0, <1>5 DEF DisconnectDone, histories, LinkInv, TypeOK, PacketsAreMade
<1>6. CASE UNCHANGED vars
  BY <1>0, <1>6 DEF vars, histories, LinkInv, TypeOK, PacketsAreMade
<1> QED BY <1>1, <1>2, <1>3, <1>4, <1>5, <1>6, StepsAre

(* The link keeps its invariant.                                            *)
LEMMA LinkIsTyped == Spec => []LinkInv
<1>1. LinkInv /\ [Next]_vars => LinkInv'
  BY NextLinkInv
<1> QED BY InitLinkInv, <1>1, PTL DEF Spec

(* The state of both ends keeps its types: header numbers and ack fields    *)
(* fit their widths, queues hold messages, and no more packets wait on the  *)
(* network than MaxDelay (ConnectionData, Connection).                      *)
THEOREM LinkTypeCorrect == Spec => []TypeOK
<1>1. LinkInv => TypeOK
  BY DEF LinkInv
<1> QED BY LinkIsTyped, <1>1, PTL

-----------------------------------------------------------------------------
(* The end of a connection. *)

(* A connection for UDP is told to end only when the application has said   *)
(* so; a FIN on the network and one that has arrived come from such an end. *)
FinIsMeant ==
  \A e \in Ends :
    /\ data[e] # Null /\ data[e].con_.UDP_ /\ data[e].con_.sendFin_ =>
         app[e] = "disconnected"
    /\ \A i \in DOMAIN net[e] :
         "FIN" \in net[e][i].header.flags => app[e] = "disconnected"
    /\ data[e] # Null /\ data[e].con_.UDP_
         /\ data[e].con_.terminateConnection_ => app[Peer(e)] = "disconnected"

(* An application that has disconnected stays so.                           *)
LEMMA StaysDisconnected ==
  ASSUME LinkInv, [Next]_vars, NEW f \in Ends, app[f] = "disconnected"
  PROVE  app'[f] = "disconnected"
<1>1. app \in [Ends -> {"idle", "connected", "disconnected"}]
  BY DEF LinkInv, TypeOK
<1>2. ASSUME NEW e \in Ends, ConnectDone(e) PROVE app'[f] = "disconnected"
  BY <1>1, <1>2 DEF ConnectDone
<1>3. ASSUME NEW e \in Ends, DisconnectDone(e) PROVE app'[f] = "disconnected"
  BY <1>1, <1>3 DEF DisconnectDone
<1>4. ASSUME UNCHANGED app PROVE app'[f] = "disconnected"
  BY <1>4
<1> QED BY <1>2, <1>3, <1>4, StepsAre DEF vars, PassDone, TakeDone, SendDone

(* FinIsMeant is kept, and a pass that ends a connection wrote a FIN.       *)
LEMMA NextFinIsMeant ==
  ASSUME LinkInv, FinIsMeant, [Next]_vars
  PROVE  FinIsMeant'
<1>0. \A f \in Ends : app[f] = "disconnected" => app'[f] = "disconnected"
  BY StaysDisconnected
<1>1. ASSUME NEW e \in Ends, NEW s, PassDone(e, s), data[e] # Null,
             data[e] \in ConnectionData
      PROVE  FinIsMeant'
  <2> DEFINE d == RemoveAckedMessages(data[e])
  <2>1. /\ d.con_ = data[e].con_ /\ s \in Pass(d, udpBeat[e], sent[e])
        /\ app' = app
    BY <1>1, RemoveAckedKeeps DEF PassDone
  <2> HIDE DEF d
  <2>2. /\ s.d.con_.UDP_ = data[e].con_.UDP_
        /\ data[e].con_.UDP_ => s.d.con_.sendFin_ = data[e].con_.sendFin_
        /\ \A i \in DOMAIN s.out : "FIN" \in s.out[i].header.flags =>
             data[e].con_.UDP_ /\ data[e].con_.sendFin_
    BY <2>1 DEF Pass, ConnectionAfter, PacketsAfter, IsPacketOf
  <2>3. data[e].con_.UDP_ /\ data[e].con_.sendFin_ => app[e] = "disconnected"
    BY <1>1 DEF FinIsMeant
  <2>4. ASSUME NEW f \in Ends, NEW i \in DOMAIN net'[f],
               "FIN" \in net'[f][i].header.flags
        PROVE  app'[f] = "disconnected"
    BY <1>1, <2>1, <2>2, <2>3, <2>4 DEF PassDone, FinIsMeant
  <2>5. ASSUME NEW f \in Ends, data'[f] # Null, data'[f].con_.UDP_
        PROVE  /\ data'[f].con_.sendFin_ => app'[f] = "disconnected"
               /\ data'[f].con_.terminateConnection_ =>
                    app'[Peer(f)] = "disconnected"
    BY <1>1, <2>1, <2>2, <2>3, <2>5 DEF PassDone, FinIsMeant
  <2> QED BY <2>4, <2>5 DEF FinIsMeant
<1>2. ASSUME NEW e \in Ends, NEW i \in DOMAIN net[Peer(e)], NEW d,
             TakeDone(e, d, net[Peer(e)][i]), IsFor(e, d)
      PROVE  FinIsMeant'
  <2> DEFINE p == net[Peer(e)][i]
             c == d.con_
             t == ReadHeader(c, p)
  <2>1. /\ p \in PacketType /\ IsMade(p) /\ d \in ConnectionData
        /\ data'[e].con_ = t /\ app' = app /\ net' = net
        /\ \A f \in Ends : f # e => data'[f] = data[f]
    BY <1>2 DEF TakeDone
  <2>2. /\ c.UDP_ /\ c.sendFin_ => app[e] = "disconnected"
        /\ c.UDP_ /\ c.terminateConnection_ => app[Peer(e)] = "disconnected"
    <3>1. CASE data[e] # Null /\ d = data[e]
      BY <3>1 DEF FinIsMeant
    <3>2. CASE IsBegun(e, d)
      BY <3>2, BegunIs DEF LinkInv
    <3> QED BY <1>2, <3>1, <3>2 DEF IsFor
  <2>3. "FIN" \in p.header.flags => app[Peer(e)] = "disconnected"
    BY PeerIs DEF FinIsMeant
  <2> HIDE DEF p
  <2>4. c \in ConnectionType
    BY <2>1 DEF ConnectionData
  <2> HIDE DEF c
  <2>5. /\ t.sendFin_ = c.sendFin_ /\ t.UDP_ = c.UDP_
        /\ t.terminateConnection_ =>
             c.terminateConnection_ \/ "FIN" \in p.header.flags
    BY <2>1, <2>4, ReadHeaderFields
  <2> HIDE DEF t
  <2>6. ASSUME NEW f \in Ends, data'[f] # Null, data'[f].con_.UDP_
        PROVE  /\ data'[f].con_.sendFin_ => app'[f] = "disconnected"
               /\ data'[f].con_.terminateConnection_ =>
                    app'[Peer(f)] = "disconnected"
    BY <2>1, <2>2, <2>3, <2>5, <2>6 DEF FinIsMeant
  <2> QED BY <2>1, <2>6 DEF FinIsMeant
<1>3. ASSUME NEW e \in Ends, ConnectDone(e) PROVE FinIsMeant'
  <2>1. ~data'[e].con_.sendFin_ /\ ~data'[e].con_.terminateConnection_
    BY <1>3, BegunIs DEF ConnectDone, LinkInv
  <2> QED BY <1>0, <1>3, <2>1, PeerIs DEF ConnectDone, FinIsMeant
<1>4. ASSUME NEW e \in Ends, NEW m \in Messages, SendDone(e, m)
      PROVE  FinIsMeant'
  BY <1>4 DEF SendDone, FinIsMeant
<1>5. ASSUME NEW e \in Ends, DisconnectDone(e) PROVE FinIsMeant'
  <2>1. data[e].con_ \in ConnectionType
    BY <1>5 DEF DisconnectDone, ConnectionData
  <2>2. /\ data'[e].con_.terminateConnection_ =
             data[e].con_.terminateConnection_
        /\ data'[e].con_.UDP_ = data[e].con_.UDP_
    BY <1>5, <2>1 DEF DisconnectDone, ConnectionType
  <2>3. app'[e] = "disconnected"
    BY <1>5 DEF DisconnectDone, LinkInv, TypeOK
  <2>4. ASSUME NEW f \in Ends, NEW i \in DOMAIN net'[f],
               "FIN" \in net'[f][i].header.flags
        PROVE  app'[f] = "disconnected"
    BY <1>0, <1>5, <2>4 DEF DisconnectDone, FinIsMeant
  <2>5. ASSUME NEW f \in Ends, data'[f] # Null, data'[f].con_.UDP_
        PROVE  /\ data'[f].con_.sendFin_ => app'[f] = "disconnected"
               /\ data'[f].con_.terminateConnection_ =>
                    app'[Peer(f)] = "disconnected"
    <3>1. Peer(f) \in Ends
      BY PeerIs
    <3>2. CASE f = e
      BY <1>0, <1>5, <2>2, <2>3, <2>5, <3>1, <3>2 DEF DisconnectDone, FinIsMeant
    <3>3. CASE f # e
      <4>1. data'[f] = data[f]
        BY <1>5, <3>3 DEF DisconnectDone
      <4> QED BY <1>0, <2>5, <3>1, <4>1 DEF FinIsMeant
    <3> QED BY <3>2, <3>3
  <2> QED BY <2>4, <2>5 DEF FinIsMeant
<1>6. CASE UNCHANGED vars
  BY <1>6 DEF vars, FinIsMeant
<1> QED BY <1>1, <1>2, <1>3, <1>4, <1>5, <1>6, StepsAre

(* What ClosesAfterFin says of one step.                                    *)
EndsWithFin ==
  \A e \in Ends :
    /\ data[e] # Null /\ data[e].con_.UDP_ /\ data'[e] = Null
    /\ app[Peer(e)] # "disconnected"
    => FinIsWritten(e)

(* Only a pass removes a connection, and not without its FIN.               *)
LEMMA RemovalIsAnnounced ==
  ASSUME ~MayTimeOut, LinkInv, FinIsMeant, [Next]_vars
  PROVE  EndsWithFin
<1> SUFFICES ASSUME NEW e \in Ends, data[e] # Null, data[e].con_.UDP_,
                    data'[e] = Null, app[Peer(e)] # "disconnected"
             PROVE  FinIsWritten(e)
  BY DEF EndsWithFin
<1>1. ASSUME NEW f \in Ends, NEW s, PassDone(f, s), data[f] \in ConnectionData
      PROVE  FinIsWritten(e)
  <2>1. f = e
    BY <1>1 DEF PassDone
  <2> DEFINE d == RemoveAckedMessages(data[e])
  <2>2. d.con_ = data[e].con_ /\ s \in Pass(d, udpBeat[e], sent[e])
    BY <1>1, <2>1, RemoveAckedKeeps DEF PassDone
  <2> HIDE DEF d
  <2>3. s.d.con_.terminateConnection_
    BY <1>1, <2>1 DEF PassDone
  <2>4. ~data[e].con_.terminateConnection_
    BY DEF FinIsMeant
  <2>5. data[e].con_.sendFin_ /\ s.out # <<>>
    BY <2>2, <2>3, <2>4 DEF Pass, ConnectionAfter
  <2>6. \A j \in DOMAIN s.out : "FIN" \in s.out[j].header.flags
    BY <2>2, <2>5 DEF Pass, PacketsAfter, IsPacketOf
  <2> QED BY <1>1, <2>1, <2>5, <2>6 DEF PassDone, FinIsWritten
<1>2. ASSUME NEW f \in Ends, data'[f] \in ConnectionData,
             \A g \in Ends : g # f => data'[g] = data[g]
      PROVE  FALSE
  BY <1>2, NullAssumption
<1>3. ASSUME NEW f \in Ends, ConnectDone(f) PROVE FALSE
  <2>1. data'[f] \in ConnectionData
    BY <1>3, BegunIs DEF ConnectDone, LinkInv
  <2> QED BY <1>2, <1>3, <2>1 DEF ConnectDone
<1>4. ASSUME UNCHANGED vars PROVE FALSE
  BY <1>4 DEF vars
<1>5. ASSUME NEW f \in Ends, NEW d, NEW p, TakeDone(f, d, p) PROVE FALSE
  BY <1>2, <1>5 DEF TakeDone
<1>6. ASSUME NEW f \in Ends, NEW m \in Messages, SendDone(f, m) PROVE FALSE
  BY <1>2, <1>6 DEF SendDone
<1>7. ASSUME NEW f \in Ends, DisconnectDone(f) PROVE FALSE
  BY <1>2, <1>7 DEF DisconnectDone
<1> QED BY <1>1, <1>3, <1>4, <1>5, <1>6, <1>7, StepsAre

(* No connection that takes itself for UDP goes away silently: when none    *)
(* times out and the peer's application did not close, the pass that        *)
(* removes a connection wrote a packet with the FIN, whatever DroppedPacket *)
(* threw away (HandleSendFlags, ThreadUpdate).                              *)
THEOREM ConnectionsCloseAfterFin ==
  ASSUME ~MayTimeOut
  PROVE  Spec => ClosesAfterFin
<1>1. Init => FinIsMeant
  BY DEF Init, FinIsMeant
<1>2. LinkInv /\ FinIsMeant /\ [Next]_vars => FinIsMeant'
  BY NextFinIsMeant
<1>3. LinkInv /\ FinIsMeant /\ [Next]_vars => [EndsWithFin]_vars
  BY RemovalIsAnnounced
<1>4. ClosesAfterFin <=> [][EndsWithFin]_vars
  BY DEF ClosesAfterFin, EndsWithFin
<1>5. Spec => []FinIsMeant
  BY LinkIsTyped, <1>1, <1>2, PTL DEF Spec
<1> QED BY LinkIsTyped, <1>3, <1>4, <1>5, PTL DEF Spec

----------------------------------------------------------------------------------------------------------------------------------------------------------
(* The handshake. *)

(* The end has heard its peer, or a sendHeartBeat_ of it began as TRUE.     *)
MayEcho(e) == Peer(e) \in heard \/ e \in guessed

(* An echo is owed, an RST is on the network, and the handshake is over     *)
(* only after the end that echoes may.                                      *)
EchoMeansHeard ==
  \A e \in Ends :
    /\ data[e] # Null =>
         /\ data[e].con_.sendSyn_ \/ data[e].con_.sendHeartBeat_ => MayEcho(e)
         /\ ~data[e].con_.startConnection_ => MayEcho(Peer(e))
    /\ udpBeat[e] => e \in guessed
    /\ \A i \in DOMAIN net[e] : SaysReset(net[e][i]) => MayEcho(e)

(* EchoMeansHeard is kept.                                                  *)
LEMMA NextEchoMeansHeard ==
  ASSUME LinkInv, EchoMeansHeard, [Next]_vars
  PROVE  EchoMeansHeard'
<1>0. \A f \in Ends : Peer(f) \in Ends /\ Peer(Peer(f)) = f
  BY PeerIs
<1>1. ASSUME NEW e \in Ends, NEW s, PassDone(e, s), data[e] # Null,
             data[e] \in ConnectionData
      PROVE  EchoMeansHeard'
  <2> DEFINE d == RemoveAckedMessages(data[e])
             c == data[e].con_
  <2>1. /\ d.con_ = c /\ s \in Pass(d, udpBeat[e], sent[e])
        /\ heard' = heard /\ guessed' = guessed
    BY <1>1, RemoveAckedKeeps DEF PassDone
  <2> HIDE DEF d
  <2>2. /\ s.d.con_.sendSyn_ => c.sendSyn_
        /\ s.d.con_.sendHeartBeat_ => c.sendHeartBeat_
        /\ s.d.con_.startConnection_ = c.startConnection_
        /\ s.beat => udpBeat[e]
    BY <2>1 DEF Pass, ConnectionAfter
  <2>3. /\ c.sendSyn_ \/ c.sendHeartBeat_ => MayEcho(e)
        /\ ~c.startConnection_ => MayEcho(Peer(e))
        /\ udpBeat[e] => e \in guessed
    BY <1>1 DEF EchoMeansHeard
  <2>4. ASSUME NEW i \in DOMAIN s.out, SaysReset(s.out[i]) PROVE MayEcho(e)
    <3> DEFINE p == s.out[i]
    <3>1. IsPacketOf(d, udpBeat[e], sent[e], s.sent, p)
      BY <2>1, <2>4 DEF Pass, PacketsAfter
    <3> HIDE DEF p
    <3>2. "RST" \in p.header.flags => c.sendSyn_ \/ c.sendHeartBeat_
      BY <2>1, <3>1 DEF IsPacketOf
    <3>3. ASSUME "RSN" \in p.header.flags, "RST" \in p.inner.flags
          PROVE  udpBeat[e]
      <4>1. PICK k \in Wire, b \in BOOLEAN :
              p.inner = ResendHeader(k, b) /\ (b => udpBeat[e])
        BY <3>1, <3>3 DEF IsPacketOf, IsInner
      <4> QED BY <3>3, <4>1, ResendHeaderIs
    <3> QED BY <2>3, <2>4, <3>2, <3>3 DEF SaysReset, MayEcho, p
  <2> HIDE DEF c, d
  <2>5. ASSUME NEW f \in Ends, NEW i \in DOMAIN net'[f], SaysReset(net'[f][i])
        PROVE  MayEcho(f)
    BY <1>1, <2>4, <2>5 DEF PassDone, EchoMeansHeard
  <2>6. ASSUME NEW f \in Ends, data'[f] # Null
        PROVE  /\ data'[f].con_.sendSyn_ \/ data'[f].con_.sendHeartBeat_ =>
                    MayEcho(f)
               /\ ~data'[f].con_.startConnection_ => MayEcho(Peer(f))
    BY <1>1, <2>2, <2>3, <2>6 DEF PassDone, EchoMeansHeard
  <2>7. ASSUME NEW f \in Ends, udpBeat'[f] PROVE f \in guessed
    BY <1>1, <2>2, <2>3, <2>7 DEF PassDone, EchoMeansHeard, LinkInv, TypeOK
  <2>8. \A f \in Ends : MayEcho(f)' <=> MayEcho(f)
    BY <2>1 DEF MayEcho
  <2> QED BY <1>0, <2>1, <2>5, <2>6, <2>7, <2>8 DEF EchoMeansHeard
<1>2. ASSUME NEW e \in Ends, NEW i \in DOMAIN net[Peer(e)], NEW d,
             TakeDone(e, d, net[Peer(e)][i]), IsFor(e, d)
      PROVE  EchoMeansHeard'
  <2> DEFINE p == net[Peer(e)][i]
             c == d.con_
             t == ReadHeader(c, p)
  <2>1. /\ p \in PacketType /\ IsMade(p) /\ c \in ConnectionType
        /\ data'[e].con_ = t /\ net' = net /\ udpBeat' = udpBeat
        /\ heard \subseteq heard'
        /\ PassesWindow(c, p.header) => Peer(e) \in heard'
        /\ \A f \in Ends : f # e => data'[f] = data[f]
    BY <1>2 DEF TakeDone, ConnectionData
  <2>2. /\ guessed \subseteq guessed'
        /\ c.sendSyn_ \/ c.sendHeartBeat_ => MayEcho(e)'
        /\ ~c.startConnection_ => MayEcho(Peer(e))'
    <3>1. CASE data[e] # Null /\ d = data[e] /\ guessed' = guessed
      BY <2>1, <3>1 DEF EchoMeansHeard, MayEcho
    <3>2. CASE IsBegun(e, d)
      BY <3>2, BegunIs DEF LinkInv, MayEcho
    <3> QED BY <1>2, <3>1, <3>2 DEF IsFor
  <2>3. \A f \in Ends : MayEcho(f) => MayEcho(f)'
    BY <2>1, <2>2 DEF MayEcho
  <2>4. PassesWindow(c, p.header) => MayEcho(e)'
    BY <2>1 DEF MayEcho
  <2>5. SaysReset(p) => MayEcho(Peer(e))'
    BY <1>0, <2>3 DEF EchoMeansHeard
  <2> HIDE DEF p, c
  <2>6. /\ ~t.startConnection_ => ~c.startConnection_ \/ SaysReset(p)
        /\ t.sendSyn_ => c.sendSyn_ \/ PassesWindow(c, p.header)
        /\ t.sendHeartBeat_ => c.sendHeartBeat_ \/ PassesWindow(c, p.header)
    BY <2>1, ReadHeaderFields
  <2> HIDE DEF t
  <2>7. /\ t.sendSyn_ \/ t.sendHeartBeat_ => MayEcho(e)'
        /\ ~t.startConnection_ => MayEcho(Peer(e))'
    BY <2>2, <2>4, <2>5, <2>6
  <2>8. ASSUME NEW f \in Ends, data'[f] # Null
        PROVE  /\ data'[f].con_.sendSyn_ \/ data'[f].con_.sendHeartBeat_ =>
                    MayEcho(f)'
               /\ ~data'[f].con_.startConnection_ => MayEcho(Peer(f))'
    BY <1>0, <2>1, <2>3, <2>7, <2>8 DEF EchoMeansHeard
  <2>9. \A f \in Ends : /\ \A k \in DOMAIN net'[f] :
                             SaysReset(net'[f][k]) => MayEcho(f)'
                        /\ udpBeat'[f] => f \in guessed'
    BY <2>1, <2>2, <2>3 DEF EchoMeansHeard
  <2> QED BY <2>8, <2>9 DEF EchoMeansHeard
<1>3. ASSUME NEW e \in Ends, ConnectDone(e) PROVE EchoMeansHeard'
  <2>1. /\ guessed \subseteq guessed'
        /\ ~data'[e].con_.sendSyn_ /\ data'[e].con_.startConnection_
        /\ data'[e].con_.sendHeartBeat_ => e \in guessed'
    BY <1>3, BegunIs DEF ConnectDone, LinkInv
  <2>2. \A f \in Ends : MayEcho(f) => MayEcho(f)'
    BY <1>3, <2>1 DEF MayEcho, ConnectDone
  <2>3. data'[e].con_.sendSyn_ \/ data'[e].con_.sendHeartBeat_ => MayEcho(e)'
    BY <2>1 DEF MayEcho
  <2> QED BY <1>0, <1>3, <2>1, <2>2, <2>3 DEF ConnectDone, EchoMeansHeard
<1>4. ASSUME NEW e \in Ends, NEW m \in Messages, SendDone(e, m)
      PROVE  EchoMeansHeard'
  BY <1>4 DEF SendDone, EchoMeansHeard, MayEcho, histories
<1>5. ASSUME NEW e \in Ends, DisconnectDone(e) PROVE EchoMeansHeard'
  <2> DEFINE c == data[e].con_
             c2 == data'[e].con_
  <2>1. c \in ConnectionType /\ c2 = [c EXCEPT !.sendFin_ = TRUE]
    BY <1>5 DEF DisconnectDone, ConnectionData
  <2>2. /\ c2.sendSyn_ = c.sendSyn_ /\ c2.sendHeartBeat_ = c.sendHeartBeat_
        /\ c2.startConnection_ = c.startConnection_
    <3> HIDE DEF c, c2
    <3> QED BY <2>1 DEF ConnectionType
  <2> QED BY <1>5, <2>2 DEF DisconnectDone, EchoMeansHeard, MayEcho, histories
<1>6. CASE UNCHANGED vars
  BY <1>6 DEF vars, histories, EchoMeansHeard, MayEcho
<1> QED BY <1>1, <1>2, <1>3, <1>4, <1>5, <1>6, StepsAre

(* An end's handshake is over only when the peer has taken a packet of it,  *)
(* or when a sendHeartBeat_ of the peer began as TRUE, whatever the network *)
(* loses, repeats or reorders and whatever the numbers wrap to              *)
(* (HandleSendFlags, HandleReceiveFlags).                                   *)
THEOREM HandshakeEndsOnlyIfHeard == Spec => []AnsweredOnlyIfHeard
<1>1. Init => EchoMeansHeard
  BY DEF Init, EchoMeansHeard
<1>2. LinkInv /\ EchoMeansHeard /\ [Next]_vars => EchoMeansHeard'
  BY NextEchoMeansHeard
<1>3. EchoMeansHeard => AnsweredOnlyIfHeard
  BY PeerIs DEF EchoMeansHeard, AnsweredOnlyIfHeard, HandshakeIsOver, MayEcho
<1> QED BY LinkIsTyped, <1>1, <1>2, <1>3, PTL DEF Spec

=============================================================================

------------------------------- MODULE UdpLink -------------------------------
(***************************************************************************)
(* Two NetworkingSystems joined by UDP: at each end one connection with    *)
(* its queues, the update thread's pass over it (ThreadUpdate), the        *)
(* parsing of what arrives (ParseMessages) and the calls of the            *)
(* application. The network loses, duplicates, delays and reorders.        *)
(*                                                                         *)
(* Timers are choices: a resend or a heartbeat may be due at any pass, and *)
(* a connection may time out at any pass when MayTimeOut.                  *)
(***************************************************************************)
EXTENDS Connection, Sequences, SequencesExt

CONSTANTS
  Ends,           \* the two systems
  Messages,       \* messages the applications may send
  MustSend,       \* those created with mustSend_
  From,           \* the end whose application sends a message
  Connectors,     \* ends whose application calls Connect
  Disconnectors,  \* ends whose application may call Disconnect
  MayTimeOut,     \* DisconnectTimeOut may be true
  GarbageAcks,    \* values of an uninitialised destAcks_
  GarbageBeats,   \* values of an uninitialised sendHeartBeat_
  GarbageUDP,     \* values of an uninitialised UDP_
  Beaters,        \* ends whose heartbeat timer may be due
  Droppable,      \* packets of a pass that DroppedPacket may throw away
  MaxSent,        \* bound: packets an end sends
  MaxDelay,       \* packets of an end that may still arrive
  Null

ASSUME LinkAssumption ==
  /\ \E e, f \in Ends : e # f /\ Ends = {e, f}
  /\ MustSend \subseteq Messages
  /\ From \in [Messages -> Ends]
  /\ {Connectors, Disconnectors, Beaters} \subseteq SUBSET Ends
  /\ GarbageAcks \subseteq AckFields
  /\ GarbageBeats \subseteq BOOLEAN /\ GarbageUDP \subseteq BOOLEAN
  /\ MaxSent \in [Ends -> Nat]
  /\ Droppable \subseteq Nat
  /\ MaxDelay \in Nat \ {0}

VARIABLES
  data,       \* the ConnectionData to the peer, or Null
  udpBeat,    \* sendHeartBeat_ of udpConnection_
  app,        \* how far the application at an end has come
  net,        \* packets sent by an end that may still arrive, oldest first
  sent,       \* history: number of packets an end has sent
  received,   \* history: messages pushed on messagesReceived_ at an end
  heard,      \* history: ends of which the peer has accepted a packet
  guessed,    \* history: ends where some sendHeartBeat_ began as TRUE
  astray      \* history: ends whose acks may mean other packets

histories == <<received, heard, guessed, astray>>
vars == <<data, udpBeat, app, net, sent, histories>>

Peer(e) == CHOOSE f \in Ends : f # e

-----------------------------------------------------------------------------
NewData(garbageAcks, garbageBeat, garbageUDP) ==
  [con_ |-> NewConnection(garbageAcks, garbageBeat, garbageUDP),
   messagesToSend_ |-> <<>>,   \* queued by the application
   messagesSent_ |-> <<>>,     \* waiting for their ack
   given |-> {},               \* history: messages queued on this connection
   ref |-> 0]                  \* history: the number ackRefNum_ stands for

(* number is history: what ackNum_ would be were it not a u08.              *)
SentEntry ==
  [m_ : Messages, seqNum_ : Wire, ackNum_ : Wire, number : Nat]

ConnectionData ==
  [con_ : ConnectionType, messagesToSend_ : Seq(Messages),
   messagesSent_ : Seq(SentEntry), given : SUBSET Messages, ref : Nat]

ASSUME NullAssumption == Null \notin ConnectionData

HeaderType ==
  [flags : SUBSET Flags, seq : Wire, ackRef : Wire, acks : AckFields]

(* number and ref are history: the header's seq and ackRef before the cast. *)
PacketType ==
  [header : HeaderType, inner : HeaderType \cup {Null},
   body : SUBSET Messages, number : Nat, ref : Nat]

TypeOK ==
  /\ data \in [Ends -> ConnectionData \cup {Null}]
  /\ udpBeat \in [Ends -> BOOLEAN]
  /\ app \in [Ends -> {"idle", "connected", "disconnected"}]
  /\ net \in [Ends -> Seq(PacketType)]
  /\ \A e \in Ends : Len(net[e]) <= MaxDelay
  /\ sent \in [Ends -> Nat]
  /\ \A e \in Ends : sent[e] <= MaxSent[e]
  /\ received \in [Ends -> SUBSET Messages]
  /\ heard \subseteq Ends /\ guessed \subseteq Ends /\ astray \subseteq Ends

Init ==
  /\ data = [e \in Ends |-> Null]
  /\ udpBeat \in [Ends -> GarbageBeats]
  /\ app = [e \in Ends |-> "idle"]
  /\ net = [e \in Ends |-> <<>>]
  /\ sent = [e \in Ends |-> 0]
  /\ received = [e \in Ends |-> {}]
  /\ heard = {}
  /\ guessed = {e \in Ends : udpBeat[e]}
  /\ astray = {}

-----------------------------------------------------------------------------
(* The pass of ThreadUpdate over a connection, step by step. A step is a    *)
(* record: the connection's data, sendHeartBeat_ of udpConnection_, the     *)
(* packets written so far, how many the end has sent or dropped, and which  *)
(* of them DroppedPacket throws away.                                       *)
Start(e, d, dropped) ==
  [d |-> d, beat |-> udpBeat[e], out |-> <<>>, sent |-> sent[e],
   dropped |-> dropped]

IsTakenAsAcked(d, i) ==
  IsAcked(d.messagesSent_[i].ackNum_, d.con_.ackRefNum_, d.con_.destAcks_)

(* RemoveAckedMessages: of the waiting messages, in their order, those      *)
(* without an ack are kept.                                                 *)
RemoveAckedMessages(d) ==
  LET n == Len(d.messagesSent_)
      kept[i \in 0 .. n] ==
        IF i = 0 THEN <<>>
        ELSE IF IsTakenAsAcked(d, i) THEN kept[i - 1]
        ELSE Append(kept[i - 1], d.messagesSent_[i])
  IN  [d EXCEPT !.messagesSent_ = kept[n]]

(* One call of SendWith. What a connection that takes itself for TCP writes *)
(* to its own socket reaches nobody.                                        *)
Emit(step, flags, inner, body) ==
  LET c == step.d.con_
      number == step.sent + 1
      dropped == c.UDP_ /\ number \in step.dropped
      packet == [header |-> Header(c, flags, c.nextSequenceNum_),
                 inner |-> inner, body |-> body,
                 number |-> number, ref |-> c.lastSeqRecieved_]
  IN  [step EXCEPT !.d.con_ = SendWith(c, flags, dropped),
                   !.out = IF c.UDP_ /\ ~dropped THEN Append(@, packet) ELSE @,
                   !.sent = number]

(* UpdateResend: every message whose timer has run out travels again, in a  *)
(* packet of its own number; its ack is expected for that number.           *)
Resend(step, i) ==
  LET entry == step.d.messagesSent_[i]
      inner == ResendHeader(entry.seqNum_, step.beat)
      again == Emit([step EXCEPT !.beat = FALSE], {"RSN"}, inner, {entry.m_})
  IN  [again EXCEPT !.d.messagesSent_[i] =
         [entry EXCEPT !.ackNum_ = step.d.con_.nextSequenceNum_,
                       !.number = again.sent]]

UpdateResend(step, due) ==
  LET n == Len(step.d.messagesSent_)
      after[i \in 0 .. n] ==
        IF i = 0 THEN step
        ELSE IF i \in due THEN Resend(after[i - 1], i) ELSE after[i - 1]
  IN  after[n]

(* UpdateSend: the oldest queued message, if any, once it is latency_ old.  *)
UpdateSend(step, ready) ==
  IF step.d.messagesToSend_ = <<>> \/ ~ready THEN step
  ELSE LET m == Head(step.d.messagesToSend_)
           c == step.d.con_
           done == Emit(step, {}, Null, {m})
           entry == [m_ |-> m, seqNum_ |-> c.nextSequenceNum_,
                     ackNum_ |-> c.nextSequenceNum_, number |-> done.sent]
       IN  [done EXCEPT
              !.d.messagesToSend_ = Tail(@),
              !.d.messagesSent_ = IF c.UDP_ /\ m \in MustSend
                                  THEN Append(@, entry) ELSE @]

UpdateHeartbeat(step, beat) ==
  IF beat THEN Emit(step, {"HRT"}, Null, {})
  ELSE IF step.d.con_.sendHeartBeat_
  THEN Emit(step, IF step.d.con_.UDP_ THEN {} ELSE {"HRT"}, Null, {})
  ELSE step

(* How far a packet may be from the acknowledged one, newer or older, for   *)
(* the shift of RemoveAckedMessages to find its bit or none.                *)
InReach(number, ref) ==
  number - ref <= IntBits - AckBits /\ ref - number < IntBits

AckOutOfReach(d) ==
  \E i \in DOMAIN d.messagesSent_ :
    IsTakenAsAcked(d, i) /\ ~InReach(d.messagesSent_[i].number, d.ref)

KeepNewest(packets) ==
  SubSeq(packets, 1 + Len(packets) - MaxDelay, Len(packets))

Update(e) ==
  /\ data[e] # Null
  /\ LET d == RemoveAckedMessages(data[e]) IN
     \E due \in SUBSET DOMAIN d.messagesSent_, ready \in BOOLEAN,
        beat \in BOOLEAN, timedOut \in BOOLEAN, lost \in SUBSET Droppable :
       LET dropped == {sent[e] + k : k \in lost}
           resent == UpdateResend(Start(e, d, dropped), due)
           done == UpdateHeartbeat(UpdateSend(resent, ready), beat)
           packets == net[e] \o done.out
           ends == done.d.con_.terminateConnection_ \/ timedOut
       IN /\ ready => d.messagesToSend_ # <<>>
          /\ beat => e \in Beaters
          /\ timedOut => MayTimeOut
          /\ done.sent <= MaxSent[e] /\ dropped \subseteq 1 .. done.sent
          /\ sent' = [sent EXCEPT ![e] = done.sent]
          /\ udpBeat' = [udpBeat EXCEPT ![e] = done.beat]
          /\ net' = [net EXCEPT ![e] =
                       IF Len(packets) > MaxDelay THEN KeepNewest(packets)
                                                  ELSE packets]
             \* handleDisconnectFunc_, RemoveConnection
          /\ data' = [data EXCEPT ![e] = IF ends THEN Null ELSE done.d]
          /\ astray' = IF ends \/ AckOutOfReach(data[e]) THEN astray \cup {e}
                                                         ELSE astray
  /\ UNCHANGED <<app, received, heard, guessed>>

-----------------------------------------------------------------------------
(* ParseMessages for a packet of the peer: any that may still arrive, any   *)
(* number of times, in any order.                                           *)
Take(e, d, packet) ==
  LET passes == PassesWindow(d.con_, packet.header)
      up == IsHandedUp(d.con_, packet)
      asItself == up /\ Rebuilt(d.con_, packet.header) = packet.number
  IN
  /\ data' = [data EXCEPT ![e] =
       [d EXCEPT !.con_ = ReadHeader(@, packet),
                 !.ref = IF passes /\ "RSN" \in packet.header.flags
                         THEN 0 ELSE packet.ref]]
  /\ received' = IF up THEN [received EXCEPT ![e] = @ \cup packet.body]
                       ELSE received
  /\ heard' = IF passes THEN heard \cup {Peer(e)} ELSE heard
  /\ astray' = IF passes /\ ~asItself THEN astray \cup {Peer(e)} ELSE astray
  /\ UNCHANGED <<udpBeat, app, net, sent>>

ParseMessages(e) ==
  \E i \in DOMAIN net[Peer(e)] :
    /\ data[e] # Null
    /\ Take(e, data[e], net[Peer(e)][i])
    /\ UNCHANGED guessed

(* What a new connection finds in its memory.                               *)
Guess(e, beat) == guessed' = IF beat THEN guessed \cup {e} ELSE guessed

(* A packet of an unknown sender makes a connection if it carries a SYN.    *)
ParseNewConnection(e) ==
  \E i \in DOMAIN net[Peer(e)], acks \in GarbageAcks, beat \in GarbageBeats,
     udp \in GarbageUDP :
    /\ data[e] = Null
    /\ "SYN" \in net[Peer(e)][i].header.flags
    /\ Take(e, NewData(acks, beat, udp), net[Peer(e)][i])
    /\ Guess(e, beat)

-----------------------------------------------------------------------------
(* Calls of the application. *)

Connect(e) ==
  \E acks \in GarbageAcks, beat \in GarbageBeats, udp \in GarbageUDP :
    /\ e \in Connectors
    /\ app[e] = "idle"
    /\ data[e] = Null
    /\ data' = [data EXCEPT ![e] = NewData(acks, beat, udp)]
    /\ app' = [app EXCEPT ![e] = "connected"]
    /\ Guess(e, beat)
    /\ UNCHANGED <<udpBeat, net, sent, received, heard, astray>>

Send(e, m) ==
  /\ data[e] # Null
  /\ From[m] = e
  /\ m \notin data[e].given
  /\ data' = [data EXCEPT ![e].messagesToSend_ = Append(@, m),
                          ![e].given = @ \cup {m}]
  /\ UNCHANGED <<udpBeat, app, net, sent, histories>>

Disconnect(e) ==
  /\ e \in Disconnectors
  /\ data[e] # Null
  /\ app[e] # "disconnected"
  /\ data' = [data EXCEPT ![e].con_ = Terminate(@)]
  /\ app' = [app EXCEPT ![e] = "disconnected"]
  /\ UNCHANGED <<udpBeat, net, sent, histories>>

Next ==
  \E e \in Ends :
    \/ Update(e)
    \/ ParseMessages(e)
    \/ ParseNewConnection(e)
    \/ Connect(e)
    \/ \E m \in Messages : Send(e, m)
    \/ Disconnect(e)

Spec == Init /\ [][Next]_vars

-----------------------------------------------------------------------------
(* A message given to a connection that is not lost: it is queued, it waits *)
(* for its ack, or it has been handed up at the peer.                       *)
IsKept(e, m) ==
  \/ m \in ToSet(data[e].messagesToSend_)
  \/ \E i \in DOMAIN data[e].messagesSent_ : data[e].messagesSent_[i].m_ = m
  \/ m \in received[Peer(e)]

(* RemoveAckedMessages and UpdateResend forget no message that must be      *)
(* sent while its connection lives, over losses, repeats, resends and       *)
(* wraps, as long as the ack that removed a message was in reach of the     *)
(* shift, the peer rebuilt the numbers of this end's packets truly, and     *)
(* this is the end's first connection. The packet a message last travelled  *)
(* in is the one the ack must name.                                         *)
MustSendNotForgotten ==
  \A e \in Ends : data[e] # Null /\ data[e].con_.UDP_ /\ e \notin astray =>
    \A m \in MustSend \cap data[e].given : IsKept(e, m)

HandshakeIsOver(e) == data[e] # Null /\ ~data[e].con_.startConnection_

(* HandleReceiveFlags: an end stops asking for the handshake only when the  *)
(* peer has taken a packet of it, whatever combination of SYN, RST and HRT  *)
(* the packets carried, or when a sendHeartBeat_ of the peer began as TRUE  *)
(* and made it write an RST that echoes nothing.                            *)
AnsweredOnlyIfHeard ==
  \A e \in Ends :
    HandshakeIsOver(e) => e \in heard \/ Peer(e) \in guessed

FinIsWritten(e) == net'[e] # <<>> /\ "FIN" \in Last(net'[e]).header.flags

(* HandleSendFlags: a connection that takes itself for UDP and that the     *)
(* peer did not close ends with a FIN to the peer, whatever packets         *)
(* DroppedPacket threw away.                                                *)
ClosesAfterFin ==
  [][\A e \in Ends :
       /\ data[e] # Null /\ data[e].con_.UDP_ /\ data'[e] = Null
       /\ app[Peer(e)] # "disconnected"
       => FinIsWritten(e)]_vars
=============================================================================

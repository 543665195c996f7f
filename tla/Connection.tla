----------------------------- MODULE Connection -----------------------------
(***************************************************************************)
(* The protocol state of one UDP Connection and what sending and receiving *)
(* a packet do to it (Connection.cpp). A connection is a record of the     *)
(* fields of the class that the protocol reads; the operators map a record *)
(* to the record after the call, or to the header it writes. ping_ and the *)
(* packet-loss statistics are left out; of the sockets, only that those of *)
(* a connection that was never opened cannot be used.                      *)
(***************************************************************************)
EXTENDS SequenceNumbers

(* PacketHeaderFlags that some code path sets.                              *)
Flags == {"SYN", "RST", "FIN", "HRT", "RSN"}

(* A connection begins with packet number 1.                                *)
ASSUME ConnectionAssumption == U08_MAX > 1

Wire == 0 .. U08_MAX - 1
AckFields == SUBSET (0 .. AckBits - 1)

ConnectionType ==
  [nextSequenceNum_ : Wire, lastSeqRecieved_ : 0 .. U32_MAX - 1,
   packetsRecieved_ : AckFields, ackRefNum_ : Wire, destAcks_ : AckFields,
   UDP_ : BOOLEAN, sendHeartBeat_ : BOOLEAN, sendSyn_ : BOOLEAN,
   sendFin_ : BOOLEAN, startConnection_ : BOOLEAN,
   terminateConnection_ : BOOLEAN]

(* Connection(Address). destAcks_, sendHeartBeat_ and UDP_ are in no        *)
(* initialiser list: they start with what the memory held.                  *)
NewConnection(garbageAcks, garbageBeat, garbageUDP) ==
  [nextSequenceNum_ |-> 1, lastSeqRecieved_ |-> 0, packetsRecieved_ |-> {},
   ackRefNum_ |-> 0, destAcks_ |-> garbageAcks, UDP_ |-> garbageUDP,
   sendHeartBeat_ |-> garbageBeat, sendSyn_ |-> FALSE, sendFin_ |-> FALSE,
   startConnection_ |-> TRUE, terminateConnection_ |-> FALSE]

Terminate(c) == [c EXCEPT !.sendFin_ = TRUE]

-----------------------------------------------------------------------------
(* Sending. *)

(* The flags HandleSendFlags puts in the header on top of the caller's.     *)
SentFlags(c, flags) ==
  flags \cup (IF c.sendHeartBeat_ THEN {"HRT", "RST"} ELSE {})
        \cup (IF c.sendSyn_ THEN {"SYN", "RST"} ELSE {})
        \cup (IF c.sendFin_ THEN {"FIN"} ELSE {})
        \cup (IF c.startConnection_ THEN {"SYN"} ELSE {})

(* HandleSendFlags: the echoes are owed no longer; sending a FIN ends the   *)
(* connection.                                                              *)
HandleSendFlags(c, flags) ==
  [c EXCEPT !.sendHeartBeat_ = FALSE,
            !.sendSyn_ = FALSE,
            !.terminateConnection_ = @ \/ "FIN" \in SentFlags(c, flags)]

(* AddHeaderToData: the header in front of the data.                        *)
Header(c, flags, seq) ==
  [flags |-> SentFlags(c, flags), seq |-> seq,
   ackRef |-> AsU08(c.lastSeqRecieved_), acks |-> c.packetsRecieved_]

(* BaseSend: a connection that takes itself for TCP writes to a socket of   *)
(* its own, which Connection(Address) never opened; the failure terminates. *)
BaseSend(c) == IF c.UDP_ THEN c ELSE Terminate(c)

(* Mutant of SendWith: the flags are consumed before the drop.              *)
SendWithFlagsFirst(c, flags, dropped) ==
  [BaseSend(HandleSendFlags(c, flags)) EXCEPT !.nextSequenceNum_ = AsU08(@ + 1)]

(* SendWith: one sequence number per packet, resent or not, also for the    *)
(* packet that DroppedPacket throws away before its header is made.         *)
SendWith(c, flags, dropped) ==
  [(IF dropped THEN c ELSE BaseSend(HandleSendFlags(c, flags)))
     EXCEPT !.nextSequenceNum_ = AsU08(@ + 1)]

(* ResendEncapsulate writes the inner header of a resent message with       *)
(* udpConnection_, a connection that only ever listens: nothing received,   *)
(* handshake never answered, sendHeartBeat_ as the memory held it until the *)
(* first such header.                                                       *)
ResendHeader(seq, garbageBeat) ==
  Header(NewConnection({}, garbageBeat, TRUE), {}, seq)

-----------------------------------------------------------------------------
(* Receiving. *)

(* Mutant of HandleReceiveFlags: any SYN counts as the answer to ours.      *)
HandleReceiveFlagsAnySyn(c, flags) ==
  [c EXCEPT
     !.terminateConnection_ = @ \/ "FIN" \in flags,
     !.startConnection_ = @ /\ "SYN" \notin flags,
     !.sendSyn_ = @ \/ ("SYN" \in flags /\ "RST" \notin flags),
     !.sendHeartBeat_ = @ \/ ("HRT" \in flags /\ "RST" \notin flags)]

HandleReceiveFlags(c, flags) ==
  [c EXCEPT
     !.terminateConnection_ = @ \/ "FIN" \in flags,
     !.startConnection_ = @ /\ ~({"SYN", "RST"} \subseteq flags),
     !.sendSyn_ = @ \/ ("SYN" \in flags /\ "RST" \notin flags),
     !.sendHeartBeat_ = @ \/ ("HRT" \in flags /\ "RST" \notin flags)]

ReadAcks(c, header) ==
  [c EXCEPT !.ackRefNum_ = header.ackRef, !.destAcks_ = header.acks]

Rebuilt(c, header) == ConvertSequenceNumber(header.seq, c.lastSeqRecieved_)

(* The packet is neither stale nor a duplicate.                             *)
PassesWindow(c, header) ==
  IsAccepted(c.packetsRecieved_, c.lastSeqRecieved_, Rebuilt(c, header))

MoveWindow(c, header) ==
  LET wrapped == Rebuilt(c, header) IN
  [c EXCEPT !.lastSeqRecieved_ = LastAfter(@, wrapped),
            !.packetsRecieved_ =
               AcksAfter(@, c.lastSeqRecieved_, wrapped)]

(* ReadHeader: the acks are taken from every packet, the flags only from    *)
(* one that passes; a resent packet carries a second header, read by        *)
(* ReadResentPacketHeader, whose acks and flags are taken too.              *)
ReadHeader(c, packet) ==
  LET moved  == MoveWindow(ReadAcks(c, packet.header), packet.header)
      handled == HandleReceiveFlags(moved, packet.header.flags)
  IN  IF ~PassesWindow(c, packet.header) THEN moved
      ELSE IF "RSN" \notin packet.header.flags THEN handled
      ELSE HandleReceiveFlags(ReadAcks(handled, packet.inner),
                              packet.inner.flags)

(* What ReadHeader returns is not -1. A resent packet returns the rebuilt   *)
(* inner number.                                                            *)
IsHandedUp(c, packet) ==
  LET moved == MoveWindow(c, packet.header) IN
  /\ PassesWindow(c, packet.header)
  /\ IF "RSN" \in packet.header.flags
     THEN Rebuilt(moved, packet.inner) # Expired
     ELSE Rebuilt(c, packet.header) # Expired
=============================================================================

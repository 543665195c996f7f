---------------------------- MODULE ReceiveWindow ----------------------------
(***************************************************************************)
(* The receiving half of one UDP connection: Connection::ReadHeader seen   *)
(* by packets that the network lost, duplicated, delayed or reordered.     *)
(* The sender numbers its packets 1, 2, 3, ...; only the low 8 bits        *)
(* travel. The true number is a history of the model, never seen by the    *)
(* code, and the properties compare the two.                               *)
(***************************************************************************)
EXTENDS SequenceNumbers

CONSTANTS
  MaxPackets,  \* the sender stops after so many packets
  MaxJump      \* how far from the newest packet an arriving one may be

ASSUME ReceiveAssumption ==
  /\ MaxPackets \in Nat
  /\ MaxJump \in Nat
  /\ MaxPackets < Expired

VARIABLES
  lastSeqRecieved_,  \* u32, rebuilt number of the newest packet
  packetsRecieved_,  \* u16 bit field, as a set of distances
  delivered,         \* history: true numbers handed up to ParseMessages
  outcome            \* history: the packet that arrived last and its fate

vars == <<lastSeqRecieved_, packetsRecieved_, delivered, outcome>>

Packets == 1 .. MaxPackets

TypeOK ==
  /\ lastSeqRecieved_ \in 0 .. U32_MAX - 1
  /\ packetsRecieved_ \in SUBSET (0 .. AckBits - 1)
  /\ delivered \in SUBSET Packets
  /\ outcome \in [packet : Packets \cup {0}, accepted : BOOLEAN]

Init ==
  /\ lastSeqRecieved_ = 0
  /\ packetsRecieved_ = {}
  /\ delivered = {}
  /\ outcome = [packet |-> 0, accepted |-> FALSE]

(* The network gives the receiver any packet of the sender that is at most *)
(* MaxJump away from the newest one: lost ones are never given, duplicates  *)
(* are given again, late ones after newer ones.                             *)
CanArrive(n) ==
  \E newest \in delivered \cup {0} :
    /\ \A k \in delivered : k <= newest
    /\ newest - MaxJump <= n
    /\ n <= newest + MaxJump

ReadHeader(n) ==
  LET wrapped == ConvertSequenceNumber(AsU08(n), lastSeqRecieved_)
      accepted == /\ IsAccepted(packetsRecieved_, lastSeqRecieved_, wrapped)
                  /\ wrapped # Expired
  IN  /\ CanArrive(n)
      /\ lastSeqRecieved_' = LastAfter(lastSeqRecieved_, wrapped)
      /\ packetsRecieved_' =
           AcksAfter(packetsRecieved_, lastSeqRecieved_, wrapped)
      /\ delivered' = IF accepted THEN delivered \cup {n} ELSE delivered
      /\ outcome' = [packet |-> n, accepted |-> accepted]

Next == \E n \in Packets : ReadHeader(n)

Spec == Init /\ [][Next]_vars

-----------------------------------------------------------------------------
(* The rebuilt number of the newest packet is the number its sender gave   *)
(* it: lastSeqRecieved_ is 0 or the true number of a packet handed up, and  *)
(* none handed up is newer.                                                 *)
LastIsTrue ==
  /\ lastSeqRecieved_ \in delivered \cup {0}
  /\ \A n \in delivered : n <= lastSeqRecieved_

(* The ack bit field tells the peer exactly which of the AckBits newest     *)
(* packets were handed up: no packet is acknowledged that was not, none is  *)
(* forgotten.                                                               *)
AcksAreTrue ==
  packetsRecieved_ =
    {d \in 0 .. AckBits - 1 : lastSeqRecieved_ - d \in delivered}

(* What the sender of a message reads in the header that comes back is what *)
(* happened: RemoveAckedMessages takes the message of packet n as           *)
(* acknowledged exactly when n was handed up and the field still has a bit  *)
(* for it. This holds while n is neither too far ahead of the newest packet *)
(* nor too far behind for the shift of the mask.                            *)
AckMeansHandedUp ==
  \A n \in Packets :
    n - lastSeqRecieved_ <= IntBits - AckBits /\ lastSeqRecieved_ - n < IntBits
    => (IsAcked(AsU08(n), AsU08(lastSeqRecieved_), packetsRecieved_)
          <=> n \in delivered /\ lastSeqRecieved_ - n < AckBits)

(* A packet that was handed up before is handed up again only while it is   *)
(* the newest one: ReadHeader throws away every other duplicate.            *)
OnlyNewestRepeats ==
  [][outcome'.accepted /\ outcome'.packet \in delivered
       => outcome'.packet = lastSeqRecieved_]_vars

(* A packet is refused only when it was handed up before or when the bit    *)
(* field has no bit for it any more: loss and reordering within the field   *)
(* cost nothing.                                                            *)
RefusedOnlyIfOldOrSeen ==
  [][~outcome'.accepted
       => \/ outcome'.packet \in delivered
          \/ outcome'.packet <= lastSeqRecieved_ - AckBits]_vars

(* ReadHeader with 8-bit numbers does what the specification with true      *)
(* numbers allows.                                                          *)
Abstract == INSTANCE PacketWindow WITH
  Window <- AckBits, newest <- lastSeqRecieved_

RefinesPacketWindow == Abstract!Spec
=============================================================================

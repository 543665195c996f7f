---------------------------- MODULE FileTransfer ----------------------------
(***************************************************************************)
(* A FileShare client sends a file to another: the chunks carry the        *)
(* numbers 1, 2, ... of the sender, the message that ends the file the     *)
(* number 0. They are not must-send messages, so the connection under them *)
(* loses and reorders, and may hand up its newest packet again             *)
(* (PacketWindow). A packet with SYN from a sender that is not connected   *)
(* makes a new connection, also when it is a late one of a connection that *)
(* was removed. The receiver is the loop of ConsoleIO: it keeps what it    *)
(* received in a priority queue and takes one message in each pass.        *)
(***************************************************************************)
EXTENDS ConsoleIO

CONSTANTS
  Chunks,     \* length of the file in chunks
  Weathers,   \* what the link may do, see weather
  TypedIn,    \* bound: the weathers in which the user types
  MaxCopies,  \* bound: how often the first connection hands up one packet;
              \* a later one hands it up once
  MaxMade     \* bound: connections the receiver makes with this sender

ASSUME TransferAssumption ==
  /\ Weathers \subseteq {"orderly", "any"} /\ TypedIn \subseteq Weathers
  /\ Chunks \in Nat \ {0} /\ MaxCopies \in Nat \ {0} /\ MaxMade \in Nat \ {0}

VARIABLES
  weather,      \* "orderly": nothing is lost or repeated and the end comes
                \* last; else "any"
  nextMessageSeq, \* the next chunk; past the end once the end is sent
  syns,         \* the last packet that says SYN: the sender has not heard
                \* the receiver before it sends it
  flight,       \* packets under way; 0 has SYN and no message
  made,         \* connections the receiver has made with this sender
  connected,    \* it has one
  disconnect,   \* and is to remove it
  got,          \* how often its connection has handed up each packet
  handed,       \* messages of the connection not yet received
  messagesReceived_, \* the priority queue: how many of each number
  lastSeqTaken,
  file,         \* chunks written to the file at the receiver
  ended         \* the end was taken

link == <<weather, syns, flight, made, connected, got>>
client == <<messagesReceived_, lastSeqTaken, file, ended>>
vars == <<console, link, nextMessageSeq, disconnect, handed, client>>

(* The receiver turns the number 0 of the end into UINT_MAX, the largest.   *)
Final == Chunks + 1
Numbers == 1 .. Final
Packets == 0 .. Final

TypeOK ==
  /\ ConsoleTypeOK
  /\ weather \in Weathers
  /\ nextMessageSeq \in 1 .. Final + 1
  /\ syns \in Packets /\ flight \subseteq Packets
  /\ made \in 0 .. MaxMade
  /\ connected \in BOOLEAN /\ disconnect \in BOOLEAN /\ ended \in BOOLEAN
  /\ got \in [Numbers -> 0 .. MaxCopies]
  /\ handed \in Seq(Numbers)
  /\ messagesReceived_ \in [Numbers -> Nat]
  /\ lastSeqTaken \in 0 .. Chunks
  /\ file \in Seq(1 .. Chunks)

Silence == [n \in Numbers |-> 0]

(* Connect: the update thread may send the SYN before the first chunk.      *)
Init ==
  /\ ConsoleInit
  /\ weather \in Weathers
  /\ nextMessageSeq = 1
  /\ syns = 0 /\ flight \in {{}, {0}}
  /\ made = 0 /\ connected = FALSE /\ disconnect = FALSE
  /\ got = Silence /\ handed = <<>>
  /\ messagesReceived_ = Silence
  /\ lastSeqTaken = 0 /\ file = <<>> /\ ended = FALSE

-----------------------------------------------------------------------------
(* SendFileMsg: the next chunk ReadFile returns or, when it returns none,   *)
(* the end. Its packet says SYN until the sender has heard the receiver.    *)
SendFileMsg ==
  /\ nextMessageSeq \in Numbers
  /\ flight' = flight \cup {nextMessageSeq}
  /\ nextMessageSeq' = nextMessageSeq + 1
  /\ \/ syns = nextMessageSeq - 1 /\ syns' = nextMessageSeq
     \/ made > 0 /\ syns' = syns
  /\ UNCHANGED <<console, weather, made, connected, disconnect, got, handed,
                 client>>

(* The connection: see PacketWindow for what is handed up.                  *)
IsNewest(n) == \A m \in Numbers : m > n => got[m] = 0
Accepts(n) == got[n] = 0 \/ IsNewest(n)

Delivered(n, again) ==
  /\ n \in flight
  /\ weather = "orderly" => ~again /\ (n = Final => flight = {n})
  /\ flight' = IF again THEN flight ELSE flight \ {n}
  /\ UNCHANGED <<console, weather, nextMessageSeq, syns, client>>

(* ParseMessages, from a sender that is connected.                          *)
Arrive(n, again) ==
  /\ connected /\ Delivered(n, again)
  /\ IF n \in Numbers /\ Accepts(n)
     THEN /\ got[n] < MaxCopies /\ (made > 1 => got[n] = 0)
          /\ got' = [got EXCEPT ![n] = @ + 1]
          /\ handed' = Append(handed, n)
     ELSE UNCHANGED <<got, handed>>
  /\ UNCHANGED <<made, connected, disconnect>>

(* ParseMessages, from one that is not: a packet with SYN makes a new       *)
(* connection, to which every packet is new.                                *)
ArriveNew(n, again) ==
  /\ ~connected /\ Delivered(n, again)
  /\ n <= syns /\ made < MaxMade
  /\ made' = made + 1
  /\ connected' = TRUE /\ disconnect' = FALSE
  /\ got' = [m \in Numbers |-> IF m = n THEN 1 ELSE 0]
  /\ handed' = IF n \in Numbers THEN <<n>> ELSE <<>>

(* Another one is dropped.                                                  *)
ArriveUnknown(n, again) ==
  /\ ~connected /\ Delivered(n, again)
  /\ n > syns
  /\ UNCHANGED <<made, connected, disconnect, got, handed>>

Lose(n) ==
  /\ weather = "any" /\ n \in flight
  /\ flight' = flight \ {n}
  /\ UNCHANGED <<console, weather, nextMessageSeq, syns, made, connected,
                 disconnect, got, handed, client>>

(* The update thread removes the connection the receiver has disconnected,  *)
(* or one it has not heard for too long, and the messages not yet received  *)
(* with it.                                                                 *)
RemoveConnection ==
  /\ connected /\ (disconnect \/ weather = "any")
  /\ connected' = FALSE /\ disconnect' = FALSE
  /\ handed' = <<>>
  /\ UNCHANGED <<console, weather, nextMessageSeq, syns, flight, made, got,
                 client>>

-----------------------------------------------------------------------------
(* The loop of the receiver. *)

Waiting == {n \in Numbers : messagesReceived_[n] > 0}
Top == CHOOSE n \in Waiting : \A m \in Waiting : n <= m

(* Mutant of IsNext: any later chunk will do.                               *)
IsNextAny(n) == n > lastSeqTaken \/ n = Final

(* Mutant of IsNext: the end, too, has to come in turn, counted from 0.     *)
IsNextCounted(n) == n = lastSeqTaken \/ n = Final

(* The chunk after the last one taken, or the end whatever came before it.  *)
IsNext(n) == n = lastSeqTaken + 1 \/ n = Final

(* Mutant of HandleFileSaveMessage: without the return after the end.       *)
HandleFileSaveMessageNoReturn(n) ==
  /\ file' = Append(file, n)
  /\ ended' = (ended \/ n = Final)
  /\ disconnect' = IF n = Final THEN connected ELSE disconnect
  /\ lastSeqTaken' = IF n = Final THEN 0 ELSE lastSeqTaken + 1

(* The end disconnects the connection in the slot it came over, which is    *)
(* the first free one each time it is made, and starts the count anew; a    *)
(* chunk is appended.                                                       *)
HandleFileSaveMessage(n) ==
  /\ file' = IF n = Final THEN file ELSE Append(file, n)
  /\ ended' = (ended \/ n = Final)
  /\ disconnect' = IF n = Final THEN connected ELSE disconnect
  /\ lastSeqTaken' = IF n = Final THEN 0 ELSE lastSeqTaken + 1

Maintaining ==
  /\ run = "maintain" /\ run' = "command"
  /\ UNCHANGED <<reader, m_reading, input, typed, safeQueue>>
  /\ UNCHANGED <<link, nextMessageSeq, handed>>

Pop == messagesReceived_' = [messagesReceived_ EXCEPT ![Top] = @ - 1]

(* GetNextMessage, by what is on top: nothing, or a message out of turn,    *)
(* which stays; one older than the last taken, which is dropped; the next.  *)
NoNextMessage ==
  /\ Maintaining
  /\ Waiting # {} => ~(Top >= lastSeqTaken /\ IsNext(Top))
  /\ IF Waiting # {} /\ Top < lastSeqTaken THEN Pop ELSE UNCHANGED messagesReceived_
  /\ UNCHANGED <<disconnect, lastSeqTaken, file, ended>>

TakeNext ==
  /\ Maintaining
  /\ Waiting # {} /\ Top >= lastSeqTaken /\ IsNext(Top)
  /\ Pop
  /\ HandleFileSaveMessage(Top)

(* Receive returns one message of the connection, if it has any;            *)
(* ReceiveFileMsg puts it in the priority queue.                            *)
ReceiveFileMsg ==
  /\ run = "receive" /\ run' = "maintain"
  /\ IF handed = <<>>
     THEN UNCHANGED <<handed, messagesReceived_>>
     ELSE /\ handed' = Tail(handed)
          /\ messagesReceived_' = [messagesReceived_ EXCEPT ![Head(handed)] = @ + 1]
  /\ UNCHANGED <<reader, m_reading, input, typed, safeQueue>>
  /\ UNCHANGED <<link, nextMessageSeq, disconnect, lastSeqTaken, file, ended>>

transfer == <<link, nextMessageSeq, disconnect, handed, client>>

RunStep ==
  \/ NoNextMessage \/ TakeNext \/ ReceiveFileMsg
  \/ ConsoleStep /\ UNCHANGED transfer

Reading == ReadInput /\ UNCHANGED transfer

ParseMessages(n, again) ==
  Arrive(n, again) \/ ArriveNew(n, again) \/ ArriveUnknown(n, again)

LinkStep ==
  \/ \E n \in Packets, again \in BOOLEAN : ParseMessages(n, again)
  \/ \E n \in Packets : Lose(n)
  \/ RemoveConnection

Next ==
  \/ SendFileMsg \/ LinkStep
  \/ RunStep \/ Reading
  \/ \E line \in Lines : weather \in TypedIn /\ Type(line) /\ UNCHANGED transfer

Spec == Init /\ [][Next]_vars

(* The threads run and the network delivers; the user may stop typing.      *)
FairSpec ==
  /\ Spec
  /\ WF_vars(SendFileMsg) /\ WF_vars(RunStep) /\ WF_vars(Reading)
  /\ \A n \in Packets : WF_vars(ParseMessages(n, FALSE))

-----------------------------------------------------------------------------
(* Properties. *)

(* Until a late SYN makes the connection anew (NetworkingSystem.cpp:1126)   *)
(* the file at the receiver is a beginning of the file sent, whatever is    *)
(* lost, late or handed up again: no chunk is left out, repeated or swapped *)
(* (FSClient.cpp:255), also when chunks come after the end has started the  *)
(* count anew (FSClient.cpp:286). From then on a chunk may also start the   *)
(* file over.                                                               *)
Promised == INSTANCE FileCopy WITH madeAnew <- made > 1
CopiesInOrder == Promised!Spec

(* Over a connection that loses and repeats nothing and brings the end last *)
(* the whole file comes over, in whatever order the chunks do, unless the   *)
(* user leaves the program.                                                 *)
TransferCompletes ==
  weather = "orderly" ~>
    (Len(file) = Chunks /\ ended) \/ run \in {"close", "join", "done"}

=============================================================================

--------------------------- MODULE CustomProtocol ---------------------------
(***************************************************************************)
(* The custom protocols of a NetworkingSystem: a listener, the list of its *)
(* sockets, the two queues IProtocol keeps for each of them, and the two   *)
(* threads that work on them. The update thread processes, sends, removes  *)
(* and accepts; the receive thread fills the queues. What Process answers  *)
(* is the protocol's: HTTP extends this module.                            *)
(*                                                                         *)
(* A client stands for one connection of it. It writes pieces: a piece is  *)
(* what one recv takes if nothing else has come, and is processed as a     *)
(* request whether or not it is a whole one.                               *)
(***************************************************************************)
EXTENDS Naturals, Sequences, FiniteSets

CONSTANTS
  Clients,    \* connections that clients may open
  Sockets,    \* socket numbers the system gives out, free ones again
  Requests,   \* what a piece may ask for
  MaxPieces,  \* bound: pieces each client writes
  MaxQueue,   \* bound: a longer receive queue is passed over
  Nobody

ASSUME ProtocolAssumption ==
  /\ IsFiniteSet(Clients) /\ IsFiniteSet(Sockets)
  /\ MaxPieces \in [Clients -> Nat] /\ MaxQueue \in Nat \ {0}
  /\ Nobody \notin Clients

VARIABLES
  connections, \* the list of sockets, in the order of the accepts
  send, recv,  \* the queues of messages_, per socket
  update,      \* where the update thread is, and its local variables
  receive,     \* the place in the list the receive thread comes to, or 0
  owner,       \* the client at the other end of an open socket
  backlog,     \* clients that wait to be accepted, or for the socket they
               \* were given to be put into the list
  state,       \* of a client: "out", "open", "closed" or "reset" by itself,
               \* "dropped" by the server
  sent,        \* the pieces a client has written
  taken,       \* how many of them recv has taken
  answers      \* history: the responses that reached a client

queues == <<send, recv>>
network == <<owner, backlog, state, sent, taken, answers>>
protocolVars == <<connections, queues, update, receive, network>>

None == <<>>
Pieces == UNION {{k} \X (1 .. MaxPieces[k]) : k \in Clients}

(* A message of a send queue answers a piece; the disconnect message, of    *)
(* size -1, answers none.                                                   *)
Responses == [to : Pieces, status : Nat, keep : BOOLEAN]
Disconnect == [to |-> None, status |-> 0, keep |-> FALSE]

(* A message of a receive queue is named by the first piece in it; one of   *)
(* size 0 has none.                                                         *)
Empty == None

ProtocolTypeOK ==
  /\ connections \in Seq(Sockets)
  /\ send \in [Sockets -> Seq(Responses \cup {Disconnect})]
  /\ recv \in [Sockets -> Seq(Pieces \cup {Empty})]
  /\ update \in [at : {"process", "send", "remove", "erase", "accept", "push"},
                 i : Nat \ {0}, toDelete : Seq(Sockets),
                 newcon : Sockets \cup {Nobody}]
  /\ receive \in 0 .. Len(connections)
  /\ owner \in [Sockets -> Clients \cup {Nobody}]
  /\ backlog \in Seq(Clients)
  /\ state \in [Clients -> {"out", "open", "closed", "reset", "dropped"}]
  /\ sent \in [Clients -> Seq(Requests)]
  /\ taken \in [Clients -> Nat]
  /\ \A k \in Clients : taken[k] <= Len(sent[k]) /\ Len(sent[k]) <= MaxPieces[k]
  /\ answers \in [Clients -> Seq(Responses)]

ProtocolInit ==
  /\ connections = <<>>
  /\ send = [s \in Sockets |-> <<>>] /\ recv = [s \in Sockets |-> <<>>]
  /\ update = [at |-> "accept", i |-> 1, toDelete |-> <<>>, newcon |-> Nobody]
  /\ receive = 0
  /\ owner = [s \in Sockets |-> Nobody] /\ backlog = <<>>
  /\ state = [k \in Clients |-> "out"]
  /\ sent = [k \in Clients |-> <<>>] /\ taken = [k \in Clients |-> 0]
  /\ answers = [k \in Clients |-> <<>>]

-----------------------------------------------------------------------------
(* The lock of the list is held for the whole walk of the receive thread,   *)
(* by the other only within a step. The lock of the protocol is held while  *)
(* the messages of a socket are processed, else only within a step.         *)
ListIsLocked == receive # 0
ProtocolIsLocked == update.at = "process"

-----------------------------------------------------------------------------
(* The update thread, ThreadCustomProtocolUpdate. *)

Current == connections[update.i]
At(at) == update.at = at
Goto(at) == update' = [update EXCEPT !.at = at]

(* Where the thread comes to at place i of the list, which no other thread  *)
(* changes: to the messages of the socket, if it has any, then to its send  *)
(* queue; after the last one to the sockets to delete and to the listener.  *)
Place(i, list, queue, toDelete) ==
  [i |-> i, toDelete |-> toDelete, newcon |-> Nobody,
   at |-> IF i <= Len(list)
          THEN IF queue[list[i]] = <<>> THEN "send" ELSE "process"
          ELSE IF toDelete = <<>> THEN "accept" ELSE "remove"]

NextSocket ==
  update' = Place(update.i + 1, connections, recv, update.toDelete)
DeleteCurrent ==
  update' = Place(update.i + 1, connections, recv,
                  Append(update.toDelete, Current))
NextPass(list, queue) == update' = Place(1, list, queue, <<>>)

(* ProcessMessages: Process has put replies on the send queue. An error     *)
(* leaves the other messages and has the socket deleted, after its sends.   *)
PopProcessed(replies, err) ==
  /\ At("process")
  /\ recv' = [recv EXCEPT ![Current] = Tail(@)]
  /\ send' = [send EXCEPT ![Current] = @ \o replies]
  /\ IF err # 0
     THEN update' = [update EXCEPT !.at = "send",
                                   !.toDelete = Append(@, Current)]
     ELSE IF Len(recv[Current]) = 1 THEN Goto("send") ELSE UNCHANGED update
  /\ UNCHANGED <<connections, receive, network>>

(* SendNextMessage, by its results: nothing left, the disconnect message,   *)
(* an error or a part of the message only, the message sent.                *)
NothingToSend ==
  /\ At("send") /\ send[Current] = <<>>
  /\ NextSocket
  /\ UNCHANGED <<connections, queues, receive, network>>

Sendable == At("send") /\ send[Current] # <<>>

SendDisconnect ==
  /\ Sendable /\ Head(send[Current]) = Disconnect
  /\ DeleteCurrent
  /\ UNCHANGED <<connections, queues, receive, network>>

SendFails ==
  /\ Sendable /\ Head(send[Current]) # Disconnect
  /\ DeleteCurrent
  /\ UNCHANGED <<connections, queues, receive, network>>

SendNext ==
  /\ Sendable /\ Head(send[Current]) # Disconnect
  /\ state[owner[Current]] # "reset"
  /\ LET k == owner[Current] IN
     answers' = IF state[k] = "open"
                THEN [answers EXCEPT ![k] = Append(@, Head(send[Current]))]
                ELSE answers
  /\ send' = [send EXCEPT ![Current] = Tail(@)]
  /\ IF Len(send[Current]) = 1 THEN NextSocket ELSE UNCHANGED update
  /\ UNCHANGED <<connections, recv, receive, owner, backlog, state, sent, taken>>

(* RemoveConnection: the socket is closed with no lock, then taken off the  *)
(* list with the lock of it. The queues stay.                               *)
CloseSocket ==
  /\ At("remove")
  /\ LET s == Head(update.toDelete) IN
     /\ owner' = [owner EXCEPT ![s] = Nobody]
     /\ state' = [state EXCEPT ![owner[s]] = IF @ = "open" THEN "dropped" ELSE @]
  /\ Goto("erase")
  /\ UNCHANGED <<connections, queues, receive, backlog, sent, taken, answers>>

(* Mutant of Erased: a closed socket stays in the list.                     *)
ErasedNot(s) == connections

(* The last place of s: the loop goes on after it has found one.            *)
Found(s) ==
  CHOOSE i \in DOMAIN connections :
    /\ connections[i] = s
    /\ \A j \in DOMAIN connections : connections[j] = s => j <= i

Erased(s) ==
  SubSeq(connections, 1, Found(s) - 1)
    \o SubSeq(connections, Found(s) + 1, Len(connections))

EraseSocket ==
  /\ At("erase") /\ ~ListIsLocked
  /\ connections' = Erased(Head(update.toDelete))
  /\ update' = [update EXCEPT !.toDelete = Tail(@),
                 !.at = IF Len(update.toDelete) = 1 THEN "accept" ELSE "remove"]
  /\ UNCHANGED <<queues, receive, network>>

FreeSockets == {s \in Sockets : owner[s] = Nobody}

(* AcceptConnections takes one at most: contin is never set.                *)
NothingToAccept ==
  /\ At("accept") /\ (backlog = <<>> \/ FreeSockets = {})
  /\ NextPass(connections, recv)
  /\ UNCHANGED <<connections, queues, receive, network>>

(* Mutant of AddCon: the queues of an earlier connection are kept.          *)
AddConKeeping(s) == UNCHANGED queues

AddCon(s) ==
  /\ send' = [send EXCEPT ![s] = <<>>]
  /\ recv' = [recv EXCEPT ![s] = <<>>]

(* The socket is accepted with no lock, and put into the list with it.      *)
AcceptConnections(s) ==
  /\ At("accept") /\ backlog # <<>> /\ s \in FreeSockets
  /\ update' = [update EXCEPT !.at = "push", !.newcon = s]
  /\ UNCHANGED <<connections, queues, receive, network>>

PushConnection ==
  /\ At("push") /\ ~ListIsLocked
  /\ LET s == update.newcon IN
     /\ connections' = Append(connections, s)
     /\ AddCon(s)
     /\ owner' = [owner EXCEPT ![s] = Head(backlog)]
  /\ backlog' = Tail(backlog)
  /\ NextPass(connections', recv')
  /\ UNCHANGED <<receive, state, sent, taken, answers>>

-----------------------------------------------------------------------------
(* The receive thread, ThreadCustomProtocolReceive. *)

StartReceive ==
  /\ receive = 0 /\ connections # <<>>
  /\ receive' = 1
  /\ UNCHANGED <<connections, queues, update, network>>

(* A recv of nobody's socket, or of one that was reset, is an error, and    *)
(* one with nothing to take would block: the socket stays as it is.         *)
Readable(s) ==
  /\ owner[s] # Nobody
  /\ \/ state[owner[s]] = "open" /\ Len(sent[owner[s]]) > taken[owner[s]]
     \/ state[owner[s]] = "closed"

(* Mutant of Message: the end of the stream is taken for nothing to read.   *)
MessageNoEnd(k) ==
  IF Len(sent[k]) > taken[k] THEN <<<<k, taken[k] + 1>>>> ELSE <<>>

(* The message recv makes of all that has come, or of the end of the stream.*)
Message(k) ==
  IF Len(sent[k]) > taken[k] THEN <<<<k, taken[k] + 1>>>> ELSE <<Empty>>

(* Mutant of NextPlace: the walk goes past the end of the list.             *)
NextPlacePast == receive + 1

NextPlace == IF receive < Len(connections) THEN receive + 1 ELSE 0

ReceiveNextMessage ==
  /\ receive # 0 /\ ~ProtocolIsLocked
  /\ LET s == connections[receive] IN
     IF Readable(s) /\ Len(recv[s]) < MaxQueue
     THEN /\ recv' = [recv EXCEPT ![s] = @ \o Message(owner[s])]
          /\ taken' = [taken EXCEPT ![owner[s]] = Len(sent[owner[s]])]
     ELSE UNCHANGED <<recv, taken>>
  /\ receive' = NextPlace
  /\ UNCHANGED <<connections, send, update, owner, backlog, state, sent, answers>>

-----------------------------------------------------------------------------
(* The clients. *)

Open(k) ==
  /\ state[k] = "out"
  /\ state' = [state EXCEPT ![k] = "open"]
  /\ backlog' = Append(backlog, k)
  /\ UNCHANGED <<connections, queues, update, receive, owner, sent, taken, answers>>

Write(k, request) ==
  /\ state[k] = "open" /\ Len(sent[k]) < MaxPieces[k]
  /\ sent' = [sent EXCEPT ![k] = Append(@, request)]
  /\ UNCHANGED <<connections, queues, update, receive, owner, backlog, state, taken, answers>>

(* A client that closes is read to its end; one that resets is not.         *)
Leave(k, how) ==
  /\ state[k] = "open"
  /\ state' = [state EXCEPT ![k] = how]
  /\ UNCHANGED <<connections, queues, update, receive, owner, backlog, sent, taken, answers>>

ClientStep(k) ==
  \/ Open(k) \/ \E request \in Requests : Write(k, request)
  \/ \E how \in {"closed", "reset"} : Leave(k, how)

ReceiveStep == StartReceive \/ ReceiveNextMessage

(* All the update thread does but to process a message.                     *)
PassStep ==
  \/ NothingToSend \/ SendDisconnect \/ SendFails \/ SendNext
  \/ CloseSocket \/ EraseSocket
  \/ NothingToAccept \/ \E s \in Sockets : AcceptConnections(s)
  \/ PushConnection

=============================================================================

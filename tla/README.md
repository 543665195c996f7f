# Networking2.0: specifications and proofs

This directory models the networking library of the repository (`src/engine`,
`include/engine`) and the programs built on it (web server, file sharing, master
server) in TLA+, checks small instances with TLC and proves the core with TLAPS.
Paths below are relative to the root of the repository.

## 1. The system

The library offers UDP connections with sequence numbers, acks, resends of
"must send" messages, a handshake, heartbeats and time-outs, plain TCP
connections, multicast, and "custom protocols" over TCP. Three programs use it:
a file sharing client and server, a web server, and a master server for
services.

| Component | State | Operations | What is hard |
|---|---|---|---|
| `Connection` | sequence numbers, ack fields, flags owed, timers | `SendWith`, `ReadHeader`, `Terminate`, `DisconnectTimeOut` | 8-bit numbers that wrap, shifts of bit fields, flags shared by several meanings, fields no constructor sets |
| `NetworkingSystem`, UDP | per connection the queues `messagesToSend_`, `messagesSent_`, `messagesReceived_` | `Connect`, `Send`, `Receive`, `Disconnect`; update thread: `RemoveAckedMessages`, `UpdateResend`, `UpdateSend`, `UpdateHeartbeat`, `ParseMessages`, `RemoveConnection` | loss, duplication, reordering; resends racing late acks; the end of a connection |
| Connection table | `lrConnections_`, its lock and one per connection | slot reuse, removal | application threads against the update thread, reads without locks |
| Custom protocols (`IProtocol`, `CustomProtocolData`) | list of sockets, send and receive queue per socket | accept, receive, process, send, disconnect when done | two threads on one list, locks released in the middle |
| `Message` | a shared buffer with a count | copy, assign, destroy | a count shared by threads |
| `Encoder`, `BitPack` | a buffer and a bit position | read, write | round trips |
| WebServer (`HTTP`, `REST`, `Site`, ...) | keep-alive entry per socket, what the last request accepts | `Process`, `KeepAlive`, `ConnectionTimeOut` | order of response and disconnect, stale entries; the rest is text |
| FileShare (`FSClient`, `FSServer`, `ThreadSafeQueue`, ...) | numbered pieces in a priority queue, file lists, heartbeats | send, receive, save a file | loss and duplication of pieces, shared counters |
| NetService | handles of the clients | callbacks, `list`, commands | callbacks of one thread change what another walks |

How they interact: the application calls `NetworkingSystem` from its own thread;
the receive thread pushes datagrams on `dataToParse_`; the update thread makes one
pass over all connections every 16 ms and then parses what has arrived; callbacks
report new and lost connections. Two more threads serve the custom protocols.

What makes each part correct:

- header arithmetic: the rebuilt number is the true number, a bit of the ack field
  means the packet it should, in both directions;
- receive window: no packet twice except the newest, none refused for nothing,
  no ack that lies;
- UDP link: a must-send message is kept until it has been handed up at the peer;
  the handshake is over only when the peer heard us; a connection that goes away
  has sent its FIN;
- table: handles, slots and objects agree; nothing used after its removal;
- custom protocols and HTTP: each response answers a message of its own connection,
  in order, before the disconnect; a connection that closes is removed;
- messages: freed once, after the last use;
- encoder: what was written is read, and reading stops where writing did;
- file transfer: the received file is a beginning of the file sent;
- master server: the list of clients is the clients there are.

`PROJECT.json` lists the main hazards of all parts at their lines.

## 2. Modules

| Module | Models | Kind |
|---|---|---|
| `SequenceNumbers` | `ConvertSequenceNumber`, the ack field of `ReadHeader`, the ack test of `RemoveAckedMessages` | operators |
| `SequenceNumbersProofs` | theorems about them | proofs |
| `PacketWindow` | what the receiving half promises, with true numbers | abstract specification |
| `ReceiveWindow` | `ReadHeader` of one connection under loss, duplication, reordering; implements `PacketWindow` | state machine |
| `ReceiveWindowProofs` | inductive invariant, refinement | proofs |
| `Connection` | the fields of `Connection`, header out, header in, flags | operators on records |
| `UdpLink`, `MCUdpLink` | two systems, one connection each, update pass, parsing, application calls, network | state machine |
| `UdpLinkProofs` | inductive invariant of the link, its properties | proofs |
| `ConnectionTable` | `lrConnections_` with its locks, the update thread and the application thread step by step | state machine |
| `MasterServer` | the list of clients and the main thread of the master server, on top of `ConnectionTable` | composition |
| `MasterServerProofs` | inductive invariant of the table, and over it that of the server | proofs |
| `MessageCount` | the count of `Message` between the two threads | state machine |
| `MessageCountProofs` | the count of a received message | proofs |
| `CustomProtocol` | listener, sockets and queues of one custom protocol, its two threads, the clients | state machine without `Process` |
| `HTTP`, `MCHTTP` | `Process` of the web server on top of `CustomProtocol` | composition |
| `HTTPProofs` | inductive invariant of the web server and its protocol | proofs |
| `ConsoleIO` | reader thread, queue and loop of the FileShare programs | part of a state machine |
| `FileCopy` | what a file transfer promises | abstract specification |
| `FileTransfer` | sending client, connection, receiving client in the loop of `ConsoleIO`; implements `FileCopy` | composition |
| `FileTransferProofs` | inductive invariant, refinement | proofs |
| `BitPack` | the bit array | operators on records |
| `Encoder`, `MCEncoder` | an encoder and the one that reads its bytes | state machine |
| `EncoderProofs` | bits, bytes and values; inductive invariant, its properties | proofs |

### Correspondence

*Sequence numbers.* The code keeps `packetsRecieved_` as a u16; the model keeps the
set of distances it acknowledges (bit 15-d is distance d). `>>` becomes adding to
every distance and cutting at the width. `0x8000 >> deltaSeqNum` has a count of up
to 255 on a 32-bit int: the model takes the count modulo `IntBits`, what the
compiled shift does on x86, since the language leaves it undefined.

*ReceiveWindow.* `ReadHeader(n)` is one call for the packet whose true number is
`n`. Histories: `delivered` (numbers for which `ReadHeader` did not return -1) and
`outcome` (the last packet and its fate). -1 and the u32 value 0xFFFFFFFF are the
same to the caller (`Expired`).

*UdpLink.* `data[e]` is the `ConnectionData` of end `e` for its peer, or `Null`.
`Update(e)` is one pass of `ThreadUpdate` over it in the order of the code: remove
acked messages, resend those that are due, send one queued message, heartbeat, and
remove the connection if it is terminated or timed out. The pass holds the
connection's lock, so it is one action. What escapes the lock is `Terminate`, which
only sets `sendFin_`: a pass during which it happens is a pass after it whose first
packets lack the flag, and no property depends on those. `ParseMessages` and
`ParseNewConnection` are the parsing of one datagram, also in the update thread.
`Connect`, `Send` and `Disconnect` are the application's calls. Timers (80 ms
resend, 66 ms heartbeat, `latency_`, 10 s time-out) are choices: any message may be
due at any pass. `DroppedPacket` is a choice per packet of a pass (`Droppable`).
No constructor sets `destAcks_`, `sendHeartBeat_` and `UDP_`, neither of a connection
nor of the `udpConnection_` that writes the second headers of resent packets: each
starts with any value (`GarbageAcks`, `GarbageBeats`, `GarbageUDP`). A connection whose
`UDP_` reads false writes to a socket of its own that was never opened, which
terminates it (`BaseSend`), and keeps no message for a resend
(`NetworkingSystem.cpp:1001`).
Histories: `given` (messages queued on a connection), `number` and `ref` (what a number
on the wire would be without the cast, in packets, waiting messages and for
`ackRefNum_`), `sent`, `received`, `heard`, `guessed` (ends where some
`sendHeartBeat_` began as true) and `astray`. An end is astray once a message was removed
for an ack bit that was out of reach of the shift (`InReach`), once the peer rebuilt the
number of one of its packets wrongly, or once a connection of it was removed; then its
acks may mean other packets.

*ConnectionTable.* `slots` is the vector, `object` says whether a connection has been
allocated or deleted, `update` and `app` are program counters with the local
variables of the two threads. A subscript of the vector without its lock is two
steps: where the elements are (`seen`), then the element. `storage` counts the
allocations of the vector, so a subscript with an old `seen` reads freed memory; a
NULL or deleted connection behind `->` is a fault too. After a `fault` the program
promises nothing (`Crashed`). Who holds a lock follows from the program counters
(`IsLocked`, `TableIsLocked`). `RemoveConnection` is four steps, because the
connection's lock is given up before the `delete`. `LOCK_CON`, `CON` and
`UNLOCK_CON` are subscripts of their own in `Send` and `Receive`; `Disconnect` and
`NumReceivedInQueue` take no lock. `Send` of a long message repeats the three.
`Connect` as `ParseMessages` calls it and the subscript that reads the new connection
back without the lock (`NetworkingSystem.cpp:1130`) are steps of their own
(`MakeConnection`, `ReadMade`).
A pass over a connection (`UdpLink`'s `Update`) is one step here. Not in this
module: `numConnections_` (never read), several application threads, calls from
within a callback.

*MasterServer* adds to the table's steps what the callbacks do in them: `UDPConnect`
is `MakeConnection` with `HandleUDPConnect`, `Disconnected` is `Check` with
`HandleDisconnect`. The vector `m_clients` has no lock, so `list` is one step per
client and faults when a callback has changed the vector in between. The main
thread's `Receive` and the commands sent to all connections are calls of the table.

*MessageCount.* A thread's use of a message is a list of operations taken from the
code in order (`ReceivedByUpdate`, `ReceivedByApp`, `SentByApp`, `SentByUpdate`):
each construction, copy, assignment and destruction of a `Message` is an attach or a
detach, each of which reads and writes `refCount_` in two steps, and a detach reads
it once more. `take` waits for a message in the queue and takes the connection's lock.

*CustomProtocol.* `update` and `receive` are the positions of the two threads.
A socket number is free again when it is closed; its queues in `messages_` stay until
`AddCon`. The lock of the list is held by the receive thread for its whole walk, the
lock of the protocol by the update thread for all messages of a socket, so that
processing one message, sending one, the two halves of `RemoveConnection`, accepting a
socket without the lock and putting it into the list with it are steps. An error that
`Process` returns leaves the other messages and has the socket deleted
(`PopProcessed`); the web server's returns none (`NoError`). A piece that a client writes is what one `recv` takes, unless
several have come: then they are one message, which the model names by its first
piece. The result of `send` on a live socket may be an error at any time.

*HTTP.* `Process` runs in the update thread and is one step: `ConnectionTimeOut`,
`KeepAlive`, `WhatIsRequestAskingFor` and the choice of the status, in that order,
with the messages each of them queues. A request is a record of what it asks for;
requests and responses are not put together as text. An entry of `m_webConnections`
is fresh or old; it never becomes fresh again, because the code refreshes the timer
of a copy (`HTTP.cpp:165-168`).

*ConsoleIO and FileTransfer.* The loop of the receiver is `Maintain`
(`GetNextMessage` and `HandleFileSaveMessage`), one command, one `Receive`, again
and again. `messagesReceived_` counts how many of each number the priority queue
holds; the end has the largest number, as UINT_MAX has in the code. The connection in
between hands up what `PacketWindow` allows: new packets, and the newest again. A
chunk is its number, and the file is the sequence of chunks appended to it. A packet says
SYN until the sender has heard the receiver (`syns`); packet 0 is a SYN without a
message. A packet with SYN makes a connection whenever the receiver has none, after the
end, too, or after a time-out (`ArriveNew`, `NetworkingSystem.cpp:1119-1140`); to the new
connection every packet is new.

*BitPack and Encoder.* `m_data` is the set of its one bits, `m_bytePos` and `m_bitPos`
are the one number the code computes from them. The memory of both encoders starts
with all zeros or all ones. `TPlateSerializeInt` is `Signed` or `Unsigned` when it
writes; `PopFront` is the loop over the bits when it reads, a recursive function that adds
a power of two (`TwoTo`) per one bit. The trick of `BitsNeeded` is its value, the wrong one
for a range of a single value included. A block is read where
`c08` puts it and written as `c08` or `u08`/`s08` do. An f32 is a fraction whose
numerator or denominator is a power of two, and each operation of `SerializeFloat` on it
rounds to `Mantissa` bits, to the even one of two neighbours; only its exponent is not
bounded. A result is kept as the step, which `FloatOf` turns into what the reader gets.
The values of a float are whole numbers of a unit. A shift of an int by its width or more
takes the count modulo the width, as in `SequenceNumbers`. `StartWriting` of a packing
encoder deletes the copy of `DoneWriting` and leaves pointer and `m_allocated` as they are
(`Encoder.cpp:84-92`): a reader of deleted memory finds anything at each look, and a
second delete is noticed by the heap ("aborted") or not.

### What the environment is assumed to do

- The network of `UdpLink` keeps the last `MaxDelay` packets of each end and delivers
  any of them any number of times, in any order, or never.
- `MaxJump` in `ReceiveWindow`: a packet arrives at most so far from the newest one
  handed up. The theorems ask for `WithinReach(MaxJump)`, which is 50 with the
  code's limits 50 and 200.
- `MayTimeOut` is FALSE in the run: a connection ends by a FIN. With TRUE, an end that
  times out and is connected anew by a late SYN numbers its packets from 1 again; the
  peer's old connection refuses them as stale and acknowledges them all the same.
- An application connects once, and only while it has no connection to the peer.
- In `ConnectionTable` one datagram and one TCP connection at most arrive per round of
  the update thread, and `MaxSlots` and `Conns` bound the table.
- `Capacity` is the size at which `push_back` moves the vector. Nothing in the code
  reserves room; it is 1 in the runs, so that the second connection moves it
  (2 in `table_removes`, which is about objects, not storage).
- The clients of `CustomProtocol` write at most `MaxPieces`, close or reset at any time,
  and the receive thread passes over a queue of `MaxQueue` messages, where the code
  would go on receiving.
- In `FileTransfer` a transfer has `weather`: "any" loses, repeats, reorders and times
  out; "orderly" brings each packet once and the end last, the chunks in any order. The
  receiver makes at most `MaxMade` connections.
- An `Encoder`'s user keeps to the comment of `BitPack.h:42` ("be sure previous data is
  byte aligned") and writes nothing after a block of `u08` or `s08`
  (`KeepsToTheRules`); without this what is read is not what was written.
- `EncoderAssumption`: what the types see to. Values and ranges are of the type named,
  signed types are narrower than the word of 64 bits in which their distances are
  computed, and a float is a value an f32 can hold; it may ask for any number of bits.

## 3. Runs

| Run | Bounds | Result |
|---|---|---|
| `receive_window` | 12 wire numbers, 3 ack bits, 15 packets, jump 3 | holds |
| `udp_link` | 4 wire numbers, 4+2 packets and 5 between them, delay 2, every initial value of the uninitialised fields; one must-send message each way, or both connect, a disconnects, heartbeats and one simulated drop per pass | holds |
| `connection_table` | 3 connections, 2 peers, 2 slots, 2 calls; the second connection moves the vector | holds |
| `vector_moves` | the same, for the update thread's subscripts | violated |
| `table_removes` | the same, for the application's calls; the vector does not move | violated |
| `web_server` | 2 clients with 2 and 1 pieces, 2 sockets, one that asks to close and one without an Accept header, queue 1 | holds |
| `http_close` | the same | violated |
| `file_transfer` | 2 chunks and the end, each handed up at most twice, 2 connections, any link; 2 lines typed over an orderly one | holds |
| `codec` | bytes of 4 bits, words of 12, a mantissa of 5, 8 bytes, 3 of 10 kinds of value | holds |
| `master_server` | as `connection_table` | holds |
| `message_count` | 3 received messages | holds |
| `message_race` | 1 sent message | violated |

Why the bounds are enough. The scaled widths keep the relations of the code's:
`IntBits` is twice `AckBits` in `udp_link`, the number of wire values is a multiple of
`IntBits`, and in `receive_window` the limits leave the same order of gaps (50 below, 55
above, 150 between). 15 packets over 12 wire numbers cross one wrap with every
combination of loss and order within the field of 3. In `udp_link` the fourth packet of
an end wraps, so that wrong numbers, acks out of reach and a second header that says 0
all happen. A must-send message needs one packet, each resend another, each ack one
back: 4+1 and 3+2 packets allow a message, resends or heartbeats and late acks of
different packets. `Bound` of `MCUdpLink`, the constraint of the run, keeps apart what
would multiply: both applications connect, disconnect and drop packets without messages
(3+2 packets), or one connects and both send messages, while the network loses but
`DroppedPacket` does not drop and that end's own heartbeat timer is quiet. A link stops
when its packets are used up, so the run does not check for deadlock.
In `ConnectionTable` the update thread never stops and deadlock is checked: 3
connections over 2 slots give reuse of a slot, 2 calls give an application that
holds a lock, waits for one, or uses a handle whose connection has gone, at every
step of a removal; a capacity of 1 moves the vector between any two steps of the update
thread. `MasterServer` needs the same. In `web_server` the second client
may get the socket number of the first, and the client with two pieces has a message
behind the disconnect message; all stop when the clients have written what they may,
so deadlock is not checked. Two chunks and an end are enough to be out of order,
missing or repeated in every way, and two connections are one that is made anew; the
first hands a packet up twice, the second each once, and the user types (`TypedIn`) only
where the link is orderly, because console and link do not touch. The program stops when
the console ends it. Three values of which one wraps into the next byte, resets in between and memory of ones
show each way a cursor can be left; the floats have ranges from 0, around it and above it
in steps that a mantissa of 5 bits must round. Messages are independent but for the lock, which
three of them in a queue exercise.

What the properties say:

- `LastIsTrue`, `AcksAreTrue`: numbers and acks of the receiver agree with history.
- `OnlyNewestRepeats`, `RefusedOnlyIfOldOrSeen`, `RefinesPacketWindow`: the verdict
  on each packet is the abstract one. The newest packet *does* pass twice: the code
  does not throw away a duplicate of it (`Connection.cpp:359`).
- `AckMeansHandedUp`: if the sender would take packet `n` as acknowledged by the header
  the receiver would write now, the receiver has handed up packet `n`.
- `MustSendNotForgotten`: the end-to-end meaning of an ack, for ends that are not
  `astray`. The exemption is where the code does forget messages (see below).
- `AnsweredOnlyIfHeard`: the handshake flag and the peer's history. An echo that is none,
  written because a `sendHeartBeat_` started as true, is exempt.
- `ClosesAfterFin`: no connection that takes itself for UDP disappears without a FIN on
  the wire, unless the peer's application closed.
- `SlotsAreLive`: handles, slots and objects agree at every step of a removal or a
  placing. `KeepsItsSlot`: a slot changes hands only after the delete. `ToldOnce`: one
  callback per removal. `UpdateFaultsOnlyByMove`: the update thread uses nothing that is
  gone but a vector that was moved between the two halves of a subscript.
- `DisconnectIsDone`: a disconnected connection is removed at last (liveness).
- `ClientsAreCurrent`: the master server's list is the UDP connections not yet reported
  gone, each once, although handles are used again.
- `CountIsCopies`, `CleanedUp`: the count is the number of copies in both threads and
  the queue; the data is deleted once, after its last use. Both hold for received
  messages and `CleanedUp` fails for sent ones.
- `AnswersAreOwn`: who gets which response, in which order, with whose status.
  `KeptAliveIsTimed`: no socket drops out of the keep-alive. `ListIsOpen`: list and
  open sockets agree at each step of an accept and a removal, but for the socket that is
  just accepted or closed. `ClosedIsRemoved`: a client that
  closes is removed at last (liveness).
- `CopiesInOrder`: `FileTransfer` implements `FileCopy`: until a late SYN makes the
  connection anew the file is a beginning of the file sent, whatever is lost, late or
  repeated; from then on it may also start over.
  `TransferCompletes`, `EnterTerminates`: the whole file comes over an orderly link,
  and one line ends the program (liveness).
- `ReadsBack`, `AtEndIffAllRead`: values and the end of reading agree between the writer
  and the reader, for a writer that keeps to the rules and a reader that is not given
  deleted memory. `FloatsReadBack`: a packed float is less than two steps off after all
  roundings, if its steps are ones f32 can tell apart (`Resolved`). `BytesHoldBits`: the
  bytes counted hold all bits written and, if blocks are byte aligned, each of them begins
  with a bit of a write. `ReadsWithinData`: a reader stays within the bytes it was given,
  although `PopFrontBit` has no test for their end.

### Disagreements found

Four have a run whose counterexample shows them; `PROJECT.json` quotes the lines.

- `vector_moves`: `Connect` of the application moves a full vector between the two halves
  of a subscript of the update thread, which "[doesn't] need to lock" (`:808`, `:813`).
- `table_removes`: a removal between the test for NULL and the use.
- `http_close`: `KeepAlive` queues the disconnect message before `Process` queues the
  response, so "send response and close connection" closes without the response.
- `message_race`: `Send` copies the caller's message into the queue; the update thread
  and the caller destroy their copies without a common lock.

Seen while modelling, as counterexamples to stronger properties or in the code, without a
run of their own:

- When the first 200 packets of a connection are lost, or its first packet comes from a
  system that has sent them elsewhere, the wrap count is taken below zero
  (`Connection.cpp:542`) and every later packet is stale.
- The shift count of `0x8000 >> deltaSeqNum` goes up to 255 (`NetworkingSystem.cpp:59`):
  once it passes 31 it names the bit of another packet or of none, and a must-send message
  the peer never got is removed as acknowledged. The comment at line 57 says "Still
  accurate, even after wrap". Without `astray` `MustSendNotForgotten` fails so with 5+2
  packets (16 wire numbers, `AckBits` 2, `IntBits` 4). With the code's widths it takes 17
  packets since the last known ack.
- The second header of a resent packet says "last received 0, no acks" and replaces the
  true acks (`Connection.cpp:675`), so that after about 17 packets of its own every
  sender that hears a resend judges by an ack out of reach. A message in packet number 256
  is taken as received.
- A message in a packet that is a multiple of 256 counts as received when no answer ever
  came (`ackRefNum_` starts at 0).
- When `sendHeartBeat_` reads true at the start (`Connection.cpp:41-47`, read at 609), the
  first packet of a connection carries SYN and RST; a peer that connected at the same
  time takes it for the answer to a SYN nobody received ("Got the syns ack", line 646).
- When `UDP_` reads false, the first send fails on a socket that was never opened and the
  pass removes the connection without a FIN ("Blow up the connection if I send a fin
  packet", line 628).
- A late SYN reopens a connection its application closed (`NetworkingSystem.cpp:1126`).
  In a file transfer the empty window of the new connection hands the first chunk up
  again, and as `lastSeqTaken` is 0 again (`FSClient.cpp:286`) it is appended a second
  time, although the queue is "for receiving files in order" (`FSClient.h:34`).
- Two connections of one peer, when `Connect` runs between the scan of `ParseMessages`
  and its `Connect`.
- The end of a file overtakes late chunks and disconnects (`FSClient.cpp:255`, `:283`),
  although `FSClient.cpp:208` says "might be waiting for dropped packets". A second copy of the chunk last taken stops a transfer.
- With packing, `AtEnd` is false when the last bit has been read (`Encoder.cpp:354`).
- With its default of 32 bits (`Encoder.h:60`) a packed float is lost: `1 << 32` of an int
  is undefined, on x86 the range is 0 and 0 / 0 is read (`BitPack.cpp:158`).
- A second `StartWriting` of a packing encoder deletes the bytes of the first and keeps
  pointer and `m_allocated` (`Encoder.cpp:89-90`): the next `DoneWriting` "allocates correct
  amount of data" no more (`:104-105`), `GetData` hands out deleted memory with the new
  size, and a third `StartWriting` deletes it again.
- A block after a single bit starts in the byte of that bit but counts a byte more
  (`BitPack.cpp:104-112`): the last byte sent is one nothing was written to.
- Above 22 bits a packed float loses steps to the rounding of f32 (`BitPack.cpp:165`,
  `:175`); the unit test packs 25 and 28 bits.
- `list` of the master server walks `m_clients` while the callbacks change it.

### Fairness

`ConnectionTable` (`FairSpec`): weak fairness of the update thread and of the application
within a call: both are threads the operating system runs, and a call that has begun
goes on. The application need not begin a call. Strong fairness of "a pass ends a
connection with `sendFin_` set": a heartbeat is due every 66 ms, the packet carries the
FIN unless it is dropped, and ten seconds of silence end the connection anyway.

`HTTP`: strong fairness of both protocol threads, because each may be shut out again and
again by the lock of the other, and both sleep between two passes without any lock
(`SLEEPMILLI`), so that neither shuts the other out for ever. Weak fairness of `Age`:
time passes. Clients need do nothing.

`FileTransfer`: weak fairness of the sender, of the loop of the receiver and of its
reader thread, each a thread of its own, and of the delivery of each packet under way,
which a packet may escape by getting lost. The user need not type.

The other specifications state no fairness: their properties are safety properties.

## 4. Proofs

`SequenceNumbersProofs`: `ConvertIsTrue` rests on `WrapCountIsTrue`: two numbers
less than `U08_MAX` apart lie in the same or neighbouring blocks of `U08_MAX`
numbers (`NeighbouringBlocks`), and in each of the three cases the rules choose
the right block when the distance is `WithinReach`. `AckTestIsTrue` shows that the
difference modulo `U08_MAX`, taken modulo `IntBits`, is the true distance, because
`IntBits` divides `U08_MAX`.

`ReceiveWindowProofs`: the invariant is `WindowInv`, the type with `LastIsTrue` and
`AcksAreTrue`. `LastIsTrue` is not inductive alone: it needs the type and that
`CanArrive` speaks of the newest packet. `ArrivalIsExact` gives the rebuilt number
by `ConvertIsTrue`, `ReadHeaderStep` rewrites the step with the true number, and
`ReadHeaderKeepsWindowInv` treats newer, late and refused packets apart. From it
follow the theorem `WindowIsExact`, the refinement `WindowImplementsPacketWindow`
and the two action properties (`WindowVerdicts`). `AcksAreUnderstood` adds the sender's
side by `AckTestIsTrue`, for widths in the code's proportions. `CodeReach` shows that
the code's limits 50 and 200 give `WithinReach(50)`. The assumptions are
`SequenceAssumption`, `ReceiveAssumption` and `WithinReach(MaxJump)`.

`UdpLinkProofs`: `LinkInv` is the type with `PacketsAreMade`. A pass resends any number of
messages in a loop, and the model's loops are functions of the number of elements done;
`LoopRuns` says that such a function exists and takes each step, and `Counting`, by the
smallest counterexample, that what holds before a loop and is kept by each round holds
after it. `Pass(d)` is the set of what a pass that began with the data `d` may have done so
far; `UpdateIsPass` goes through resending, sending and heartbeat, and `StepsAre` then
splits every step into facts about single fields. On top of that:

- `ConnectionsCloseAfterFin` by `FinIsMeant`: a FIN on the network or read from it comes
  from an application that closed. It assumes `~MayTimeOut`, since a time-out removes a
  connection without a FIN, and speaks of connections whose `UDP_` reads true.
- `HandshakeEndsOnlyIfHeard` by `EchoMeansHeard`: an echo is owed, an RST is on the
  network and a handshake is over only after the end that echoes has taken a packet of its
  peer, or is in `guessed`, because an uninitialised `sendHeartBeat_` of it read true. No
  assumption is made about wraps, garbage or the number of packets.

`MasterServerProofs`, the table: the invariant is `TableInv`. `SlotsAreLive` is not inductive
alone: whether a step keeps handles, slots and objects in agreement depends on what the
update thread holds at that step. `UpdateIsPlaced` says it: the connection of its pass is
live from the read to its own delete, deleted but still in its slot until the clear, and
the walk stays inside a vector that only grows. `AppIsPlaced` says that a call has a
handle that was given out, and `StorageIsKept` bounds how often the vector has moved.
`TableIsConsistent` proves the invariant with one step per action; `TableTypeCorrect`,
`SlotsAlwaysLive` and `ToldExactlyOnce` are its conjuncts and `SlotsAreKept` follows from
it. `UpdateThreadFaultsByMove` is about the same steps for a vector of any capacity, and
has no assumption: what the update thread can use too late is only storage that moved
between the two halves of a subscript, never a connection or a slot. `StorageIsKept` says
that the storage moves only when a slot is added to a full one, so that a vector with room
for every slot shows no fault; the code reserves none (`vector_moves`).

`MasterServerProofs`, the server: `ServerInv` is `TableInv` with the list of clients. It needs
`HoldsNothing`, because the callback of `Check` is about the connection the thread holds,
and `AcceptedExist`, so that a new connection is none of the clients. That a handle is
only given again after its connection was reported comes from `SlotsAreLive`.

`MessageCountProofs`: `CountInv` says for each pair of places of the two threads how many
copies there are (`CountIsTrue`), who holds the connection's lock (`LockIsHeld`), and that
a count that was read and not yet written is still the count (`LoadedIsTrue`). The last is
the absence of the race: it holds because received messages are copied only inside the
lock, and destroyed outside it only by the thread that has the last copy. The theorems
assume `Received`, that all messages are received ones; for sent ones they are false
(`message_race`).

`FileTransferProofs`: `TransferInv` has two parts. While no connection was made anew
(`made <= 1`) `FirstCopyInv` holds. `FileIsBeginning` is what `FileCopy` wants; it is kept
because the next chunk appended is `lastSeqTaken + 1`, and after the end was taken that
count starts from 0, so that a chunk already in the file must not be waiting. `WaitingIsNew`
says so, and rests on `LateIsNew`: what the connection hands up behind the end is not its
newest packet, and so not a repetition. `CopiesAreHandedUp` and `WrittenIsHandedUp` bound
what waits and what was written by what was handed up. A connection made anew hands up
the first packet again, and nothing of this is left but `LastIsTaken`: `lastSeqTaken` is 0
or the chunk the file ends with. That is enough for the steps `FileCopy` still allows: the
chunk appended follows the last one or is the first. `TransferImplementsFileCopy` is the
refinement, step by step, for any number of connections, chunks and copies.

`HTTPProofs`: `HTTPInv`. `AnswersAreOwn` looks only at the answers a client has, and they
come through two queues of a socket whose number may have belonged to another client.
`SocketIsListed` places a socket between its accept and its push.
`PiecesAscend`, `RepliesAscend` and `AnswersAscend` order the pieces of a client through
the receive queue, the send queue and the answers; `OwnersAreApart` says that a socket and
a client belong to each other; `ListIsOpen`, `UpdateIsPlaced` and `KeptAliveIsTimed` place
the update thread and the entry of each socket. There is no assumption beyond those of the
modules, so the theorems hold for any number of clients, sockets and requests.

`EncoderProofs`: four parts, from numbers to states. `NextBit` takes a number apart bit by
bit, and `PopsWhatWasPushed`, by `Counting` over the bits, gives the number back that was
pushed; `EnoughBits` says that `BitsNeeded` is wide enough, so that nothing is cut off.
`EnteredBytes` says that `PushBit`, which counts a byte at its first bit, counts
`Filled(bits)`, the bytes that hold the bits; `BlockPlace` does the same for blocks.
`SerializedKept` takes a value through clamping, distance and conversion, wrapping of
unsigned types included. A write is a record (`Writes`) with the place of its bits
(`Start`, `Span`, `Content`), and `Laid` is all that a write does: it fills its place,
leaves what is below the cursor, and leaves the rest of its last byte clean (`Clean`), on
which the next write of bits relies, since bits are or-ed into `m_data`. `PushLaid`,
`AppendLaid` and `CopyLaid` prove it for the three ways to write, and `LayoutAppended`
adds a write to a layout. The invariant `IInv` is the type with `AllLaid` (every write is
held by the bytes, from the writer's memory through the copy of `DoneWriting` to the
reader's), `AtTheEnd` (the writer is behind all its writes), `CopyIsOfAll` (which bytes
the copy has while it is not deleted) and `FollowsWriter` (the reader is where
the writer was when it wrote the field to come). `ReadsBack` alone is not inductive: the
results say nothing of the fields still to be read. `StartWriting` may be called at any time and
deletes what `DoneWriting` handed out; a reader may be given that memory. What lies where
(`Places`) and where the reader is then still hold, what it reads is claimed only if the
memory is `Intact`. `BytesHoldBits` has two halves: no bit lies behind the bytes counted,
for every writer, and the first bit of each byte counted was written if no block follows a
single bit; without that condition the second is false (section 3). Packed floats may be
among the fields, but what they read back as is only model-checked. The theorems assume
`BitPackAssumption` and `EncoderAssumption` only, and hold for any widths, fields, memory
and number of writes. `EncoderTypeCorrect` and `EncoderBytesHoldBits` hold for a writer
that breaks the rules too.

Model-checked only: the race of sent messages (`message_race`), the acks of must-send
messages (`MustSendNotForgotten`), the rounding of packed floats (`FloatsReadBack`) and the
two disagreements about the table and the one about HTTP. Out of the prover's reach: liveness
under fairness (`DisconnectIsDone`, `ClosedIsRemoved`, `TransferCompletes`,
`EnterTerminates`).

## 5. Not modelled

- TCP and multicast modes of `Connection`, opening and closing of sockets: calls of the
  operating system without a protocol of their own. TCP's place in the table is modelled.
- Ping and loss statistics, logging, the error queue: nothing reads them back.
- Splitting of long messages: the pieces are never joined at the peer, because the code
  that joins them is commented out, so that no property can be stated.
- `FSServer`: `HandleClientMessage` never fills the string it searches
  (`FSServer.cpp:38` is commented out), so no handler of it ever runs.
- The client's list of files, its heartbeats, two transfers at the same time.
- `Service` and the instance servers of the master server: the first starts programs of
  the operating system, the code of the second is commented out.
- The text of requests, responses and pages, command parsing, string conversions of
  addresses, the reading of configuration files.
- Construction and destruction of a `NetworkingSystem`: the programs start the threads
  once and destroy the system when they end.

## 6. Plan

Modelling is done but for what section 5 lists. Proofs that are worth adding:

- `MustSendNotForgotten`: the packet in which a message waits carries it, and each pair of
  number and ack field that speaks of it claims its arrival only if the message was handed
  up, unless the end is `astray`. `AckTestIsTrue` is the step for one pair.
- A bound on the error of a packed float for every width, from the bound on one rounding.

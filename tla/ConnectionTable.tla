--------------------------- MODULE ConnectionTable ---------------------------
(***************************************************************************)
(* The table lrConnections_ of a NetworkingSystem, shared by the thread of *)
(* the application and the update thread. The table has a lock, each       *)
(* connection has one, and several accesses take neither. A step of a      *)
(* thread is what it does between two points where the other one can see   *)
(* or change what it uses. What a connection does inside is the subject of *)
(* UdpLink: here it is made, looked up, found ended by a pass and removed. *)
(***************************************************************************)
EXTENDS Naturals, Sequences, FiniteSets

CONSTANTS
  Conns,     \* the connection objects that may be allocated
  Peers,     \* addresses
  MaxSlots,  \* bound: the vector does not grow beyond
  Capacity,  \* push_back moves a vector that has so many elements
  MaxCalls,  \* bound: calls of the application that use a handle
  Null

ASSUME TableAssumption ==
  /\ IsFiniteSet(Conns)
  /\ {MaxSlots, Capacity, MaxCalls} \subseteq Nat
  /\ Null \notin Conns \cup Peers \cup {"update", "app"}

VARIABLES
  slots,    \* the vector lrConnections_: a handle is an index
  storage,  \* how often the vector has been allocated
  object,   \* "none", "live" or "deleted", per connection
  conID_,   \* its handle
  address,  \* its peer
  asked,    \* connections with sendFin_ set by Disconnect
  ended,    \* connections a pass left terminated or timed out
  told,     \* history: calls of handleDisconnectFunc_ per connection
  update,   \* where the update thread is, and its local variables
  app,      \* the same for the thread of the application
  fault     \* the thread that used memory that is gone, or Null

vars == <<slots, storage, object, conID_, address, asked, ended, told, update,
          app, fault>>
table == <<slots, storage, object, conID_, address>>
ends == <<asked, ended, told>>

Unlocked == {"disconnect", "count"}   \* Disconnect, NumReceivedInQueue
Calls == {"send", "receive"} \cup Unlocked

TypeOK ==
  /\ slots \in Seq(Conns \cup {Null}) /\ Len(slots) <= MaxSlots
  /\ storage \in 1 .. MaxSlots + 1
  /\ object \in [Conns -> {"none", "live", "deleted"}]
  /\ conID_ \in [Conns -> 0 .. MaxSlots]
  /\ address \in [Conns -> Peers \cup {Null}]
  /\ asked \subseteq Conns /\ ended \subseteq Conns
  /\ told \in [Conns -> Nat]
  /\ update \in [at : {"start", "walk", "read", "pass", "check", "remove",
                       "close", "delete", "clear", "parse", "make", "made",
                       "push", "accept"},
                 i : 1 .. MaxSlots + 1, count : 0 .. MaxSlots,
                 seen : 0 .. MaxSlots + 1,
                 con : Conns \cup {Null}, peer : Peers \cup {Null}]
  /\ update.at \in {"pass", "check", "remove", "close", "delete", "clear", "push"}
       => update.con \in Conns
  /\ app \in [at : {"idle", "check", "lock", "wait", "use", "unlock"},
              call : Calls, hCon : 1 .. MaxSlots + 1,
              seen : 0 .. MaxSlots + 1, con : Conns \cup {Null},
              calls : 0 .. MaxCalls]
  /\ fault \in {"update", "app", Null}

Idle == [at |-> "idle", call |-> "send", hCon |-> 1, seen |-> 0,
         con |-> Null, calls |-> 0]

Init ==
  /\ slots = <<>> /\ storage = 1
  /\ object = [c \in Conns |-> "none"]
  /\ conID_ = [c \in Conns |-> 0]
  /\ address = [c \in Conns |-> Null]
  /\ asked = {} /\ ended = {} /\ told = [c \in Conns |-> 0]
  /\ update = [at |-> "start", i |-> 1, count |-> 0, seen |-> 0,
               con |-> Null, peer |-> Null]
  /\ app = Idle
  /\ fault = Null

-----------------------------------------------------------------------------
(* The locks, by where their holders are. A pass of the update thread over  *)
(* a connection, and the placing of a new one, hold a lock only within one  *)
(* step.                                                                    *)
TableIsLocked == update.at \in {"close", "delete", "clear"}
IsLocked(c) == app.con = c /\ app.at \in {"use", "unlock"}

(* Mutant of FreeSlots: the test for NULL turned round.                     *)
FreeSlotsInverted == {i \in DOMAIN slots : slots[i] # Null}

FreeSlots == {i \in DOMAIN slots : slots[i] = Null}
NewSlot == Len(slots) + 1

(* Where Connect places a connection: the first free slot, or the end.      *)
Place ==
  IF FreeSlots = {} THEN NewSlot
  ELSE CHOOSE i \in FreeSlots : \A j \in FreeSlots : i <= j

(* Bound: objects and slots left for a connection placed at id.             *)
HasRoom(id) == id <= MaxSlots /\ \E c \in Conns : object[c] = "none"
Fresh == CHOOSE c \in Conns : object[c] = "none"

(* Mutant of Store: the handle is not kept.                                 *)
StoreNoHandle(id, peer) ==
  /\ slots' = [i \in DOMAIN slots \cup {id} |->
                 IF i = id THEN Fresh ELSE slots[i]]
  /\ storage' = IF id = NewSlot /\ Len(slots) >= Capacity THEN storage + 1
                                                         ELSE storage
  /\ object' = [object EXCEPT ![Fresh] = "live"]
  /\ UNCHANGED conID_
  /\ address' = [address EXCEPT ![Fresh] = peer]

(* A new connection is stored at id; push_back moves a full vector.         *)
Store(id, peer) ==
  /\ slots' = [i \in DOMAIN slots \cup {id} |->
                 IF i = id THEN Fresh ELSE slots[i]]
  /\ storage' = IF id = NewSlot /\ Len(slots) >= Capacity THEN storage + 1
                                                         ELSE storage
  /\ object' = [object EXCEPT ![Fresh] = "live"]
  /\ conID_' = [conID_ EXCEPT ![Fresh] = id]
  /\ address' = [address EXCEPT ![Fresh] = peer]

-----------------------------------------------------------------------------
(* The update thread. *)

Goto(at) == update' = [update EXCEPT !.at = at]

StartWalk ==
  /\ update.at = "start"
  /\ update' = [update EXCEPT !.at = "walk", !.i = 1, !.count = Len(slots)]
  /\ UNCHANGED <<table, ends, app, fault>>

(* Mutant of Walk: the last slot is left out.                               *)
WalkShort ==
  /\ update.at = "walk"
  /\ update' = IF update.i >= update.count
               THEN [update EXCEPT !.at = "parse", !.i = 1, !.count = 0]
               ELSE [update EXCEPT !.at = "read", !.seen = storage]
  /\ UNCHANGED <<table, ends, app, fault>>

(* The subscript of the loop, first half: where the elements are.           *)
Walk ==
  /\ update.at = "walk"
  /\ update' = IF update.i > update.count
               THEN [update EXCEPT !.at = "parse", !.i = 1, !.count = 0]
               ELSE [update EXCEPT !.at = "read", !.seen = storage]
  /\ UNCHANGED <<table, ends, app, fault>>

NextSlot == [update EXCEPT !.at = "walk", !.i = @ + 1, !.con = Null,
                           !.seen = 0]

(* Mutant of ReadSlot: without the test for NULL.                           *)
ReadSlotNoTest ==
  /\ update.at = "read"
  /\ update' = [update EXCEPT !.at = "pass", !.seen = 0,
                              !.con = slots[update.i]]
  /\ UNCHANGED <<table, ends, app, fault>>

(* Second half: the element itself, without the lock of the table.          *)
ReadSlot ==
  /\ update.at = "read"
  /\ IF update.seen # storage
     THEN fault' = "update" /\ UNCHANGED update
     ELSE /\ update' = IF slots[update.i] = Null THEN NextSlot
                       ELSE [update EXCEPT !.at = "pass", !.seen = 0,
                                           !.con = slots[update.i]]
          /\ UNCHANGED fault
  /\ UNCHANGED <<table, ends, app>>

(* One pass under the lock of the connection. It may leave it terminated:   *)
(* after the FIN of either side, or by the time-out read next.              *)
Pass(ending) ==
  /\ update.at = "pass"
  /\ ~IsLocked(update.con)
  /\ ended' = ended \cup ending
  /\ IF object[update.con] = "live" THEN UNCHANGED fault
                                    ELSE fault' = "update"
  /\ Goto("check")
  /\ UNCHANGED <<table, asked, told, app>>

(* Mutant of Check: removal without the callback.                           *)
CheckNotTold ==
  /\ update.at = "check"
  /\ IF update.con \in ended
     THEN Goto("remove")
     ELSE update' = NextSlot
  /\ UNCHANGED <<table, ends, app, fault>>

Check ==
  /\ update.at = "check"
  /\ IF update.con \in ended
     THEN /\ told' = [told EXCEPT ![update.con] = @ + 1]
          /\ Goto("remove")
     ELSE /\ update' = NextSlot
          /\ UNCHANGED told
  /\ UNCHANGED <<table, asked, ended, app, fault>>

(* RemoveConnection, at its points of interleaving: the lock of the table;  *)
(* the lock of the connection around Close; the delete; the slot.           *)
LockTable ==
  /\ update.at = "remove"
  /\ Goto("close")
  /\ UNCHANGED <<table, ends, app, fault>>

CloseSocket ==
  /\ update.at = "close"
  /\ ~IsLocked(update.con)
  /\ Goto("delete")
  /\ UNCHANGED <<table, ends, app, fault>>

Delete ==
  /\ update.at = "delete"
  /\ object' = [object EXCEPT ![update.con] = "deleted"]
  /\ address' = [address EXCEPT ![update.con] = Null]
  /\ Goto("clear")
  /\ UNCHANGED <<slots, storage, conID_, ends, app, fault>>

(* Mutant of ClearSlot: the slot keeps its pointer.                         *)
ClearSlotDangling ==
  /\ update.at = "clear"
  /\ update' = NextSlot
  /\ UNCHANGED <<table, ends, app, fault>>

ClearSlot ==
  /\ update.at = "clear"
  /\ slots' = [slots EXCEPT ![conID_[update.con]] = Null]
  /\ update' = NextSlot
  /\ UNCHANGED <<storage, object, conID_, address, ends, app, fault>>

(* ParseMessages looks for the sender of a datagram: the last slot that     *)
(* matches gets the messages. An unknown sender is connected if it asks     *)
(* with a SYN. The scan takes no lock and is one step here.                 *)
Matches(peer) == {i \in DOMAIN slots :
                    slots[i] # Null /\ address[slots[i]] = peer}

ParseMessages(peer, syn) ==
  /\ update.at = "parse"
  /\ LET found == Matches(peer) IN
     update' =
       IF found # {}
       THEN [update EXCEPT !.at = "push",
               !.con = slots[CHOOSE i \in found : \A j \in found : j <= i]]
       ELSE IF syn THEN [update EXCEPT !.at = "make", !.peer = peer]
       ELSE [update EXCEPT !.at = "accept"]
  /\ UNCHANGED <<table, ends, app, fault>>

(* Nothing has come, or a stale packet or one nobody asked for.             *)
NothingToParse ==
  /\ update.at = "parse"
  /\ Goto("accept")
  /\ UNCHANGED <<table, ends, app, fault>>

(* Connect as ParseMessages calls it. The new element is then looked up     *)
(* again, without the lock: where the elements are, then the element.       *)
MakeConnection ==
  /\ update.at = "make"
  /\ IF HasRoom(Place)
     THEN /\ Store(Place, update.peer)
          /\ update' = [update EXCEPT !.at = "made", !.peer = Null,
                                      !.i = Place, !.seen = storage']
     ELSE /\ update' = [update EXCEPT !.at = "accept", !.peer = Null]
          /\ UNCHANGED table
  /\ UNCHANGED <<ends, app, fault>>

ReadMade ==
  /\ update.at = "made"
  /\ IF update.seen # storage
     THEN fault' = "update" /\ UNCHANGED update
     ELSE /\ update' = [update EXCEPT !.at = "push", !.i = 1, !.seen = 0,
                                      !.con = slots[update.i]]
          /\ UNCHANGED fault
  /\ UNCHANGED <<table, ends, app>>

(* The messages are queued under the lock of the connection.                *)
PushReceived ==
  /\ update.at = "push"
  /\ ~IsLocked(update.con)
  /\ IF object[update.con] = "live" THEN UNCHANGED fault
                                    ELSE fault' = "update"
  /\ update' = [update EXCEPT !.at = "accept", !.con = Null]
  /\ UNCHANGED <<table, ends, app>>

(* TCPAccept always appends, even if a slot is free.                        *)
TCPAccept ==
  /\ update.at = "accept"
  /\ Goto("start")
  /\ \/ HasRoom(NewSlot) /\ \E peer \in Peers : Store(NewSlot, peer)
     \/ UNCHANGED table
  /\ UNCHANGED <<ends, app, fault>>

-----------------------------------------------------------------------------
(* The application. *)

Connect(peer) ==
  /\ app.at = "idle"
  /\ ~TableIsLocked
  /\ HasRoom(Place)
  /\ Store(Place, peer)
  /\ UNCHANGED <<ends, update, app, fault>>

(* A call of Send, Receive, Disconnect or NumReceivedInQueue.               *)
Call(call, hCon) ==
  /\ app.at = "idle"
  /\ app.calls < MaxCalls
  /\ app' = [app EXCEPT !.at = "check", !.call = call, !.hCon = hCon,
                        !.calls = @ + 1]
  /\ UNCHANGED <<table, ends, update, fault>>

(* Every use of lrConnections_[hCon] is a subscript of its own: where       *)
(* the elements are, then the element.                                      *)
Subscript ==
  /\ app.at \in {"check", "lock", "use", "unlock"}
  /\ app.seen = 0
  /\ app' = [app EXCEPT !.seen = storage]
  /\ UNCHANGED <<table, ends, update, fault>>

AppFault == fault' = "app" /\ UNCHANGED app
HasElement(at) == app.at = at /\ app.seen # 0
Element == slots[app.hCon]
Reached == Element # Null /\ object[Element] = "live"
IsStale == app.seen # storage
AppGoto(at, con) ==
  /\ app' = [app EXCEPT !.at = at, !.con = con, !.seen = 0]
  /\ UNCHANGED fault
Return == app' = [Idle EXCEPT !.calls = app.calls] /\ UNCHANGED fault

(* The test for NULL, before any lock.                                      *)
CheckSlot ==
  /\ HasElement("check")
  /\ IF IsStale THEN AppFault
     ELSE IF Element = Null THEN Return
     ELSE IF app.call \in Unlocked THEN AppGoto("use", Null)
     ELSE AppGoto("lock", Null)
  /\ UNCHANGED <<table, ends, update>>

(* LOCK_CON reads the element anew and calls its Lock.                      *)
LockCon ==
  /\ HasElement("lock")
  /\ IF IsStale \/ Element = Null THEN AppFault ELSE AppGoto("wait", Element)
  /\ UNCHANGED <<table, ends, update>>

WaitLock ==
  /\ app.at = "wait"
  /\ IF object[app.con] = "live" THEN AppGoto("use", app.con) ELSE AppFault
  /\ UNCHANGED <<table, ends, update>>

(* CON(hCon)-> reads it once more; Disconnect sets sendFin_ with no lock.   *)
Use ==
  /\ HasElement("use")
  /\ IF IsStale \/ ~Reached
     THEN AppFault /\ UNCHANGED asked
     ELSE IF app.call \in Unlocked
     THEN /\ Return
          /\ asked' = IF app.call = "disconnect" THEN asked \cup {Element}
                                                 ELSE asked
     ELSE AppGoto("unlock", app.con) /\ UNCHANGED asked
  /\ UNCHANGED <<table, ended, told, update>>

(* Send of a long message goes on with the next part of it.                 *)
UnlockCon(again) ==
  /\ HasElement("unlock")
  /\ again => app.call = "send" /\ app.calls < MaxCalls
  /\ IF IsStale \/ ~Reached THEN AppFault
     ELSE IF again
     THEN /\ app' = [app EXCEPT !.at = "lock", !.con = Null, !.seen = 0,
                                !.calls = @ + 1]
          /\ UNCHANGED fault
     ELSE Return
  /\ UNCHANGED <<table, ends, update>>

-----------------------------------------------------------------------------
EndPass(c) == update.con = c /\ Pass({c})

UpdateStep ==
  \/ StartWalk \/ Walk \/ ReadSlot \/ Pass({}) \/ Check
  \/ \E c \in Conns : EndPass(c)
  \/ LockTable \/ CloseSocket \/ Delete \/ ClearSlot
  \/ NothingToParse \/ \E peer \in Peers, syn \in BOOLEAN : ParseMessages(peer, syn)
  \/ MakeConnection \/ ReadMade \/ PushReceived \/ TCPAccept

CallStep ==
  \/ Subscript \/ CheckSlot \/ LockCon \/ WaitLock \/ Use
  \/ \E again \in BOOLEAN : UnlockCon(again)

AppStart ==
  \/ \E peer \in Peers : Connect(peer)
  \/ \E call \in Calls, hCon \in DOMAIN slots : Call(call, hCon)

(* A program that used memory that is gone promises nothing more.           *)
Crashed == fault # Null /\ UNCHANGED vars

Next ==
  \/ fault = Null /\ (UpdateStep \/ CallStep \/ AppStart)
  \/ Crashed

Spec == Init /\ [][Next]_vars

(* Threads run; a pass over a connection with sendFin_ set ends it at last, *)
(* because heartbeats go out and each packet not dropped carries the FIN.   *)
FairSpec ==
  /\ Spec
  /\ WF_vars(fault = Null /\ UpdateStep)
  /\ WF_vars(fault = Null /\ CallStep)
  /\ \A c \in Conns :
       SF_vars(fault = Null /\ c \in asked /\ EndPass(c))

-----------------------------------------------------------------------------
(* Properties. *)

BeingCleared(c) == update.at = "clear" /\ update.con = c

(* conID_ and the table agree (NetworkingSystem.cpp:831 removes by conID_): *)
(* a connection is in the slot its handle names from its making to its      *)
(* removal, in no other, and what a slot names exists, except while         *)
(* RemoveConnection is between the delete and the NULL.                     *)
SlotsAreLive ==
  /\ \A c \in Conns : object[c] = "live" =>
       conID_[c] \in DOMAIN slots /\ slots[conID_[c]] = c
  /\ \A i \in DOMAIN slots : slots[i] # Null =>
       /\ conID_[slots[i]] = i
       /\ object[slots[i]] = "live" \/ BeingCleared(slots[i])

(* handleDisconnectFunc_ is called once for a connection, before it goes,   *)
(* and for none that stays (NetworkingSystem.cpp:829).                      *)
ToldOnce ==
  \A c \in Conns :
    told[c] = IF object[c] = "deleted"
                 \/ (update.con = c /\ update.at \in {"remove", "close", "delete"})
              THEN 1 ELSE 0

(* Whatever is removed and placed around it, the update thread never comes  *)
(* to a connection that is gone: the only memory it can use too late is     *)
(* that of the vector, when push_back moved it between the two halves of a  *)
(* subscript (NetworkingSystem.cpp:813 and 1130).                           *)
UpdateFaultsOnlyByMove ==
  fault = "update" =>
    /\ update.at \in {"read", "made"} /\ update.seen # storage
    /\ Len(slots) > Capacity

(* "Don't need to lock lrConnection_ since I dont't modify the container    *)
(* directly" (NetworkingSystem.cpp:808): the update thread needs no lock.   *)
UpdateIsSafe == fault # "update"

(* A slot is given to another connection only when its own is deleted.      *)
KeepsItsSlot ==
  [][\A i \in DOMAIN slots :
       slots'[i] # slots[i] => slots[i] = Null \/ object[slots[i]] = "deleted"]_vars

(* A connection the application disconnects is reported and removed, unless *)
(* the program crashed.                                                     *)
DisconnectIsDone ==
  \A c \in Conns : c \in asked ~> object[c] = "deleted" \/ fault # Null

(* "Check if connection is null, if it is, shutdown"                        *)
(* (NetworkingSystem.cpp:515): a call that finds its slot filled is safe.   *)
CallIsSafe == fault # "app"

=============================================================================

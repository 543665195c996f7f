-------------------------- MODULE MasterServerProofs --------------------------
(***************************************************************************)
(* The table of connections and the master server over it, proved for any  *)
(* number of connections, peers, slots and calls. The table: its handles   *)
(* and objects agree, the disconnect function is called once, a slot       *)
(* changes hands only over a deleted connection, and the update thread     *)
(* uses no memory that is gone but that of a vector that moved. The        *)
(* server: its clients are the connections that came in over UDP and are   *)
(* not reported gone, for the callbacks of the update thread keep a vector *)
(* of handles in step with a table that gives every handle again.          *)
(***************************************************************************)
EXTENDS MasterServer, SequenceTheorems, FiniteSetTheorems,
        WellFoundedInduction, TLAPS

-----------------------------------------------------------------------------
(* The table. *)

(* The values TypeOK allows the local variables of the two threads.         *)
UpdateStates ==
  [at : {"start", "walk", "read", "pass", "check", "remove", "close", "delete",
         "clear", "parse", "make", "made", "push", "accept"},
   i : 1 .. MaxSlots + 1, count : 0 .. MaxSlots, seen : 0 .. MaxSlots + 1,
   con : Conns \cup {Null}, peer : Peers \cup {Null}]
AppStates ==
  [at : {"idle", "check", "lock", "wait", "use", "unlock"},
   call : Calls, hCon : 1 .. MaxSlots + 1, seen : 0 .. MaxSlots + 1,
   con : Conns \cup {Null}, calls : 0 .. MaxCalls]

(* Where the update thread counts on its connection to exist, and where it  *)
(* stands before a slot of its walk.                                        *)
Holding == {"pass", "check", "remove", "close", "delete", "push"}
Visiting == {"read", "pass", "check", "remove", "close", "delete", "clear"}
Reporting(c) == update.con = c /\ update.at \in {"remove", "close", "delete"}

(* What the update thread holds: the connection of its pass is live until   *)
(* its own delete, then still in the slot it is about to clear; the walk    *)
(* stays inside the vector, which only grows, and so does the subscript of  *)
(* a connection just made.                                                  *)
UpdateIsPlaced ==
  /\ update.at \in Holding => object[update.con] = "live"
  /\ update.at = "clear" =>
       /\ object[update.con] = "deleted"
       /\ conID_[update.con] \in DOMAIN slots
       /\ slots[conID_[update.con]] = update.con
  /\ update.count <= Len(slots)
  /\ update.at = "walk" => update.i <= update.count + 1
  /\ update.at \in Visiting => update.i <= update.count
  /\ update.at = "made" =>
       update.i \in DOMAIN slots /\ slots[update.i] # Null

(* A call of the application has a handle that was given out.               *)
AppIsPlaced ==
  /\ app.at # "idle" => app.hCon \in DOMAIN slots
  /\ app.at = "wait" => app.con \in Conns

(* The vector moves at most once per slot, and not before it was full. A    *)
(* subscript has noted where it was.                                        *)
StorageIsKept ==
  /\ storage <= Len(slots) + 1
  /\ storage > 1 => Len(slots) > Capacity
  /\ update.seen <= storage
  /\ update.at \in {"read", "made"} => update.seen >= 1
  /\ app.seen <= storage

(* The inductive invariant.                                                 *)
TableInv ==
  /\ TypeOK /\ SlotsAreLive /\ ToldOnce
  /\ UpdateIsPlaced /\ AppIsPlaced /\ StorageIsKept

-----------------------------------------------------------------------------
(* Facts about the operators of the model. *)

(* A set of numbers that is not empty has a least one.                      *)
LEMMA LeastExists ==
  ASSUME NEW S \in SUBSET Nat, S # {}
  PROVE  \E i \in S : \A j \in S : i <= j
<1> DEFINE Less == OpToRel(<, Nat)
<1>1. IsWellFoundedOn(Less, Nat)
  BY NatLessThanWellFounded
<1>2. PICK i \in S : \A j \in S : ~(<<j, i>> \in Less)
  <2> HIDE DEF Less
  <2> QED BY <1>1, WFMin
<1>3. ASSUME NEW j \in S PROVE i <= j
  <2>1. <<j, i>> \in Nat \X Nat
    OBVIOUS
  <2>2. ~(j < i)
    BY <1>2, <2>1 DEF OpToRel
  <2> QED BY <2>2
<1> QED BY <1>3

(* A bounded one that is not empty has a greatest.                          *)
LEMMA GreatestExists ==
  ASSUME NEW n \in Nat, NEW S \in SUBSET (1 .. n), S # {}
  PROVE  \E i \in S : \A j \in S : j <= i
<1> DEFINE Distances == {n - i : i \in S}
<1>1. Distances \in SUBSET Nat /\ Distances # {}
  <2>1. \A i \in S : i \in Int /\ n - i \in Nat
    OBVIOUS
  <2>2. PICK i \in S : TRUE
    OBVIOUS
  <2>3. n - i \in Distances
    BY <2>2
  <2> QED BY <2>1, <2>3
<1>2. PICK d \in Distances : \A e \in Distances : d <= e
  <2> HIDE DEF Distances
  <2> QED BY <1>1, LeastExists
<1>3. PICK i \in S : d = n - i
  BY <1>2
<1>4. ASSUME NEW j \in S PROVE j <= i
  BY <1>2, <1>3
<1> QED BY <1>4

(* A vector with one element set, or one added behind the last.             *)
Placed(s, id, e) ==
  [i \in DOMAIN s \cup {id} |-> IF i = id THEN e ELSE s[i]]

(* It is a vector again.                                                    *)
LEMMA PlacedIsSeq ==
  ASSUME NEW S, NEW s \in Seq(S), NEW id \in 1 .. Len(s) + 1, NEW e \in S
  PROVE  Placed(s, id, e) \in Seq(S)
<1> DEFINE n == IF id = Len(s) + 1 THEN Len(s) + 1 ELSE Len(s)
<1>1. Len(s) \in Nat /\ DOMAIN s = 1 .. Len(s) /\ n \in Nat
  BY LenProperties
<1>2. DOMAIN s \cup {id} = 1 .. n
  BY <1>1
<1>3. Placed(s, id, e) \in [1 .. n -> S]
  BY <1>1, <1>2, ElementOfSeq DEF Placed
<1>4. \E m \in Nat : Placed(s, id, e) \in [1 .. m -> S]
  BY <1>1, <1>3
<1> QED BY <1>4, SeqDef, Zenon

(* Connect looks for a slot that is NULL or the end: never one in use.      *)
LEMMA PlaceIsFree ==
  ASSUME TypeOK
  PROVE  /\ Place \in 1 .. Len(slots) + 1
         /\ Place \in DOMAIN slots => slots[Place] = Null
<1>1. Len(slots) \in Nat /\ DOMAIN slots = 1 .. Len(slots)
  BY LenProperties DEF TypeOK
<1>2. CASE FreeSlots = {}
  BY <1>1, <1>2 DEF Place, NewSlot
<1>3. CASE FreeSlots # {}
  <2>1. FreeSlots \in SUBSET Nat
    BY <1>1 DEF FreeSlots
  <2>2. \E i \in FreeSlots : \A j \in FreeSlots : i <= j
    BY <1>3, <2>1, LeastExists
  <2>3. Place \in FreeSlots
    BY <1>3, <2>2 DEF Place
  <2> QED BY <1>1, <2>3 DEF FreeSlots
<1> QED BY <1>2, <1>3

(* The type invariant by the names of this module.                          *)
LEMMA TypeOKUnfolded ==
  ASSUME TypeOK
  PROVE  /\ Len(slots) \in Nat /\ DOMAIN slots = 1 .. Len(slots)
         /\ \A i \in DOMAIN slots : slots[i] \in Conns \cup {Null}
         /\ Len(slots) <= MaxSlots
         /\ storage \in Nat \ {0} /\ MaxSlots \in Nat /\ Capacity \in Nat
         /\ update \in UpdateStates /\ app \in AppStates
         /\ Null \notin Conns
<1>1. slots \in Seq(Conns \cup {Null})
  BY DEF TypeOK
<1>2. MaxSlots \in Nat /\ Capacity \in Nat /\ Null \notin Conns
  BY TableAssumption
<1>3. update \in UpdateStates /\ app \in AppStates
  BY DEF TypeOK, UpdateStates, AppStates
<1> QED BY <1>1, <1>2, <1>3, LenProperties, ElementOfSeq DEF TypeOK

-----------------------------------------------------------------------------
(* The steps. *)

(* The slot a new connection gets, and what the vector is afterwards.       *)
LEMMA StorePlaces ==
  ASSUME TableInv, NEW id \in {Place, NewSlot}, NEW peer \in Peers \cup {Null},
         HasRoom(id), Store(id, peer)
  PROVE  /\ Fresh \in Conns /\ object[Fresh] = "none"
         /\ id \in 1 .. Len(slots) + 1 /\ id <= MaxSlots
         /\ id \in DOMAIN slots => slots[id] = Null
         /\ slots' \in Seq(Conns \cup {Null})
         /\ Len(slots') = IF id = NewSlot THEN Len(slots) + 1 ELSE Len(slots)
         /\ DOMAIN slots' = DOMAIN slots \cup {id}
         /\ slots'[id] = Fresh
         /\ \A i \in DOMAIN slots : i # id => slots'[i] = slots[i]
<1>1. Fresh \in Conns /\ object[Fresh] = "none"
  BY DEF HasRoom, Fresh
<1>2. Len(slots) \in Nat /\ DOMAIN slots = 1 .. Len(slots)
  BY TypeOKUnfolded DEF TableInv
<1>3. id \in 1 .. Len(slots) + 1 /\ (id \in DOMAIN slots => slots[id] = Null)
  BY <1>2, PlaceIsFree DEF TableInv, NewSlot
<1>4. id <= MaxSlots
  BY DEF HasRoom
<1>5. slots \in Seq(Conns \cup {Null})
  BY DEF TableInv, TypeOK
<1>6. slots' = Placed(slots, id, Fresh)
  BY DEF Store, Placed
<1> HIDE DEF Store, Fresh, TableInv
<1>7. /\ slots' \in Seq(Conns \cup {Null})
      /\ Len(slots') = IF id = Len(slots) + 1 THEN Len(slots) + 1 ELSE Len(slots)
      /\ DOMAIN slots' = DOMAIN slots \cup {id}
      /\ slots'[id] = Fresh
      /\ \A i \in DOMAIN slots : i # id => slots'[i] = slots[i]
  <2> DEFINE Values == Conns \cup {Null}
  <2>1. slots \in Seq(Values) /\ Fresh \in Values /\ id \in 1 .. Len(slots) + 1
    BY <1>1, <1>3, <1>5
  <2>2. slots' \in Seq(Values)
    <3> HIDE DEF Values
    <3> QED BY <1>6, <2>1, PlacedIsSeq
  <2>3. /\ DOMAIN slots' = DOMAIN slots \cup {id}
        /\ slots'[id] = Fresh
        /\ \A i \in DOMAIN slots : i # id => slots'[i] = slots[i]
    BY <1>6 DEF Placed
  <2>4. Len(slots') \in Nat /\ DOMAIN slots' = 1 .. Len(slots')
    BY <2>2, LenProperties
  <2> QED BY <1>2, <1>3, <2>2, <2>3, <2>4
<1> QED BY <1>1, <1>3, <1>4, <1>7 DEF NewSlot

(* A step that leaves the table alone, and neither reaches nor leaves the   *)
(* part of RemoveConnection that reports, deletes and clears.               *)
LEMMA TableIsKept ==
  ASSUME TableInv, UNCHANGED table, UNCHANGED told,
         asked' \subseteq Conns, ended' \subseteq Conns,
         update' \in UpdateStates,
         update'.at \in Holding \cup {"clear"} => update'.con \in Conns,
         app' \in AppStates, fault' \in {"update", "app", Null},
         \A c \in Conns : Reporting(c)' = Reporting(c),
         \A c \in Conns : BeingCleared(c)' = BeingCleared(c)
  PROVE  TypeOK' /\ SlotsAreLive' /\ ToldOnce'
<1>1. TypeOK'
  BY DEF TableInv, TypeOK, table, UpdateStates, AppStates, Holding
<1>2. SlotsAreLive'
  <2>1. \A i \in DOMAIN slots : slots[i] # Null => slots[i] \in Conns
    BY TypeOKUnfolded DEF TableInv
  <2> QED BY <2>1 DEF TableInv, SlotsAreLive, table
<1>3. ToldOnce'
  BY DEF TableInv, ToldOnce, Reporting, table
<1> QED BY <1>1, <1>2, <1>3

(* What the invariant says of the update thread, wherever it is: the slot   *)
(* of its walk exists, and so does the next one, or the walk ends there.    *)
LEMMA UpdateFacts ==
  ASSUME TableInv
  PROVE  /\ update.at \in Holding \cup {"clear"} => update.con \in Conns
         /\ update.i \in 1 .. MaxSlots + 1 /\ update.count \in 0 .. MaxSlots
         /\ update.seen \in 0 .. MaxSlots + 1
         /\ storage \in 0 .. MaxSlots + 1
         /\ fault \in {"update", "app", Null}
         /\ update.at \in Visiting =>
              /\ update.i \in DOMAIN slots
              /\ NextSlot \in UpdateStates
              /\ NextSlot.at = "walk" /\ NextSlot.i = update.i + 1
              /\ NextSlot.count = update.count /\ NextSlot.seen = 0
<1>1. /\ Len(slots) \in Nat /\ DOMAIN slots = 1 .. Len(slots)
      /\ Len(slots) <= MaxSlots
      /\ storage \in Nat \ {0} /\ MaxSlots \in Nat
      /\ update \in UpdateStates
  BY TypeOKUnfolded DEF TableInv
<1>2. storage \in 0 .. MaxSlots + 1 /\ 0 \in 0 .. MaxSlots + 1
  BY <1>1 DEF TableInv, StorageIsKept
<1>3. /\ update.i \in 1 .. MaxSlots + 1 /\ update.count \in 0 .. MaxSlots
      /\ update.seen \in 0 .. MaxSlots + 1
  BY <1>1 DEF UpdateStates
<1>4. /\ update.at \in Holding \cup {"clear"} => update.con \in Conns
      /\ fault \in {"update", "app", Null}
  BY DEF TableInv, TypeOK, Holding
<1>5. ASSUME update.at \in Visiting
      PROVE  /\ update.i \in DOMAIN slots
             /\ NextSlot \in UpdateStates
             /\ NextSlot.at = "walk" /\ NextSlot.i = update.i + 1
             /\ NextSlot.count = update.count /\ NextSlot.seen = 0
  <2>1. update.i <= update.count /\ update.count <= Len(slots)
    BY <1>5 DEF TableInv, UpdateIsPlaced
  <2>2. update.i \in DOMAIN slots /\ update.i + 1 \in 1 .. MaxSlots + 1
    BY <1>1, <1>3, <2>1
  <2>3. NextSlot \in UpdateStates
    BY <1>1, <1>2, <2>2, Zenon DEF NextSlot, UpdateStates
  <2>4. /\ NextSlot.at = "walk" /\ NextSlot.i = update.i + 1
        /\ NextSlot.count = update.count /\ NextSlot.seen = 0
    BY <1>1 DEF NextSlot, UpdateStates
  <2> QED BY <2>2, <2>3, <2>4
<1> QED BY <1>2, <1>3, <1>4, <1>5

(* A new place of the update thread, its other variables kept, is one.      *)
LEMMA GotoIsTyped ==
  ASSUME TableInv,
         NEW at \in {"start", "walk", "read", "pass", "check", "remove",
                     "close", "delete", "clear", "parse", "make", "made",
                     "push", "accept"},
         Goto(at)
  PROVE  /\ update' \in UpdateStates
         /\ update'.at = at /\ update'.i = update.i
         /\ update'.count = update.count /\ update'.seen = update.seen
         /\ update'.con = update.con /\ update'.peer = update.peer
<1>1. update \in UpdateStates
  BY TypeOKUnfolded DEF TableInv
<1>2. update' \in UpdateStates
  BY <1>1, Zenon DEF Goto, UpdateStates
<1> QED BY <1>1, <1>2 DEF Goto, UpdateStates

(* A step of the update thread that leaves the table alone and stays out of *)
(* the removal keeps the invariant, if it still stands where it may.        *)
LEMMA UpdateMoves ==
  ASSUME TableInv, UNCHANGED table, UNCHANGED <<asked, told, app>>,
         ended' \subseteq Conns, fault' \in {"update", "app", Null},
         update' \in UpdateStates,
         update'.at \in Holding \cup {"clear"} => update'.con \in Conns,
         \A c \in Conns : Reporting(c)' = Reporting(c),
         \A c \in Conns : BeingCleared(c)' = BeingCleared(c),
         UpdateIsPlaced', update'.seen <= storage,
         update'.at \in {"read", "made"} => update'.seen >= 1
  PROVE  TableInv'
<1>1. asked' \subseteq Conns /\ app' \in AppStates
  BY TypeOKUnfolded DEF TableInv, TypeOK
<1>2. TypeOK' /\ SlotsAreLive' /\ ToldOnce'
  BY <1>1, TableIsKept
<1>3. AppIsPlaced'
  BY DEF TableInv, AppIsPlaced, table
<1>4. StorageIsKept'
  BY DEF TableInv, StorageIsKept, table
<1> QED BY <1>2, <1>3, <1>4 DEF TableInv


(* The start of a walk over the slots.                                      *)
LEMMA StartWalkKeeps == TableInv /\ StartWalk => TableInv'
<1> SUFFICES ASSUME TableInv, StartWalk PROVE TableInv'
  OBVIOUS
<1>1. /\ update \in UpdateStates /\ Len(slots) \in 0 .. MaxSlots
      /\ 1 \in 1 .. MaxSlots + 1
  BY TypeOKUnfolded DEF TableInv
<1>2. update' \in UpdateStates
  BY <1>1, Zenon DEF StartWalk, UpdateStates
<1>3. /\ update.at = "start" /\ update'.at = "walk" /\ update'.i = 1
      /\ update'.count = Len(slots) /\ update'.seen = update.seen
  BY <1>1 DEF StartWalk, UpdateStates
<1>4. UpdateIsPlaced'
  BY <1>1, <1>3 DEF StartWalk, table, UpdateIsPlaced, Holding, Visiting
<1> QED BY <1>2, <1>3, <1>4, UpdateMoves, UpdateFacts
     DEF StartWalk, ends, Holding, Reporting, BeingCleared, TableInv, TypeOK,
         StorageIsKept

(* The subscript of the walk: past the last slot, or the storage is noted.  *)
LEMMA WalkKeeps == TableInv /\ Walk => TableInv'
<1> SUFFICES ASSUME TableInv, Walk PROVE TableInv'
  OBVIOUS
<1>1. /\ update \in UpdateStates /\ storage \in 0 .. MaxSlots + 1
      /\ Len(slots) \in Nat /\ DOMAIN slots = 1 .. Len(slots)
      /\ 1 \in 1 .. MaxSlots + 1 /\ 0 \in 0 .. MaxSlots
      /\ update.i \in Nat /\ update.count \in Nat
  BY TypeOKUnfolded, UpdateFacts DEF TableInv
<1>2. UNCHANGED <<table, ends, app, fault>> /\ update.at = "walk"
  BY DEF Walk
<1>3. CASE update.i > update.count
  <2>1. update' = [update EXCEPT !.at = "parse", !.i = 1, !.count = 0]
    BY <1>3 DEF Walk
  <2>2. update' \in UpdateStates
    BY <1>1, <2>1, Zenon DEF UpdateStates
  <2>3. /\ update'.at = "parse" /\ update'.count = 0
        /\ update'.seen = update.seen
    BY <1>1, <2>1 DEF UpdateStates
  <2>4. UpdateIsPlaced'
    BY <1>1, <1>2, <2>3 DEF table, UpdateIsPlaced, Holding, Visiting
  <2> QED BY <1>2, <2>2, <2>3, <2>4, UpdateMoves, UpdateFacts
       DEF ends, Holding, Reporting, BeingCleared, TableInv, TypeOK,
           StorageIsKept
<1>4. CASE ~(update.i > update.count)
  <2>1. update' = [update EXCEPT !.at = "read", !.seen = storage]
    BY <1>4 DEF Walk
  <2>2. update' \in UpdateStates
    BY <1>1, <2>1, Zenon DEF UpdateStates
  <2>3. /\ update'.at = "read" /\ update'.count = update.count
        /\ update'.seen = storage /\ update'.i = update.i
    BY <1>1, <2>1 DEF UpdateStates
  <2>4. UpdateIsPlaced'
    BY <1>1, <1>2, <1>4, <2>3
       DEF table, UpdateIsPlaced, Holding, Visiting, TableInv
  <2>5. storage <= storage /\ storage >= 1
    BY <1>1, TypeOKUnfolded DEF TableInv
  <2> QED BY <1>2, <2>2, <2>3, <2>4, <2>5, UpdateMoves, UpdateFacts
       DEF ends, Holding, Reporting, BeingCleared, TableInv, TypeOK
<1> QED BY <1>3, <1>4

(* The read of a slot: a connection it finds is live.                       *)
LEMMA ReadSlotKeeps == TableInv /\ ReadSlot => TableInv'
<1> SUFFICES ASSUME TableInv, ReadSlot PROVE TableInv'
  OBVIOUS
<1>1. /\ update \in UpdateStates /\ storage \in 0 .. MaxSlots + 1
      /\ Len(slots) \in Nat /\ DOMAIN slots = 1 .. Len(slots)
      /\ 0 \in 0 .. MaxSlots + 1
      /\ update.i \in Nat /\ update.count \in Nat
      /\ \A i \in DOMAIN slots : slots[i] \in Conns \cup {Null}
  BY TypeOKUnfolded, UpdateFacts DEF TableInv
<1>2. UNCHANGED <<table, ends, app>> /\ update.at = "read"
  BY DEF ReadSlot
<1>3. /\ update.i \in DOMAIN slots /\ update.i <= update.count
      /\ update.count <= Len(slots)
  BY <1>2, UpdateFacts DEF Visiting, TableInv, UpdateIsPlaced
<1>4. CASE update.seen # storage
  <2>1. fault' = "update" /\ UNCHANGED update
    BY <1>4 DEF ReadSlot
  <2> QED BY <1>1, <1>2, <2>1, UpdateMoves, UpdateFacts
       DEF ends, table, Holding, Visiting, Reporting, BeingCleared, TableInv,
           TypeOK, UpdateIsPlaced, StorageIsKept
<1>5. CASE update.seen = storage /\ slots[update.i] = Null
  <2>1. update' = NextSlot /\ UNCHANGED fault
    BY <1>5 DEF ReadSlot
  <2>2. /\ update' \in UpdateStates /\ update'.at = "walk"
        /\ update'.i = update.i + 1 /\ update'.count = update.count
        /\ update'.seen = 0
    BY <1>2, <2>1, UpdateFacts DEF Visiting
  <2>3. UpdateIsPlaced'
    BY <1>1, <1>2, <1>3, <2>2 DEF table, UpdateIsPlaced, Holding, Visiting
  <2>4. \A d \in Conns : Reporting(d)' = Reporting(d)
                         /\ BeingCleared(d)' = BeingCleared(d)
    BY <1>2, <2>2 DEF Reporting, BeingCleared
  <2>5. /\ UNCHANGED <<table, asked, ended, told, app, fault>>
        /\ ended \subseteq Conns
        /\ update'.at \notin Holding \cup {"clear"}
        /\ update'.at \notin {"read", "made"}
    BY <1>2, <2>1, <2>2 DEF ends, Holding, TableInv, TypeOK
  <2> QED BY <1>1, <2>2, <2>3, <2>4, <2>5, UpdateMoves, UpdateFacts
<1>6. CASE update.seen = storage /\ slots[update.i] # Null
  <2> DEFINE c == slots[update.i]
  <2>1. /\ update' = [update EXCEPT !.at = "pass", !.seen = 0, !.con = c]
        /\ UNCHANGED fault
    BY <1>6 DEF ReadSlot
  <2>2. c \in Conns /\ object[c] = "live"
    BY <1>1, <1>2, <1>3, <1>6 DEF TableInv, SlotsAreLive, BeingCleared
  <2>3. update' \in UpdateStates
    BY <1>1, <2>1, <2>2, Zenon DEF UpdateStates
  <2>4. /\ update'.at = "pass" /\ update'.count = update.count
        /\ update'.seen = 0 /\ update'.i = update.i /\ update'.con = c
    BY <1>1, <2>1 DEF UpdateStates
  <2>5. UpdateIsPlaced'
    BY <1>1, <1>2, <1>3, <2>2, <2>4
       DEF table, UpdateIsPlaced, Holding, Visiting
  <2>6. \A d \in Conns : Reporting(d)' = Reporting(d)
                         /\ BeingCleared(d)' = BeingCleared(d)
    BY <1>2, <2>4 DEF Reporting, BeingCleared
  <2>7. UNCHANGED <<table, asked, ended, told, app, fault>>
    BY <1>2, <2>1 DEF ends
  <2>8. ended \subseteq Conns
    BY DEF TableInv, TypeOK
  <2> QED BY <1>1, <2>2, <2>3, <2>4, <2>5, <2>6, <2>7, <2>8,
             UpdateMoves, UpdateFacts
<1> QED BY <1>4, <1>5, <1>6

(* A pass under the lock of the connection, whether it ends it or not.      *)
LEMMA PassKeeps ==
  ASSUME TableInv, NEW ending \in SUBSET Conns, Pass(ending)
  PROVE  TableInv'
<1>1. UNCHANGED <<table, asked, told, app>> /\ update.at = "pass"
  BY DEF Pass
<1>2. Goto("check") /\ ended' = ended \cup ending
  BY DEF Pass
<1>3. fault' \in {"update", "app", Null}
  BY UpdateFacts DEF Pass
<1>4. /\ update' \in UpdateStates /\ update'.at = "check"
      /\ update'.i = update.i /\ update'.count = update.count
      /\ update'.seen = update.seen /\ update'.con = update.con
  BY <1>2, GotoIsTyped
<1>5. UpdateIsPlaced'
  BY <1>1, <1>4 DEF table, UpdateIsPlaced, Holding, Visiting, TableInv
<1> QED BY <1>1, <1>2, <1>3, <1>4, <1>5, UpdateMoves, UpdateFacts
     DEF Holding, Reporting, BeingCleared, TableInv, TypeOK, StorageIsKept

(* RemoveConnection up to the delete; the connection is still there.        *)
LEMMA LocksKeep == TableInv /\ (LockTable \/ CloseSocket) => TableInv'
<1> SUFFICES ASSUME TableInv,
                    NEW at \in {"close", "delete"}, Goto(at),
                    update.at \in {"remove", "close"},
                    UNCHANGED <<table, ends, app, fault>>
             PROVE  TableInv'
  BY DEF LockTable, CloseSocket
<1>1. /\ update' \in UpdateStates /\ update'.at = at
      /\ update'.i = update.i /\ update'.count = update.count
      /\ update'.seen = update.seen /\ update'.con = update.con
  BY GotoIsTyped
<1>2. UpdateIsPlaced'
  BY <1>1 DEF table, UpdateIsPlaced, Holding, Visiting, TableInv
<1> QED BY <1>1, <1>2, UpdateMoves, UpdateFacts
     DEF ends, Holding, Reporting, BeingCleared, TableInv, TypeOK,
         StorageIsKept

(* The scan for the sender of a datagram finds a live connection, or none.  *)
LEMMA ParseMessagesKeeps ==
  ASSUME TableInv, NEW peer \in Peers, NEW syn \in BOOLEAN,
         ParseMessages(peer, syn)
  PROVE  TableInv'
<1> DEFINE found == Matches(peer)
           last == CHOOSE i \in found : \A j \in found : j <= i
<1>1. /\ update \in UpdateStates
      /\ Len(slots) \in Nat /\ DOMAIN slots = 1 .. Len(slots)
      /\ \A i \in DOMAIN slots : slots[i] \in Conns \cup {Null}
  BY TypeOKUnfolded DEF TableInv
<1>2. UNCHANGED <<table, ends, app, fault>> /\ update.at = "parse"
  BY DEF ParseMessages
<1>3. CASE found # {}
  <2>1. found \in SUBSET (1 .. Len(slots))
    BY <1>1 DEF Matches
  <2>2. last \in found
    <3>1. \E i \in found : \A j \in found : j <= i
      BY <1>1, <1>3, <2>1, GreatestExists
    <3> QED BY <3>1
  <2>3. slots[last] \in Conns /\ object[slots[last]] = "live"
    BY <1>1, <1>2, <2>2 DEF Matches, TableInv, SlotsAreLive, BeingCleared
  <2>4. update' = [update EXCEPT !.at = "push", !.con = slots[last]]
    BY <1>3 DEF ParseMessages
  <2> HIDE DEF found, last
  <2>5. update' \in UpdateStates
    BY <1>1, <2>3, <2>4, Zenon DEF UpdateStates
  <2>6. /\ update'.at = "push" /\ update'.con = slots[last]
        /\ update'.count = update.count /\ update'.seen = update.seen
    BY <1>1, <2>4 DEF UpdateStates
  <2>7. UpdateIsPlaced'
    BY <1>2, <2>3, <2>6 DEF table, UpdateIsPlaced, Holding, Visiting, TableInv
  <2> QED BY <1>2, <2>3, <2>5, <2>6, <2>7, UpdateMoves, UpdateFacts
       DEF ends, Holding, Reporting, BeingCleared, TableInv, TypeOK,
           StorageIsKept
<1>4. ASSUME NEW at \in {"make", "accept"}, NEW p \in Peers \cup {Null},
             update' = [update EXCEPT !.at = at, !.peer = p]
      PROVE  TableInv'
  <2>1. update' \in UpdateStates
    BY <1>1, <1>4, Zenon DEF UpdateStates
  <2>2. /\ update'.at = at /\ update'.seen = update.seen
        /\ update'.count = update.count
    BY <1>1, <1>4 DEF UpdateStates
  <2>3. UpdateIsPlaced'
    BY <1>2, <2>2 DEF table, UpdateIsPlaced, Holding, Visiting, TableInv
  <2> QED BY <1>2, <2>1, <2>2, <2>3, UpdateMoves, UpdateFacts
       DEF ends, Holding, Reporting, BeingCleared, TableInv, TypeOK,
           StorageIsKept
<1>5. CASE found = {} /\ syn
  <2>1. update' = [update EXCEPT !.at = "make", !.peer = peer]
    BY <1>5 DEF ParseMessages
  <2> QED BY <1>4, <2>1
<1>6. CASE found = {} /\ ~syn
  <2>1. update' = [update EXCEPT !.at = "accept"]
    BY <1>6 DEF ParseMessages
  <2>2. update' = [update EXCEPT !.at = "accept", !.peer = update.peer]
        /\ update.peer \in Peers \cup {Null}
    BY <1>1, <2>1 DEF UpdateStates
  <2> QED BY <1>4, <2>2
<1> QED BY <1>3, <1>5, <1>6

(* Nothing to parse.                                                        *)
LEMMA NothingToParseKeeps == TableInv /\ NothingToParse => TableInv'
<1> SUFFICES ASSUME TableInv, NothingToParse PROVE TableInv'
  OBVIOUS
<1>1. /\ update' \in UpdateStates /\ update'.at = "accept"
      /\ update'.i = update.i /\ update'.count = update.count
      /\ update'.seen = update.seen
  BY GotoIsTyped DEF NothingToParse
<1>2. UpdateIsPlaced'
  BY <1>1
     DEF NothingToParse, table, UpdateIsPlaced, Holding, Visiting, TableInv
<1> QED BY <1>1, <1>2, UpdateMoves, UpdateFacts
     DEF NothingToParse, ends, Holding, Reporting, BeingCleared, TableInv,
         TypeOK, StorageIsKept

(* The messages of a datagram are queued at their connection.               *)
LEMMA PushReceivedKeeps == TableInv /\ PushReceived => TableInv'
<1> SUFFICES ASSUME TableInv, PushReceived PROVE TableInv'
  OBVIOUS
<1>1. update \in UpdateStates
  BY TypeOKUnfolded DEF TableInv
<1>2. /\ update.at = "push" /\ UNCHANGED <<table, ends, app>>
      /\ update' = [update EXCEPT !.at = "accept", !.con = Null]
      /\ fault' \in {"update", "app", Null}
  BY UpdateFacts DEF PushReceived
<1>3. update' \in UpdateStates
  BY <1>1, <1>2, Zenon DEF UpdateStates
<1>4. /\ update'.at = "accept" /\ update'.seen = update.seen
      /\ update'.count = update.count
  BY <1>1, <1>2 DEF UpdateStates
<1>5. UpdateIsPlaced'
  BY <1>2, <1>4 DEF table, UpdateIsPlaced, Holding, Visiting, TableInv
<1> QED BY <1>2, <1>3, <1>4, <1>5, UpdateMoves, UpdateFacts
     DEF ends, Holding, Reporting, BeingCleared, TableInv, TypeOK,
         StorageIsKept

(* The end of a connection is reported, for the first time: it is live.     *)
LEMMA CheckKeeps == TableInv /\ Check => TableInv'
<1> SUFFICES ASSUME TableInv, Check PROVE TableInv'
  OBVIOUS
<1> DEFINE c == update.con
<1>1. /\ update.at = "check" /\ c \in Conns
      /\ UNCHANGED <<table, asked, ended, app, fault>>
      /\ ended \subseteq Conns /\ Null \notin Conns
      /\ Len(slots) \in Nat /\ update.i \in Nat /\ update.count \in Nat
      /\ storage \in Nat
  BY UpdateFacts, TypeOKUnfolded DEF Check, Holding, TableInv, TypeOK
<1>2. CASE c \notin ended
  <2>1. /\ update' = NextSlot /\ UNCHANGED told
    BY <1>2 DEF Check
  <2>2. /\ update' \in UpdateStates /\ update'.at = "walk"
        /\ update'.i = update.i + 1 /\ update'.count = update.count
        /\ update'.seen = 0
    BY <1>1, <2>1, UpdateFacts DEF Visiting
  <2>3. UpdateIsPlaced'
    BY <1>1, <2>2 DEF table, UpdateIsPlaced, Holding, Visiting, TableInv
  <2> QED BY <1>1, <2>1, <2>2, <2>3, UpdateMoves, UpdateFacts
       DEF Holding, Reporting, BeingCleared
<1>3. CASE c \in ended
  <2>1. told' = [told EXCEPT ![c] = @ + 1] /\ Goto("remove")
    BY <1>3 DEF Check
  <2>2. /\ update' \in UpdateStates /\ update'.at = "remove"
        /\ update'.i = update.i /\ update'.count = update.count
        /\ update'.seen = update.seen /\ update'.con = c
    BY <2>1, GotoIsTyped
  <2>3. told \in [Conns -> Nat] /\ object[c] = "live"
    BY <1>1 DEF TableInv, TypeOK, UpdateIsPlaced, Holding
  <2>4. told[c] = 0
    BY <1>1, <2>3 DEF TableInv, ToldOnce
  <2>5. TypeOK'
    BY <1>1, <2>1, <2>2, <2>3 DEF TableInv, TypeOK, table, UpdateStates
  <2>6. SlotsAreLive'
    BY <1>1, <2>2 DEF TableInv, SlotsAreLive, BeingCleared, table
  <2>7. ToldOnce'
    <3>1. ASSUME NEW d \in Conns, d # c
          PROVE  told'[d] = IF object[d] = "deleted" THEN 1 ELSE 0
      BY <1>1, <2>1, <2>3, <3>1 DEF TableInv, ToldOnce
    <3>2. told'[c] = 1
      BY <1>1, <2>1, <2>3, <2>4
    <3> QED BY <1>1, <2>2, <3>1, <3>2 DEF ToldOnce, table
  <2>8. UpdateIsPlaced'
    BY <1>1, <2>2 DEF table, UpdateIsPlaced, Holding, Visiting, TableInv
  <2>9. AppIsPlaced' /\ StorageIsKept'
    BY <1>1, <2>2 DEF TableInv, AppIsPlaced, StorageIsKept, table
  <2> QED BY <2>5, <2>6, <2>7, <2>8, <2>9 DEF TableInv
<1> QED BY <1>2, <1>3

(* The delete: the connection is reported already, and still in its slot.   *)
LEMMA DeleteKeeps == TableInv /\ Delete => TableInv'
<1> SUFFICES ASSUME TableInv, Delete PROVE TableInv'
  OBVIOUS
<1> DEFINE c == update.con
<1>1. /\ update.at = "delete" /\ c \in Conns /\ object[c] = "live"
      /\ object \in [Conns -> {"none", "live", "deleted"}]
      /\ UNCHANGED <<slots, storage, conID_, ends, app, fault>>
      /\ object' = [object EXCEPT ![c] = "deleted"]
      /\ address' = [address EXCEPT ![c] = Null]
      /\ Null \notin Conns
  BY UpdateFacts, TypeOKUnfolded
     DEF Delete, Holding, TableInv, TypeOK, UpdateIsPlaced
<1>2. /\ update' \in UpdateStates /\ update'.at = "clear"
      /\ update'.i = update.i /\ update'.count = update.count
      /\ update'.seen = update.seen /\ update'.con = c
  BY GotoIsTyped DEF Delete
<1>3. TypeOK'
  <2>1. object' \in [Conns -> {"none", "live", "deleted"}]
    BY <1>1
  <2>2. address' \in [Conns -> Peers \cup {Null}]
    BY <1>1 DEF TableInv, TypeOK
  <2> QED BY <1>1, <1>2, <2>1, <2>2
          DEF TableInv, TypeOK, ends, UpdateStates
<1>4. conID_[c] \in DOMAIN slots /\ slots[conID_[c]] = c
  BY <1>1 DEF TableInv, SlotsAreLive
<1>5. SlotsAreLive'
  BY <1>1, <1>2, <1>4 DEF TableInv, SlotsAreLive, BeingCleared
<1>6. ToldOnce'
  BY <1>1, <1>2 DEF TableInv, ToldOnce, ends
<1>7. UpdateIsPlaced'
  BY <1>1, <1>2, <1>4 DEF UpdateIsPlaced, Holding, Visiting, TableInv
<1>8. AppIsPlaced' /\ StorageIsKept'
  BY <1>1, <1>2 DEF TableInv, AppIsPlaced, StorageIsKept
<1> QED BY <1>3, <1>5, <1>6, <1>7, <1>8 DEF TableInv

(* The slot of the deleted connection becomes NULL, and no other one.       *)
LEMMA ClearSlotKeeps == TableInv /\ ClearSlot => TableInv'
<1> SUFFICES ASSUME TableInv, ClearSlot PROVE TableInv'
  OBVIOUS
<1> DEFINE c == update.con
           id == conID_[c]
<1>1. /\ update.at = "clear" /\ c \in Conns /\ object[c] = "deleted"
      /\ id \in DOMAIN slots /\ slots[id] = c
      /\ UNCHANGED <<storage, object, conID_, address, ends, app, fault>>
      /\ slots' = [slots EXCEPT ![id] = Null]
      /\ update' = NextSlot
  BY UpdateFacts DEF ClearSlot, TableInv, UpdateIsPlaced
<1>2. /\ update' \in UpdateStates /\ update'.at = "walk"
      /\ update'.i = update.i + 1 /\ update'.count = update.count
      /\ update'.seen = 0
  BY <1>1, UpdateFacts DEF Visiting
<1>3. /\ slots \in Seq(Conns \cup {Null})
      /\ Len(slots) \in Nat /\ DOMAIN slots = 1 .. Len(slots)
      /\ update.i \in Nat /\ update.count \in Nat /\ storage \in Nat
      /\ Null \notin Conns
  BY TypeOKUnfolded, UpdateFacts DEF TableInv, TypeOK
<1>4. /\ slots' \in Seq(Conns \cup {Null})
      /\ Len(slots') = Len(slots) /\ DOMAIN slots' = DOMAIN slots
      /\ \A i \in DOMAIN slots : slots'[i] = IF i = id THEN Null ELSE slots[i]
  BY <1>1, <1>3, ExceptSeq
<1> HIDE DEF c, id
<1>5. TypeOK'
  BY <1>1, <1>2, <1>4 DEF TableInv, TypeOK, ends, UpdateStates
<1>6. SlotsAreLive'
  <2>1. ASSUME NEW d \in Conns, object[d] = "live"
        PROVE  conID_[d] \in DOMAIN slots' /\ slots'[conID_[d]] = d
    <3>1. conID_[d] \in DOMAIN slots /\ slots[conID_[d]] = d /\ d # c
      BY <1>1, <2>1 DEF TableInv, SlotsAreLive
    <3> QED BY <1>1, <1>4, <3>1
  <2>2. ASSUME NEW i \in DOMAIN slots', slots'[i] # Null
        PROVE  conID_[slots'[i]] = i /\ object[slots'[i]] = "live"
    <3>1. i \in DOMAIN slots /\ i # id /\ slots'[i] = slots[i]
      BY <1>4, <2>2
    <3>2. conID_[slots[i]] = i /\ slots[i] # c
      BY <2>2, <3>1 DEF TableInv, SlotsAreLive, id
    <3> QED BY <2>2, <3>1, <3>2 DEF TableInv, SlotsAreLive, BeingCleared, c
  <2> QED BY <1>1, <2>1, <2>2 DEF SlotsAreLive
<1>7. ToldOnce'
  BY <1>1, <1>2 DEF TableInv, ToldOnce, ends
<1>8. UpdateIsPlaced'
  BY <1>1, <1>2, <1>3, <1>4 DEF UpdateIsPlaced, Holding, Visiting, TableInv
<1>9. AppIsPlaced' /\ StorageIsKept'
  BY <1>1, <1>2, <1>3, <1>4 DEF TableInv, AppIsPlaced, StorageIsKept
<1> QED BY <1>5, <1>6, <1>7, <1>8, <1>9 DEF TableInv

(* A connection is made, by either thread: the table agrees with it.        *)
LEMMA StoreKeepsTable ==
  ASSUME TableInv, NEW id \in {Place, NewSlot}, NEW peer \in Peers \cup {Null},
         HasRoom(id), Store(id, peer), UNCHANGED <<ends, fault>>,
         update' \in UpdateStates,
         update'.at \in Holding \cup {"clear"} => update'.con \in Conns,
         app' \in AppStates,
         \A c \in Conns : Reporting(c)' = Reporting(c),
         \A c \in Conns : BeingCleared(c)' = BeingCleared(c)
  PROVE  TypeOK' /\ SlotsAreLive' /\ ToldOnce'
<1>1. /\ Fresh \in Conns /\ object[Fresh] = "none"
      /\ id \in 1 .. Len(slots) + 1 /\ id <= MaxSlots
      /\ id \in DOMAIN slots => slots[id] = Null
      /\ slots' \in Seq(Conns \cup {Null})
      /\ Len(slots') = IF id = NewSlot THEN Len(slots) + 1 ELSE Len(slots)
      /\ DOMAIN slots' = DOMAIN slots \cup {id}
      /\ slots'[id] = Fresh
      /\ \A i \in DOMAIN slots : i # id => slots'[i] = slots[i]
  BY StorePlaces
<1>2. /\ Len(slots) \in Nat /\ Len(slots) <= MaxSlots /\ MaxSlots \in Nat
      /\ DOMAIN slots = 1 .. Len(slots)
      /\ storage \in Nat \ {0} /\ storage <= Len(slots) + 1
      /\ Null \notin Conns
  BY TypeOKUnfolded DEF TableInv, StorageIsKept
<1>3. /\ object \in [Conns -> {"none", "live", "deleted"}]
      /\ conID_ \in [Conns -> 0 .. MaxSlots]
      /\ address \in [Conns -> Peers \cup {Null}]
  BY DEF TableInv, TypeOK
<1>4. /\ object' = [object EXCEPT ![Fresh] = "live"]
      /\ conID_' = [conID_ EXCEPT ![Fresh] = id]
      /\ address' = [address EXCEPT ![Fresh] = peer]
      /\ storage' \in {storage, storage + 1}
      /\ storage' # storage => id = NewSlot
  BY DEF Store
<1> HIDE DEF Fresh, Store, HasRoom
<1>5. TypeOK'
  <2>1. Len(slots') <= MaxSlots
    BY <1>1, <1>2 DEF NewSlot
  <2>2. storage' \in 1 .. MaxSlots + 1
    BY <1>1, <1>2, <1>4 DEF NewSlot
  <2>3. /\ object' \in [Conns -> {"none", "live", "deleted"}]
        /\ address' \in [Conns -> Peers \cup {Null}]
    BY <1>1, <1>3, <1>4
  <2>4. conID_' \in [Conns -> 0 .. MaxSlots]
    <3>1. id \in 0 .. MaxSlots
      BY <1>1, <1>2
    <3> QED BY <1>1, <1>3, <1>4, <3>1
  <2> QED BY <1>1, <2>1, <2>2, <2>3, <2>4
          DEF TableInv, TypeOK, ends, UpdateStates, AppStates, Holding
<1>6. SlotsAreLive'
  <2>1. ASSUME NEW d \in Conns, object'[d] = "live"
        PROVE  conID_'[d] \in DOMAIN slots' /\ slots'[conID_'[d]] = d
    <3>1. CASE d = Fresh
      BY <1>1, <1>3, <1>4, <3>1
    <3>2. CASE d # Fresh
      <4>1. object[d] = "live" /\ conID_'[d] = conID_[d]
        BY <1>3, <1>4, <2>1, <3>2
      <4>2. conID_[d] \in DOMAIN slots /\ slots[conID_[d]] = d
        BY <4>1 DEF TableInv, SlotsAreLive
      <4> QED BY <1>1, <1>2, <4>1, <4>2
    <3> QED BY <3>1, <3>2
  <2>2. ASSUME NEW i \in DOMAIN slots', slots'[i] # Null
        PROVE  /\ conID_'[slots'[i]] = i
               /\ \/ object'[slots'[i]] = "live"
                  \/ update'.at = "clear" /\ update'.con = slots'[i]
    <3>1. CASE i = id
      BY <1>1, <1>3, <1>4, <3>1
    <3>2. CASE i # id
      <4>1. i \in DOMAIN slots /\ slots'[i] = slots[i] /\ slots[i] \in Conns
        BY <1>1, <2>2, <3>2, TypeOKUnfolded DEF TableInv
      <4>2. /\ conID_[slots[i]] = i
            /\ object[slots[i]] = "live" \/ BeingCleared(slots[i])
        BY <2>2, <4>1 DEF TableInv, SlotsAreLive
      <4>3. slots[i] # Fresh
        BY <1>1, <4>1, <4>2 DEF TableInv, UpdateIsPlaced, BeingCleared
      <4>4. PICK c \in Conns : c = slots[i]
        BY <4>1
      <4>5. BeingCleared(c)' = BeingCleared(c)
        BY <4>4
      <4>6. BeingCleared(c)' <=> update'.at = "clear" /\ update'.con = c
        BY DEF BeingCleared
      <4> QED BY <1>3, <1>4, <4>1, <4>2, <4>3, <4>4, <4>5, <4>6
    <3> QED BY <3>1, <3>2
  <2> QED BY <2>1, <2>2 DEF SlotsAreLive, BeingCleared
<1>7. ToldOnce'
  <2>1. ASSUME NEW d \in Conns
        PROVE  object'[d] = "deleted" <=> object[d] = "deleted"
    BY <1>1, <1>3, <1>4
  <2> QED BY <2>1 DEF TableInv, ToldOnce, Reporting, ends
<1> QED BY <1>5, <1>6, <1>7

(* The rest of the invariant, for a thread that makes a connection while    *)
(* the update thread is at a place where it holds none of those before.     *)
LEMMA StoreKeepsPlaces ==
  ASSUME TableInv, NEW id \in {Place, NewSlot}, NEW peer \in Peers \cup {Null},
         HasRoom(id), Store(id, peer)
  PROVE  /\ \A d \in Conns : object[d] = "live" => object'[d] = "live"
         /\ \A d \in Conns : object[d] = "deleted" =>
              object'[d] = "deleted" /\ conID_'[d] = conID_[d]
         /\ object'[Fresh] = "live" /\ Fresh \in Conns
         /\ Len(slots) <= Len(slots') /\ Len(slots') \in Nat
         /\ Len(slots) \in Nat /\ DOMAIN slots \subseteq DOMAIN slots'
         /\ \A i \in DOMAIN slots : slots[i] # Null => slots'[i] = slots[i]
         /\ storage' \in Nat /\ storage <= storage'
         /\ storage' <= Len(slots') + 1 /\ storage' >= 1
         /\ storage' > 1 => Len(slots') > Capacity
<1>1. /\ Fresh \in Conns /\ object[Fresh] = "none"
      /\ id \in 1 .. Len(slots) + 1 /\ id <= MaxSlots
      /\ id \in DOMAIN slots => slots[id] = Null
      /\ Len(slots') = IF id = NewSlot THEN Len(slots) + 1 ELSE Len(slots)
      /\ DOMAIN slots' = DOMAIN slots \cup {id}
      /\ \A i \in DOMAIN slots : i # id => slots'[i] = slots[i]
  BY StorePlaces
<1>2. /\ Len(slots) \in Nat /\ Len(slots) <= MaxSlots /\ MaxSlots \in Nat
      /\ storage \in Nat \ {0} /\ storage <= Len(slots) + 1
      /\ Capacity \in Nat
  BY TypeOKUnfolded DEF TableInv, StorageIsKept
<1>3. /\ object \in [Conns -> {"none", "live", "deleted"}]
      /\ conID_ \in [Conns -> 0 .. MaxSlots]
  BY DEF TableInv, TypeOK
<1>4. /\ object' = [object EXCEPT ![Fresh] = "live"]
      /\ conID_' = [conID_ EXCEPT ![Fresh] = id]
      /\ storage' = IF id = NewSlot /\ Len(slots) >= Capacity
                    THEN storage + 1 ELSE storage
  BY DEF Store
<1> HIDE DEF Fresh, Store, HasRoom
<1>5. /\ storage' \in Nat /\ storage <= storage'
      /\ storage' <= Len(slots') + 1
      /\ storage' > 1 => Len(slots') > Capacity
  <2>1. storage > 1 => Len(slots) > Capacity
    BY DEF TableInv, StorageIsKept
  <2> QED BY <1>1, <1>2, <1>4, <2>1 DEF NewSlot
<1>6. \A i \in DOMAIN slots : slots[i] # Null => slots'[i] = slots[i]
  BY <1>1
<1>7. storage' >= 1
  BY <1>2, <1>5
<1> QED BY <1>1, <1>2, <1>3, <1>4, <1>5, <1>6, <1>7

(* Connect as ParseMessages calls it.                                       *)
LEMMA MakeConnectionKeeps == TableInv /\ MakeConnection => TableInv'
<1> SUFFICES ASSUME TableInv, MakeConnection PROVE TableInv'
  OBVIOUS
<1>1. /\ update \in UpdateStates /\ app \in AppStates
      /\ update.at = "make" /\ UNCHANGED <<ends, app, fault>>
      /\ update.count <= Len(slots) /\ update.count \in Nat
      /\ update.seen \in Nat /\ app.seen \in Nat
      /\ update.seen <= storage /\ app.seen <= storage /\ storage \in Nat
  BY TypeOKUnfolded
     DEF MakeConnection, TableInv, UpdateIsPlaced, StorageIsKept, UpdateStates,
         AppStates
<1>2. CASE HasRoom(Place)
  <2> DEFINE peer == update.peer
  <2>1. /\ Store(Place, peer) /\ peer \in Peers \cup {Null}
        /\ update' = [update EXCEPT !.at = "made", !.peer = Null,
                                    !.i = Place, !.seen = storage']
    BY <1>1, <1>2 DEF MakeConnection, UpdateStates
  <2>2. /\ Fresh \in Conns /\ storage' >= 1
        /\ Len(slots) <= Len(slots') /\ Len(slots') \in Nat
        /\ Len(slots) \in Nat /\ DOMAIN slots \subseteq DOMAIN slots'
        /\ storage' \in Nat /\ storage <= storage'
        /\ storage' <= Len(slots') + 1
        /\ storage' > 1 => Len(slots') > Capacity
    BY <1>2, <2>1, StoreKeepsPlaces
  <2>10. /\ Place \in 1 .. MaxSlots + 1 /\ slots'[Place] = Fresh
         /\ Place \in DOMAIN slots' /\ Null \notin Conns
    BY <1>2, <2>1, StorePlaces, TypeOKUnfolded DEF TableInv
  <2>11. storage' \in 0 .. MaxSlots + 1
    <3>1. Len(slots') <= MaxSlots
      BY <1>2, <2>1, StorePlaces, TypeOKUnfolded DEF TableInv, NewSlot
    <3> QED BY <2>2, <3>1, TableAssumption
  <2> HIDE DEF peer
  <2>3. update' \in UpdateStates
    BY <1>1, <2>1, <2>10, <2>11, Zenon DEF UpdateStates
  <2>4. /\ update'.at = "made" /\ update'.i = Place
        /\ update'.count = update.count /\ update'.seen = storage'
    BY <1>1, <2>1 DEF UpdateStates
  <2>5. \A c \in Conns : Reporting(c)' = Reporting(c)
                         /\ BeingCleared(c)' = BeingCleared(c)
    BY <1>1, <2>4 DEF Reporting, BeingCleared
  <2>6. TypeOK' /\ SlotsAreLive' /\ ToldOnce'
    BY <1>1, <1>2, <2>1, <2>2, <2>3, <2>4, <2>5, StoreKeepsTable DEF Holding
  <2>7. UpdateIsPlaced'
    BY <1>1, <2>2, <2>4, <2>10 DEF UpdateIsPlaced, Holding, Visiting
  <2>8. AppIsPlaced'
    BY <1>1, <2>2 DEF TableInv, AppIsPlaced
  <2>9. StorageIsKept'
    BY <1>1, <2>2, <2>4 DEF TableInv, StorageIsKept
  <2> QED BY <2>6, <2>7, <2>8, <2>9 DEF TableInv
<1>3. CASE ~HasRoom(Place)
  <2>1. /\ update' = [update EXCEPT !.at = "accept", !.peer = Null]
        /\ UNCHANGED table
    BY <1>3 DEF MakeConnection
  <2>2. update' \in UpdateStates
    BY <1>1, <2>1, Zenon DEF UpdateStates
  <2>3. /\ update'.at = "accept" /\ update'.seen = update.seen
        /\ update'.count = update.count
    BY <1>1, <2>1 DEF UpdateStates
  <2>4. UpdateIsPlaced'
    BY <1>1, <2>1, <2>3 DEF table, UpdateIsPlaced, Holding, Visiting
  <2> QED BY <1>1, <2>1, <2>2, <2>3, <2>4, UpdateMoves, UpdateFacts
       DEF ends, Holding, Reporting, BeingCleared, TableInv, TypeOK
<1> QED BY <1>2, <1>3

(* The new connection is looked up again: it is still in its slot, if the   *)
(* vector is still where it was.                                            *)
LEMMA ReadMadeKeeps == TableInv /\ ReadMade => TableInv'
<1> SUFFICES ASSUME TableInv, ReadMade PROVE TableInv'
  OBVIOUS
<1>1. /\ update \in UpdateStates /\ update.at = "made"
      /\ UNCHANGED <<table, ends, app>>
      /\ 1 \in 1 .. MaxSlots + 1 /\ 0 \in 0 .. MaxSlots + 1
      /\ 0 <= storage
  BY TypeOKUnfolded, TableAssumption DEF ReadMade, TableInv
<1>2. CASE update.seen # storage
  <2>1. fault' = "update" /\ UNCHANGED update
    BY <1>2 DEF ReadMade
  <2> QED BY <1>1, <2>1, UpdateMoves, UpdateFacts
       DEF ends, table, Holding, Visiting, Reporting, BeingCleared, TableInv,
           TypeOK, UpdateIsPlaced, StorageIsKept
<1>3. CASE update.seen = storage
  <2> DEFINE c == slots[update.i]
  <2>1. /\ update' = [update EXCEPT !.at = "push", !.i = 1, !.seen = 0,
                                    !.con = c]
        /\ UNCHANGED fault
    BY <1>3 DEF ReadMade
  <2>2. c \in Conns /\ object[c] = "live"
    BY <1>1, TypeOKUnfolded
       DEF TableInv, UpdateIsPlaced, SlotsAreLive, BeingCleared
  <2> HIDE DEF c
  <2>3. update' \in UpdateStates
    BY <1>1, <2>1, <2>2, Zenon DEF UpdateStates
  <2>4. /\ update'.at = "push" /\ update'.con = c
        /\ update'.count = update.count /\ update'.seen = 0
    BY <1>1, <2>1 DEF UpdateStates
  <2>5. UpdateIsPlaced'
    BY <1>1, <2>2, <2>4 DEF table, UpdateIsPlaced, Holding, Visiting, TableInv
  <2> QED BY <1>1, <2>1, <2>2, <2>3, <2>4, <2>5, UpdateMoves, UpdateFacts
       DEF ends, Holding, Reporting, BeingCleared, TableInv, TypeOK
<1> QED BY <1>2, <1>3

(* A TCP connection is appended, or none has come.                          *)
LEMMA TCPAcceptKeeps == TableInv /\ TCPAccept => TableInv'
<1> SUFFICES ASSUME TableInv, TCPAccept PROVE TableInv'
  OBVIOUS
<1>1. /\ update.at = "accept" /\ UNCHANGED <<ends, app, fault>>
      /\ app \in AppStates
      /\ update.count <= Len(slots) /\ update.count \in Nat
      /\ update.seen \in Nat /\ app.seen \in Nat
      /\ update.seen <= storage /\ app.seen <= storage /\ storage \in Nat
  BY TypeOKUnfolded
     DEF TCPAccept, TableInv, UpdateIsPlaced, StorageIsKept, UpdateStates,
         AppStates
<1>2. /\ update' \in UpdateStates /\ update'.at = "start"
      /\ update'.count = update.count /\ update'.seen = update.seen
  BY GotoIsTyped DEF TCPAccept
<1>3. \A c \in Conns : Reporting(c)' = Reporting(c)
                       /\ BeingCleared(c)' = BeingCleared(c)
  BY <1>1, <1>2 DEF Reporting, BeingCleared
<1>4. ASSUME NEW peer \in Peers, HasRoom(NewSlot), Store(NewSlot, peer)
      PROVE  TableInv'
  <2>1. /\ Len(slots) <= Len(slots') /\ Len(slots') \in Nat
        /\ Len(slots) \in Nat /\ DOMAIN slots \subseteq DOMAIN slots'
        /\ storage' \in Nat /\ storage <= storage'
        /\ storage' <= Len(slots') + 1
        /\ storage' > 1 => Len(slots') > Capacity
    BY <1>4, StoreKeepsPlaces
  <2>2. TypeOK' /\ SlotsAreLive' /\ ToldOnce'
    BY <1>1, <1>2, <1>3, <1>4, StoreKeepsTable DEF Holding
  <2>3. UpdateIsPlaced'
    BY <1>1, <1>2, <2>1 DEF UpdateIsPlaced, Holding, Visiting
  <2>4. AppIsPlaced'
    BY <1>1, <2>1 DEF TableInv, AppIsPlaced
  <2>5. StorageIsKept'
    BY <1>1, <1>2, <2>1 DEF TableInv, StorageIsKept
  <2> QED BY <2>2, <2>3, <2>4, <2>5 DEF TableInv
<1>5. CASE UNCHANGED table
  <2>1. UpdateIsPlaced'
    BY <1>1, <1>2, <1>5 DEF table, UpdateIsPlaced, Holding, Visiting
  <2> QED BY <1>1, <1>2, <1>3, <1>5, <2>1, UpdateMoves, UpdateFacts
       DEF ends, Holding, TableInv, TypeOK
<1> QED BY <1>4, <1>5 DEF TCPAccept

(* Connect of the application: the update thread keeps what it holds.       *)
LEMMA ConnectKeeps ==
  ASSUME TableInv, NEW peer \in Peers, Connect(peer)
  PROVE  TableInv'
<1>1. /\ HasRoom(Place) /\ Store(Place, peer)
      /\ UNCHANGED <<ends, update, app, fault>>
      /\ update \in UpdateStates /\ app \in AppStates
      /\ update.count <= Len(slots) /\ update.count \in Nat
      /\ update.seen \in Nat /\ app.seen \in Nat
      /\ update.seen <= storage /\ app.seen <= storage /\ storage \in Nat
      /\ update.at \in Holding \cup {"clear"} => update.con \in Conns
  BY TypeOKUnfolded, UpdateFacts
     DEF Connect, TableInv, UpdateIsPlaced, StorageIsKept, UpdateStates,
         AppStates
<1>2. /\ \A d \in Conns : object[d] = "live" => object'[d] = "live"
      /\ \A d \in Conns : object[d] = "deleted" =>
           object'[d] = "deleted" /\ conID_'[d] = conID_[d]
      /\ Len(slots) <= Len(slots') /\ Len(slots') \in Nat
      /\ Len(slots) \in Nat /\ DOMAIN slots \subseteq DOMAIN slots'
      /\ \A i \in DOMAIN slots : slots[i] # Null => slots'[i] = slots[i]
      /\ storage' \in Nat /\ storage <= storage'
      /\ storage' <= Len(slots') + 1
      /\ storage' > 1 => Len(slots') > Capacity
  BY <1>1, StoreKeepsPlaces
<1>3. TypeOK' /\ SlotsAreLive' /\ ToldOnce'
  BY <1>1, StoreKeepsTable DEF Reporting, BeingCleared
<1>4. UpdateIsPlaced'
  <2>1. update.at = "clear" => slots[conID_[update.con]] # Null
    BY <1>1, TypeOKUnfolded DEF TableInv, UpdateIsPlaced
  <2> QED BY <1>1, <1>2, <2>1 DEF TableInv, UpdateIsPlaced, Holding
<1>5. AppIsPlaced'
  BY <1>1, <1>2 DEF TableInv, AppIsPlaced
<1>6. StorageIsKept'
  BY <1>1, <1>2 DEF TableInv, StorageIsKept
<1> QED BY <1>3, <1>4, <1>5, <1>6 DEF TableInv

-----------------------------------------------------------------------------
(* The steps of a call of the application: they change nothing the update   *)
(* thread relies on.                                                        *)
LEMMA AppMoves ==
  ASSUME TableInv, UNCHANGED <<table, ended, told, update>>,
         asked' \subseteq Conns, fault' \in {"update", "app", Null},
         app' \in AppStates, AppIsPlaced', app'.seen <= storage
  PROVE  TableInv'
<1>1. /\ update' \in UpdateStates /\ ended' \subseteq Conns
      /\ update'.at \in Holding \cup {"clear"} => update'.con \in Conns
  BY TypeOKUnfolded, UpdateFacts DEF TableInv, TypeOK
<1>2. TypeOK' /\ SlotsAreLive' /\ ToldOnce'
  BY <1>1, TableIsKept DEF Reporting, BeingCleared
<1>3. UpdateIsPlaced'
  BY DEF TableInv, UpdateIsPlaced, table
<1>4. StorageIsKept'
  BY DEF TableInv, StorageIsKept, table
<1> QED BY <1>2, <1>3, <1>4 DEF TableInv

(* What the invariant says of a call.                                       *)
LEMMA AppFacts ==
  ASSUME TableInv
  PROVE  /\ app \in AppStates /\ app.calls \in 0 .. MaxCalls
         /\ app.seen \in 0 .. MaxSlots + 1 /\ app.con \in Conns \cup {Null}
         /\ app.call \in Calls /\ app.hCon \in 1 .. MaxSlots + 1
         /\ storage \in 1 .. MaxSlots + 1 /\ storage \in Nat
         /\ 1 \in 1 .. MaxSlots + 1 /\ 0 \in 0 .. MaxSlots + 1
         /\ asked \subseteq Conns /\ Null \notin Conns
         /\ fault \in {"update", "app", Null}
         /\ app.at # "idle" =>
              app.hCon \in DOMAIN slots /\ Element \in Conns \cup {Null}
<1>1. /\ DOMAIN slots = 1 .. Len(slots)
      /\ \A i \in DOMAIN slots : slots[i] \in Conns \cup {Null}
      /\ storage \in Nat /\ MaxSlots \in Nat /\ app \in AppStates
      /\ Null \notin Conns
  BY TypeOKUnfolded DEF TableInv
<1>2. /\ app.calls \in 0 .. MaxCalls /\ app.seen \in 0 .. MaxSlots + 1
      /\ app.con \in Conns \cup {Null}
      /\ app.call \in Calls /\ app.hCon \in 1 .. MaxSlots + 1
  BY <1>1 DEF AppStates
<1>3. /\ asked \subseteq Conns /\ storage \in 1 .. MaxSlots + 1
      /\ fault \in {"update", "app", Null}
  BY DEF TableInv, TypeOK
<1>4. app.at # "idle" =>
        app.hCon \in DOMAIN slots /\ Element \in Conns \cup {Null}
  BY <1>1 DEF TableInv, AppIsPlaced, Element
<1> QED BY <1>1, <1>2, <1>3, <1>4

(* A call that faults stays where it is.                                    *)
LEMMA AppFaultKeeps ==
  ASSUME TableInv, AppFault, UNCHANGED <<table, ends, update>>
  PROVE  TableInv'
<1>1. app' \in AppStates /\ app'.seen <= storage
  BY AppFacts DEF AppFault, TableInv, StorageIsKept
<1>2. AppIsPlaced'
  BY DEF AppFault, TableInv, AppIsPlaced, table
<1> QED BY <1>1, <1>2, AppFacts, AppMoves DEF AppFault, ends

(* A call that goes on keeps its handle.                                    *)
LEMMA AppGotoKeeps ==
  ASSUME TableInv, app.at # "idle",
         NEW at \in {"check", "lock", "wait", "use", "unlock"},
         NEW con \in Conns \cup {Null}, at = "wait" => con \in Conns,
         AppGoto(at, con), UNCHANGED <<table, ends, update>>
  PROVE  TableInv'
<1>1. /\ app' = [app EXCEPT !.at = at, !.con = con, !.seen = 0]
      /\ UNCHANGED fault
  BY DEF AppGoto
<1>2. app \in AppStates /\ 0 \in 0 .. MaxSlots + 1
  BY AppFacts
<1>3. app' \in AppStates
  BY <1>1, <1>2, Zenon DEF AppStates
<1>4. /\ app'.at = at /\ app'.con = con /\ app'.seen = 0
      /\ app'.hCon = app.hCon
  BY <1>1, <1>2 DEF AppStates
<1>5. AppIsPlaced'
  BY <1>4, AppFacts DEF AppIsPlaced, table
<1> QED BY <1>1, <1>3, <1>4, <1>5, AppFacts, AppMoves DEF ends

(* A call that returns; Disconnect may have marked its connection.          *)
LEMMA ReturnKeeps ==
  ASSUME TableInv, Return, asked' \subseteq Conns,
         UNCHANGED <<table, ended, told, update>>
  PROVE  TableInv'
<1>1. app' = [Idle EXCEPT !.calls = app.calls] /\ UNCHANGED fault
  BY DEF Return
<1>2. Idle \in AppStates
  <2>1. 0 \in 0 .. MaxCalls /\ 0 \in 0 .. MaxSlots + 1 /\ 1 \in 1 .. MaxSlots + 1
    BY TableAssumption
  <2>2. "send" \in Calls
    BY DEF Calls
  <2> QED BY <2>1, <2>2 DEF Idle, AppStates
<1>3. app' \in AppStates
  BY <1>1, <1>2, AppFacts, Zenon DEF AppStates
<1>4. app'.at = "idle" /\ app'.seen = 0
  BY <1>1 DEF Idle
<1>5. AppIsPlaced'
  BY <1>4 DEF AppIsPlaced
<1> QED BY <1>1, <1>3, <1>4, <1>5, AppFacts, AppMoves

(* The first half of a subscript notes the storage.                         *)
LEMMA SubscriptKeeps == TableInv /\ Subscript => TableInv'
<1> SUFFICES ASSUME TableInv, Subscript PROVE TableInv'
  OBVIOUS
<1>1. /\ app' = [app EXCEPT !.seen = storage] /\ app.at # "idle"
      /\ UNCHANGED <<table, ends, update, fault>>
  BY DEF Subscript
<1>2. app \in AppStates /\ storage \in 0 .. MaxSlots + 1 /\ storage \in Nat
  BY AppFacts
<1>3. app' \in AppStates
  BY <1>1, <1>2, Zenon DEF AppStates
<1>4. /\ app'.at = app.at /\ app'.con = app.con /\ app'.seen = storage
      /\ app'.hCon = app.hCon
  BY <1>1, <1>2 DEF AppStates
<1>5. AppIsPlaced'
  BY <1>1, <1>4 DEF TableInv, AppIsPlaced, table
<1> QED BY <1>1, <1>2, <1>3, <1>4, <1>5, AppFacts, AppMoves DEF ends

(* The steps of a call.                                                     *)
LEMMA CallStepKeeps == TableInv /\ CallStep => TableInv'
<1> SUFFICES ASSUME TableInv, CallStep PROVE TableInv'
  OBVIOUS
<1>1. CASE Subscript
  BY <1>1, SubscriptKeeps
<1>2. CASE CheckSlot
  <2>1. app.at # "idle" /\ UNCHANGED <<table, ends, update>>
    BY <1>2 DEF CheckSlot, HasElement
  <2>2. AppFault \/ Return \/ AppGoto("use", Null) \/ AppGoto("lock", Null)
    BY <1>2 DEF CheckSlot
  <2>3. Null \in Conns \cup {Null} /\ asked \subseteq Conns
    BY AppFacts
  <2> QED BY <2>1, <2>2, <2>3, AppFaultKeeps, ReturnKeeps, AppGotoKeeps DEF ends
<1>3. CASE LockCon
  <2>1. app.at # "idle" /\ UNCHANGED <<table, ends, update>>
    BY <1>3 DEF LockCon, HasElement
  <2>2. \/ AppFault
        \/ Element \in Conns /\ AppGoto("wait", Element)
    BY <1>3, <2>1, AppFacts DEF LockCon
  <2>3. CASE Element \in Conns /\ AppGoto("wait", Element)
    <3> DEFINE con == Element
    <3>1. con \in Conns /\ AppGoto("wait", con)
      BY <2>3
    <3> HIDE DEF con
    <3> QED BY <2>1, <3>1, AppGotoKeeps
  <2> QED BY <2>1, <2>2, <2>3, AppFaultKeeps
<1>4. CASE WaitLock
  <2>1. app.at # "idle" /\ UNCHANGED <<table, ends, update>>
    BY <1>4 DEF WaitLock
  <2>2. AppFault \/ AppGoto("use", app.con)
    BY <1>4 DEF WaitLock
  <2> QED BY <2>1, <2>2, AppFacts, AppFaultKeeps, AppGotoKeeps
<1>5. CASE Use
  <2>1. app.at # "idle" /\ UNCHANGED <<table, ended, told, update>>
    BY <1>5 DEF Use, HasElement
  <2>2. \/ AppFault /\ UNCHANGED asked
        \/ Return /\ asked' \subseteq Conns
        \/ AppGoto("unlock", app.con) /\ UNCHANGED asked
    BY <1>5, <2>1, AppFacts DEF Use, Reached
  <2> QED BY <2>1, <2>2, AppFacts, AppFaultKeeps, ReturnKeeps, AppGotoKeeps
          DEF ends
<1>6. ASSUME NEW again \in BOOLEAN, UnlockCon(again)
      PROVE  TableInv'
  <2>1. app.at # "idle" /\ UNCHANGED <<table, ends, update>>
    BY <1>6 DEF UnlockCon, HasElement
  <2>2. \/ AppFault
        \/ Return
        \/ /\ app.calls < MaxCalls
           /\ app' = [app EXCEPT !.at = "lock", !.con = Null, !.seen = 0,
                                 !.calls = @ + 1]
           /\ UNCHANGED fault
    BY <1>6 DEF UnlockCon
  <2>3. ASSUME app.calls < MaxCalls,
               app' = [app EXCEPT !.at = "lock", !.con = Null, !.seen = 0,
                                  !.calls = @ + 1],
               UNCHANGED fault
        PROVE  TableInv'
    <3>1. /\ app \in AppStates /\ 0 \in 0 .. MaxSlots + 1
          /\ app.calls + 1 \in 0 .. MaxCalls
      BY <2>3, AppFacts, TableAssumption
    <3>2. app' \in AppStates
      BY <2>3, <3>1, Zenon DEF AppStates
    <3>3. app'.at = "lock" /\ app'.seen = 0 /\ app'.hCon = app.hCon
      BY <2>3, <3>1 DEF AppStates
    <3>4. AppIsPlaced'
      BY <2>1, <3>3, AppFacts DEF AppIsPlaced, table
    <3> QED BY <2>1, <2>3, <3>2, <3>3, <3>4, AppFacts, AppMoves DEF ends
  <2>4. asked \subseteq Conns
    BY AppFacts
  <2> QED BY <2>1, <2>2, <2>3, <2>4, AppFaultKeeps, ReturnKeeps DEF ends
<1> QED BY <1>1, <1>2, <1>3, <1>4, <1>5, <1>6 DEF CallStep

(* A call starts with a handle of the table.                                *)
LEMMA CallKeeps ==
  ASSUME TableInv, NEW call \in Calls, NEW hCon \in DOMAIN slots,
         Call(call, hCon)
  PROVE  TableInv'
<1>1. /\ app.calls < MaxCalls /\ UNCHANGED <<table, ends, update, fault>>
      /\ app' = [app EXCEPT !.at = "check", !.call = call, !.hCon = hCon,
                            !.calls = @ + 1]
  BY DEF Call
<1>2. /\ app \in AppStates /\ hCon \in 1 .. MaxSlots + 1
      /\ app.calls + 1 \in 0 .. MaxCalls
  BY <1>1, AppFacts, TypeOKUnfolded, TableAssumption DEF TableInv
<1>3. app' \in AppStates
  BY <1>1, <1>2, Zenon DEF AppStates
<1>4. app'.at = "check" /\ app'.seen = app.seen /\ app'.hCon = hCon
  BY <1>1, <1>2 DEF AppStates
<1>5. AppIsPlaced'
  BY <1>1, <1>4 DEF AppIsPlaced, table
<1>6. app'.seen <= storage
  BY <1>4 DEF TableInv, StorageIsKept
<1> QED BY <1>1, <1>3, <1>5, <1>6, AppFacts, AppMoves DEF ends

-----------------------------------------------------------------------------
(* The empty table satisfies the invariant.                                 *)
LEMMA InitTableInv == Init => TableInv
<1> SUFFICES ASSUME Init PROVE TableInv
  OBVIOUS
<1>1. /\ MaxSlots \in Nat /\ Capacity \in Nat /\ MaxCalls \in Nat
      /\ Null \notin Conns
  BY TableAssumption
<1>2. slots = <<>> /\ Len(slots) = 0 /\ slots \in Seq(Conns \cup {Null})
      /\ DOMAIN slots = {}
  BY DEF Init
<1>3. TypeOK
  <2>1. update \in UpdateStates /\ app \in AppStates
    BY <1>1 DEF Init, Idle, UpdateStates, AppStates, Calls, Unlocked
  <2> QED BY <1>1, <1>2, <2>1 DEF Init, TypeOK, UpdateStates, AppStates
<1>4. SlotsAreLive /\ ToldOnce
  BY <1>2 DEF Init, SlotsAreLive, ToldOnce
<1>5. UpdateIsPlaced /\ AppIsPlaced /\ StorageIsKept
  BY <1>1, <1>2
     DEF Init, Idle, UpdateIsPlaced, AppIsPlaced, StorageIsKept, Holding,
         Visiting
<1> QED BY <1>3, <1>4, <1>5 DEF TableInv

(* Every step of the update thread preserves it.                            *)
LEMMA UpdateStepKeeps == TableInv /\ UpdateStep => TableInv'
<1> SUFFICES ASSUME TableInv, UpdateStep PROVE TableInv'
  OBVIOUS
<1>1. CASE StartWalk \/ Walk \/ ReadSlot
  BY <1>1, StartWalkKeeps, WalkKeeps, ReadSlotKeeps
<1>2. CASE Pass({}) \/ \E c \in Conns : EndPass(c)
  BY <1>2, PassKeeps DEF EndPass
<1>3. CASE Check \/ LockTable \/ CloseSocket \/ Delete \/ ClearSlot
  BY <1>3, CheckKeeps, LocksKeep, DeleteKeeps, ClearSlotKeeps
<1>4. CASE \/ NothingToParse \/ PushReceived
           \/ \E peer \in Peers, syn \in BOOLEAN : ParseMessages(peer, syn)
  BY <1>4, NothingToParseKeeps, PushReceivedKeeps, ParseMessagesKeeps
<1>5. CASE MakeConnection \/ ReadMade \/ TCPAccept
  BY <1>5, MakeConnectionKeeps, ReadMadeKeeps, TCPAcceptKeeps
<1> QED BY <1>1, <1>2, <1>3, <1>4, <1>5 DEF UpdateStep

(* Every step of the two threads preserves it.                              *)
LEMMA NextTableInv == TableInv /\ [Next]_vars => TableInv'
<1> SUFFICES ASSUME TableInv, [Next]_vars PROVE TableInv'
  OBVIOUS
<1>1. CASE UpdateStep
  BY <1>1, UpdateStepKeeps
<1>2. CASE CallStep
  BY <1>2, CallStepKeeps
<1>3. CASE AppStart
  BY <1>3, ConnectKeeps, CallKeeps DEF AppStart
<1>4. CASE UNCHANGED vars
  BY <1>4 DEF vars, TableInv, TypeOK, SlotsAreLive, ToldOnce, BeingCleared,
              UpdateIsPlaced, AppIsPlaced, StorageIsKept
<1> QED BY <1>1, <1>2, <1>3, <1>4 DEF Next, Crashed

(* The invariant holds of every behaviour.                                  *)
THEOREM TableIsConsistent == Spec => []TableInv
<1>1. Init => TableInv
  BY InitTableInv
<1>2. TableInv /\ [Next]_vars => TableInv'
  BY NextTableInv
<1> QED BY <1>1, <1>2, PTL DEF Spec

(* The state stays inside its types: no handle, subscript or count leaves   *)
(* the vector.                                                              *)
THEOREM TableTypeCorrect == Spec => []TypeOK
<1>1. TableInv => TypeOK
  BY DEF TableInv
<1> QED BY <1>1, TableIsConsistent, PTL

(* A live connection is in the slot its handle names and in no other, and a *)
(* slot names a live connection, but for the moment between the delete and  *)
(* the NULL of RemoveConnection.                                            *)
THEOREM SlotsAlwaysLive == Spec => []SlotsAreLive
<1>1. TableInv => SlotsAreLive
  BY DEF TableInv
<1> QED BY <1>1, TableIsConsistent, PTL

(* The disconnect function is called once for each connection that goes.    *)
THEOREM ToldExactlyOnce == Spec => []ToldOnce
<1>1. TableInv => ToldOnce
  BY DEF TableInv
<1> QED BY <1>1, TableIsConsistent, PTL

(* A slot changes hands only when its connection is deleted.                *)
THEOREM SlotsAreKept == Spec => KeepsItsSlot
<1> DEFINE Kept ==
      \A i \in DOMAIN slots :
        slots'[i] # slots[i] => slots[i] = Null \/ object[slots[i]] = "deleted"
<1>1. ASSUME TableInv, [Next]_vars
      PROVE  [Kept]_vars
  <2>1. CASE UNCHANGED slots
    BY <2>1
  <2>2. ASSUME NEW id \in {Place, NewSlot}, NEW peer \in Peers \cup {Null},
               HasRoom(id), Store(id, peer)
        PROVE  Kept
    BY <1>1, <2>2, StorePlaces
  <2>3. CASE ClearSlot
    <3>1. /\ slots' = [slots EXCEPT ![conID_[update.con]] = Null]
          /\ object[update.con] = "deleted"
          /\ slots[conID_[update.con]] = update.con
      BY <1>1, <2>3 DEF ClearSlot, TableInv, UpdateIsPlaced
    <3>2. \A i \in DOMAIN slots :
            slots'[i] # slots[i] => i = conID_[update.con]
      BY <3>1
    <3> QED BY <3>1, <3>2
  <2>4. update.peer \in Peers \cup {Null}
    BY <1>1, TypeOKUnfolded DEF TableInv, UpdateStates
  <2>5. CASE MakeConnection
    BY <2>1, <2>2, <2>4, <2>5 DEF MakeConnection, table
  <2>6. CASE TCPAccept
    BY <2>1, <2>2, <2>6 DEF TCPAccept, table
  <2>7. CASE \E peer \in Peers : Connect(peer)
    BY <2>2, <2>7 DEF Connect
  <2>8. CASE CallStep
    BY <2>1, <2>8 DEF CallStep, Subscript, CheckSlot, LockCon, WaitLock, Use,
                      UnlockCon, table
  <2>9. CASE \E call \in Calls, hCon \in DOMAIN slots : Call(call, hCon)
    BY <2>1, <2>9 DEF Call, table
  <2>10. CASE \/ StartWalk \/ Walk \/ ReadSlot \/ Check \/ LockTable
              \/ CloseSocket \/ Delete \/ NothingToParse \/ ReadMade
              \/ PushReceived
    BY <2>1, <2>10 DEF StartWalk, Walk, ReadSlot, Check, LockTable, CloseSocket,
                       Delete, NothingToParse, ReadMade, PushReceived, table
  <2>11. CASE \/ Pass({}) \/ \E c \in Conns : EndPass(c)
              \/ \E peer \in Peers, syn \in BOOLEAN : ParseMessages(peer, syn)
    BY <2>1, <2>11 DEF EndPass, Pass, ParseMessages, table
  <2>12. CASE UNCHANGED vars
    BY <2>1, <2>12 DEF vars
  <2> QED BY <1>1, <2>3, <2>5, <2>6, <2>7, <2>8, <2>9, <2>10, <2>11, <2>12
          DEF Next, UpdateStep, AppStart, Crashed
<1> QED BY <1>1, TableIsConsistent, PTL DEF Spec, KeepsItsSlot

(* Connections come, go and are looked up around the update thread, and     *)
(* whatever the table gives again, it uses none that is gone: it faults     *)
(* only in a subscript of the vector, between the halves of which the       *)
(* vector, once full, was moved.                                            *)
THEOREM UpdateThreadFaultsByMove == Spec => []UpdateFaultsOnlyByMove
<1>1. Init => UpdateFaultsOnlyByMove
  BY TableAssumption DEF Init, UpdateFaultsOnlyByMove
<1>2. ASSUME TableInv, UpdateFaultsOnlyByMove, [Next]_vars
      PROVE  UpdateFaultsOnlyByMove'
  <2>1. /\ update \in UpdateStates /\ storage \in Nat /\ update.seen \in Nat
        /\ update.at \in {"pass", "push"} => object[update.con] = "live"
        /\ update.seen <= storage
        /\ update.at \in {"read", "made"} => update.seen >= 1
        /\ storage > 1 => Len(slots) > Capacity
    BY <1>2, TypeOKUnfolded, UpdateFacts
       DEF TableInv, UpdateIsPlaced, Holding, StorageIsKept
  <2>2. CASE UNCHANGED vars
    BY <1>2, <2>2 DEF vars, UpdateFaultsOnlyByMove
  <2>3. ASSUME fault' # "update"
        PROVE  UpdateFaultsOnlyByMove'
    BY <2>3 DEF UpdateFaultsOnlyByMove
  <2>4. SUFFICES ASSUME fault = Null
                 PROVE  UpdateFaultsOnlyByMove'
    BY <1>2, <2>2 DEF Next, Crashed
  <2>5. fault # "update"
    BY <2>4, TableAssumption
  <2>6. CASE ReadSlot \/ ReadMade
    <3>1. CASE update.seen = storage
      BY <2>3, <2>5, <2>6, <3>1 DEF ReadSlot, ReadMade
    <3>2. CASE update.seen # storage
      <4>1. UNCHANGED <<slots, storage, update>> /\ update.at \in {"read", "made"}
        BY <2>6, <3>2 DEF ReadSlot, ReadMade, table
      <4>2. Len(slots) > Capacity
        BY <2>1, <3>2, <4>1
      <4> QED BY <3>2, <4>1, <4>2 DEF UpdateFaultsOnlyByMove
    <3> QED BY <3>1, <3>2
  <2>7. ASSUME NEW ending \in SUBSET Conns, Pass(ending)
        PROVE  UpdateFaultsOnlyByMove'
    BY <2>1, <2>3, <2>5, <2>7 DEF Pass
  <2>8. CASE PushReceived
    BY <2>1, <2>3, <2>5, <2>8 DEF PushReceived
  <2>9. CASE \/ StartWalk \/ Walk \/ Check \/ LockTable \/ CloseSocket
             \/ Delete \/ ClearSlot \/ NothingToParse \/ TCPAccept
             \/ MakeConnection
             \/ \E peer \in Peers, syn \in BOOLEAN : ParseMessages(peer, syn)
    BY <2>3, <2>5, <2>9
       DEF StartWalk, Walk, Check, LockTable, CloseSocket, Delete, ClearSlot,
           NothingToParse, TCPAccept, MakeConnection, ParseMessages
  <2>10. CASE CallStep \/ AppStart
    <3>1. fault' \in {fault, "app"}
      BY <2>10
         DEF CallStep, AppStart, Connect, Call, Subscript, CheckSlot, LockCon,
             WaitLock, Use, UnlockCon, AppFault, AppGoto, Return
    <3> QED BY <2>3, <2>5, <3>1
  <2> QED BY <1>2, <2>2, <2>6, <2>7, <2>8, <2>9, <2>10
          DEF Next, UpdateStep, EndPass, Crashed
<1> QED BY <1>1, <1>2, TableIsConsistent, PTL DEF Spec

-----------------------------------------------------------------------------
(* The master server. *)

(* The update thread has no connection in hand where it looks for one, so   *)
(* that the callback of a new connection is told from a failed Connect.     *)
HoldsNothing ==
  update.at \in {"start", "walk", "read", "parse", "make", "made", "accept"} =>
    update.con = Null

(* One that is made and not looked up yet is no client.                     *)
MadeIsNew == update.at = "made" => slots[update.i] \notin accepted

(* A client was a connection once.                                          *)
AcceptedExist == \A c \in accepted : object[c] # "none"

(* The inductive invariant, over that of the table.                         *)
ServerInv ==
  /\ TableInv /\ HoldsNothing /\ MadeIsNew /\ AcceptedExist
  /\ ServerTypeOK /\ ClientsAreCurrent

(* The handles of the connections that came in and are not reported.        *)
Current == {conID_[c] : c \in {d \in accepted : told[d] = 0}}

-----------------------------------------------------------------------------
(* Vectors without repetition. *)

(* A client pushed back: one handle more.                                   *)
LEMMA AppendOnce ==
  ASSUME NEW S, NEW s \in Seq(S), IsInjective(s), NEW e \in S, e \notin ToSet(s)
  PROVE  /\ Append(s, e) \in Seq(S) /\ IsInjective(Append(s, e))
         /\ ToSet(Append(s, e)) = ToSet(s) \cup {e}
<1> DEFINE t == Append(s, e)
<1>1. Len(s) \in Nat /\ DOMAIN s = 1 .. Len(s)
  BY LenProperties
<1>2. /\ t \in Seq(S) /\ Len(t) = Len(s) + 1
      /\ \A i \in 1 .. Len(s) : t[i] = s[i]
      /\ t[Len(s) + 1] = e
  BY AppendProperties
<1>3. DOMAIN t = 1 .. Len(s) + 1
  BY <1>2, LenProperties
<1> HIDE DEF t
<1>4. IsInjective(t)
  BY <1>1, <1>2, <1>3 DEF IsInjective, ToSet
<1>5. ToSet(t) = ToSet(s) \cup {e}
  BY <1>1, <1>2, <1>3 DEF ToSet
<1> QED BY <1>2, <1>4, <1>5 DEF t

(* A client erased: its handle is gone, all others stay.                    *)
LEMMA RemoveOnce ==
  ASSUME NEW S, NEW s \in Seq(S), IsInjective(s), NEW k \in DOMAIN s
  PROVE  /\ RemoveAt(s, k) \in Seq(S) /\ IsInjective(RemoveAt(s, k))
         /\ ToSet(RemoveAt(s, k)) = ToSet(s) \ {s[k]}
<1> DEFINE before == SubSeq(s, 1, k - 1)
           after == SubSeq(s, k + 1, Len(s))
           t == RemoveAt(s, k)
<1>1. /\ Len(s) \in Nat /\ DOMAIN s = 1 .. Len(s) /\ k \in 1 .. Len(s)
      /\ \A i \in DOMAIN s : s[i] \in S
  BY LenProperties, ElementOfSeq
<1>2. /\ before \in Seq(S) /\ Len(before) = k - 1
      /\ \A i \in 1 .. k - 1 : before[i] = s[i]
  <2>1. k - 1 \in Int /\ 1 \in Int /\ \A i \in 1 .. k - 1 : s[i] \in S
    BY <1>1
  <2>2. /\ before \in Seq(S)
        /\ Len(before) = IF 1 <= k - 1 THEN k - 1 - 1 + 1 ELSE 0
        /\ \A i \in 1 .. k - 1 - 1 + 1 : before[i] = s[1 + i - 1]
    BY <2>1, SubSeqProperties
  <2>3. k - 1 - 1 + 1 = k - 1 /\ \A i \in 1 .. k - 1 : 1 + i - 1 = i
    BY <1>1
  <2> QED BY <1>1, <2>2, <2>3
<1>3. /\ after \in Seq(S) /\ Len(after) = Len(s) - k
      /\ \A i \in 1 .. Len(s) - k : after[i] = s[k + i]
  <2>1. k + 1 \in Int /\ Len(s) \in Int /\ \A i \in k + 1 .. Len(s) : s[i] \in S
    BY <1>1
  <2>2. /\ after \in Seq(S)
        /\ Len(after) = IF k + 1 <= Len(s) THEN Len(s) - (k + 1) + 1 ELSE 0
        /\ \A i \in 1 .. Len(s) - (k + 1) + 1 : after[i] = s[(k + 1) + i - 1]
    BY <2>1, SubSeqProperties
  <2>3. /\ Len(s) - (k + 1) + 1 = Len(s) - k
        /\ \A i \in 1 .. Len(s) - k : (k + 1) + i - 1 = k + i
    BY <1>1
  <2> QED BY <1>1, <2>2, <2>3
<1>4. /\ t \in Seq(S) /\ Len(t) = Len(s) - 1
      /\ \A i \in 1 .. Len(s) - 1 : t[i] = IF i < k THEN s[i] ELSE s[i + 1]
  <2>1. t = before \o after
    BY DEF RemoveAt
  <2> HIDE DEF before, after, t
  <2>2. /\ t \in Seq(S) /\ Len(t) = Len(before) + Len(after)
        /\ \A i \in 1 .. Len(before) + Len(after) :
             t[i] = IF i <= Len(before) THEN before[i] ELSE after[i - Len(before)]
    BY <1>2, <1>3, <2>1, ConcatProperties
  <2>3. ASSUME NEW i \in 1 .. Len(s) - 1
        PROVE  t[i] = IF i < k THEN s[i] ELSE s[i + 1]
    <3>1. CASE i < k
      BY <1>1, <1>2, <1>3, <2>2, <3>1
    <3>2. CASE ~(i < k)
      <4>1. i - (k - 1) \in 1 .. Len(s) - k /\ k + (i - (k - 1)) = i + 1
        BY <1>1, <3>2
      <4>2. t[i] = after[i - (k - 1)]
        BY <1>1, <1>2, <1>3, <2>2, <3>2
      <4> QED BY <1>3, <3>2, <4>1, <4>2
    <3> QED BY <3>1, <3>2
  <2> QED BY <1>1, <1>2, <1>3, <2>2, <2>3
<1>5. DOMAIN t = 1 .. Len(s) - 1
  BY <1>4, LenProperties
<1> HIDE DEF t
<1>6. IsInjective(t)
  BY <1>1, <1>4, <1>5 DEF IsInjective
<1>7. ToSet(t) = ToSet(s) \ {s[k]}
  <2>1. ASSUME NEW i \in DOMAIN t PROVE t[i] \in ToSet(s) \ {s[k]}
    BY <1>1, <1>4, <1>5 DEF IsInjective, ToSet
  <2>2. ASSUME NEW i \in DOMAIN s, i # k PROVE s[i] \in ToSet(t)
    <3>1. CASE i < k
      BY <1>1, <1>4, <1>5, <3>1 DEF ToSet
    <3>2. CASE i > k
      <4>1. i - 1 \in DOMAIN t /\ t[i - 1] = s[i]
        BY <1>1, <1>4, <1>5, <3>2
      <4> QED BY <4>1 DEF ToSet
    <3> QED BY <1>1, <2>2, <3>1, <3>2
  <2> QED BY <2>1, <2>2 DEF ToSet
<1> QED BY <1>4, <1>6, <1>7 DEF t

(* Different handles of a table are no more than its slots.                 *)
LEMMA InjectiveIsShort ==
  ASSUME NEW n \in Nat, NEW s \in Seq(1 .. n), IsInjective(s)
  PROVE  Len(s) <= n
<1>1. Len(s) \in Nat /\ DOMAIN s = 1 .. Len(s) /\ s \in [1 .. Len(s) -> 1 .. n]
  BY LenProperties
<1>2. SUFFICES ASSUME Len(s) > n PROVE FALSE
  BY <1>1
<1>3. /\ IsFiniteSet(1 .. Len(s)) /\ Cardinality(1 .. Len(s)) = Len(s)
      /\ IsFiniteSet(1 .. n) /\ Cardinality(1 .. n) = n
  <2>1. ASSUME NEW m \in Nat
        PROVE  IsFiniteSet(1 .. m) /\ Cardinality(1 .. m) = m
    <3>1. 1 \in Int /\ m \in Int
      OBVIOUS
    <3>2. /\ IsFiniteSet(1 .. m)
          /\ Cardinality(1 .. m) = IF 1 > m THEN 0 ELSE m - 1 + 1
      BY <3>1, FS_Interval
    <3> QED BY <3>2
  <2> QED BY <1>1, <2>1
<1>4. Cardinality(1 .. n) < Cardinality(1 .. Len(s))
  BY <1>1, <1>2, <1>3
<1>5. \E x, y \in 1 .. Len(s) : x # y /\ s[x] = s[y]
  BY <1>1, <1>3, <1>4, FS_PigeonHole
<1> QED BY <1>1, <1>5 DEF IsInjective

(* GetClientIt finds a handle if it is there.                               *)
LEMMA GetClientItFinds ==
  ASSUME NEW id, m_clients \in Seq(1 .. MaxSlots)
  PROVE  /\ GetClientIt(id) = 0 => id \notin ToSet(m_clients)
         /\ GetClientIt(id) # 0 =>
              /\ GetClientIt(id) \in DOMAIN m_clients
              /\ m_clients[GetClientIt(id)] = id
<1> DEFINE found == {i \in 1 .. Len(m_clients) : m_clients[i] = id}
<1>1. Len(m_clients) \in Nat /\ DOMAIN m_clients = 1 .. Len(m_clients)
  BY LenProperties
<1>2. GetClientIt(id) = IF found # {} THEN Min(found) ELSE 0
  BY DEF GetClientIt, SelectInSeq
<1>3. found # {} => Min(found) \in found
  <2>1. found \in SUBSET Nat
    OBVIOUS
  <2>2. found # {} => \E i \in found : \A j \in found : i <= j
    BY <2>1, LeastExists
  <2> QED BY <2>2 DEF Min
<1> QED BY <1>1, <1>2, <1>3 DEF ToSet

-----------------------------------------------------------------------------
(* The steps. Each is one of the table, or changes only the call count or   *)
(* the fault of the main thread.                                            *)

(* The table under the master server keeps its invariant.                   *)
LEMMA ServerKeepsTable == TableInv /\ [ServerNext]_allVars => TableInv'
<1> SUFFICES ASSUME TableInv, [ServerNext]_allVars PROVE TableInv'
  OBVIOUS
<1>1. CASE ServerUpdate
  <2>1. UpdateStep
    BY <1>1 DEF ServerUpdate, UDPConnect, Disconnected, UpdateStep
  <2> QED BY <2>1, UpdateStepKeeps
<1>2. CASE ServerMain
  <2>1. CASE CallStep
    BY <2>1, CallStepKeeps
  <2>2. CASE Receive \/ SendCommand
    BY <2>2, CallKeeps DEF Receive, SendCommand, Calls
  <2>3. CASE StartList
    <3>1. /\ app' = [app EXCEPT !.calls = @ + 1] /\ app.calls < MaxCalls
          /\ UNCHANGED <<table, ends, update, fault>>
      BY <2>3 DEF StartList
    <3>2. app \in AppStates /\ app.calls + 1 \in 0 .. MaxCalls
      BY <3>1, AppFacts, TableAssumption
    <3>3. app' \in AppStates
      BY <3>1, <3>2, Zenon DEF AppStates
    <3>4. /\ app'.at = app.at /\ app'.con = app.con
          /\ app'.hCon = app.hCon /\ app'.seen = app.seen
      BY <3>1, <3>2 DEF AppStates
    <3>5. AppIsPlaced' /\ app'.seen <= storage
      BY <3>1, <3>4 DEF TableInv, AppIsPlaced, StorageIsKept, table
    <3> QED BY <3>1, <3>3, <3>5, AppFacts, AppMoves DEF ends
  <2>4. CASE ListClient
    <3>1. /\ UNCHANGED <<table, ends, update, app>>
          /\ fault' \in {"app", fault}
      BY <2>4 DEF ListClient
    <3>2. AppIsPlaced' /\ app'.seen <= storage
      BY <3>1 DEF TableInv, AppIsPlaced, StorageIsKept, table
    <3> QED BY <3>1, <3>2, AppFacts, AppMoves DEF ends
  <2> QED BY <1>2, <2>1, <2>2, <2>3, <2>4 DEF ServerMain
<1>3. CASE UNCHANGED vars
  BY <1>3, NextTableInv
<1> QED BY <1>1, <1>2, <1>3 DEF ServerNext, Crashed, allVars

(* Where the update thread has no connection, before and after its steps.   *)
LEMMA UpdateHoldsNothing ==
  ASSUME TableInv, HoldsNothing, UpdateStep
  PROVE  HoldsNothing'
<1>1. update \in UpdateStates
  BY TypeOKUnfolded DEF TableInv
<1>2. ASSUME NEW at,
             at \notin {"start", "walk", "read", "parse", "make", "made",
                        "accept"},
             update'.at = at
      PROVE  HoldsNothing'
  BY <1>2 DEF HoldsNothing
<1>3. ASSUME update'.con = Null
      PROVE  HoldsNothing'
  BY <1>3 DEF HoldsNothing
<1>4. CASE StartWalk \/ NothingToParse \/ TCPAccept
  <2>1. update.con = Null
    BY <1>4 DEF StartWalk, NothingToParse, TCPAccept, HoldsNothing
  <2>2. update'.con = update.con
    BY <1>1, <1>4
       DEF StartWalk, NothingToParse, TCPAccept, Goto, UpdateStates
  <2> QED BY <1>3, <2>1, <2>2
<1>5. CASE Walk
  <2>1. update'.con = Null
    BY <1>1, <1>5 DEF Walk, HoldsNothing, UpdateStates
  <2> QED BY <1>3, <2>1
<1>6. CASE ReadSlot
  BY <1>1, <1>6 DEF ReadSlot, NextSlot, HoldsNothing, UpdateStates
<1>7. ASSUME NEW ending \in SUBSET Conns, Pass(ending)
      PROVE  HoldsNothing'
  BY <1>1, <1>7 DEF Pass, Goto, HoldsNothing, UpdateStates
<1>8. CASE Check \/ LockTable \/ CloseSocket \/ Delete \/ ClearSlot
  BY <1>1, <1>8
     DEF Check, LockTable, CloseSocket, Delete, ClearSlot, Goto, NextSlot,
         HoldsNothing, UpdateStates
<1>9. ASSUME NEW peer \in Peers, NEW syn \in BOOLEAN, ParseMessages(peer, syn)
      PROVE  HoldsNothing'
  BY <1>1, <1>9 DEF ParseMessages, HoldsNothing, UpdateStates
<1>10. CASE MakeConnection
  BY <1>1, <1>10 DEF MakeConnection, HoldsNothing, UpdateStates
<1>11. CASE PushReceived
  BY <1>1, <1>11 DEF PushReceived, HoldsNothing, UpdateStates
<1>12. CASE ReadMade
  BY <1>1, <1>12 DEF ReadMade, HoldsNothing, UpdateStates
<1> QED BY <1>4, <1>5, <1>6, <1>7, <1>8, <1>9, <1>10, <1>11, <1>12
        DEF UpdateStep, EndPass

(* A step that is none of the two callbacks keeps the clients current: what *)
(* it does to the table does not touch a connection they name.              *)
LEMMA ClientsAreKept ==
  ASSUME ServerInv, UNCHANGED <<told, m_clients, accepted>>,
         \/ UNCHANGED table
         \/ Delete
         \/ ClearSlot
         \/ \E id \in {Place, NewSlot}, peer \in Peers \cup {Null} :
              HasRoom(id) /\ Store(id, peer)
  PROVE  ClientsAreCurrent' /\ AcceptedExist'
<1>1. /\ accepted \subseteq Conns
      /\ object \in [Conns -> {"none", "live", "deleted"}]
      /\ conID_ \in [Conns -> 0 .. MaxSlots]
  BY DEF ServerInv, ServerTypeOK, TypeOK
<1>2. ASSUME NEW c \in accepted
      PROVE  conID_'[c] = conID_[c] /\ object'[c] # "none"
  <2>1. c \in Conns /\ object[c] # "none"
    BY <1>1 DEF ServerInv, AcceptedExist
  <2>2. CASE UNCHANGED table \/ ClearSlot
    BY <2>1, <2>2 DEF table, ClearSlot
  <2>3. CASE Delete
    BY <1>1, <2>1, <2>3 DEF Delete
  <2>4. ASSUME NEW id \in {Place, NewSlot}, NEW peer \in Peers \cup {Null},
               HasRoom(id), Store(id, peer)
        PROVE  conID_'[c] = conID_[c] /\ object'[c] # "none"
    <3>1. object[Fresh] = "none" /\ Fresh \in Conns
      BY <2>4, StorePlaces DEF ServerInv
    <3>2. /\ conID_' = [conID_ EXCEPT ![Fresh] = id]
          /\ object' = [object EXCEPT ![Fresh] = "live"]
      BY <2>4 DEF Store
    <3> HIDE DEF Fresh
    <3> QED BY <1>1, <2>1, <3>1, <3>2
  <2> QED BY <2>2, <2>3, <2>4
<1>3. Current' = Current
  BY <1>2 DEF Current
<1>4. ClientsAreCurrent'
  BY <1>3 DEF ServerInv, ClientsAreCurrent, Current
<1>5. AcceptedExist'
  BY <1>2 DEF AcceptedExist
<1> QED BY <1>4, <1>5

(* UDPConnect: the new handle is not that of a client, because a client's   *)
(* connection is in its slot, and the slot holds the new one.               *)
LEMMA UDPConnectKeepsClients ==
  ASSUME ServerInv, UDPConnect
  PROVE  /\ ClientsAreCurrent' /\ AcceptedExist'
         /\ m_clients' \in Seq(1 .. MaxSlots) /\ accepted' \subseteq Conns
<1> DEFINE id == update.i
           c == slots[id]
<1>1. /\ TableInv /\ update.con = Null /\ ReadMade /\ update.at = "made"
      /\ UNCHANGED <<table, told>> /\ update \in UpdateStates
      /\ Null \notin Conns
  BY TypeOKUnfolded
     DEF ServerInv, HoldsNothing, UDPConnect, ReadMade, TableInv, ends
<1>2. accepted \subseteq Conns /\ m_clients \in Seq(1 .. MaxSlots)
  BY DEF ServerInv, ServerTypeOK
<1>3. CASE update.seen # storage
  <2>1. UNCHANGED update
    BY <1>1, <1>3 DEF ReadMade
  <2>2. UNCHANGED <<told, m_clients, accepted>>
    BY <1>1, <2>1 DEF UDPConnect
  <2> QED BY <1>1, <1>2, <2>2, ClientsAreKept
<1>4. CASE update.seen = storage
  <2>1. update' = [update EXCEPT !.at = "push", !.i = 1, !.seen = 0, !.con = c]
    BY <1>1, <1>4 DEF ReadMade
  <2>2. /\ c \in Conns /\ object[c] = "live" /\ conID_[c] = id
        /\ c \notin accepted /\ id \in 1 .. MaxSlots
    <3>1. /\ id \in DOMAIN slots /\ c # Null /\ c \notin accepted
          /\ DOMAIN slots = 1 .. Len(slots) /\ Len(slots) <= MaxSlots
          /\ Len(slots) \in Nat /\ c \in Conns \cup {Null}
      BY <1>1, TypeOKUnfolded DEF TableInv, UpdateIsPlaced, ServerInv, MadeIsNew
    <3>2. conID_[c] = id /\ object[c] = "live"
      BY <1>1, <3>1 DEF TableInv, SlotsAreLive, BeingCleared
    <3> QED BY <3>1, <3>2, TableAssumption
  <2> HIDE DEF id, c
  <2>3. update'.con = c
    BY <1>1, <2>1 DEF UpdateStates
  <2>4. m_clients' = Append(m_clients, id) /\ accepted' = accepted \cup {c}
    BY <1>1, <2>2, <2>3 DEF UDPConnect, id
  <2>5. told[c] = 0
    BY <1>1, <2>2 DEF TableInv, ToldOnce
  <2>6. ASSUME NEW d \in accepted, told[d] = 0
        PROVE  conID_[d] # id
    <3>1. d \in Conns /\ object[d] = "live"
      BY <1>1, <1>2, <2>6
         DEF ServerInv, AcceptedExist, TableInv, ToldOnce, TypeOK
    <3>2. slots[conID_[d]] = d /\ d # c
      BY <1>1, <2>2, <3>1 DEF TableInv, SlotsAreLive
    <3> QED BY <3>2 DEF c
  <2>7. id \notin ToSet(m_clients)
    <3>1. id \notin Current
      BY <2>6 DEF Current
    <3> QED BY <3>1 DEF ServerInv, ClientsAreCurrent, Current
  <2>8. /\ m_clients' \in Seq(1 .. MaxSlots) /\ IsInjective(m_clients')
        /\ ToSet(m_clients') = ToSet(m_clients) \cup {id}
    <3>1. IsInjective(m_clients)
      BY DEF ServerInv, ClientsAreCurrent
    <3> DEFINE Handles == 1 .. MaxSlots
    <3>2. m_clients \in Seq(Handles) /\ id \in Handles
      BY <1>2, <2>2
    <3>3. /\ Append(m_clients, id) \in Seq(Handles)
          /\ IsInjective(Append(m_clients, id))
          /\ ToSet(Append(m_clients, id)) = ToSet(m_clients) \cup {id}
      <4> HIDE DEF Handles
      <4> QED BY <2>7, <3>1, <3>2, AppendOnce
    <3> QED BY <2>4, <3>3
  <2>9. Current' = Current \cup {id}
    BY <1>1, <2>2, <2>4, <2>5 DEF Current, table
  <2>10. ToSet(m_clients) = Current
    BY DEF ServerInv, ClientsAreCurrent, Current
  <2>11. ClientsAreCurrent'
    BY <2>8, <2>9, <2>10 DEF ClientsAreCurrent, Current
  <2>12. AcceptedExist'
    BY <1>1, <2>2, <2>4 DEF ServerInv, AcceptedExist, table
  <2>13. accepted' \subseteq Conns
    BY <1>2, <2>2, <2>4
  <2> QED BY <2>8, <2>11, <2>12, <2>13
<1> QED BY <1>3, <1>4

(* Only Connect takes the update thread to where a connection was made, and *)
(* the one it made was none before.                                         *)
LEMMA MadeStaysNew ==
  ASSUME ServerInv, UpdateStep, accepted' = accepted
  PROVE  MadeIsNew'
<1>1. /\ TableInv /\ update \in UpdateStates
  BY TypeOKUnfolded DEF ServerInv, TableInv
<1>2. ASSUME update'.at # "made"
      PROVE  MadeIsNew'
  BY <1>2 DEF MadeIsNew
<1>3. CASE MakeConnection /\ HasRoom(Place)
  <2>1. /\ Store(Place, update.peer) /\ update.peer \in Peers \cup {Null}
        /\ update' = [update EXCEPT !.at = "made", !.peer = Null,
                                    !.i = Place, !.seen = storage']
    BY <1>1, <1>3 DEF MakeConnection, UpdateStates
  <2>2. update'.i = Place
    BY <1>1, <2>1 DEF UpdateStates
  <2>3. slots'[Place] = Fresh /\ object[Fresh] = "none"
    BY <1>1, <1>3, <2>1, StorePlaces
  <2> QED BY <2>2, <2>3 DEF MadeIsNew, ServerInv, AcceptedExist
<1>4. CASE MakeConnection /\ ~HasRoom(Place)
  BY <1>1, <1>2, <1>4 DEF MakeConnection, UpdateStates
<1>5. CASE ReadMade
  BY <1>1, <1>2, <1>5
     DEF ReadMade, UpdateStates, ServerInv, MadeIsNew, table
<1>6. CASE StartWalk \/ NothingToParse \/ TCPAccept \/ Walk \/ PushReceived
  BY <1>1, <1>2, <1>6
     DEF StartWalk, NothingToParse, TCPAccept, Walk, PushReceived, Goto,
         UpdateStates
<1>7. CASE ReadSlot
  BY <1>1, <1>2, <1>7 DEF ReadSlot, NextSlot, UpdateStates
<1>8. ASSUME NEW ending \in SUBSET Conns, Pass(ending)
      PROVE  MadeIsNew'
  BY <1>1, <1>2, <1>8 DEF Pass, Goto, UpdateStates
<1>9. CASE Check \/ LockTable \/ CloseSocket \/ Delete \/ ClearSlot
  BY <1>1, <1>2, <1>9
     DEF Check, LockTable, CloseSocket, Delete, ClearSlot, Goto, NextSlot,
         UpdateStates
<1>10. ASSUME NEW peer \in Peers, NEW syn \in BOOLEAN, ParseMessages(peer, syn)
       PROVE  MadeIsNew'
  BY <1>1, <1>2, <1>10 DEF ParseMessages, UpdateStates
<1> QED BY <1>3, <1>4, <1>5, <1>6, <1>7, <1>8, <1>9, <1>10
        DEF UpdateStep, EndPass

(* Disconnect: the handle is that of the connection that is reported, if it *)
(* is a client; one that came over TCP shares no handle with a client.      *)
LEMMA DisconnectedKeepsClients ==
  ASSUME ServerInv, Disconnected
  PROVE  /\ ClientsAreCurrent' /\ AcceptedExist'
         /\ m_clients' \in Seq(1 .. MaxSlots) /\ accepted' \subseteq Conns
<1> DEFINE c == update.con
           id == conID_[c]
<1>1. /\ TableInv /\ Check /\ UNCHANGED <<table, listing, accepted>>
      /\ update.at = "check" /\ c \in Conns /\ object[c] = "live"
      /\ Null \notin Conns
  BY UpdateFacts, TypeOKUnfolded
     DEF ServerInv, Disconnected, Check, TableInv, UpdateIsPlaced, Holding
<1>2. /\ accepted \subseteq Conns /\ m_clients \in Seq(1 .. MaxSlots)
      /\ told \in [Conns -> Nat]
      /\ object \in [Conns -> {"none", "live", "deleted"}]
  BY DEF ServerInv, ServerTypeOK, TypeOK
<1>3. CASE c \notin ended
  <2>1. UNCHANGED <<told, m_clients, accepted>>
    BY <1>1, <1>3 DEF Check, Disconnected
  <2> QED BY <1>1, <1>2, <2>1, ClientsAreKept
<1>4. CASE c \in ended
  <2>1. told' = [told EXCEPT ![c] = @ + 1] /\ HandleDisconnect(id)
    BY <1>1, <1>4 DEF Check, Disconnected
  <2>2. told[c] = 0
    BY <1>1 DEF TableInv, ToldOnce
  <2>3. ASSUME NEW d \in accepted, told[d] = 0, conID_[d] = id
        PROVE  d = c
    <3>1. d \in Conns /\ object[d] = "live"
      BY <1>1, <1>2, <2>3 DEF ServerInv, AcceptedExist, TableInv, ToldOnce
    <3> QED BY <1>1, <2>3, <3>1 DEF TableInv, SlotsAreLive
  <2>4. ToSet(m_clients) = Current /\ IsInjective(m_clients)
    BY DEF ServerInv, ClientsAreCurrent, Current
  <2>5. Current' = Current \ {id}
    <3>1. \A d \in accepted : told'[d] = 0 <=> told[d] = 0 /\ d # c
      BY <1>1, <1>2, <2>1, <2>2
    <3> QED BY <1>1, <2>3, <3>1 DEF Current, table
  <2>6. /\ m_clients' \in Seq(1 .. MaxSlots) /\ IsInjective(m_clients')
        /\ ToSet(m_clients') = ToSet(m_clients) \ {id}
    <3>1. CASE GetClientIt(id) = 0
      BY <1>2, <2>1, <2>4, <3>1, GetClientItFinds DEF HandleDisconnect
    <3>2. CASE GetClientIt(id) # 0
      <4> DEFINE k == GetClientIt(id)
      <4>1. k \in DOMAIN m_clients /\ m_clients[k] = id
        BY <1>2, <3>2, GetClientItFinds
      <4>2. m_clients' = RemoveAt(m_clients, k)
        BY <2>1, <3>2 DEF HandleDisconnect
      <4> HIDE DEF k, id
      <4> QED BY <1>2, <2>4, <4>1, <4>2, RemoveOnce
    <3> QED BY <3>1, <3>2
  <2>7. ClientsAreCurrent'
    BY <2>4, <2>5, <2>6 DEF ClientsAreCurrent, Current
  <2>8. AcceptedExist'
    BY <1>1 DEF ServerInv, AcceptedExist, table
  <2> QED BY <1>1, <1>2, <2>6, <2>7, <2>8
<1> QED BY <1>3, <1>4

-----------------------------------------------------------------------------
(* The empty server satisfies the invariant.                                *)
LEMMA InitServerInv == ServerInit => ServerInv
<1> SUFFICES ASSUME ServerInit PROVE ServerInv
  OBVIOUS
<1>1. /\ Init /\ m_clients = <<>> /\ listing = NotListing /\ accepted = {}
  BY DEF ServerInit
<1>2. TableInv
  BY <1>1, InitTableInv
<1>3. /\ m_clients \in Seq(1 .. MaxSlots) /\ DOMAIN m_clients = {}
      /\ 0 \in 0 .. MaxSlots
  BY <1>1, TableAssumption
<1>4. ServerTypeOK
  BY <1>1, <1>2, <1>3 DEF ServerTypeOK, NotListing, TableInv
<1>5. ClientsAreCurrent
  BY <1>1, <1>3 DEF ClientsAreCurrent, IsInjective, ToSet
<1>6. HoldsNothing /\ MadeIsNew /\ AcceptedExist
  BY <1>1 DEF Init, HoldsNothing, MadeIsNew, AcceptedExist
<1> QED BY <1>2, <1>4, <1>5, <1>6 DEF ServerInv

(* Every step of the server preserves it.                                   *)
LEMMA NextServerInv == ServerInv /\ [ServerNext]_allVars => ServerInv'
<1> SUFFICES ASSUME ServerInv, [ServerNext]_allVars PROVE ServerInv'
  OBVIOUS
<1>1. TableInv' /\ TypeOK'
  BY ServerKeepsTable DEF ServerInv, TableInv
<1>2. /\ m_clients \in Seq(1 .. MaxSlots) /\ IsInjective(m_clients)
      /\ listing \in [clients : Seq(1 .. MaxSlots), left : 0 .. MaxSlots]
      /\ accepted \subseteq Conns /\ TableInv
      /\ MaxSlots \in Nat
  BY TableAssumption DEF ServerInv, ServerTypeOK, ClientsAreCurrent
<1>3. HoldsNothing'
  <2>1. CASE ServerUpdate
    <3>1. UpdateStep
      BY <2>1 DEF ServerUpdate, UDPConnect, Disconnected, UpdateStep
    <3> QED BY <3>1, UpdateHoldsNothing DEF ServerInv
  <2>2. CASE UNCHANGED update
    BY <2>2 DEF ServerInv, HoldsNothing
  <2>3. CASE ServerMain
    BY <2>2, <2>3
       DEF ServerMain, Receive, SendCommand, StartList, ListClient, Call,
           CallStep, Subscript, CheckSlot, LockCon, WaitLock, Use, UnlockCon
  <2> QED BY <2>1, <2>2, <2>3 DEF ServerNext, Crashed, allVars, vars
<1>10. MadeIsNew'
  <2>1. CASE UDPConnect
    <3>1. CASE update.seen = storage
      <4>1. update'.at = "push"
        BY <1>2, <2>1, <3>1, TypeOKUnfolded
           DEF UDPConnect, ReadMade, TableInv, UpdateStates
      <4> QED BY <4>1 DEF MadeIsNew
    <3>2. CASE update.seen # storage
      <4>1. UNCHANGED <<slots, update>> /\ update.con = Null
        BY <2>1, <3>2
           DEF UDPConnect, ReadMade, table, ServerInv, HoldsNothing
      <4>2. UNCHANGED accepted
        BY <2>1, <4>1 DEF UDPConnect
      <4> QED BY <4>1, <4>2 DEF ServerInv, MadeIsNew
    <3> QED BY <3>1, <3>2
  <2>2. CASE ServerUpdate /\ ~UDPConnect
    <3>1. UpdateStep /\ UNCHANGED accepted
      BY <2>2 DEF ServerUpdate, Disconnected, UpdateStep, Same, server
    <3> QED BY <3>1, MadeStaysNew
  <2>3. ASSUME UNCHANGED <<slots, update, accepted>>
        PROVE  MadeIsNew'
    BY <2>3 DEF ServerInv, MadeIsNew
  <2>4. CASE ServerMain
    <3>1. UNCHANGED <<slots, update, accepted>>
      BY <2>4
         DEF ServerMain, Receive, SendCommand, StartList, ListClient, Call,
             CallStep, Subscript, CheckSlot, LockCon, WaitLock, Use, UnlockCon,
             Same, server, table
    <3> QED BY <2>3, <3>1
  <2>5. CASE UNCHANGED allVars \/ (Crashed /\ Same)
    BY <2>3, <2>5 DEF Crashed, Same, allVars, vars, server
  <2> QED BY <2>1, <2>2, <2>4, <2>5 DEF ServerNext
<1>4. ASSUME UNCHANGED <<told, m_clients, accepted>>,
             \/ UNCHANGED table
             \/ Delete
             \/ ClearSlot
             \/ \E id \in {Place, NewSlot}, peer \in Peers \cup {Null} :
                  HasRoom(id) /\ Store(id, peer),
             listing' \in [clients : Seq(1 .. MaxSlots), left : 0 .. MaxSlots]
      PROVE  ServerInv'
  BY <1>1, <1>2, <1>3, <1>4, <1>10, ClientsAreKept DEF ServerInv, ServerTypeOK
<1>5. CASE UDPConnect
  BY <1>1, <1>2, <1>3, <1>5, <1>10, UDPConnectKeepsClients
     DEF ServerInv, ServerTypeOK, UDPConnect
<1>6. CASE Disconnected
  BY <1>1, <1>2, <1>3, <1>6, <1>10, DisconnectedKeepsClients
     DEF ServerInv, ServerTypeOK, Disconnected
<1>7. CASE ServerUpdate /\ Same
  <2>1. UNCHANGED <<listing, m_clients, accepted>>
    BY <1>7 DEF Same, server
  <2>2. CASE \/ StartWalk \/ Walk \/ ReadSlot \/ LockTable \/ CloseSocket
             \/ NothingToParse \/ PushReceived
             \/ Pass({}) \/ \E c \in Conns : EndPass(c)
             \/ \E peer \in Peers, syn \in BOOLEAN : ParseMessages(peer, syn)
    <3>1. UNCHANGED <<table, told>>
      BY <2>2 DEF StartWalk, Walk, ReadSlot, LockTable, CloseSocket,
                  NothingToParse, PushReceived, Pass, EndPass, ParseMessages,
                  ends
    <3> QED BY <1>2, <1>4, <2>1, <3>1
  <2>3. CASE Delete \/ ClearSlot \/ TCPAccept \/ MakeConnection
    <3>1. UNCHANGED told
      BY <2>3 DEF Delete, ClearSlot, TCPAccept, MakeConnection, ends
    <3>2. update.peer \in Peers \cup {Null}
      BY <1>2, TypeOKUnfolded DEF TableInv, UpdateStates
    <3>3. \/ UNCHANGED table
          \/ Delete
          \/ ClearSlot
          \/ \E id \in {Place, NewSlot}, peer \in Peers \cup {Null} :
               HasRoom(id) /\ Store(id, peer)
      BY <2>3, <3>2 DEF TCPAccept, MakeConnection
    <3> QED BY <1>2, <1>4, <2>1, <3>1, <3>3
  <2> QED BY <1>5, <1>6, <1>7, <2>2, <2>3 DEF ServerUpdate
<1>8. CASE ServerMain
  <2>1. UNCHANGED <<told, m_clients, accepted>> /\ UNCHANGED table
    BY <1>8
       DEF ServerMain, Receive, SendCommand, StartList, ListClient, Call,
           CallStep, Subscript, CheckSlot, LockCon, WaitLock, Use, UnlockCon,
           Same, server, ends
  <2>2. CASE UNCHANGED listing
    BY <1>2, <1>4, <2>1, <2>2
  <2>3. CASE StartList
    <3>1. Len(m_clients) \in 0 .. MaxSlots
      BY <1>2, InjectiveIsShort, LenProperties
    <3>2. listing' \in [clients : Seq(1 .. MaxSlots), left : 0 .. MaxSlots]
      BY <1>2, <2>3, <3>1 DEF StartList
    <3> QED BY <1>4, <2>1, <3>2
  <2>4. CASE ListClient
    <3>1. \/ UNCHANGED listing
          \/ listing' = NotListing
          \/ listing.left > 0 /\ listing' = [listing EXCEPT !.left = @ - 1]
      BY <2>4 DEF ListClient
    <3>2. listing' \in [clients : Seq(1 .. MaxSlots), left : 0 .. MaxSlots]
      <4>1. NotListing \in [clients : Seq(1 .. MaxSlots), left : 0 .. MaxSlots]
        BY <1>2 DEF NotListing
      <4>2. listing.left > 0 => listing.left - 1 \in 0 .. MaxSlots
        BY <1>2
      <4>3. listing.left > 0 =>
              [listing EXCEPT !.left = @ - 1]
                \in [clients : Seq(1 .. MaxSlots), left : 0 .. MaxSlots]
        BY <1>2, <4>2, Zenon
      <4> QED BY <1>2, <3>1, <4>1, <4>3
    <3> QED BY <1>4, <2>1, <3>2
  <2> QED BY <1>8, <2>2, <2>3, <2>4
          DEF ServerMain, Receive, SendCommand, Same, server
<1>9. CASE UNCHANGED allVars
  BY <1>2, <1>4, <1>9 DEF allVars, vars, server, table
<1> QED BY <1>5, <1>6, <1>7, <1>8, <1>9
        DEF ServerNext, ServerUpdate, Crashed, Same, allVars

(* The invariant holds of every behaviour of the master server.             *)
THEOREM ServerIsConsistent == ServerSpec => []ServerInv
<1>1. ServerInit => ServerInv
  BY InitServerInv
<1>2. ServerInv /\ [ServerNext]_allVars => ServerInv'
  BY NextServerInv
<1> QED BY <1>1, <1>2, PTL DEF ServerSpec

(* The types of the master server: a list never has more clients than the   *)
(* table has slots.                                                         *)
THEOREM ServerTypeCorrect == ServerSpec => []ServerTypeOK
<1>1. ServerInv => ServerTypeOK
  BY DEF ServerInv
<1> QED BY <1>1, ServerIsConsistent, PTL

(* The clients are, each once, the connections that came in over UDP and    *)
(* have not been reported gone, though the table gives handles again.       *)
THEOREM ClientsAlwaysCurrent == ServerSpec => []ClientsAreCurrent
<1>1. ServerInv => ClientsAreCurrent
  BY DEF ServerInv
<1> QED BY <1>1, ServerIsConsistent, PTL

=============================================================================

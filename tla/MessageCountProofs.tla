-------------------------- MODULE MessageCountProofs --------------------------
(***************************************************************************)
(* The reference count of received messages is exact for any number of     *)
(* messages: the update thread pushes and destroys its copy under the lock *)
(* of the connection, the application takes a message under that lock, so  *)
(* no two threads ever work on the count of the same message.              *)
(***************************************************************************)
EXTENDS MessageCount, SequenceTheorems, FiniteSetTheorems, TLAPS

(* The two threads: where the update thread is with the message it          *)
(* receives, and the application with the one it reads.                     *)
Pushed(m) ==
  message["update"] > m \/ (message["update"] = m /\ op["update"] > 2)
Released(m) ==
  message["update"] > m \/ (message["update"] = m /\ op["update"] > 3)
Taken(m) == message["app"] > m \/ (message["app"] = m /\ op["app"] > 2)
Popped(m) == message["app"] > m \/ (message["app"] = m /\ op["app"] > 3)
Read(m) == message["app"] > m

One(b) == IF b THEN 1 ELSE 0

(* How many copies of m there are, by these places.                         *)
Owned(m) ==
  1 + One(Pushed(m)) + One(Taken(m))
    - One(Released(m)) - One(Popped(m)) - One(Read(m))

(* A detach that has written the count is one ahead of its thread.          *)
Leaving(t, m) == message[t] = m /\ written[t]

(* The lock is held from "lock" or "take" to "unlock"; the application is   *)
(* behind the update thread, and strictly so while it has a message.        *)
LockIsHeld ==
  /\ lock = "update" <=> op["update"] > 1
  /\ lock = "app" <=> op["app"] \in 2 .. 4
  /\ message["app"] <= message["update"]
  /\ op["app"] > 1 => message["app"] < message["update"]
  /\ queued = message["update"] - 1 + One(op["update"] > 2)
  /\ op["update"] > 1 => message["update"] <= MaxMessages

(* What a thread has read of a count is still the count.                    *)
LoadedIsTrue ==
  /\ loaded["update"] # Null =>
       /\ op["update"] \in {2, 3} /\ ~written["update"]
       /\ loaded["update"] = refCount_[message["update"]]
  /\ loaded["app"] # Null =>
       /\ op["app"] \in {2, 3, 6} /\ ~written["app"]
       /\ loaded["app"] = refCount_[message["app"]]
  /\ written["update"] => op["update"] = 3
  /\ written["app"] => op["app"] \in {3, 6}

(* The count of every message, and the end of its data.                     *)
CountIsTrue ==
  \A m \in Messages :
    /\ refCount_[m] =
         Owned(m) - One(Leaving("update", m)) - One(Leaving("app", m))
    /\ deleted[m] = One(Read(m))

CountInv == TypeOK /\ LockIsHeld /\ LoadedIsTrue /\ CountIsTrue /\ ~fault

-----------------------------------------------------------------------------
(* The programs of received messages, operation by operation.               *)
LEMMA Programs ==
  ASSUME Received
  PROVE  /\ DOMAIN Program("update") = 1 .. 4 /\ Len(Program("update")) = 4
         /\ Program("update")[1] = "lock" /\ Program("update")[2] = "push"
         /\ Program("update")[3] = "detach" /\ Program("update")[4] = "unlock"
         /\ DOMAIN Program("app") = 1 .. 6 /\ Len(Program("app")) = 6
         /\ Program("app")[1] = "take" /\ Program("app")[2] = "attach"
         /\ Program("app")[3] = "detach" /\ Program("app")[4] = "unlock"
         /\ Program("app")[5] = "use" /\ Program("app")[6] = "detach"
  BY DEF Program, ReceivedByApp, ReceivedByUpdate

(* Where the threads are, as numbers.                                       *)
LEMMA Places ==
  ASSUME Received, TypeOK
  PROVE  /\ message["update"] \in 1 .. MaxMessages + 1
         /\ message["app"] \in 1 .. MaxMessages + 1
         /\ op["update"] \in 1 .. 4 /\ op["app"] \in 1 .. 6
         /\ MaxMessages \in Nat \ {0} /\ Null \notin Nat
         /\ Null # "app" /\ Null # "update"
  BY Programs, CountAssumption DEF TypeOK, Threads

(* The operation a place stands for.                                        *)
LEMMA AtPlaces ==
  ASSUME Received, TypeOK, NEW operations
  PROVE  /\ IsAt("update", operations) <=>
              /\ message["update"] \in Messages
              /\ \/ op["update"] = 1 /\ "lock" \in operations
                 \/ op["update"] = 2 /\ "push" \in operations
                 \/ op["update"] = 3 /\ "detach" \in operations
                 \/ op["update"] = 4 /\ "unlock" \in operations
         /\ IsAt("app", operations) <=>
              /\ message["app"] \in Messages
              /\ \/ op["app"] = 1 /\ "take" \in operations
                 \/ op["app"] = 2 /\ "attach" \in operations
                 \/ op["app"] \in {3, 6} /\ "detach" \in operations
                 \/ op["app"] = 4 /\ "unlock" \in operations
                 \/ op["app"] = 5 /\ "use" \in operations
<1>1. op["update"] \in {1, 2, 3, 4} /\ op["app"] \in {1, 2, 3, 4, 5, 6}
  BY Places
<1>2. IsAt("update", operations) <=>
        /\ message["update"] \in Messages
        /\ \/ op["update"] = 1 /\ "lock" \in operations
           \/ op["update"] = 2 /\ "push" \in operations
           \/ op["update"] = 3 /\ "detach" \in operations
           \/ op["update"] = 4 /\ "unlock" \in operations
  BY <1>1, Programs DEF IsAt
<1>3. IsAt("app", operations) <=>
        /\ message["app"] \in Messages
        /\ \/ op["app"] = 1 /\ "take" \in operations
           \/ op["app"] = 2 /\ "attach" \in operations
           \/ op["app"] \in {3, 6} /\ "detach" \in operations
           \/ op["app"] = 4 /\ "unlock" \in operations
           \/ op["app"] = 5 /\ "use" \in operations
  BY <1>1, Programs DEF IsAt
<1> QED BY <1>2, <1>3

(* The step of a thread to its next operation or its next message.          *)
LEMMA NextPlaces ==
  ASSUME Received, TypeOK
  PROVE  /\ NextOperation("update") /\ message["update"] \in Messages =>
              /\ op'["update"] = IF op["update"] < 4 THEN op["update"] + 1 ELSE 1
              /\ message'["update"] =
                   IF op["update"] < 4 THEN message["update"]
                                       ELSE message["update"] + 1
              /\ op'["app"] = op["app"] /\ message'["app"] = message["app"]
              /\ op' \in [Threads -> Nat]
              /\ message' \in [Threads -> 1 .. MaxMessages + 1]
         /\ NextOperation("app") /\ message["app"] \in Messages =>
              /\ op'["app"] = IF op["app"] < 6 THEN op["app"] + 1 ELSE 1
              /\ message'["app"] = IF op["app"] < 6 THEN message["app"]
                                                    ELSE message["app"] + 1
              /\ op'["update"] = op["update"]
              /\ message'["update"] = message["update"]
              /\ op' \in [Threads -> Nat]
              /\ message' \in [Threads -> 1 .. MaxMessages + 1]
<1>1. /\ message \in [Threads -> 1 .. MaxMessages + 1]
      /\ op \in [Threads -> Nat] /\ MaxMessages \in Nat
  BY CountAssumption DEF TypeOK
<1>2. ASSUME NextOperation("update"), message["update"] \in Messages
      PROVE  /\ op'["update"] = IF op["update"] < 4 THEN op["update"] + 1 ELSE 1
             /\ message'["update"] =
                  IF op["update"] < 4 THEN message["update"]
                                      ELSE message["update"] + 1
             /\ op'["app"] = op["app"] /\ message'["app"] = message["app"]
             /\ op' \in [Threads -> Nat]
             /\ message' \in [Threads -> 1 .. MaxMessages + 1]
  <2>1. CASE op["update"] < 4
    BY <1>1, <1>2, <2>1, Programs DEF NextOperation, Threads
  <2>2. CASE ~(op["update"] < 4)
    <3>1. /\ op' = [op EXCEPT !["update"] = 1]
          /\ message' = [message EXCEPT !["update"] = @ + 1]
      BY <1>2, <2>2, Programs DEF NextOperation
    <3>2. message["update"] + 1 \in 1 .. MaxMessages + 1
      BY <1>1, <1>2 DEF Messages
    <3> QED BY <1>1, <2>2, <3>1, <3>2 DEF Threads
  <2> QED BY <2>1, <2>2
<1>3. ASSUME NextOperation("app"), message["app"] \in Messages
      PROVE  /\ op'["app"] = IF op["app"] < 6 THEN op["app"] + 1 ELSE 1
             /\ message'["app"] = IF op["app"] < 6 THEN message["app"]
                                                   ELSE message["app"] + 1
             /\ op'["update"] = op["update"]
             /\ message'["update"] = message["update"]
             /\ op' \in [Threads -> Nat]
             /\ message' \in [Threads -> 1 .. MaxMessages + 1]
  <2>1. CASE op["app"] < 6
    BY <1>1, <1>3, <2>1, Programs DEF NextOperation, Threads
  <2>2. CASE ~(op["app"] < 6)
    <3>1. /\ op' = [op EXCEPT !["app"] = 1]
          /\ message' = [message EXCEPT !["app"] = @ + 1]
      BY <1>3, <2>2, Programs DEF NextOperation
    <3>2. message["app"] + 1 \in 1 .. MaxMessages + 1
      BY <1>1, <1>3 DEF Messages
    <3> QED BY <1>1, <2>2, <3>1, <3>2 DEF Threads
  <2> QED BY <2>1, <2>2
<1> QED BY <1>2, <1>3

(* A thread works on a message whose data is still there, and on the count  *)
(* of a message the other thread is done with or has not begun.             *)
LEMMA CountHere ==
  ASSUME Received, CountInv
  PROVE  /\ \A t \in Threads : message[t] \in Messages => ~IsDeleted(t)
         /\ op["update"] > 1 => message["update"] \in Messages
         /\ op["app"] > 1 => message["app"] \in Messages
         /\ op["update"] = 2 => refCount_[message["update"]] = 1
         /\ op["update"] = 3 =>
              refCount_[message["update"]] = IF written["update"] THEN 1 ELSE 2
         /\ op["app"] = 2 => refCount_[message["app"]] = 1
         /\ op["app"] = 3 =>
              refCount_[message["app"]] = IF written["app"] THEN 1 ELSE 2
         /\ op["app"] = 6 =>
              refCount_[message["app"]] = IF written["app"] THEN 0 ELSE 1
<1>1. /\ message["update"] \in 1 .. MaxMessages + 1
      /\ message["app"] \in 1 .. MaxMessages + 1
      /\ op["update"] \in 1 .. 4 /\ op["app"] \in 1 .. 6
      /\ MaxMessages \in Nat \ {0}
  BY Places DEF CountInv
<1>2. /\ message["app"] <= message["update"]
      /\ op["app"] > 1 => message["app"] < message["update"]
      /\ op["update"] > 1 => message["update"] <= MaxMessages
  BY DEF CountInv, LockIsHeld
<1>3. /\ op["update"] > 1 => message["update"] \in Messages
      /\ op["app"] > 1 => message["app"] \in Messages
  BY <1>1, <1>2 DEF Messages
<1>4. ASSUME NEW t \in Threads, message[t] \in Messages PROVE ~IsDeleted(t)
  <2>1. deleted[message[t]] = One(Read(message[t]))
    BY <1>4 DEF CountInv, CountIsTrue
  <2>2. t = "app" \/ t = "update"
    BY <1>4 DEF Threads
  <2>3. ~Read(message[t])
    BY <1>1, <1>2, <2>2 DEF Read
  <2> QED BY <2>1, <2>3 DEF IsDeleted, One
<1>5. \A m \in Messages :
        refCount_[m] =
          Owned(m) - One(Leaving("update", m)) - One(Leaving("app", m))
  BY DEF CountInv, CountIsTrue
<1>6. /\ written["update"] => op["update"] = 3
      /\ written["app"] => op["app"] \in {3, 6}
  BY DEF CountInv, LoadedIsTrue
<1>7. ASSUME op["update"] > 1
      PROVE  /\ op["update"] = 2 => refCount_[message["update"]] = 1
             /\ op["update"] = 3 => refCount_[message["update"]] =
                                       IF written["update"] THEN 1 ELSE 2
  <2> DEFINE m == message["update"]
  <2>1. refCount_[m] =
          Owned(m) - One(Leaving("update", m)) - One(Leaving("app", m))
    BY <1>3, <1>5, <1>7
  <2>2. ~Leaving("app", m)
    BY <1>1, <1>2, <1>6 DEF Leaving
  <2>3. Leaving("update", m) <=> written["update"]
    BY DEF Leaving
  <2>4. ~Taken(m) /\ ~Popped(m) /\ ~Read(m)
    BY <1>1, <1>2 DEF Taken, Popped, Read
  <2>5. (Pushed(m) <=> op["update"] > 2) /\ (Released(m) <=> op["update"] > 3)
    BY <1>1 DEF Pushed, Released
  <2> HIDE DEF m
  <2> QED BY <1>1, <1>6, <2>1, <2>2, <2>3, <2>4, <2>5 DEF Owned, One, m
<1>8. ASSUME op["app"] > 1
      PROVE  /\ op["app"] = 2 => refCount_[message["app"]] = 1
             /\ op["app"] = 3 => refCount_[message["app"]] =
                                    IF written["app"] THEN 1 ELSE 2
             /\ op["app"] = 6 => refCount_[message["app"]] =
                                    IF written["app"] THEN 0 ELSE 1
  <2> DEFINE m == message["app"]
  <2>1. refCount_[m] =
          Owned(m) - One(Leaving("update", m)) - One(Leaving("app", m))
    BY <1>3, <1>5, <1>8
  <2>2. ~Leaving("update", m)
    BY <1>1, <1>2, <1>8 DEF Leaving
  <2>3. Leaving("app", m) <=> written["app"]
    BY DEF Leaving
  <2>4. Pushed(m) /\ Released(m)
    BY <1>1, <1>2, <1>8 DEF Pushed, Released
  <2>5. /\ Taken(m) <=> op["app"] > 2
        /\ Popped(m) <=> op["app"] > 3
        /\ ~Read(m)
    BY <1>1 DEF Taken, Popped, Read
  <2> HIDE DEF m
  <2> QED BY <1>1, <1>6, <2>1, <2>2, <2>3, <2>4, <2>5 DEF Owned, One, m
<1> QED BY <1>1, <1>3, <1>4, <1>7, <1>8

(* Types of the next state, from the places of the two threads.             *)
LEMMA TypedNext ==
  ASSUME Received,
         op' \in [Threads -> Nat], op'["update"] \in 1 .. 4,
         op'["app"] \in 1 .. 6, message' \in [Threads -> 1 .. MaxMessages + 1],
         refCount_' \in [Messages -> 0 .. 2], deleted' \in [Messages -> Nat],
         queued' \in 0 .. MaxMessages,
         loaded' \in [Threads -> Nat \cup {Null}],
         written' \in [Threads -> BOOLEAN], lock' \in Threads \cup {Null},
         fault' \in BOOLEAN
  PROVE  TypeOK'
<1>1. \A t \in Threads : op'[t] \in DOMAIN Program(t)
  BY Programs DEF Threads
<1> QED BY <1>1 DEF TypeOK

(* What an inductive step starts from, in one place.                        *)
LEMMA CountFacts ==
  ASSUME Received, CountInv
  PROVE  /\ message["update"] \in 1 .. MaxMessages + 1
         /\ message["app"] \in 1 .. MaxMessages + 1
         /\ op["update"] \in 1 .. 4 /\ op["app"] \in 1 .. 6
         /\ MaxMessages \in Nat \ {0} /\ Null \notin Nat
         /\ Null # "app" /\ Null # "update"
         /\ op \in [Threads -> Nat]
         /\ message \in [Threads -> 1 .. MaxMessages + 1]
         /\ refCount_ \in [Messages -> 0 .. 2]
         /\ deleted \in [Messages -> Nat] /\ queued \in 0 .. MaxMessages
         /\ loaded \in [Threads -> Nat \cup {Null}]
         /\ written \in [Threads -> BOOLEAN]
         /\ lock \in Threads \cup {Null} /\ fault = FALSE
<1>1. TypeOK /\ ~fault
  BY DEF CountInv
<1> QED BY <1>1, Places DEF TypeOK

(* ReadMessagesFromBuffer and Receive begin: the lock is free, and a message *)
(* to take has been pushed.                                                 *)
LEMMA UpdateLocks ==
  ASSUME Received, CountInv, Lock("update")
  PROVE  CountInv'
<1>1. TypeOK /\ LockIsHeld /\ LoadedIsTrue /\ CountIsTrue /\ ~fault
  BY DEF CountInv
<1>2. message["update"] \in Messages /\ op["update"] = 1
  BY <1>1, AtPlaces DEF Lock
<1>3. /\ op'["update"] = 2 /\ message'["update"] = message["update"]
      /\ op'["app"] = op["app"] /\ message'["app"] = message["app"]
      /\ op' \in [Threads -> Nat]
      /\ message' \in [Threads -> 1 .. MaxMessages + 1]
  BY <1>1, <1>2, NextPlaces DEF Lock
<1>4. lock' = "update" /\ lock = Null
  BY DEF Lock
<1>5. UNCHANGED <<refCount_, deleted, queued, loaded, written, fault>>
  BY DEF Lock
<1>6. TypeOK'
  BY <1>3, <1>4, <1>5, CountFacts, TypedNext DEF Threads
<1>7. LockIsHeld'
  BY <1>1, <1>2, <1>3, <1>4, <1>5, CountFacts DEF LockIsHeld, Messages, One
<1>8. LoadedIsTrue'
  BY <1>1, <1>2, <1>3, <1>5, CountFacts DEF LoadedIsTrue
<1>9. CountIsTrue'
  BY <1>1, <1>2, <1>3, <1>5, CountFacts
  DEF CountIsTrue, Owned, Pushed, Released, Taken, Popped, Read, One, Leaving
<1> QED BY <1>6, <1>7, <1>8, <1>9, <1>1, <1>5 DEF CountInv

(* The copy in the queue is counted.                                        *)
LEMMA UpdateAttaches ==
  ASSUME Received, CountInv, AttachToData("update")
  PROVE  CountInv'
<1>1. TypeOK /\ LockIsHeld /\ LoadedIsTrue /\ CountIsTrue /\ ~fault
  BY DEF CountInv
<1>2. message["update"] \in Messages /\ op["update"] = 2
  BY <1>1, AtPlaces DEF AttachToData, Attaches
<1>3. /\ op'["update"] = 3 /\ message'["update"] = message["update"]
      /\ op'["app"] = op["app"] /\ message'["app"] = message["app"]
      /\ op' \in [Threads -> Nat]
      /\ message' \in [Threads -> 1 .. MaxMessages + 1]
  BY <1>1, <1>2, NextPlaces DEF AttachToData
<1>4. /\ loaded["update"] = 1 /\ ~written["update"]
      /\ loaded' = [loaded EXCEPT !["update"] = Null]
      /\ refCount_' = [refCount_ EXCEPT ![message["update"]] = 2]
      /\ refCount_[message["update"]] = 1
  <2>1. loaded["update"] = 1 /\ ~written["update"]
    BY <1>1, <1>2, CountHere DEF AttachToData, LoadedIsTrue
  <2>2. refCount_' = [refCount_ EXCEPT ![message["update"]] = 1 + 1]
    BY <2>1, Zenon DEF AttachToData
  <2>3. loaded' = [loaded EXCEPT !["update"] = Null]
    BY DEF AttachToData
  <2> QED BY <1>2, <2>1, <2>2, <2>3, CountHere
<1>5. queued' = queued + 1 /\ fault' = FALSE
  <2>1. queued' = queued + 1
    BY <1>1, <1>2, AtPlaces DEF AttachToData
  <2> QED BY <1>2, <2>1, CountFacts, CountHere DEF AttachToData, Threads
<1>6. UNCHANGED <<deleted, written, lock>>
  BY DEF AttachToData
<1>7. LockIsHeld'
  BY <1>1, <1>2, <1>3, <1>5, <1>6, CountFacts DEF LockIsHeld, Messages, One
<1>8. TypeOK'
  <2>1. queued' \in 0 .. MaxMessages
    BY <1>3, <1>7, CountFacts DEF LockIsHeld, One
  <2>2. refCount_' \in [Messages -> 0 .. 2]
    <3>1. 2 \in 0 .. 2
      OBVIOUS
    <3> QED BY <1>4, <3>1, CountFacts
  <2>3. loaded' \in [Threads -> Nat \cup {Null}]
    BY <1>4, CountFacts
  <2>4. op'["update"] \in 1 .. 4 /\ op'["app"] \in 1 .. 6
    BY <1>3, CountFacts
  <2>5. /\ deleted' \in [Messages -> Nat] /\ lock' \in Threads \cup {Null}
        /\ written' \in [Threads -> BOOLEAN] /\ fault' \in BOOLEAN
    BY <1>5, <1>6, CountFacts
  <2> QED BY <1>3, <2>1, <2>2, <2>3, <2>4, <2>5, TypedNext
<1>9. LoadedIsTrue'
  BY <1>1, <1>2, <1>3, <1>4, <1>6, CountFacts
  DEF LoadedIsTrue, Threads, LockIsHeld, Messages
<1>10. CountIsTrue'
  BY <1>1, <1>2, <1>3, <1>4, <1>6, CountFacts
  DEF CountIsTrue, Owned, Pushed, Released, Taken, Popped, Read, One, Leaving
<1> QED BY <1>1, <1>5, <1>7, <1>8, <1>9, <1>10 DEF CountInv

(* The application destroys its copies; the last one deletes the data.      *)
LEMMA AppDetaches ==
  ASSUME Received, CountInv, DetachFromData("app")
  PROVE  CountInv'
<1>1. TypeOK /\ LockIsHeld /\ LoadedIsTrue /\ CountIsTrue /\ ~fault
  BY DEF CountInv
<1>2. message["app"] \in Messages /\ op["app"] \in {3, 6}
  BY <1>1, AtPlaces DEF DetachFromData
<1>3. /\ op'["app"] = IF op["app"] = 3 THEN 4 ELSE 1
      /\ message'["app"] = IF op["app"] = 3 THEN message["app"]
                                            ELSE message["app"] + 1
      /\ op'["update"] = op["update"] /\ message'["update"] = message["update"]
      /\ op' \in [Threads -> Nat]
      /\ message' \in [Threads -> 1 .. MaxMessages + 1]
  BY <1>1, <1>2, NextPlaces DEF DetachFromData
<1>4. /\ written["app"] /\ written' = [written EXCEPT !["app"] = FALSE]
      /\ loaded["app"] = Null
  BY <1>1 DEF DetachFromData, LoadedIsTrue
<1>5. /\ refCount_[message["app"]] = IF op["app"] = 3 THEN 1 ELSE 0
      /\ deleted' = IF op["app"] = 3 THEN deleted
                    ELSE [deleted EXCEPT ![message["app"]] = @ + 1]
  BY <1>2, <1>4, CountHere DEF DetachFromData
<1>6. fault' = FALSE
  BY <1>2, CountFacts, CountHere DEF DetachFromData, Threads
<1>7. UNCHANGED <<refCount_, queued, loaded, lock>>
  BY DEF DetachFromData
<1>8. TypeOK'
  <2>1. deleted' \in [Messages -> Nat]
    <3>1. deleted[message["app"]] + 1 \in Nat
      BY <1>2, CountFacts
    <3> QED BY <1>5, <3>1, CountFacts
  <2>2. written' \in [Threads -> BOOLEAN]
    BY <1>4, CountFacts
  <2>3. op'["update"] \in 1 .. 4 /\ op'["app"] \in 1 .. 6
    BY <1>2, <1>3, CountFacts
  <2>4. /\ refCount_' \in [Messages -> 0 .. 2] /\ lock' \in Threads \cup {Null}
        /\ queued' \in 0 .. MaxMessages /\ fault' \in BOOLEAN
        /\ loaded' \in [Threads -> Nat \cup {Null}]
    BY <1>6, <1>7, CountFacts
  <2> QED BY <1>3, <2>1, <2>2, <2>3, <2>4, TypedNext
<1>9. LockIsHeld'
  BY <1>1, <1>2, <1>3, <1>7, CountFacts DEF LockIsHeld, Messages
<1>10. LoadedIsTrue'
  BY <1>1, <1>2, <1>3, <1>4, <1>7, CountFacts DEF LoadedIsTrue, Threads
<1>11. CountIsTrue'
  <2> SUFFICES ASSUME NEW m \in Messages
               PROVE  /\ refCount_[m]' = (Owned(m) - One(Leaving("update", m))
                                                   - One(Leaving("app", m)))'
                      /\ deleted[m]' = One(Read(m))'
    BY DEF CountIsTrue
  <2>1. /\ refCount_[m] = Owned(m) - One(Leaving("update", m))
                                   - One(Leaving("app", m))
        /\ deleted[m] = One(Read(m))
    BY <1>1 DEF CountIsTrue
  <2>2. written'["update"] = written["update"] /\ ~written'["app"]
    BY <1>4, CountFacts DEF Threads
  <2>3. deleted'[m] = IF op["app"] = 6 /\ m = message["app"]
                      THEN deleted[m] + 1 ELSE deleted[m]
    BY <1>2, <1>5, CountFacts
  <2>4. deleted'[m] = One(Read(m))'
    BY <1>2, <1>3, <2>1, <2>3, CountFacts DEF Read, One, Messages
  <2>5. CASE op["app"] = 3
    BY <1>3, <1>4, <1>7, <2>1, <2>2, <2>4, <2>5, CountFacts
    DEF Owned, Pushed, Released, Taken, Popped, Read, One, Leaving, Messages
  <2>6. CASE op["app"] = 6
    BY <1>3, <1>4, <1>7, <2>1, <2>2, <2>4, <2>6, CountFacts
    DEF Owned, Pushed, Released, Taken, Popped, Read, One, Leaving, Messages
  <2> QED BY <1>2, <2>5, <2>6
<1> QED BY <1>1, <1>6, <1>8, <1>9, <1>10, <1>11 DEF CountInv

(* Receive: under the lock the update thread is between two messages, so a  *)
(* message that has been pushed has been destroyed by it.                   *)
LEMMA AppTakes ==
  ASSUME Received, CountInv, Lock("app")
  PROVE  CountInv'
<1>1. TypeOK /\ LockIsHeld /\ LoadedIsTrue /\ CountIsTrue /\ ~fault
  BY DEF CountInv
<1>2. message["app"] \in Messages /\ op["app"] = 1
  BY <1>1, AtPlaces DEF Lock
<1>3. message["app"] <= queued /\ lock = Null /\ lock' = "app"
  BY <1>1, <1>2, AtPlaces DEF Lock
<1>4. /\ op'["app"] = 2 /\ message'["app"] = message["app"]
      /\ op'["update"] = op["update"] /\ message'["update"] = message["update"]
      /\ op' \in [Threads -> Nat]
      /\ message' \in [Threads -> 1 .. MaxMessages + 1]
  BY <1>1, <1>2, NextPlaces DEF Lock
<1>5. UNCHANGED <<refCount_, deleted, queued, loaded, written, fault>>
  BY DEF Lock
<1>6. TypeOK'
  BY <1>3, <1>4, <1>5, CountFacts, TypedNext DEF Threads
<1>7. op["update"] = 1 /\ message["app"] < message["update"]
  BY <1>1, <1>2, <1>3, CountFacts DEF LockIsHeld, One
<1>8. LockIsHeld'
  BY <1>1, <1>2, <1>3, <1>4, <1>5, <1>7, CountFacts DEF LockIsHeld, One
<1>9. LoadedIsTrue'
  BY <1>1, <1>2, <1>4, <1>5, CountFacts DEF LoadedIsTrue
<1>10. CountIsTrue'
  BY <1>1, <1>2, <1>4, <1>5, CountFacts
  DEF CountIsTrue, Owned, Pushed, Released, Taken, Popped, Read, One, Leaving
<1> QED BY <1>1, <1>5, <1>6, <1>8, <1>9, <1>10 DEF CountInv

(* The end of the critical sections: the update thread goes to its next     *)
(* message, the application has its own copy.                               *)
LEMMA UpdateUnlocks ==
  ASSUME Received, CountInv, Unlock("update")
  PROVE  CountInv'
<1>1. TypeOK /\ LockIsHeld /\ LoadedIsTrue /\ CountIsTrue /\ ~fault
  BY DEF CountInv
<1>2. message["update"] \in Messages /\ op["update"] = 4
  BY <1>1, AtPlaces DEF Unlock
<1>3. /\ op'["update"] = 1 /\ message'["update"] = message["update"] + 1
      /\ op'["app"] = op["app"] /\ message'["app"] = message["app"]
      /\ op' \in [Threads -> Nat]
      /\ message' \in [Threads -> 1 .. MaxMessages + 1]
  BY <1>1, <1>2, NextPlaces DEF Unlock
<1>4. lock' = Null /\ lock = "update"
  BY <1>1, <1>2 DEF Unlock, LockIsHeld
<1>5. UNCHANGED <<refCount_, deleted, queued, loaded, written, fault>>
  BY DEF Unlock
<1>6. TypeOK'
  BY <1>3, <1>4, <1>5, CountFacts, TypedNext DEF Threads
<1>7. LockIsHeld'
  BY <1>1, <1>2, <1>3, <1>4, <1>5, CountFacts DEF LockIsHeld, One
<1>8. LoadedIsTrue'
  BY <1>1, <1>2, <1>3, <1>5, CountFacts DEF LoadedIsTrue
<1>9. CountIsTrue'
  <2> SUFFICES ASSUME NEW m \in Messages
               PROVE  /\ refCount_[m]' = (Owned(m) - One(Leaving("update", m))
                                                   - One(Leaving("app", m)))'
                      /\ deleted[m]' = One(Read(m))'
    BY DEF CountIsTrue
  <2>1. /\ Pushed(m)' <=> Pushed(m)
        /\ Released(m)' <=> Released(m)
    BY <1>2, <1>3, CountFacts DEF Pushed, Released, Messages
  <2>2. /\ Taken(m)' <=> Taken(m)
        /\ Popped(m)' <=> Popped(m)
        /\ Read(m)' <=> Read(m)
    BY <1>3 DEF Taken, Popped, Read
  <2>3. /\ Leaving("update", m)' <=> Leaving("update", m)
        /\ Leaving("app", m)' <=> Leaving("app", m)
    BY <1>1, <1>2, <1>3, <1>5 DEF Leaving, LoadedIsTrue
  <2> QED BY <1>1, <1>5, <2>1, <2>2, <2>3 DEF CountIsTrue, Owned, One
<1> QED BY <1>1, <1>5, <1>6, <1>7, <1>8, <1>9 DEF CountInv

(* The application leaves its critical section with a copy of its own.      *)
LEMMA AppUnlocks ==
  ASSUME Received, CountInv, Unlock("app")
  PROVE  CountInv'
<1>1. TypeOK /\ LockIsHeld /\ LoadedIsTrue /\ CountIsTrue /\ ~fault
  BY DEF CountInv
<1>2. message["app"] \in Messages /\ op["app"] = 4
  BY <1>1, AtPlaces DEF Unlock
<1>3. /\ op'["app"] = 5 /\ message'["app"] = message["app"]
      /\ op'["update"] = op["update"] /\ message'["update"] = message["update"]
      /\ op' \in [Threads -> Nat]
      /\ message' \in [Threads -> 1 .. MaxMessages + 1]
  BY <1>1, <1>2, NextPlaces DEF Unlock
<1>4. lock' = Null /\ lock = "app"
  BY <1>1, <1>2 DEF Unlock, LockIsHeld
<1>5. UNCHANGED <<refCount_, deleted, queued, loaded, written, fault>>
  BY DEF Unlock
<1>6. TypeOK'
  BY <1>3, <1>4, <1>5, CountFacts, TypedNext DEF Threads
<1>7. LockIsHeld'
  BY <1>1, <1>2, <1>3, <1>4, <1>5, CountFacts DEF LockIsHeld, One
<1>8. LoadedIsTrue'
  BY <1>1, <1>2, <1>3, <1>5, CountFacts DEF LoadedIsTrue
<1>9. CountIsTrue'
  BY <1>1, <1>2, <1>3, <1>5, CountFacts
  DEF CountIsTrue, Owned, Pushed, Released, Taken, Popped, Read, One, Leaving
<1> QED BY <1>1, <1>5, <1>6, <1>7, <1>8, <1>9 DEF CountInv

(* The caller of Receive reads a buffer that is still there.                *)
LEMMA AppUses ==
  ASSUME Received, CountInv, Use("app")
  PROVE  CountInv'
<1>1. TypeOK /\ LockIsHeld /\ LoadedIsTrue /\ CountIsTrue /\ ~fault
  BY DEF CountInv
<1>2. message["app"] \in Messages /\ op["app"] = 5
  BY <1>1, AtPlaces DEF Use
<1>3. /\ op'["app"] = 6 /\ message'["app"] = message["app"]
      /\ op'["update"] = op["update"] /\ message'["update"] = message["update"]
      /\ op' \in [Threads -> Nat]
      /\ message' \in [Threads -> 1 .. MaxMessages + 1]
  BY <1>1, <1>2, NextPlaces DEF Use
<1>4. fault' = FALSE
  BY <1>2, CountFacts, CountHere DEF Use, Threads
<1>5. UNCHANGED <<refCount_, deleted, queued, loaded, written, lock>>
  BY DEF Use
<1>6. TypeOK'
  <2>1. op'["update"] \in 1 .. 4 /\ op'["app"] \in 1 .. 6
    BY <1>3, CountFacts
  <2>2. fault' \in BOOLEAN
    BY <1>4
  <2> QED BY <1>3, <1>5, <2>1, <2>2, CountFacts, TypedNext
<1>7. LockIsHeld'
  BY <1>1, <1>2, <1>3, <1>5, CountFacts DEF LockIsHeld, One
<1>8. LoadedIsTrue'
  BY <1>1, <1>2, <1>3, <1>5, CountFacts DEF LoadedIsTrue
<1>9. CountIsTrue'
  BY <1>1, <1>2, <1>3, <1>5, CountFacts
  DEF CountIsTrue, Owned, Pushed, Released, Taken, Popped, Read, One, Leaving
<1> QED BY <1>4, <1>6, <1>7, <1>8, <1>9 DEF CountInv

(* A count is read before it is written; nothing else changes.              *)
LEMMA EitherReadsCount ==
  ASSUME Received, CountInv, NEW t \in Threads, ReadCount(t)
  PROVE  CountInv'
<1>1. TypeOK /\ LockIsHeld /\ LoadedIsTrue /\ CountIsTrue /\ ~fault
  BY DEF CountInv
<1>2. t = "app" \/ t = "update"
  BY DEF Threads
<1>3. /\ message[t] \in Messages /\ ~written[t]
      /\ t = "update" => op[t] \in {2, 3}
      /\ t = "app" => op[t] \in {2, 3, 6}
  BY <1>1, <1>2, AtPlaces DEF ReadCount, Attaches
<1>4. loaded' = [loaded EXCEPT ![t] = refCount_[message[t]]]
  BY DEF ReadCount
<1>5. fault' = FALSE
  BY <1>3, CountFacts, CountHere DEF ReadCount
<1>6. /\ op' = op /\ message' = message
      /\ UNCHANGED <<refCount_, deleted, queued, written, lock>>
  BY DEF ReadCount, thread
<1>7. TypeOK'
  <2>1. refCount_[message[t]] \in Nat
    BY <1>3, CountFacts
  <2>2. loaded' \in [Threads -> Nat \cup {Null}]
    BY <1>4, <2>1, CountFacts
  <2> QED BY <1>5, <1>6, <2>2, CountFacts, TypedNext
<1>8. LockIsHeld'
  BY <1>1, <1>6 DEF LockIsHeld
<1>9. LoadedIsTrue'
  <2>1. CASE t = "app"
    BY <1>1, <1>3, <1>4, <1>6, <2>1, CountFacts DEF LoadedIsTrue, Threads
  <2>2. CASE t = "update"
    BY <1>1, <1>3, <1>4, <1>6, <2>2, CountFacts DEF LoadedIsTrue, Threads
  <2> QED BY <1>2, <2>1, <2>2
<1>10. CountIsTrue'
  BY <1>1, <1>6
  DEF CountIsTrue, Owned, Pushed, Released, Taken, Popped, Read, Leaving
<1> QED BY <1>5, <1>7, <1>8, <1>9, <1>10 DEF CountInv

(* m = front() of Receive: the count was 1, the queue's copy.               *)
LEMMA AppAttaches ==
  ASSUME Received, CountInv, AttachToData("app")
  PROVE  CountInv'
<1>1. TypeOK /\ LockIsHeld /\ LoadedIsTrue /\ CountIsTrue /\ ~fault
  BY DEF CountInv
<1>2. message["app"] \in Messages /\ op["app"] = 2
  BY <1>1, AtPlaces DEF AttachToData, Attaches
<1>3. /\ op'["app"] = 3 /\ message'["app"] = message["app"]
      /\ op'["update"] = op["update"] /\ message'["update"] = message["update"]
      /\ op' \in [Threads -> Nat]
      /\ message' \in [Threads -> 1 .. MaxMessages + 1]
  BY <1>1, <1>2, NextPlaces DEF AttachToData
<1>4. /\ loaded["app"] = 1 /\ ~written["app"]
      /\ loaded' = [loaded EXCEPT !["app"] = Null]
      /\ refCount_' = [refCount_ EXCEPT ![message["app"]] = 2]
      /\ refCount_[message["app"]] = 1
  <2>1. loaded["app"] = 1 /\ ~written["app"]
    BY <1>1, <1>2, CountHere DEF AttachToData, LoadedIsTrue
  <2>2. refCount_' = [refCount_ EXCEPT ![message["app"]] = 1 + 1]
    BY <2>1, Zenon DEF AttachToData
  <2>3. loaded' = [loaded EXCEPT !["app"] = Null]
    BY DEF AttachToData
  <2> QED BY <1>2, <2>1, <2>2, <2>3, CountHere
<1>5. queued' = queued /\ fault' = FALSE
  <2>1. queued' = queued
    BY <1>1, <1>2, AtPlaces DEF AttachToData
  <2> QED BY <1>2, <2>1, CountFacts, CountHere DEF AttachToData, Threads
<1>6. UNCHANGED <<deleted, written, lock>>
  BY DEF AttachToData
<1>7. LockIsHeld'
  BY <1>1, <1>2, <1>3, <1>5, <1>6, CountFacts DEF LockIsHeld, Messages, One
<1>8. TypeOK'
  <2>1. refCount_' \in [Messages -> 0 .. 2]
    <3>1. 2 \in 0 .. 2
      OBVIOUS
    <3> QED BY <1>4, <3>1, CountFacts
  <2>2. loaded' \in [Threads -> Nat \cup {Null}]
    BY <1>4, CountFacts
  <2>3. op'["update"] \in 1 .. 4 /\ op'["app"] \in 1 .. 6
    BY <1>3, CountFacts
  <2>4. /\ deleted' \in [Messages -> Nat] /\ lock' \in Threads \cup {Null}
        /\ written' \in [Threads -> BOOLEAN] /\ fault' \in BOOLEAN
        /\ queued' \in 0 .. MaxMessages
    BY <1>5, <1>6, CountFacts
  <2> QED BY <1>3, <2>1, <2>2, <2>3, <2>4, TypedNext
<1>9. LoadedIsTrue'
  BY <1>1, <1>2, <1>3, <1>4, <1>6, CountFacts
  DEF LoadedIsTrue, Threads, LockIsHeld, Messages
<1>10. CountIsTrue'
  BY <1>1, <1>2, <1>3, <1>4, <1>6, CountFacts
  DEF CountIsTrue, LockIsHeld,
      Owned, Pushed, Released, Taken, Popped, Read, One, Leaving
<1> QED BY <1>5, <1>7, <1>8, <1>9, <1>10 DEF CountInv

(* A detach writes one less than it has read, and is one ahead of its       *)
(* thread from then on.                                                     *)
LEMMA EitherWritesCount ==
  ASSUME Received, CountInv, NEW t \in Threads, WriteCount(t)
  PROVE  CountInv'
<1>1. TypeOK /\ LockIsHeld /\ LoadedIsTrue /\ CountIsTrue /\ ~fault
  BY DEF CountInv
<1>2. t = "app" \/ t = "update"
  BY DEF Threads
<1>3. /\ message[t] \in Messages
      /\ t = "update" => op[t] = 3
      /\ t = "app" => op[t] \in {3, 6}
  BY <1>1, <1>2, AtPlaces DEF WriteCount
<1>4. /\ loaded[t] # Null /\ ~written[t] /\ loaded[t] = refCount_[message[t]]
      /\ loaded[t] \in {1, 2}
  BY <1>1, <1>2, <1>3, CountHere DEF WriteCount, LoadedIsTrue
<1>5. /\ loaded' = [loaded EXCEPT ![t] = Null]
      /\ written' = [written EXCEPT ![t] = TRUE]
  BY DEF WriteCount
<1>6. refCount_' = [refCount_ EXCEPT ![message[t]] = loaded[t] - 1]
  <2>1. (IF loaded[t] = 0 THEN 0 ELSE loaded[t] - 1) = loaded[t] - 1
    BY <1>4
  <2> QED BY <2>1, Zenon DEF WriteCount
<1>7. /\ op' = op /\ message' = message
      /\ UNCHANGED <<deleted, queued, lock>>
  BY DEF WriteCount, thread
<1>8. fault' = FALSE
  BY <1>3, CountFacts, CountHere DEF WriteCount
<1>9. TypeOK'
  <2>1. refCount_' \in [Messages -> 0 .. 2]
    <3>1. loaded[t] - 1 \in 0 .. 2
      BY <1>4
    <3> QED BY <1>6, <3>1, CountFacts
  <2>2. loaded' \in [Threads -> Nat \cup {Null}]
    BY <1>5, CountFacts
  <2>3. written' \in [Threads -> BOOLEAN]
    BY <1>5, CountFacts
  <2> QED BY <1>7, <1>8, <2>1, <2>2, <2>3, CountFacts, TypedNext
<1>10. LockIsHeld'
  BY <1>1, <1>7 DEF LockIsHeld
<1>11. LoadedIsTrue'
  <2>1. CASE t = "app"
    BY <1>1, <1>3, <1>4, <1>5, <1>6, <1>7, <2>1, CountFacts
    DEF LoadedIsTrue, LockIsHeld, Threads
  <2>2. CASE t = "update"
    BY <1>1, <1>3, <1>4, <1>5, <1>6, <1>7, <2>2, CountFacts
    DEF LoadedIsTrue, LockIsHeld, Threads
  <2> QED BY <1>2, <2>1, <2>2
<1>12. CountIsTrue'
  <2> SUFFICES ASSUME NEW m \in Messages
               PROVE  /\ refCount_[m]' = (Owned(m) - One(Leaving("update", m))
                                                   - One(Leaving("app", m)))'
                      /\ deleted[m]' = One(Read(m))'
    BY DEF CountIsTrue
  <2>1. Owned(m)' = Owned(m) /\ (Read(m)' <=> Read(m)) /\ Owned(m) \in Int
    BY <1>7 DEF Owned, Pushed, Released, Taken, Popped, Read, One
  <2>2. refCount_'[m] =
          IF m = message[t] THEN refCount_[m] - 1 ELSE refCount_[m]
    BY <1>3, <1>4, <1>6, CountFacts
  <2>3. CASE t = "app"
    <3>1. Leaving("update", m)' <=> Leaving("update", m)
      BY <1>5, <1>7, <2>3, CountFacts DEF Leaving, Threads
    <3>2. /\ Leaving("app", m)' <=> message["app"] = m
          /\ ~Leaving("app", m)
      BY <1>4, <1>5, <1>7, <2>3, CountFacts DEF Leaving, Threads
    <3> QED BY <1>1, <1>7, <2>1, <2>2, <2>3, <3>1, <3>2, CountFacts
            DEF CountIsTrue, One
  <2>4. CASE t = "update"
    <3>1. Leaving("app", m)' <=> Leaving("app", m)
      BY <1>5, <1>7, <2>4, CountFacts DEF Leaving, Threads
    <3>2. /\ Leaving("update", m)' <=> message["update"] = m
          /\ ~Leaving("update", m)
      BY <1>4, <1>5, <1>7, <2>4, CountFacts DEF Leaving, Threads
    <3> QED BY <1>1, <1>7, <2>1, <2>2, <2>4, <3>1, <3>2, CountFacts
            DEF CountIsTrue, One
  <2> QED BY <1>2, <2>3, <2>4
<1> QED BY <1>8, <1>9, <1>10, <1>11, <1>12 DEF CountInv

(* The update thread destroys its copy; the queue still has one.            *)
LEMMA UpdateDetaches ==
  ASSUME Received, CountInv, DetachFromData("update")
  PROVE  CountInv'
<1>1. TypeOK /\ LockIsHeld /\ LoadedIsTrue /\ CountIsTrue /\ ~fault
  BY DEF CountInv
<1>2. message["update"] \in Messages /\ op["update"] = 3
  BY <1>1, AtPlaces DEF DetachFromData
<1>3. /\ op'["update"] = 4 /\ message'["update"] = message["update"]
      /\ op'["app"] = op["app"] /\ message'["app"] = message["app"]
      /\ op' \in [Threads -> Nat]
      /\ message' \in [Threads -> 1 .. MaxMessages + 1]
  BY <1>1, <1>2, NextPlaces DEF DetachFromData
<1>4. /\ written["update"] /\ written' = [written EXCEPT !["update"] = FALSE]
      /\ loaded["update"] = Null
  BY <1>1 DEF DetachFromData, LoadedIsTrue
<1>5. refCount_[message["update"]] = 1 /\ deleted' = deleted
  BY <1>2, <1>4, CountHere DEF DetachFromData
<1>6. fault' = FALSE
  BY <1>2, CountFacts, CountHere DEF DetachFromData, Threads
<1>7. UNCHANGED <<refCount_, queued, loaded, lock>>
  BY DEF DetachFromData
<1>8. TypeOK'
  <2>1. written' \in [Threads -> BOOLEAN]
    BY <1>4, CountFacts
  <2>2. op'["update"] \in 1 .. 4 /\ op'["app"] \in 1 .. 6
    BY <1>3, CountFacts
  <2>3. /\ refCount_' \in [Messages -> 0 .. 2] /\ lock' \in Threads \cup {Null}
        /\ queued' \in 0 .. MaxMessages /\ fault' \in BOOLEAN
        /\ loaded' \in [Threads -> Nat \cup {Null}]
        /\ deleted' \in [Messages -> Nat]
    BY <1>5, <1>6, <1>7, CountFacts
  <2> QED BY <1>3, <2>1, <2>2, <2>3, TypedNext
<1>9. LockIsHeld'
  BY <1>1, <1>2, <1>3, <1>7, CountFacts DEF LockIsHeld, One
<1>10. LoadedIsTrue'
  BY <1>1, <1>2, <1>3, <1>4, <1>7, CountFacts DEF LoadedIsTrue, Threads
<1>11. CountIsTrue'
  <2>1. written'["app"] = written["app"] /\ ~written'["update"]
    BY <1>4, CountFacts DEF Threads
  <2> QED BY <1>1, <1>2, <1>3, <1>4, <1>5, <1>7, <2>1, CountFacts
          DEF CountIsTrue, Owned, Pushed, Released, Taken, Popped, Read, One,
              Leaving
<1> QED BY <1>6, <1>8, <1>9, <1>10, <1>11 DEF CountInv

(* Every step of either thread.                                             *)
LEMMA NextCountInv ==
  ASSUME Received, CountInv, [Next]_vars
  PROVE  CountInv'
<1>1. ASSUME NEW t \in Threads,
             Lock(t) \/ Unlock(t) \/ Use(t) \/ ReadCount(t) \/ AttachToData(t)
               \/ WriteCount(t) \/ DetachFromData(t)
      PROVE  CountInv'
  <2>1. CASE Lock(t)
    BY <2>1, UpdateLocks, AppTakes DEF Threads
  <2>2. CASE Unlock(t)
    BY <2>2, UpdateUnlocks, AppUnlocks DEF Threads
  <2>3. CASE Use(t)
    <3>1. ~Use("update")
      BY AtPlaces DEF Use, CountInv
    <3> QED BY <2>3, <3>1, AppUses DEF Threads
  <2>4. CASE ReadCount(t)
    BY <2>4, EitherReadsCount
  <2>5. CASE AttachToData(t)
    BY <2>5, UpdateAttaches, AppAttaches DEF Threads
  <2>6. CASE WriteCount(t)
    BY <2>6, EitherWritesCount
  <2>7. CASE DetachFromData(t)
    BY <2>7, UpdateDetaches, AppDetaches DEF Threads
  <2> QED BY <1>1, <2>1, <2>2, <2>3, <2>4, <2>5, <2>6, <2>7
<1>2. CASE UNCHANGED vars
  <2>1. UNCHANGED <<refCount_, deleted, queued, message, op, loaded, written,
                    lock, fault>>
    BY <1>2 DEF vars
  <2>2. TypeOK' /\ LockIsHeld' /\ LoadedIsTrue' /\ ~fault'
    BY <2>1 DEF CountInv, TypeOK, LockIsHeld, LoadedIsTrue
  <2>3. CountIsTrue'
    BY <2>1 DEF CountInv, CountIsTrue, Owned, Pushed, Released, Taken, Popped,
                Read, Leaving
  <2> QED BY <2>2, <2>3 DEF CountInv
<1> QED BY <1>1, <1>2 DEF Next

(* For received messages the count is exact and the lock is held where it   *)
(* should be, however many messages there are.                              *)
THEOREM ReceivedCountIsConsistent ==
  ASSUME Received
  PROVE  Spec => []CountInv
<1>1. Init => CountInv
  <2> SUFFICES ASSUME Init PROVE CountInv
    OBVIOUS
  <2>1. /\ MaxMessages \in Nat \ {0} /\ Null \notin Nat
        /\ 1 \in 1 .. MaxMessages + 1
        /\ Null # "app" /\ Null # "update" /\ 1 \in 0 .. 2
    BY CountAssumption
  <2>2. TypeOK
    <3>1. refCount_ \in [Messages -> 0 .. IF Received THEN 2 ELSE 5]
      BY DEF Init
    <3>2. /\ message \in [Threads -> 1 .. MaxMessages + 1]
          /\ op \in [Threads -> Nat]
          /\ loaded \in [Threads -> Nat \cup {Null}]
          /\ written \in [Threads -> BOOLEAN]
      BY <2>1 DEF Init
    <3>3. \A t \in Threads : op[t] \in DOMAIN Program(t)
      BY Programs DEF Init, Threads
    <3>4. deleted \in [Messages -> Nat]
      BY DEF Init
    <3>5. queued \in 0 .. MaxMessages
      BY <2>1 DEF Init
    <3>6. lock \in Threads \cup {Null} /\ fault \in BOOLEAN
      BY DEF Init
    <3> QED BY <3>1, <3>2, <3>3, <3>4, <3>5, <3>6 DEF TypeOK
  <2>3. LockIsHeld
    BY <2>1 DEF Init, LockIsHeld, Threads, One
  <2>4. LoadedIsTrue
    BY DEF Init, LoadedIsTrue, Threads
  <2>5. CountIsTrue
    BY DEF Init, CountIsTrue, Owned, Pushed, Released, Taken, Popped, Read, One,
           Leaving, Threads, Messages
  <2> QED BY <2>2, <2>3, <2>4, <2>5 DEF Init, CountInv
<1>2. CountInv /\ [Next]_vars => CountInv'
  BY NextCountInv
<1> QED BY <1>1, <1>2, PTL DEF Spec

-----------------------------------------------------------------------------
(* The operations of a program that are done, as a set of places.           *)
LEMMA MadeAndDestroyed ==
  ASSUME Received, TypeOK, NEW m \in Messages
  PROVE  /\ Made("update", m) = One(Pushed(m))
         /\ Destroyed("update", m) = One(Released(m))
         /\ Made("app", m) = One(Taken(m))
         /\ Destroyed("app", m) = One(Popped(m)) + One(Read(m))
<1> DEFINE UM == {i \in Done("update", m) : Program("update")[i] \in Attaches}
           UD == {i \in Done("update", m) : Program("update")[i] = "detach"}
           AM == {i \in Done("app", m) : Program("app")[i] \in Attaches}
           AD == {i \in Done("app", m) : Program("app")[i] = "detach"}
<1>1. /\ message["update"] \in 1 .. MaxMessages + 1
      /\ message["app"] \in 1 .. MaxMessages + 1
      /\ op["update"] \in 1 .. 4 /\ op["app"] \in 1 .. 6 /\ m \in Nat
  BY Places DEF Messages
<1>2. /\ Done("update", m) = IF message["update"] > m THEN 1 .. 4
                             ELSE IF message["update"] < m THEN {}
                             ELSE 1 .. op["update"] - 1
      /\ Done("app", m) = IF message["app"] > m THEN 1 .. 6
                          ELSE IF message["app"] < m THEN {}
                          ELSE 1 .. op["app"] - 1
  BY Programs DEF Done
<1>3. /\ \A i \in 1 .. 4 : Program("update")[i] \in Attaches <=> i = 2
      /\ \A i \in 1 .. 4 : Program("update")[i] = "detach" <=> i = 3
  BY Programs DEF Attaches
<1>4. /\ \A i \in 1 .. 6 : Program("app")[i] \in Attaches <=> i = 2
      /\ \A i \in 1 .. 6 : Program("app")[i] = "detach" <=> i \in {3, 6}
  BY Programs DEF Attaches
<1>5. Done("update", m) \subseteq 1 .. 4 /\ Done("app", m) \subseteq 1 .. 6
  BY <1>1, <1>2
<1>6. /\ 2 \in Done("update", m) <=> Pushed(m)
      /\ 3 \in Done("update", m) <=> Released(m)
      /\ 2 \in Done("app", m) <=> Taken(m)
      /\ 3 \in Done("app", m) <=> Popped(m)
      /\ 6 \in Done("app", m) <=> Read(m)
  BY <1>1, <1>2 DEF Pushed, Released, Taken, Popped, Read
<1>7. /\ UM = IF Pushed(m) THEN {2} ELSE {}
      /\ UD = IF Released(m) THEN {3} ELSE {}
      /\ AM = IF Taken(m) THEN {2} ELSE {}
  BY <1>3, <1>4, <1>5, <1>6
<1>8. AD = IF Read(m) THEN {3} \cup {6} ELSE IF Popped(m) THEN {3} ELSE {}
  <2>1. Read(m) => Popped(m)
    BY DEF Read, Popped
  <2> QED BY <1>4, <1>5, <1>6, <2>1
<1>9. Cardinality(UM) = One(Pushed(m))
  BY <1>7, FS_EmptySet, FS_Singleton DEF One
<1>10. Cardinality(UD) = One(Released(m))
  BY <1>7, FS_EmptySet, FS_Singleton DEF One
<1>11. Cardinality(AM) = One(Taken(m))
  BY <1>7, FS_EmptySet, FS_Singleton DEF One
<1>12. Cardinality(AD) = One(Popped(m)) + One(Read(m))
  <2>1. Read(m) => Popped(m)
    BY DEF Read, Popped
  <2>2. IsFiniteSet({3}) /\ Cardinality({3}) = 1
    BY FS_Singleton
  <2>3. Cardinality({3} \cup {6}) = 2
    <3>1. 6 \notin {3}
      OBVIOUS
    <3>2. Cardinality({3} \cup {6}) = Cardinality({3}) + 1
      BY <2>2, <3>1, FS_AddElement
    <3> QED BY <2>2, <3>2
  <2>4. Cardinality({}) = 0
    BY FS_EmptySet
  <2> HIDE DEF AD
  <2> QED BY <1>8, <2>1, <2>2, <2>3, <2>4 DEF One
<1> QED BY <1>9, <1>10, <1>11, <1>12 DEF Made, Destroyed

(* The copies of the model are the ones of the invariant.                   *)
LEMMA CopiesAreOwned ==
  ASSUME Received, CountInv, NEW m \in Messages
  PROVE  /\ Copies(m) = Owned(m)
         /\ Copies(m) = 0 => Read(m)
<1>1. Copies(m) = Owned(m)
  <2>1. TypeOK
    BY DEF CountInv
  <2> QED BY <2>1, MadeAndDestroyed DEF Copies, Owned, One
<1>2. ~Read(m) => Owned(m) > 0
  <2>1. Popped(m) => Taken(m)
    BY CountFacts DEF Popped, Taken
  <2>2. Released(m) => Pushed(m)
    BY CountFacts DEF Released, Pushed
  <2> QED BY <2>1, <2>2 DEF Owned, One
<1> QED BY <1>1, <1>2

(* The counts of received messages never exceed two (Message.cpp:33).       *)
THEOREM MessageTypeCorrect ==
  ASSUME Received
  PROVE  Spec => []TypeOK
<1>1. CountInv => TypeOK
  BY DEF CountInv
<1> QED BY <1>1, ReceivedCountIsConsistent, PTL

(* Between operations the count of a received message is the number of its  *)
(* copies in the two threads and the queue (Message.cpp:33, 40), though no  *)
(* operation on the count is atomic.                                        *)
THEOREM CountIsExact ==
  ASSUME Received
  PROVE  Spec => []CountIsCopies
<1>1. CountInv => CountIsCopies
  <2> SUFFICES ASSUME CountInv, NEW m \in Messages, ~IsCounting(m)
               PROVE  refCount_[m] = Copies(m)
    BY DEF CountIsCopies
  <2>1. ~Leaving("update", m) /\ ~Leaving("app", m)
    BY DEF IsCounting, Leaving, Threads
  <2>2. refCount_[m] =
          Owned(m) - One(Leaving("update", m)) - One(Leaving("app", m))
    BY DEF CountInv, CountIsTrue
  <2>3. Owned(m) \in Int
    BY DEF Owned, One
  <2> QED BY <2>1, <2>2, <2>3, CopiesAreOwned DEF One
<1> QED BY <1>1, ReceivedCountIsConsistent, PTL

(* The data of a received message is deleted once its last copy is gone,    *)
(* once only, and nobody uses it after that (Message.cpp:47, Message.h:16). *)
THEOREM DataIsCleanedUp ==
  ASSUME Received
  PROVE  Spec => []CleanedUp
<1>1. CountInv => CleanedUp
  <2> SUFFICES ASSUME CountInv, NEW m \in Messages
               PROVE  /\ ~fault /\ deleted[m] <= 1
                      /\ Copies(m) = 0 => deleted[m] = 1
    BY DEF CleanedUp, CountInv
  <2>1. deleted[m] = One(Read(m)) /\ ~fault
    BY DEF CountInv, CountIsTrue
  <2> QED BY <2>1, CopiesAreOwned DEF One
<1> QED BY <1>1, ReceivedCountIsConsistent, PTL
=============================================================================

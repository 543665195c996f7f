---------------------------- MODULE MessageCount ----------------------------
(***************************************************************************)
(* The reference count of Message, handed from one thread to the other     *)
(* through a queue of a connection. Every copy of a message adds one to    *)
(* refCount_ and every destruction takes one away, without a lock and      *)
(* without an atomic operation: a step reads the count, another writes it, *)
(* and DetachFromData reads it once more to see whether it is 0.           *)
(* What the two threads do with a message is a list of operations: a       *)
(* received one goes from the update thread to the application, a sent one *)
(* the other way.                                                          *)
(***************************************************************************)
EXTENDS Naturals, Sequences, FiniteSets

CONSTANTS
  Received,    \* the messages go up (TRUE) or down (FALSE)
  MaxMessages, \* bound: messages handed over
  Null

ASSUME CountAssumption ==
  /\ Received \in BOOLEAN /\ MaxMessages \in Nat \ {0}
  /\ Null \notin Nat \cup {"app", "update"}

Messages == 1 .. MaxMessages
Threads == {"app", "update"}

VARIABLES
  refCount_,  \* per message
  deleted,    \* how often its data and buffer have been deleted
  queued,     \* the messages pushed so far: one is taken after the other
  message,    \* per thread the message it works on
  op,         \* and the next operation of its program
  loaded,     \* the count an operation has read, or Null
  written,    \* a detach has written the count and not yet read it again
  lock,       \* the thread that has the lock of the connection, or Null
  fault       \* a count or a buffer was used after its deletion

vars == <<refCount_, deleted, queued, message, op, loaded, written, lock, fault>>
thread == <<message, op>>

-----------------------------------------------------------------------------
(* The programs. The message exists with a count of 1 in the first thread.  *)
(* "push" is the attach of the copy in the queue; "use" reads the buffer.   *)

(* ReadMessagesFromBuffer: m is pushed and destroyed under the lock.        *)
(* Mutant of ReceivedByUpdate: m is never destroyed.                        *)
ReceivedByUpdateKept == <<"lock", "push", "unlock">>
ReceivedByUpdate == <<"lock", "push", "detach", "unlock">>

(* Receive: m = front(), pop(); the caller reads m and destroys it.         *)
(* Mutant of ReceivedByApp: the copy is not counted.                        *)
ReceivedByAppNotCounted == <<"take", "detach", "unlock", "use", "detach">>
ReceivedByApp == <<"take", "attach", "detach", "unlock", "use", "detach">>

(* Send: msg is a copy of the caller's message; it is destroyed on return,  *)
(* the caller's later.                                                      *)
SentByApp == <<"attach", "lock", "push", "unlock", "detach", "detach">>

(* UpdateSend: m = front(), pop(), GetSendBuffer, sent.m_ = m, push_back,   *)
(* then sent and m are destroyed. UpdateResend reads the buffer, the ack    *)
(* erases the entry of messagesSent_.                                       *)
SentByUpdate ==
  <<"take", "attach", "detach", "use", "attach", "attach", "detach", "detach",
    "unlock", "lock", "use", "detach", "unlock">>

Program(t) ==
  IF Received
  THEN IF t = "app" THEN ReceivedByApp ELSE ReceivedByUpdate
  ELSE IF t = "app" THEN SentByApp ELSE SentByUpdate

-----------------------------------------------------------------------------
Init ==
  /\ refCount_ = [m \in Messages |-> 1]
  /\ deleted = [m \in Messages |-> 0]
  /\ queued = 0
  /\ message = [t \in Threads |-> 1] /\ op = [t \in Threads |-> 1]
  /\ loaded = [t \in Threads |-> Null] /\ written = [t \in Threads |-> FALSE]
  /\ lock = Null /\ fault = FALSE

IsAt(t, operations) ==
  message[t] \in Messages /\ Program(t)[op[t]] \in operations
Attaches == {"attach", "push"}
IsDeleted(t) == deleted[message[t]] > 0

NextOperation(t) ==
  IF op[t] < Len(Program(t))
  THEN op' = [op EXCEPT ![t] = @ + 1] /\ UNCHANGED message
  ELSE /\ op' = [op EXCEPT ![t] = 1]
       /\ message' = [message EXCEPT ![t] = @ + 1]

Lock(t) ==
  /\ IsAt(t, {"lock", "take"}) /\ lock = Null
  /\ IsAt(t, {"take"}) => message[t] <= queued
  /\ lock' = t
  /\ NextOperation(t)
  /\ UNCHANGED <<refCount_, deleted, queued, loaded, written, fault>>

Unlock(t) ==
  /\ IsAt(t, {"unlock"})
  /\ lock' = Null
  /\ NextOperation(t)
  /\ UNCHANGED <<refCount_, deleted, queued, loaded, written, fault>>

Use(t) ==
  /\ IsAt(t, {"use"})
  /\ fault' = (fault \/ IsDeleted(t))
  /\ NextOperation(t)
  /\ UNCHANGED <<refCount_, deleted, queued, loaded, written, lock>>

ReadCount(t) ==
  /\ IsAt(t, Attaches \cup {"detach"}) /\ loaded[t] = Null /\ ~written[t]
  /\ loaded' = [loaded EXCEPT ![t] = refCount_[message[t]]]
  /\ fault' = (fault \/ IsDeleted(t))
  /\ UNCHANGED <<refCount_, deleted, queued, thread, written, lock>>

(* Mutant of AttachToData: the pointer is copied and the count forgotten.   *)
AttachToDataNoCount(t) ==
  /\ IsAt(t, Attaches) /\ loaded[t] # Null
  /\ refCount_' = [refCount_ EXCEPT ![message[t]] = loaded[t]]
  /\ loaded' = [loaded EXCEPT ![t] = Null]
  /\ queued' = IF IsAt(t, {"push"}) THEN queued + 1 ELSE queued
  /\ fault' = (fault \/ IsDeleted(t))
  /\ NextOperation(t)
  /\ UNCHANGED <<deleted, written, lock>>

AttachToData(t) ==
  /\ IsAt(t, Attaches) /\ loaded[t] # Null
  /\ refCount_' = [refCount_ EXCEPT ![message[t]] = loaded[t] + 1]
  /\ loaded' = [loaded EXCEPT ![t] = Null]
  /\ queued' = IF IsAt(t, {"push"}) THEN queued + 1 ELSE queued
  /\ fault' = (fault \/ IsDeleted(t))
  /\ NextOperation(t)
  /\ UNCHANGED <<deleted, written, lock>>

(* A count below 0 is kept as 0: it was 0, so the data is deleted already.  *)
WriteCount(t) ==
  /\ IsAt(t, {"detach"}) /\ loaded[t] # Null
  /\ refCount_' = [refCount_ EXCEPT ![message[t]] =
                     IF loaded[t] = 0 THEN 0 ELSE loaded[t] - 1]
  /\ loaded' = [loaded EXCEPT ![t] = Null]
  /\ written' = [written EXCEPT ![t] = TRUE]
  /\ fault' = (fault \/ IsDeleted(t))
  /\ UNCHANGED <<deleted, queued, thread, lock>>

DetachFromData(t) ==
  /\ IsAt(t, {"detach"}) /\ written[t]
  /\ deleted' = IF refCount_[message[t]] = 0
                THEN [deleted EXCEPT ![message[t]] = @ + 1] ELSE deleted
  /\ written' = [written EXCEPT ![t] = FALSE]
  /\ fault' = (fault \/ IsDeleted(t))
  /\ NextOperation(t)
  /\ UNCHANGED <<refCount_, queued, loaded, lock>>

Next ==
  \E t \in Threads :
    Lock(t) \/ Unlock(t) \/ Use(t) \/ ReadCount(t) \/ AttachToData(t)
      \/ WriteCount(t) \/ DetachFromData(t)

Spec == Init /\ [][Next]_vars

-----------------------------------------------------------------------------
(* How many copies of m a thread has made and not destroyed.                *)
Done(t, m) ==
  IF message[t] > m THEN DOMAIN Program(t)
  ELSE IF message[t] < m THEN {} ELSE 1 .. op[t] - 1
Made(t, m) == Cardinality({i \in Done(t, m) : Program(t)[i] \in Attaches})
Destroyed(t, m) == Cardinality({i \in Done(t, m) : Program(t)[i] = "detach"})
Copies(m) ==
  1 + Made("app", m) + Made("update", m)
    - (Destroyed("app", m) + Destroyed("update", m))

(* The types; a received message never has more than two copies.            *)
TypeOK ==
  /\ refCount_ \in [Messages -> 0 .. IF Received THEN 2 ELSE 5]
  /\ deleted \in [Messages -> Nat] /\ queued \in 0 .. MaxMessages
  /\ message \in [Threads -> 1 .. MaxMessages + 1]
  /\ op \in [Threads -> Nat] /\ \A t \in Threads : op[t] \in DOMAIN Program(t)
  /\ loaded \in [Threads -> Nat \cup {Null}] /\ written \in [Threads -> BOOLEAN]
  /\ lock \in Threads \cup {Null} /\ fault \in BOOLEAN

IsCounting(m) ==
  \E t \in Threads : message[t] = m /\ (loaded[t] # Null \/ written[t])

(* Between operations refCount_ is the number of copies there are, in both  *)
(* threads and in the queue together (Message.cpp:33, 40).                  *)
CountIsCopies == \A m \in Messages : IsCounting(m) \/ refCount_[m] = Copies(m)

(* "Message is essentially a ref-counted dynamically allocated buffer / As  *)
(* well as to make sure it gets cleaned up" (Message.h:16): when no copy is *)
(* left the data has been deleted once, and nobody used it after that.      *)
CleanedUp ==
  /\ ~fault
  /\ \A m \in Messages :
       /\ deleted[m] <= 1
       /\ Copies(m) = 0 => deleted[m] = 1
=============================================================================

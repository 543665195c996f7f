---------------------------- MODULE PacketWindow ----------------------------
(***************************************************************************)
(* What the receiving half of a UDP connection promises, with the true     *)
(* packet numbers 1, 2, 3, ... of the sender in place of the 8-bit ones:   *)
(* a packet is handed up when it is the newest, or when it is one of the   *)
(* Window newest and was not handed up before; every other packet is       *)
(* refused.                                                                *)
(***************************************************************************)
EXTENDS Integers

CONSTANTS
  Packets,  \* the numbers of the packets the sender may send
  Window    \* how many packet numbers the receiver remembers

VARIABLES
  newest,     \* the largest number handed up, 0 before the first
  delivered,  \* every number handed up
  outcome     \* what happened to the packet that arrived last

vars == <<newest, delivered, outcome>>

Init ==
  /\ newest = 0
  /\ delivered = {}
  /\ outcome = [packet |-> 0, accepted |-> FALSE]

Wanted(n) ==
  \/ n >= newest
  \/ n > newest - Window /\ n \notin delivered

Arrive(n) ==
  /\ outcome' = [packet |-> n, accepted |-> Wanted(n)]
  /\ newest' = IF n > newest THEN n ELSE newest
  /\ delivered' = IF Wanted(n) THEN delivered \cup {n} ELSE delivered

Next == \E n \in Packets : Arrive(n)

Spec == Init /\ [][Next]_vars
=============================================================================

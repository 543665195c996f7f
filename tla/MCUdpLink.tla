------------------------------ MODULE MCUdpLink ------------------------------
(* A small instance of UdpLink.                                             *)
EXTENDS UdpLink

CONSTANTS a, b, m1, m2

MCEnds == {a, b}
MCMessages == {m1, m2}
MCFrom == [m \in MCMessages |-> IF m = m1 THEN a ELSE b]
MCSent == [e \in Ends |-> IF e = a THEN 4 ELSE 2]
MCAcks == {0 .. AckBits - 1}

(* Bound: the ends send five packets between them, and the behaviours are   *)
(* of two kinds. Either both may connect, a disconnects and its packets may *)
(* be dropped, and they give each other no messages; ...                    *)
NoMessages ==
  \A e \in Ends : ~udpBeat[e] /\ (data[e] # Null => data[e].given = {})

(* ... or a connects, both give messages, wraps included, and nothing is    *)
(* dropped (the network still loses) and a's own heartbeat is not due.      *)
NothingDropped ==
  \A e \in Ends :
    /\ sent[e] # 0 => net[e] # <<>> /\ Last(net[e]).number = sent[e]
    /\ \A i \in 2 .. Len(net[e]) :
         net[e][i].number = net[e][i - 1].number + 1

OnlyEchoes(e) ==
  \A i \in DOMAIN net[e] :
    LET flags == net[e][i].header.flags IN "HRT" \in flags => "RST" \in flags

OneConnects == app[b] = "idle" /\ app[a] # "disconnected"

Bound ==
  /\ sent[a] + sent[b] <= 5
  /\ \/ NoMessages /\ sent[a] <= 3
     \/ OneConnects /\ NothingDropped /\ OnlyEchoes(a)
=============================================================================

------------------------------- MODULE MCHTTP -------------------------------
(* A small instance of HTTP: a page after which the connection is to be     *)
(* closed, and a request without Accept header that keeps it.               *)
EXTENDS HTTP

CONSTANTS k1, k2

MCClients == {k1, k2}
MCPieces == [k \in MCClients |-> IF k = k1 THEN 2 ELSE 1]
MCRequests ==
  {[close |-> TRUE, accept |-> <<"text", "html">>, uri |-> "home"],
   [close |-> FALSE, accept |-> <<>>, uri |-> "nowhere"]}
=============================================================================

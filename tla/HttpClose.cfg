SPECIFICATION Spec
CONSTANTS
  k1 = k1
  k2 = k2
  Clients <- MCClients
  Sockets = {s1, s2}
  Requests <- MCRequests
  MaxPieces <- MCPieces
  MaxQueue = 1
  Nobody = Nobody
  Pages = {"home"}
  Files = {"picture"}
INVARIANTS
  ClosedAfterResponse
CHECK_DEADLOCK FALSE

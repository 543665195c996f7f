SPECIFICATION ServerSpec
CONSTANTS
  Conns = {c1, c2, c3}
  Peers = {p1, p2}
  MaxSlots = 2
  Capacity = 1
  MaxCalls = 2
  Null = Null
INVARIANTS ServerTypeOK ClientsAreCurrent

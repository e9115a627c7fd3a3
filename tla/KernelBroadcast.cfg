\* Broadcasts among three processes that start, exit and are polled.
SPECIFICATION Spec
CONSTANTS
  Proc = {p1, p2, p3}
  NULL = NULL
  ZOMBIE = ZOMBIE
  NumEvents = 1
  Posted = {"USER"}
  Calls = {"post", "start", "exit"}
  Polled = {p1}
  MaxCalls = 1
  MaxDepth = 5
SYMMETRY Symmetry
INVARIANTS BroadcastReachesAll

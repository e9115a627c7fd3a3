\* Threads that make any call, also the ones the documentation does not allow.
SPECIFICATION Spec
CONSTANTS
  Proc = {p1, p2}
  NULL = NULL
  ZOMBIE = ZOMBIE
  NumEvents = 2
  Posted = {"USER"}
  Calls = {"post", "post_synch", "start", "exit", "exit_any"}
  Polled = {p1, p2}
  MaxCalls = 1
  MaxDepth = 3
SYMMETRY Symmetry
INVARIANTS TypeOK ListedOnce CurrentIsExecuting EventsDieWithReceiver NoPollLost RunningIffListed NotReentered
PROPERTIES RingIsQueue

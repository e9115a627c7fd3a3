\* Liveness of events and polls, and the nesting of synchronous calls.
SPECIFICATION FairSpec
CONSTANTS
  Proc = {p1, p2}
  NULL = NULL
  ZOMBIE = ZOMBIE
  NumEvents = 2
  Posted = {"USER"}
  Calls = {"post", "post_synch", "exit"}
  Polled = {p1}
  MaxCalls = 1
  MaxDepth = 100
 
PROPERTIES OldestIsTaken PollAnswered

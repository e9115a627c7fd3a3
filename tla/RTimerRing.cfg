\* Two tasks, which fill the ring, and the interrupt, served late, between any two
\* statements.
SPECIFICATION FairSpec
CONSTANTS
  Timer = {t1, t2}
  NULL = NULL
  ListSize = 3
  Wrap = 3
  MaxDelay = 2
INVARIANTS RingHoldsAccepted BallKeepsRolling
 
CHECK_DEADLOCK FALSE

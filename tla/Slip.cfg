\* Three frames; the ring of 5 holds two short ones, or the longest.
SPECIFICATION FairSpec
CONSTANTS
  RX_BUFSIZE = 5
  BufLen = 2
  Burst = 2
  MaxFrames = 3
  Frame <- MCFrame
  MaxLost = 1
  MaxClient = 1
INVARIANTS PacketsAreFrames EachOnceInOrder
PROPERTIES EveryFrameGiven
CHECK_DEADLOCK FALSE

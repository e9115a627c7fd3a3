\* A callback timer and an event timer of another process, on the MSP430, which polls
\* when next_expiration is reached, and a queue for one event.
SPECIFICATION CtimerSpec
CONSTANTS
  Timer = {t1, t2}
  Ctimer = {t1}
  Proc = {p1, p2}
  NONE = NONE
  ZOMBIE = ZOMBIE
  OtherEvent = {}
  Capacity = 1
  Wrap = 8
  Byte = 4
  Interval = {2}
  Adjustment = {}
  MaxLeft = 3
  MaxLate = 1
  Operation = {"set", "reset", "stop", "exit"}
  Tickless = TRUE
  TornReads = FALSE
  ctimer_process = p1
INVARIANTS DueIsNoticed NoCallbackLost
PROPERTIES CallbackComes

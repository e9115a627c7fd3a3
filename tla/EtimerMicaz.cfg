\* The MICAz: a poll at every tick while a timer is pending, and a clock that is read in
\* two bytes.
SPECIFICATION Spec
CONSTANTS
  Timer = {t1, t2}
  Proc = {p1, p2}
  NONE = NONE
  ZOMBIE = ZOMBIE
  OtherEvent = {e1}
  Capacity = 1
  Wrap = 6
  Byte = 3
  Interval = {2}
  Adjustment <- Earlier
  MaxLeft = 2
  MaxLate = 1
  Operation = {"set", "reset", "restart", "adjust", "stop", "exit"}
  Tickless = FALSE
  TornReads = TRUE
SYMMETRY Symmetry
INVARIANTS TimersBelongToProcesses
PROPERTIES NeverEarly

SPECIFICATION Spec
CONSTANTS
  s = s
  a = a
  b = b
  NULL = NULL
  Node = {s, a, b}
  Advertised <- Triangle
  Switch <- OneSink
  ToSend <- TwoFromB
  MetricRange = 5
  Etx = {2}
  MaxNeighbors = 2
  NumRecent = 2
  PacketIds = 4
  MaxHopLim = 3
  Attempts = {1, 2}
  Ids = 2
  MaxInAir = 1
INVARIANTS TakenOnce SinkIsSink
PROPERTIES ForwardingMeansBusy
CHECK_DEADLOCK FALSE

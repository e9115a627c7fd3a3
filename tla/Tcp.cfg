SPECIFICATION FairSpec
CONSTANTS
  Client = Client
  Server = Server
  NumConns = 1
  MaxPort = 1
  ToSend <- ClientOne
  DataLen = 2
  ClientIss <- ClientNumbers
  ServerIss = 100
  Turns = {1, 2}
  MaxCopies = 1
  MaxRtx = 1
  MaxSynRtx = 1
  MaxInFlight = 2
  Aborts = TRUE
  Exits = TRUE
INVARIANTS
  TypeOK
  StreamIntact
  AckedWasDelivered
  OpenIsConnected
  NumbersAgree
  TimerCovers
PROPERTIES WaitingEnds
CHECK_DEADLOCK FALSE

SPECIFICATION FairSpec
CONSTANTS
  Calls = {c1, c2}
  Nodes = {"x", "y--x"}
  Ids = {"1", "2", "3"}
  Tokens = {"t1", "t2", "t3", "t4"}
  AppNames = {"t--y", "web", "web--y"}
  Hostname <- MCHostname
  Terminal <- MCTerminal
  AuthHost <- MCAuthHost
  PortalHost <- MCPortalHost
  Portal = "portal"
  Requests <- MixedRequests
  Starts <- MixedStarts
  MaxFaults = 1
  None = None
  Legacy = Legacy
  Foreign = Foreign
INVARIANTS
  TypeOK
PROPERTIES
  EveryRequestEnds

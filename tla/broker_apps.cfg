SPECIFICATION Spec
CONSTANTS
  Calls = {c1, c2, c3}
  Nodes = {"x", "y--x"}
  Ids = {"x", "y--x"}
  Tokens = {}
  AppNames = {"docs", "web", "web--y"}
  Hostname <- MCHostname
  Terminal <- MCTerminal
  AuthHost <- MCAuthHost
  PortalHost <- MCPortalHost
  Portal = "portal"
  Requests <- AppRequests
  Starts <- AppStarts
  MaxFaults = 2
  None = None
  Legacy = Legacy
  Foreign = Foreign
SYMMETRY Symmetry
INVARIANTS
  RecordsHaveRows
PROPERTIES
  OnlyOwnRecords
  ReadyMeansRouted

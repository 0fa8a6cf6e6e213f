SPECIFICATION Spec
CONSTANTS
  Calls = {c1, c2, c3, c4}
  Nodes = {"a", "b", "c"}
  Ids = {"a", "b", "c"}
  Tokens = {}
  AppNames = {}
  Hostname <- MCHostname
  Terminal <- MCTerminal
  AuthHost <- MCAuthHost
  PortalHost <- MCPortalHost
  Portal = "portal"
  Requests <- AuthRequests
  Starts <- AuthStarts
  MaxFaults = 2
  None = None
  Legacy = Legacy
  Foreign = Foreign
SYMMETRY Symmetry
INVARIANTS
  TransferRecoverable
  AuthServedByOwner
PROPERTIES
  OnlyOwnRecords
  ReadyMeansRouted

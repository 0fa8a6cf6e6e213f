SPECIFICATION SpecNodeInit
CONSTANTS
  Calls = {c1, c2, c3}
  Nodes = {"x", "y--x"}
  Ids = {"1", "2", "3"}
  Tokens = {"t1", "t2", "t3", "t4"}
  AppNames = {"t--y"}
  Hostname <- MCHostname
  Terminal <- MCTerminal
  AuthHost <- MCAuthHost
  PortalHost <- MCPortalHost
  Portal = "portal"
  Requests <- OtherRequests
  Volumes = {v1, v2}
  NodeName <- MCNodeName
  Starts <- OneToken
  MaxFaults = 2
  None = None
  Legacy = Legacy
  Foreign = Foreign
SYMMETRY NodeInitSymmetry
INVARIANTS
  TokensAreSingleUse
  EnrolledNodesAreServed
  FilesBelongToNode
  NamesAreRecoverable
PROPERTIES
  ClaimSurvives

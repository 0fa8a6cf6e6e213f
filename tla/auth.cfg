SPECIFICATION FairSpec
CONSTANTS
  Calls = {}
  Nodes = {1, 2, 3}
  NodeSlugs = {"x", "y", "z"}
  AppIds = {}
  AppSlugs = {}
  Users = {}
  Hostname <- MCHostname
  RecentLimit = 1
  RouteLimit = 8
  None = None
  Start <- MCStart
  First = 1
  Mistakes = {2}
  Waits = TRUE
  MaxMoves = 3
  MaxFaults = 3
INVARIANTS
  OneKeycloak
PROPERTIES
  StartsWhereRouted
  OutageEnds
CHECK_DEADLOCK FALSE

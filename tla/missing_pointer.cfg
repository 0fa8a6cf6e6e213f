SPECIFICATION Spec
CONSTANTS
  Calls = {c1, c2}
  Nodes = {1, 2, 3}
  NodeSlugs = {"x", "y--x"}
  AppIds = {}
  AppSlugs = {"web"}
  Users = {"u"}
  Hostname <- MCHostname
  RecentLimit = 2
  RouteLimit = 8
  None = None
  Ops <- FirstOps
  Seeds <- NewStore
  MaxAttempts = 3
  MaxFaults = 0
  AllowPointerLoss = FALSE
INVARIANTS
  MissingOnlyIfLost

SPECIFICATION FairSpec
CONSTANTS
  Calls = {c1, c2, c3}
  Nodes = {1, 2, 3}
  NodeSlugs = {"x", "y--x"}
  AppIds = {}
  AppSlugs = {"web"}
  Users = {"u"}
  Hostname <- MCHostname
  RecentLimit = 2
  RouteLimit = 8
  None = None
  Ops <- FirstOps
  Seeds <- NewStore
  MaxAttempts = 2
  MaxFaults = 0
  AllowPointerLoss = TRUE
INVARIANTS
  WellFormedRegistry
PROPERTIES
  StaysSealed
  EveryCallEnds
  InitializationCompletes

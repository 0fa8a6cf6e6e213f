SPECIFICATION Spec
CONSTANTS
  Calls = {c1, c2, c3}
  Nodes = {1, 2, 3}
  NodeSlugs = {"x", "y--x"}
  AppIds = {}
  AppSlugs = {"web"}
  Users = {"u"}
  Hostname <- MCHostname
  RecentLimit = 2
  RouteLimit = 8
  None = None
  Ops <- TwoFirstOps
  Seeds <- NewStore
  MaxAttempts = 3
  MaxFaults = 1
  AllowPointerLoss = TRUE
SYMMETRY Symmetry
INVARIANTS
  FailsClosed

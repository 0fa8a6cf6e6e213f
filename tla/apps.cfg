SPECIFICATION Spec
CONSTANTS
  Calls = {c1, c2, c3}
  Nodes = {1, 2}
  NodeSlugs = {"x", "y--x"}
  AppIds = {"p", "q", "r"}
  AppSlugs = {"web", "web--y", "docs", "t"}
  Users = {"u"}
  Hostname <- MCHostname
  RecentLimit = 2
  RouteLimit = 2
  None = None
  Ops <- AppOps
  Seeds <- AppSeeds
  MaxAttempts = 3
  MaxFaults = 1
  AllowPointerLoss = FALSE
SYMMETRY Symmetry
INVARIANTS
  OneChangePerGeneration
  WellFormedRegistry

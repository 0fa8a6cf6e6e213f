SPECIFICATION Spec
CONSTANTS
  Calls = {c1, c2, c3}
  Nodes = {1, 2, 3}
  NodeSlugs = {"x", "y--x"}
  AppIds = {}
  AppSlugs = {"web"}
  Users = {"u"}
  Hostname <- MCHostname
  RecentLimit = 2
  RouteLimit = 8
  None = None
  Ops <- NodeOps
  Seeds <- NodeSeeds
  MaxAttempts = 2
  MaxFaults = 2
  AllowPointerLoss = FALSE
SYMMETRY Symmetry
INVARIANTS
  TypeOK
  SerialHistory
  PointerNeverDangles
  AtMostOnce
  OwnerNeverStolen
  RefusalIsFinal
  AnswerIsCommitted
  RetriesArePaidFor
PROPERTIES
  ImplementsAtomic

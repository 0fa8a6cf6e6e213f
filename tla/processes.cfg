SPECIFICATION FairSpec
CONSTANTS
  Calls = {"admin", "other"}
  Nodes = {1, 2}
  NodeSlugs = {"x", "y"}
  AppIds = {"p", "q"}
  AppSlugs = {"web"}
  Users = {"u"}
  Hostname <- MCHostname
  RecentLimit = 2
  RouteLimit = 8
  None = None
  SlugOf <- MCSlugOf
  Requests <- MCRequests
  Start <- MCStart
  MaxFaults = 1
INVARIANTS
  NoLostTrigger
  SyncedServes
PROPERTIES
  LocalOnly
  LegacyKeeps
  Converges

\* Two runs and a list request, three timestamps.
SPECIFICATION FairSpec
CONSTANTS
  Runs = {ticker, request}
  Lists = {list}
  Last = 3
  MaxFaults = 2
  None = none
  ticker = ticker
  request = request
  list = list
  none = none
INVARIANTS
  KeptBackups
PROPERTIES
  PendingPromoted
  ListingComplete

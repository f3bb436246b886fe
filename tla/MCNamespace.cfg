CONSTANTS
  Gone = Gone
  None = None
  Watcher = Watcher
  n1 = n1
  n2 = n2
  Namespaces <- TwoNamespaces
  Listeners <- OnlyWatcher
  ChanCap = 2
  MaxOps = 2
  MaxFaults = 1
  MaxCrashes = 1
SPECIFICATION FairSpec
INVARIANTS TypeOK SettledMatches ReplayIsTracked TrackedIsListed
PROPERTIES TrackerConverges
CHECK_DEADLOCK FALSE

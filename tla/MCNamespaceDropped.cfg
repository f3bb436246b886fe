CONSTANTS
  Gone = Gone
  None = None
  Watcher = Watcher
  n1 = n1
  n2 = n2
  Namespaces <- TwoNamespaces
  Listeners <- OnlyWatcher
  ChanCap = 1
  MaxOps = 0
  MaxFaults = 0
  MaxCrashes = 0
SPECIFICATION Spec
INVARIANTS NewNamespacesReconciled
CHECK_DEADLOCK FALSE

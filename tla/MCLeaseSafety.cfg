CONSTANTS
  Absent = Absent
  Empty = Empty
  Invalid = Invalid
  Gone = Gone
  n1 = n1
  ns = ns
  w = w
  Sec = 2
  Names <- OneName
  NamespaceOf <- OneNS
  Worker = w
  Goroutines = {}
  Instants <- HalfSeconds
  Horizon = 5
  JobTimeout = 2
  InitialObjects <- WithJob
  UserTTLs <- FewTTLs
  UserStarts <- NoStart
  UserJobs <- GoodJobs
  UserDeletes = TRUE
  MaxOps = 2
  MaxFaults = 1
  MaxCrashes = 1
SPECIFICATION Spec
INVARIANTS TypeOK JobsPerIncarnation
PROPERTIES OnlyMarkedDeleted OnlyOverdueNamesDeleted CleanupBeforeDelete
CHECK_DEADLOCK FALSE

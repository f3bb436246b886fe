CONSTANTS
  Absent = Absent
  Empty = Empty
  Invalid = Invalid
  Gone = Gone
  n1 = n1
  ns = ns
  w = w
  Sec = 2
  Names <- OneName
  NamespaceOf <- OneNS
  Worker = w
  Goroutines = {}
  Instants <- HalfSeconds
  Horizon = 5
  JobTimeout = 2
  InitialObjects <- Some
  UserTTLs <- FewTTLs
  UserStarts <- FewStarts
  UserJobs <- NoJob
  UserDeletes = TRUE
  MaxOps = 2
  MaxFaults = 0
  MaxCrashes = 0
SPECIFICATION Spec
PROPERTIES OnlyOverdueDeleted
CHECK_DEADLOCK FALSE

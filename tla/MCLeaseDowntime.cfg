CONSTANTS
  Absent = Absent
  Empty = Empty
  Invalid = Invalid
  Gone = Gone
  n1 = n1
  ns = ns
  w = w
  Sec = 2
  Names <- OneName
  NamespaceOf <- OneNS
  Worker = w
  Goroutines = {}
  Instants <- HalfSeconds
  Horizon = 5
  JobTimeout = 2
  InitialObjects <- Some
  UserTTLs <- FewTTLs
  UserStarts <- FewStarts
  UserJobs <- NoJob
  UserDeletes = FALSE
  MaxOps = 2
  MaxFaults = 0
  MaxCrashes = 1
SPECIFICATION Spec
INVARIANTS UnmanagedIsClean
CHECK_DEADLOCK FALSE

CONSTANTS
  Absent = Absent
  Empty = Empty
  Invalid = Invalid
  Gone = Gone
  n1 = n1
  ns = ns
  w = w
  Sec = 2
  Names <- OneName
  NamespaceOf <- OneNS
  Worker = w
  Goroutines = {}
  Instants <- FarApart
  Horizon = 5
  JobTimeout = 2
  InitialObjects <- Unstarted
  UserTTLs <- AllTTLs
  UserStarts <- LateStarts
  UserJobs <- BadJob
  UserDeletes = FALSE
  MaxOps = 2
  MaxFaults = 1
  MaxCrashes = 1
SPECIFICATION Spec
INVARIANTS SettledIsConsistent
PROPERTIES OnlyOverdueDeleted KeepsPromise
CHECK_DEADLOCK FALSE

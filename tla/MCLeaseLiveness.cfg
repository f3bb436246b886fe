CONSTANTS
  Absent = Absent
  Empty = Empty
  Invalid = Invalid
  Gone = Gone
  n1 = n1
  ns = ns
  w = w
  Sec = 2
  Names <- OneName
  NamespaceOf <- OneNS
  Worker = w
  Goroutines = {}
  Instants <- OnTheEnd
  Horizon = 5
  JobTimeout = 2
  InitialObjects <- WithJob
  UserTTLs <- BadTTLs
  UserStarts <- NoStart
  UserJobs <- NoJob
  UserDeletes = FALSE
  MaxOps = 2
  MaxFaults = 1
  MaxCrashes = 1
SPECIFICATION FairSpec
PROPERTIES OverdueGoes
CHECK_DEADLOCK FALSE

CONSTANTS
  Absent = Absent
  Empty = Empty
  Invalid = Invalid
  Gone = Gone
  n1 = n1
  ns = ns
  w = w
  g = g
  Sec = 2
  Names <- OneName
  NamespaceOf <- OneNS
  Worker = w
  Goroutines <- OneGoroutine
  Watcher = Watcher
  ChanCap = 2
  Nowhere = Nowhere
  Instants <- TwoReadings
  Horizon = 5
  JobTimeout = 2
  InitialObjects <- InMidLease
  UserTTLs <- FewTTLs
  UserStarts <- NoStart
  UserJobs <- NoJob
  UserDeletes = TRUE
  MaxOps = 0
  MaxFaults = 0
  MaxCrashes = 0
  MaxRelabels = 0
  MaxEvents = 0
SPECIFICATION OptInFairSpec
PROPERTIES OptedInGoes
CHECK_DEADLOCK FALSE

CONSTANTS
  Absent = Absent
  Empty = Empty
  Invalid = Invalid
  Gone = Gone
  n1 = n1
  ns = ns
  w = w
  g = g
  Sec = 2
  Names <- OneName
  NamespaceOf <- OneNS
  Worker = w
  Goroutines <- OneGoroutine
  Watcher = Watcher
  ChanCap = 2
  Nowhere = Nowhere
  Instants <- TwoReadings
  Horizon = 5
  JobTimeout = 2
  InitialObjects <- NotStarted
  UserTTLs <- FewTTLs
  UserStarts <- NoStart
  UserJobs <- NoJob
  UserDeletes = TRUE
  MaxOps = 1
  MaxFaults = 1
  MaxCrashes = 1
  MaxRelabels = 1
  MaxEvents = 2
SPECIFICATION OptInSpec
INVARIANTS OptInTypeOK JobsPerList SkippedIsFound ComesBack
PROPERTIES OnlyConsentedTouched OnlyOverdueNamesDeleted
CHECK_DEADLOCK FALSE

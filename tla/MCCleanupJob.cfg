CONSTANTS
  Absent = Absent
  Invalid = Invalid
  None = None
  Refused = Refused
  Timeouts <- SomeTimeouts
  Numbers <- SomeNumbers
  DefaultTimeout = 6
  DefaultJobTTL = 3
  DefaultJobBackoffLimit = 3
  Poll = 2
  LastTick = 7
  MaxFaults = 1
SPECIFICATION FairSpec
INVARIANTS TypeOK JobAsAsked SeenInTime
PROPERTIES WaitEnds ReportsTruly
CHECK_DEADLOCK FALSE

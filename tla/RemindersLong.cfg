SPECIFICATION FairSpec
CONSTANTS
  MaxId = 1
  MaxPending = 1
  TickLimit = 1
  CrashLimit = 3
  Grace = 2
  LateThreshold = 1
  RetryFloor = 1
  ReportHorizon = 2
  Skew = 1
  NoteWindow = 1
  NoteMax = 1
  Horizon = 1
  MaxClock = 9
  OutageEnd = 7
  MaxCrashes = 2
  MaxFaults = 1
INVARIANTS DeliveredInWindow NoDuplicateUnlessInterrupted OutageNeverAbandons 
PROPERTY EveryReminderSettles

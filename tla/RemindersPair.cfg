SPECIFICATION Spec
CONSTANTS
  MaxId = 2
  MaxPending = 2
  TickLimit = 2
  CrashLimit = 2
  Grace = 2
  LateThreshold = 1
  RetryFloor = 1
  ReportHorizon = 2
  Skew = 0
  NoteWindow = 1
  NoteMax = 1
  Horizon = 1
  MaxClock = 4
  OutageEnd = 4
  MaxCrashes = 1
  MaxFaults = 0
INVARIANTS NoSilentLoss ReceiptsAreCommitted
PROPERTIES CancelledStaysUnsent KeepsPromise

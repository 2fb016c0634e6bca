SPECIFICATION Spec
CONSTANTS
  Remembered = 1
  MaxTurns = 3
  MaxOf <- Few
  MaxWaiting = 1
  MaxCalls = 2
  MaxFaults = 2
  MaxTrouble = 4
INVARIANTS  RecordsAreTrue FiledUnderItsIncident
PROPERTY ErrorsAreRecorded
CHECK_DEADLOCK FALSE

SPECIFICATION Spec
CONSTANTS
  Remembered = 1
  MaxTurns = 3
  MaxOf <- Few
  MaxWaiting = 1
  MaxCalls = 2
  MaxFaults = 1
  MaxTrouble = 4
INVARIANT RecordedWhenTriaged
CHECK_DEADLOCK FALSE

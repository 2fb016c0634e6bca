SPECIFICATION Spec
CONSTANTS
  Ident = {a}
  Resolved = {TRUE, FALSE}
  Windows = {1, 2}
  Start <- TwoStarts
  End <- TwoEnds
  Grace = 0
  Fallback = 1
  Cooldown = 2
  MaxEvents = 3
  MaxClock = 3
  MaxDelay = 0
  MaxFaults <- HoldFaults
  MaxTrouble = 3
INVARIANTS NothingIsLost
CHECK_DEADLOCK FALSE

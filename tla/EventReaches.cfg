SPECIFICATION FairSpec
CONSTANTS
  Ident = {a}
  Resolved = {TRUE, FALSE}
  Windows = {1}
  Start <- OneStart
  End <- OneEnd
  Grace = 0
  Fallback = 1
  Cooldown = 1
  MaxEvents = 2
  MaxClock = 2
  MaxDelay = 1
  MaxFaults <- TryFaults
  MaxTrouble = 2
PROPERTIES CooldownHolds ReleasedCaughtUp EveryEventIsHandled
CHECK_DEADLOCK FALSE

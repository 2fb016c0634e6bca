SPECIFICATION FairSpec
CONSTANTS
  Limit = 4
  Styled = TRUE
  MaxAttempts = 2
  Refresh = 3
  Poll = 1
  Base = 1
  MaxBackoff = 2
  MaxExponent = 2
  s1 = s1
  s2 = s2
  Senders = {s1, s2}
  Workloads <- Pairs
  Arrivals <- Items
  MaxSubmitted = 1
  MaxFaults = 2
  MaxDrops = 2
  MaxClock = 10
INVARIANTS WholeSequences TypingIsTimely
PROPERTY EverySendEnds
CHECK_DEADLOCK FALSE

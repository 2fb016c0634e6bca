SPECIFICATION Spec
CONSTANTS
  OwnerItems <- MCItems
  Proposals <- MCProposals
  Lookahead = 2
  Refresh = 1
  Grace = 1
  MaxWindow = 2
  Stale = 1
  PastTolerance = 1
  MaxAhead = 3
  MaxListed = 1
  MaxClock = 3
  MaxEdits = 2
  MaxApprovals = 2
  MaxFaults = 2
  MaxRevocations = 1
  MaxCrashes = 1
  MaxTrouble = 3
INVARIANTS HeldWasPlanned PlannedIsHeld ResultsAreTrue ReceiptsTellTheWrite
CHECK_DEADLOCK FALSE

SPECIFICATION FairSpec
CONSTANTS
  Calls = {c1, c2}
  Tools <- AllTools
  None = None
  MaxQueued = 1
INVARIANTS RunsOnlyOnOwnersWord ReceiptTellsTheAnswer
PROPERTIES ExposedSessionNeverWrites SlotIsFreed
CHECK_DEADLOCK FALSE

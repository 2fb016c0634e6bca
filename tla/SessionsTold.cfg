SPECIFICATION Spec
CONSTANTS
  Setups <- SomeSetups
  Worlds <- SomeWorlds
  Runs = {timer, manual}
  Real <- LinkTo
  Unsafe <- TooBroad
  Repository <- Origins
  OddPanes = {"p!"}
  OddLabels = {"two words"}
  SessionCost = 2
  MarkCost = 1
  Budget = 4
  Retention = 9
  Calm = 1
  ReadBudget = 3
  MaxAge = 1
  MaxClock = 9
  MaxFrames = 4
  MaxChanges = 2
  MaxFaults = 1
INVARIANTS NothingPrivateIsTold DroppingIsHonest ReportConverges
PROPERTY StaleMeansStopped
SYMMETRY Interchangeable
CHECK_DEADLOCK FALSE

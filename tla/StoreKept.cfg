SPECIFICATION Spec
CONSTANTS
  MaxEntries = 4
  EntryChars = 3
  RefChars = 10
  MaxChars = 20
  HeadChars = 1
  EntryHead = 1
  MarkChars = 1
  Window = 1
  f1 = f1
  f2 = f2
  Caps <- CapsOfOneAndTwo
  Contents = {f1, f2}
  Needles <- Asked
  Turns <- TurnsOfTwo
  Mids = {"m1", "no id"}
  Sizes = {14}
  DocumentMax = 12
  MaxCount = 5
  MaxAge = 2
  PageSize = 1
  MaxReadLimit = 2
  Limits = {0, 3}
  FactChars = 2
  RecallChars = 5
  Files <- AtEveryCap
  MaxCalls = 2
  MaxReads = 1
  MaxFaults = 1
  MaxPurges = 1
  Clock = {2, 3}
INVARIANTS  BoundsHold ReadsAddUp ArchiveIsHonest
PROPERTY OneWholeCall
CHECK_DEADLOCK FALSE

SPECIFICATION Spec
CONSTANTS
  Bases <- MCBases
  Edits <- MCEdits
  Words <- MCWords
  AskedFiles <- MCAsked
  DayLength = 8
  Zones <- TestZones
  Magnitudes = {0, 1, 20}
  DaysAhead = 2
  HorizonDays = 2
  Skew = 1
  Instants <- TestInstants
INVARIANTS PromptMatchesRegistry FlipIsSafe ClockIsTheOwners
CHECK_DEADLOCK FALSE

SPECIFICATION MCSpec
CONSTANTS
  Callers = {"command", "library", "reader"}
  Options <- MCOptions
  Calls = 2
  Paths <- MCPaths
  Dumps <- MCDumps
  Old <- MCOld
  Base = 32
  MaxU64 = 1023
  MaxEntries = 7
  MaxStringSize = 4
  Contracts <- MCContracts
  Orders <- MCOrders
  NewUnits <- MCNewUnits
INVARIANTS
  ResultRunsEverywhere
  RefusedForAReason
  NothingAskedIsMissing
  ExitTellsWhatIsPublished
  WrittenIsRead
  AcceptedIsCanonical
  AcceptedPlanIsSound
CHECK_DEADLOCK FALSE

SPECIFICATION MCSpec
CONSTANTS
  Callers = {"library"}
  Options <- MCOptions
  Calls = 1
  Paths <- MCPaths
  Dumps <- MCDumps
  Old <- MCOld
  Base = 32
  MaxU64 = 1023
  MaxEntries = 7
  MaxStringSize = 4
  Contracts <- MCContracts
  Orders <- MCOrders
  NewUnits <- MCNewUnits
INVARIANT ScalarOnlyCompiles
CHECK_DEADLOCK FALSE

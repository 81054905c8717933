SPECIFICATION MCSpec
CONSTANTS
  Callers = {"reader"}
  Options <- MCOptions
  Calls = 1
  Paths <- MCPaths
  Dumps <- MCDumps
  Old <- MCOld
  Base = 32
  MaxU64 = 1023
  MaxEntries = 7
  MaxStringSize = 4
  Contracts <- LongNamed
  Orders <- MCOrders
  NewUnits <- MCNewUnits
INVARIANT SerializedCanBeRead
CHECK_DEADLOCK FALSE

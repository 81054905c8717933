SPECIFICATION Spec
CONSTANTS
  Writers = {1, 2, 3}
  Readers = {1}
  ProcessOf <- MCProcessOf
  PidOf <- SamePid
  Blocks = 2
  Absent = Absent
INVARIANT DestinationWhole
CHECK_DEADLOCK FALSE

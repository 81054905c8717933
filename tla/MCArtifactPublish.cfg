SPECIFICATION Spec
CONSTANTS
  Writers = {1, 2, 3}
  Readers = {1}
  ProcessOf <- MCProcessOf
  PidOf <- DistinctPids
  Blocks = 2
  Absent = Absent
INVARIANTS
  DestinationWhole
  NoSharedTemporary
  LeftoversApart
PROPERTIES
  ImplementsRegister
  CallsEnd
CHECK_DEADLOCK FALSE

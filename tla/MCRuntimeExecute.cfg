SPECIFICATION Spec
CONSTANTS
  Calls = {1, 2, 3}
  Scenarios <- MCScenarios
  UIntPtrMax = 15
INVARIANTS
  KernelExclusion
  PrefixStillValid
PROPERTIES
  ImplementsAtomicCalls
  EveryCallReturns
CHECK_DEADLOCK FALSE

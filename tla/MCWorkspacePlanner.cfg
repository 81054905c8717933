SPECIFICATION FairSpec
CONSTANTS
  Inputs <- MCInputs
  UIntMax = 255
  IntMax = 127
  MaxRequests = 3
  Sizes = {8, 40, 100}
  Alignments = {8, 64}
  Ends = 3
INVARIANTS
  TypeOK
  NoLiveOverlap
  PlanInBounds
  PlanCoversRequests
  NoLowerFit
  OverflowIsGenuine
PROPERTIES
  CallReturns
CHECK_DEADLOCK FALSE

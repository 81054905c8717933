SPECIFICATION ExecutionSpec
CONSTANTS
  GraphInputs <- MCGraphInputs
  UIntMax = 1023
  IntMax = 511
  Undefined = Undefined
INVARIANTS
  AccessCoversUse
  
PROPERTIES
  ImplementsDataflow
CHECK_DEADLOCK FALSE

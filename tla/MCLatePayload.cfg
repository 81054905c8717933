SPECIFICATION Spec
CONSTANTS
  MaxU64 = 65535
  Tile = 1
  Bodies = {}
  TrainingNodes = {}
  DirectGraphs = {}
  VectorWidth <- MCVectorWidth
  Registers <- MCRegisters
  UIntMax = 1023
  IntMax = 319
  Documents <- LateDocuments
  OverrideGraphs = {}
  AttentionCases = {}
  SpecializedCases = {}
  NormalizationCases = {}
  ElementCases = {}
  Convolutions = FALSE
INVARIANT PayloadsAreListed
CHECK_DEADLOCK FALSE

SPECIFICATION Spec
CONSTANTS
  MaxU64 = 65535
  Tile = 1
  Bodies <- MCBodies
  TrainingNodes <- MCTrainingNodes
  DirectGraphs <- MCDirectGraphs
  VectorWidth <- MCVectorWidth
  Registers <- MCRegisters
  UIntMax = 1023
  IntMax = 319
  Documents <- MCDocuments
  OverrideGraphs <- MCOverrideGraphs
  AttentionCases <- MCAttentionCases
  SpecializedCases <- MCSpecializedCases
  NormalizationCases <- MCNormalizationCases
  ElementCases <- MCElementCases
  Convolutions = TRUE
INVARIANTS
  AcceptedHoldsDocument
  ConvolutionIsLowerable
  AccessesStayInside
  OutputIsReference
  AttendsExactly
  DataStaysInSpan
  SpecializedIsReference
  NormalizationIsReference
  ElementsAreReference
  GradientsAreAdjoint
  KernelConvolves
  EstimateCountsLoads
  OwnPlanVerifies
  ContentsKept
CHECK_DEADLOCK FALSE

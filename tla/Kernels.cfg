SPECIFICATION Spec
CHECK_DEADLOCK FALSE
CONSTANTS
  CudaThreads = 4
  Cases <- AllCases
INVARIANTS
  EachInItsPlace
  CombinesTheRightOnes
  MovesAsDefined
  PartsApart

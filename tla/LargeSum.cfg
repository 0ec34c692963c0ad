SPECIFICATION Spec
CHECK_DEADLOCK FALSE
CONSTANTS
  CudaThreads = 2
  Cases <- LargeSum
INVARIANT AddsEveryElement

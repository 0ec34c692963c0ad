SPECIFICATION Spec
CONSTANTS
  Problems <- AllProblems
  UnknownSizes = {1, 2, 3}
  MaxCalls = 2
INVARIANTS
  SoundShapes
  SoundValues
  ExactShapes
  PaddedAsFramework
PROPERTY ThrowsAsRunning
CHECK_DEADLOCK FALSE

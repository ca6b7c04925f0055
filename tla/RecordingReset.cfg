SPECIFICATION Spec
CONSTANTS
  FadeSteps = 1
  BlockLen = 2
  Room = 2
  MaxSets = 4
INVARIANT
  LoopReadsTrue

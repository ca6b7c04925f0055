SPECIFICATION Spec
CONSTANTS
  FadeSteps = 1
  BlockLen = 2
  Room = 2
  MaxSets = 5
INVARIANTS
  TypeOK
  PendingExact
  ReadsTrue
  OnceImpliesRec
  OneHeadPlays
PROPERTIES
  PassIsOnce
  PassEnds

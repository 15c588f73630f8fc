CONSTANTS
  MaxAddress = 3
  OwnAddress = 1
SPECIFICATION Spec
INVARIANTS TreeEdges LinksRelaxed ShortestWhenDone FirstHopIsBest
PROPERTY LoopEnds
CHECK_DEADLOCK FALSE

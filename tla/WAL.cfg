SPECIFICATION FairSpec
CONSTANTS
  MaxPoints = 5
  MaxStarts = 1
  RecSize = 2
  SegMax = 4
  MaxTotal = 6
  ChCap = 1
  Faults = {}
INVARIANTS SegmentsSound
PROPERTIES LosesOnlyPruned DrainEnds

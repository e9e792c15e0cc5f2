SPECIFICATION FairSpec
CONSTANTS
  MaxPoints = 3
  MaxLeft = 3
  RingSize = 1
  OutCap = 1
  ChCap = 1
  Lossy = FALSE
PROPERTY IngressStarts

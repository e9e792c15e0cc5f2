SPECIFICATION FairSpec
CONSTANTS
  MaxPoints = 4
  MaxLeft = 1
  RingSize = 1
  OutCap = 1
  ChCap = 1
  Lossy = FALSE
INVARIANTS NothingLost NoLostWakeup
PROPERTIES Delivery ShutdownCompletes

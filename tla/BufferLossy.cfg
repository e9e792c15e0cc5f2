SPECIFICATION Spec
CONSTANTS
  MaxPoints = 4
  MaxLeft = 2
  RingSize = 2
  OutCap = 1
  ChCap = 1
  Lossy = TRUE
INVARIANTS TypeOK InOrder RingFlushed
PROPERTY NoSendOnClosed

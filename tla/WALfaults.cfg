SPECIFICATION Spec
CONSTANTS
  MaxPoints = 3
  MaxStarts = 2
  RecSize = 2
  SegMax = 4
  MaxTotal = 4
  ChCap = 1
  Faults = {"create", "close", "append", "sync", "stat", "remove", "open", "rot"}
INVARIANTS TypeOK Recoverable
PROPERTY ImplementsPointLog

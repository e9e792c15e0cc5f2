SPECIFICATION FairSpec
CONSTANTS
  MaxPoints = 4
  MaxFailures = 2
  BatchSize = 2
  InitialBackoff = 1
  MaxBackoff = 3
INVARIANTS TypeOK ReceivedInOrder LossesVisible
PROPERTY Progress

SPECIFICATION Spec
CONSTANTS
  Senders = {s1, s2, s3}
  MaxSamples = 4
  MaxBatch = 2
  MaxBuffer = 2
INVARIANT NoDuplicates

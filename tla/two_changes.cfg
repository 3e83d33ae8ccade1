SPECIFICATION Spec
CONSTANTS
  d1 = d1
  d2 = d2
  Dispatchers <- TwoDispatchers
  Events = {1, 2}
  Letters = {2}
  Kinds = {"status", "silent", "newer"}
  BatchSize = 2
  MaxAttempts = 1
  JobAttempts = 2
  MaxSends = 1
  MaxReplays = 0
  MaxMishaps = 1
  MayLoseRedis = FALSE
INVARIANTS TypeOK LastStatusTold
SYMMETRY Symmetry
CHECK_DEADLOCK FALSE

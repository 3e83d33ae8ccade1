SPECIFICATION FairSpec
CONSTANTS
  d1 = d1
  d2 = d2
  Dispatchers <- TwoDispatchers
  Events = {1}
  Letters = {1}
  Kinds = {"status"}
  BatchSize = 1
  MaxAttempts = 2
  JobAttempts = 1
  MaxSends = 2
  MaxReplays = 1
  MaxMishaps = 1
  MayLoseRedis = TRUE
INVARIANTS EmailedOnce
PROPERTIES PublishedStays EventsResolve ChangesReachTheBuyer
CHECK_DEADLOCK FALSE

SPECIFICATION FairSpec
CONSTANTS
  l1 = l1
  a1 = a1
  a2 = a2
  a3 = a3
  f1 = f1
  f2 = f2
  Loops <- OneLoop
  Attempts <- ThreeAttempts
  Refunds <- TwoRefunds
  Limit = 2
  Unserved <- NotServed
  Mismatched <- OtherAmount
  Silent <- NotDecided
  MaxMishaps = 1
PROPERTIES DecidedSettle
CHECK_DEADLOCK FALSE

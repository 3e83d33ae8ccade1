SPECIFICATION FairSpec
CONSTANTS
  s1 = s1
  s2 = s2
  p1 = p1
  p2 = p2
  w1 = w1
  w2 = w2
  q1 = q1
  q2 = q2
  f1 = f1
  f2 = f2
  f3 = f3
  k1 = k1
  k2 = k2
  Slices <- TwoSlices
  Shipments <- Nothing
  Staff <- OneWriter
  Returns <- Nothing
  RefundIds <- TwoRefunds
  Clerks <- TwoClerks
  Ordered <- TwoAndOne
  Price <- TwoAndOne
  MaxUnits = 2
  MaxUnit = 2
  MayDie = FALSE
  Reported = {"DELIVERED"}
  Decisions = {}
INVARIANTS RefundsWithinPrice AskedOnce RefundedIsPaidBack
PROPERTIES DecidedRefundsClose
CHECK_DEADLOCK FALSE

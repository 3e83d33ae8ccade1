SPECIFICATION Spec
CONSTANTS
  s1 = s1
  s2 = s2
  p1 = p1
  p2 = p2
  w1 = w1
  w2 = w2
  q1 = q1
  q2 = q2
  f1 = f1
  f2 = f2
  f3 = f3
  k1 = k1
  k2 = k2
  Slices <- TwoSlices
  Shipments <- TwoShipments
  Staff <- TwoWriters
  Returns <- TwoReturns
  RefundIds <- Nothing
  Clerks <- OneClerk
  Ordered <- OneEach
  Price <- OneEach
  MaxUnits = 2
  MaxUnit = 2
  MayDie = TRUE
  Reported = {"DELIVERED", "CANCELLED"}
  Decisions = {"APPROVED", "REFUND_PENDING", "REJECTED"}
INVARIANTS TypeOK ShippedWithinOrdered DeliveredOnEvidence ReturnedWithinOrdered
SYMMETRY Symmetry
CHECK_DEADLOCK FALSE

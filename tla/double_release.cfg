SPECIFICATION Spec
CONSTANTS
  o1 = o1
  o2 = o2
  s1 = s1
  s2 = s2
  w1 = w1
  w2 = w2
  Orders <- TwoOrders
  Stores <- OneStore
  Variants <- OneStore
  StoreOf <- StoreOfItself
  Qty <- Contended
  MaxQty = 2
  Paying <- TwoOrders
  Tries = {1}
  Verifiers <- OneHandler
  InitialStock = 3
  MaxOnHand = 0
  MaxAllocations = 1
  HasFallback = FALSE
  MayCrash = {}
  Glitches = {}
INVARIANT ReservedIsHeld
CHECK_DEADLOCK FALSE

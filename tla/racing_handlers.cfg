SPECIFICATION Spec
CONSTANTS
  o1 = o1
  o2 = o2
  s1 = s1
  s2 = s2
  w1 = w1
  w2 = w2
  Orders <- OneOrder
  Stores <- OneStore
  Variants <- OneStore
  StoreOf <- StoreOfItself
  Qty <- OneOfEach
  MaxQty = 1
  Paying <- OneOrder
  Tries = {1, 2}
  Verifiers <- TwoHandlers
  InitialStock = 1
  MaxOnHand = 0
  MaxAllocations = 2
  HasFallback = TRUE
  MayCrash = {}
  Glitches = {}
SYMMETRY Symmetry
INVARIANTS WebhookLeavesTrace
PROPERTIES PromiseKept
CHECK_DEADLOCK FALSE

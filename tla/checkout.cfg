SPECIFICATION Spec
CONSTANTS
  u1 = u1
  v1 = v1
  v2 = v2
  v3 = v3
  s1 = s1
  s2 = s2
  h1 = h1
  h2 = h2
  k1 = k1
  k2 = k2
  Users <- OneUser
  Variants <- ThreeVariants
  Handlers <- TwoHandlers
  Keys <- TwoKeys
  CartIds <- ThreeCarts
  MaxQuantity = 2
  MaxRequests = 2
  MaxCheckouts = 2
  MaxMoves = 1
  FirstItems <- OneOfEach
  FirstBuyer = u1
  Delisted <- OneVariant
  InitialStock <- Stock
  StoreOf <- StoreOfEach
  StoreSeq <- BothStores
  VariantSeq <- TheLines
  FirstPrice <- OldPrices
  NewPrice <- NewPrices
  Moving <- OneVariant
  Weight <- Weights
  Rules <- Shares
  VendorOf <- VendorOfEach
  CategoryOf <- Categories
  TaxBps = 5000
  Promotion <- OnceFive
INVARIANTS TypeOK LoserFindsWinner OneOrderPerKey PromotionLimits PricedAsBought DiscountIsWhole DeliveryQuotedForLines
SYMMETRY Symmetry
CHECK_DEADLOCK FALSE

SPECIFICATION Spec
CONSTANTS
  ann = ann
  bob = bob
  cleo = cleo
  c1 = c1
  c2 = c2
  c3 = c3
  h1 = h1
  h2 = h2
  None = None
  Users <- ThreeUsers
  Handlers <- TwoHandlers
  Permissions <- SomePermissions
  ImpliedBy <- Implications
  Grants <- SomeGrants
  Changes <- SomeChanges
  Categories <- ThreeCategories
  MaxChecks = 2
  MaxVariants = 2
  MaxDepth = 4
  Scenarios <- Beginnings
INVARIANTS TypeOK OwnerLeft Delegation ErasedStaysOut SellsOnEvidence PublicIsApproved CategoryTree
SYMMETRY Symmetry
CHECK_DEADLOCK FALSE

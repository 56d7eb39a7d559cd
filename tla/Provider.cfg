SPECIFICATION Spec
CONSTANTS
  Listings = {l1}
  Escrows = {e1}
  Requests = {r1, r2}
  ListingOf <- OneListing
  Eligible = {e1}
  Insured = {e1}
  ShippingProviders = {"envio"}
  Methods = {}
  Sandbox = FALSE
  Bodies <- ProviderBodies
  OwnerStatuses = {}
  AdminStatuses = {}
INVARIANTS
  HeldFundsHaveLiveEscrow
  NothingMovesBeforeCapture
  PolicyOnlyAfterCapture
  HeldMoneyHasAnExit
  WorkIsAssigned
SYMMETRY RequestSymmetry
CHECK_DEADLOCK FALSE

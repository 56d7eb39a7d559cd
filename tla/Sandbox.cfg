SPECIFICATION Spec
CONSTANTS
  Listings = {l1}
  Escrows = {e1}
  Requests = {r1, r2}
  ListingOf <- OneListing
  Eligible = {e1}
  Insured = {}
  ShippingProviders = {"envio", "encuentro"}
  Methods = {"COURIER", "SAFE_MEETING"}
  Sandbox = TRUE
  Bodies = {}
  OwnerStatuses = {"PUBLISHED"}
  AdminStatuses = {}
INVARIANTS
  TypeOK
  HeldFundsHaveLiveEscrow
  NothingMovesBeforeCapture
  ParkedListingHasLiveEscrow
  BuyerCanComplain
PROPERTIES
  SettlementIsFinal
  ImplementsCustody
SYMMETRY RequestSymmetry
CHECK_DEADLOCK FALSE

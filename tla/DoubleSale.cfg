SPECIFICATION Spec
CONSTANTS
  Listings = {l1}
  Escrows = {e1, e2}
  Requests = {r1, r2}
  ListingOf <- OneListing
  Eligible = {e1, e2}
  Insured = {}
  ShippingProviders = {"envio"}
  Methods = {}
  Sandbox = TRUE
  Bodies = {}
  OwnerStatuses = {}
  AdminStatuses = {}
INVARIANTS
  OneLiveEscrowPerListing
SYMMETRY RequestSymmetry
CHECK_DEADLOCK FALSE

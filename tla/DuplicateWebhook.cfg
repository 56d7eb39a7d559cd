SPECIFICATION Spec
CONSTANTS
  Listings = {l1}
  Escrows = {e1}
  Requests = {r1, r2}
  ListingOf <- OneListing
  Eligible = {e1}
  Insured = {}
  ShippingProviders = {"envio"}
  Methods = {}
  Sandbox = FALSE
  Bodies <- CaptureBodies
  OwnerStatuses = {}
  AdminStatuses = {}
INVARIANTS
  EventAppliedOnce
SYMMETRY RequestSymmetry
CHECK_DEADLOCK FALSE

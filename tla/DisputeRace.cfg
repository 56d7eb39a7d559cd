SPECIFICATION Spec
CONSTANTS
  Listings = {l1}
  Escrows = {e1}
  Requests = {r1, r2}
  ListingOf <- OneListing
  Eligible = {e1}
  Insured = {}
  ShippingProviders = {"encuentro"}
  Methods = {}
  Sandbox = TRUE
  Bodies = {}
  OwnerStatuses = {}
  AdminStatuses = {}
PROPERTIES
  DisputeFreezesFunds
SYMMETRY RequestSymmetry
CHECK_DEADLOCK FALSE

SPECIFICATION Spec
CONSTANTS
  Listings = {l1}
  Escrows = {e1, e2, e3}
  Requests = {r1}
  ListingOf <- OneListing
  Eligible = {e1, e2}
  Insured = {}
  ShippingProviders = {"envio"}
  Methods = {"SAFE_MEETING"}
  Sandbox = TRUE
  Bodies = {}
  OwnerStatuses = {"PUBLISHED"}
  AdminStatuses = {"PAUSED"}
INVARIANTS
  LegacyStatusAgrees
  ParkedListingHasLiveEscrow
  OffersAreAccepted
PROPERTIES
  ImplementsSerialCustody
CHECK_DEADLOCK FALSE

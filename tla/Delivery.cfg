SPECIFICATION FairSpec
CONSTANTS
  Listings = {l1}
  Escrows = {e1}
  Requests = {r1}
  ListingOf <- OneListing
  Eligible = {e1}
  Insured = {}
  ShippingProviders = {"envio"}
  Methods = {}
  Sandbox = FALSE
  Bodies <- DeliveryBodies
  OwnerStatuses = {}
  AdminStatuses = {}
INVARIANTS
  EventAppliedOnce
PROPERTIES
  EveryNotificationStored
CHECK_DEADLOCK FALSE

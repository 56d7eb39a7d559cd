SPECIFICATION FairSpec
CONSTANTS
  Listings = {l1}
  Escrows = {e1}
  Requests = {r1}
  ListingOf <- OneListing
  Eligible = {e1}
  Insured = {e1}
  ShippingProviders = {"envio"}
  Methods = {}
  Sandbox = FALSE
  Bodies <- CaptureBodies
  OwnerStatuses = {}
  AdminStatuses = {}
PROPERTIES
  PaidInsuranceIsIssued
CHECK_DEADLOCK FALSE

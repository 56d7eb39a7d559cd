SPECIFICATION Spec
CONSTANTS
  Calls = {c1, c2}
  Pages = {p1}
  v1 = v1
  v2 = v2
  Values <- MCValues
  Blank = blank
  Keep = keep
  DefaultProof = v1
  FormProof = v1
  MinPhotos = 2
  MaxPhotos = 2
  MaxDrafts = 3
  FirstDrafts <- MCFirstDrafts
  MaxEdits = 1
  MaxSends = 3
INVARIANTS
  TypeOK
  ListingsBounded
  OpenDraftsBounded
  PublishedIffListed
  ListingsComplete
  PageAgrees
  PriceFollowsTerms
  PublishingWaits
PROPERTIES
  PublishedAsReviewed
SYMMETRY CallSymmetry
CHECK_DEADLOCK FALSE

-------------------------- MODULE MCListingWizard ---------------------------
(* ListingWizard for TLC.                                                    *)
EXTENDS ListingWizard, TLC

CONSTANTS v1, v2

MCValues == {v1, v2}

\* A draft ready to publish.
Ready ==
  [FreeRow EXCEPT !.status = "OPEN", !.sheet = v1, !.proof = v1, !.terms = v1, !.price = v1,
                  !.photos = MinPhotos]

MCFirstDrafts == {Ready}

CallSymmetry == Permutations(Calls)
=============================================================================

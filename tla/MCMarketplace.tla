--------------------------- MODULE MCMarketplace ----------------------------
(* Marketplace for TLC: every checkout of a run buys the same listing.       *)
EXTENDS OperationPages, TLC

OneListing == [e \in Escrows |-> CHOOSE l \in Listings : TRUE]

\* The word and the event id of a body whose status the adapter translates.
Adapted(word, id) == [field |-> "state", word |-> word, id |-> id]

\* The word and the event id of a body with a `status` of its own.
Raw(word, id) == [field |-> "status", word |-> word, id |-> id]

CaptureBodies == {Adapted("APPROVED", "ev1")}

ProviderBodies ==
  {Adapted("APPROVED", "ev1"), Adapted("CHARGEBACK", "ev2"), Adapted("IN_DISPUTE", "ev3"),
   Adapted("AUTHORIZED", "ev4")}

\* A capture and a failure under the id of the payment, one under an id of its own, and a
\* capture nobody translates.
DeliveryBodies ==
  {Adapted("APPROVED", "pay"), Adapted("REJECTED", "pay"), Adapted("REJECTED", "ev1"),
   Raw("APPROVED", "ev2")}

RequestSymmetry == Permutations(Requests)
=============================================================================

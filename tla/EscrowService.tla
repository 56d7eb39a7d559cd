--------------------------- MODULE EscrowService ----------------------------
(***************************************************************************)
(* EscrowService: the handlers that create an operation and move it to     *)
(* delivery, release, dispute, cancellation and resolution, and the        *)
(* delivery proposals that redirect it.                                    *)
(*                                                                         *)
(* A handler is two actions.  The first is everything before the           *)
(* transaction: getEscrowById, the guards, and the values computed from    *)
(* that copy of the row.  The second, named ...Tx, is the transaction: it  *)
(* re-reads nothing and updates by primary key, whatever other requests    *)
(* have done since.  Who calls is left out: each handler admits somebody   *)
(* in every state, except that a checkout needs a caller who is a USER and *)
(* two parties who may trade.                                              *)
(* Events, order history, notifications and e-mails are left out.          *)
(* The guard of a handler has a name, May..., because the pages of the web *)
(* application are compared with it.                                       *)
(***************************************************************************)
EXTENDS MarketTables

\* A fresh primary key: no row has it and no request is about to insert it.
Fresh(e) ==
  /\ paymentStatus[e] = "NONE"
  /\ \A q \in Requests : job[q] # [op |-> "checkout", e |-> e]

\* The role and the standing of the parties are checked here and not in the transaction.
MayBuy(e) ==
  /\ Fresh(e)
  /\ e \in Eligible
  /\ listingStatus[ListingOf[e]] = "PUBLISHED"

\* createCheckout / createEscrow up to the transaction.
CreateCheckout(r, e) ==
  /\ MayBuy(e)
  /\ Begin(r, [op |-> "checkout", e |-> e])

\* The escrow row is inserted and the listing reserved in one transaction; the request
\* goes on to create the payment intent in a write of its own.
CreateEscrowTx(r) ==
  /\ job[r].op = "checkout"
  /\ LET e == job[r].e IN
     /\ \E label \in ShippingProviders :
          shippingProvider' = [shippingProvider EXCEPT ![e] = label]
     /\ SetEscrow(e, "PAYMENT_PENDING", "NULL", "FUNDS_PENDING")
     /\ SetListing(e, "RESERVED")
     /\ Continue(r, [op |-> "createIntent", e |-> e])
  /\ UNCHANGED <<intentVars, proposals, paymentEvents, policies, sent>>

-----------------------------------------------------------------------------
(* Shipping                                                                  *)

\* Fault: goods may be dispatched before they are paid.
MarkShippedUnpaid(r, e) ==
  /\ paymentStatus[e] \in {"PAYMENT_PENDING", "PAYMENT_RECEIVED"}
  /\ Begin(r, [op |-> "ship", e |-> e, ship |-> "IN_TRANSIT"])

MayShip(e) == paymentStatus[e] = "PAYMENT_RECEIVED"

MarkShipped(r, e) ==
  /\ MayShip(e)
  /\ Begin(r, [op |-> "ship", e |-> e,
               ship |-> IF shippingStatus[e] = "WAITING_MEETING" THEN "AT_MEETING_POINT"
                        ELSE "IN_TRANSIT"])

\* The summary column is derived from the payment status the guard read, which was
\* PAYMENT_RECEIVED; the payment column itself is not written.
MarkShippedTx(r) ==
  /\ job[r].op = "ship"
  /\ LET e == job[r].e
         ship == job[r].ship
     IN SetEscrow(e, paymentStatus[e], ship,
                  DeriveLegacyEscrowStatus("PAYMENT_RECEIVED", ship))
  /\ Finish(r)
  /\ UNCHANGED <<intentVars, listingStatus, shippingProvider, proposals, paymentEvents,
                 policies, sent>>

\* Only the shipping status is looked at: any payment status passes.
MayConfirm(e) ==
  shippingStatus[e] \in {"IN_TRANSIT", "READY_FOR_PICKUP", "WAITING_MEETING",
                         "AT_MEETING_POINT"}

ConfirmDelivery(r, e) ==
  /\ MayConfirm(e)
  /\ Begin(r, [op |-> "confirm", e |-> e,
               ship |-> IF shippingStatus[e] \in {"WAITING_MEETING", "AT_MEETING_POINT"}
                        THEN "QR_CONFIRMED" ELSE "DELIVERED"])

\* A safe meeting releases the money at once; otherwise it becomes ready to release.
ConfirmDeliveryTx(r) ==
  /\ job[r].op = "confirm"
  /\ LET e == job[r].e IN
     \/ /\ job[r].ship = "QR_CONFIRMED"
        /\ SetEscrow(e, "PAYMENT_RELEASED", "QR_CONFIRMED", "RELEASED")
        /\ MarkPaymentsReleased(e)
        /\ SellListing(e)
     \/ /\ job[r].ship = "DELIVERED"
        /\ SetEscrow(e, "PAYMENT_RECEIVED", "DELIVERED", "DELIVERED")
        /\ MarkPaymentsReadyToRelease(e)
        /\ UNCHANGED listingStatus
  /\ Finish(r)
  /\ UNCHANGED <<fundsHeldAt, shippingProvider, proposals, paymentEvents, policies, sent>>

-----------------------------------------------------------------------------
(* Settlement                                                                *)

\* releaseEligibleAt, the end of the buyer's 48 hours, is not looked at.
MayRelease(e) ==
  paymentStatus[e] = "PAYMENT_RECEIVED" /\ shippingStatus[e] = "DELIVERED"

ReleaseFunds(r, e) ==
  /\ MayRelease(e)
  /\ Begin(r, [op |-> "release", e |-> e])

ReleaseFundsTx(r) ==
  /\ job[r].op = "release"
  /\ LET e == job[r].e IN
     /\ SetEscrow(e, "PAYMENT_RELEASED", shippingStatus[e], "RELEASED")
     /\ SellListing(e)
     /\ MarkPaymentsReleased(e)
  /\ Finish(r)
  /\ UNCHANGED <<fundsHeldAt, shippingProvider, proposals, paymentEvents, policies, sent>>

\* Fault: an operation nobody has paid may be disputed.
OpenDisputeUnpaid(r, e) ==
  /\ paymentStatus[e] \in {"PAYMENT_PENDING", "PAYMENT_RECEIVED"}
  /\ Begin(r, [op |-> "dispute", e |-> e])

MayDispute(e) == paymentStatus[e] = "PAYMENT_RECEIVED"

OpenDispute(r, e) ==
  /\ MayDispute(e)
  /\ Begin(r, [op |-> "dispute", e |-> e])

OpenDisputeTx(r) ==
  /\ job[r].op = "dispute"
  /\ LET e == job[r].e IN
     /\ SetEscrow(e, "DISPUTED", shippingStatus[e], "DISPUTED")
     /\ SetListing(e, "UNDER_REVIEW")
     /\ MarkPaymentsDisputed(e)
  /\ Finish(r)
  /\ UNCHANGED <<fundsHeldAt, shippingProvider, proposals, paymentEvents, policies, sent>>

MayCancel(e) == paymentStatus[e] \in {"PAYMENT_PENDING", "PAYMENT_RECEIVED", "DISPUTED"}

\* A pending operation is cancelled, a paid one refunded.
CancelEscrow(r, e) ==
  /\ MayCancel(e)
  /\ Begin(r, [op |-> "cancel", e |-> e,
               pay |-> IF paymentStatus[e] = "PAYMENT_PENDING" THEN "PAYMENT_CANCELLED"
                       ELSE "PAYMENT_REFUNDED"])

CancelEscrowTx(r) ==
  /\ job[r].op = "cancel"
  /\ LET e == job[r].e
         pay == job[r].pay
     IN /\ SetEscrow(e, pay, shippingStatus[e],
                     IF pay = "PAYMENT_CANCELLED" THEN "CANCELLED" ELSE "REFUNDED")
        /\ RepublishListing(e)
        /\ MarkPaymentsRefunded(e)
  /\ Finish(r)
  /\ UNCHANGED <<fundsHeldAt, shippingProvider, proposals, paymentEvents, policies, sent>>

MayResolve(e) == paymentStatus[e] = "DISPUTED"

ResolveDispute(r, e) ==
  /\ MayResolve(e)
  /\ \E outcome \in {"PAYMENT_RELEASED", "PAYMENT_REFUNDED"} :
       Begin(r, [op |-> "resolve", e |-> e, pay |-> outcome])

ResolveDisputeTx(r) ==
  /\ job[r].op = "resolve"
  /\ LET e == job[r].e IN
     \/ /\ job[r].pay = "PAYMENT_RELEASED"
        /\ SetEscrow(e, "PAYMENT_RELEASED", shippingStatus[e], "RELEASED")
        /\ SellListing(e)
        /\ MarkPaymentsReleased(e)
     \/ /\ job[r].pay = "PAYMENT_REFUNDED"
        /\ SetEscrow(e, "PAYMENT_REFUNDED", shippingStatus[e], "REFUNDED")
        /\ RepublishListing(e)
        /\ MarkPaymentsRefunded(e)
  /\ Finish(r)
  /\ UNCHANGED <<fundsHeldAt, shippingProvider, proposals, paymentEvents, policies, sent>>

-----------------------------------------------------------------------------
(* Delivery proposals                                                        *)

\* The guard and the insert are one step: nothing in between reads the new row, and an
\* answer does not look at the payment status, so a later insert changes nothing.  One
\* proposal of each method is enough for the answers to race.
CreateDeliveryProposal(e, method) ==
  /\ paymentStatus[e] = "PAYMENT_RECEIVED"
  /\ proposals[e][method] = "NONE"
  /\ proposals' = [proposals EXCEPT ![e][method] = "PENDING"]
  /\ UNCHANGED <<escrowVars, intentVars, listingStatus, shippingProvider, paymentEvents,
                 policies, sent, job>>

\* The payment status is not a guard of an answer; it decides what the answer will write.
MayAnswer(e, method) == paymentStatus[e] # "NONE" /\ proposals[e][method] = "PENDING"

RespondDeliveryProposal(r, e, method) ==
  /\ MayAnswer(e, method)
  /\ \/ Begin(r, [op |-> "accept", e |-> e, method |-> method,
                  pay |-> paymentStatus[e],
                  ship |-> IF paymentStatus[e] = "PAYMENT_RECEIVED"
                           THEN GetInitialShippingStatus(MethodLabel(method))
                           ELSE shippingStatus[e]])
     \/ Begin(r, [op |-> "decline", e |-> e, method |-> method])

AcceptDeliveryProposalTx(r) ==
  /\ job[r].op = "accept"
  /\ LET e == job[r].e
         j == job[r]
     IN /\ proposals' = [proposals EXCEPT ![e][j.method] = "ACCEPTED"]
        /\ shippingProvider' = [shippingProvider EXCEPT ![e] = MethodLabel(j.method)]
        /\ SetEscrow(e, paymentStatus[e], j.ship, DeriveLegacyEscrowStatus(j.pay, j.ship))
  /\ Finish(r)
  /\ UNCHANGED <<intentVars, listingStatus, paymentEvents, policies, sent>>

DeclineDeliveryProposalTx(r) ==
  /\ job[r].op = "decline"
  /\ proposals' = [proposals EXCEPT ![job[r].e][job[r].method] = "DECLINED"]
  /\ Finish(r)
  /\ UNCHANGED <<escrowVars, intentVars, listingStatus, shippingProvider, paymentEvents,
                 policies, sent>>
=============================================================================

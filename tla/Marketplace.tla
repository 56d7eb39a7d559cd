---------------------------- MODULE Marketplace -----------------------------
(***************************************************************************)
(* The escrow and payments services at work on the same rows, with the     *)
(* listing edits of owners and administrators and with requests that fail  *)
(* between their writes.                                                   *)
(***************************************************************************)
EXTENDS EscrowService, PaymentsService

CONSTANTS
  OwnerStatuses,   \* statuses owners set on their listings: subset of {PUBLISHED, PAUSED}
  AdminStatuses    \* statuses administrators set on listings

ASSUME OwnerStatusesType == OwnerStatuses \subseteq {"PUBLISHED", "PAUSED"}
ASSUME AdminStatusesType == AdminStatuses \subseteq ListingStatus

\* updateListing by its owner: the target is checked, the current status is not.
UpdateListing(l) ==
  /\ \E status \in OwnerStatuses : listingStatus' = [listingStatus EXCEPT ![l] = status]
  /\ UNCHANGED <<escrowVars, intentVars, shippingProvider, proposals, paymentEvents,
                 policies, sent, job>>

\* updateStatus by an administrator: any status.
UpdateListingStatus(l) ==
  /\ \E status \in AdminStatuses : listingStatus' = [listingStatus EXCEPT ![l] = status]
  /\ UNCHANGED <<escrowVars, intentVars, shippingProvider, proposals, paymentEvents,
                 policies, sent, job>>

\* A request dies between two writes: an exception, a lost connection, a deadlock victim
\* or a crash of the server.  What it committed stays; what it had left to do is lost.
AbortRequest(r) ==
  /\ job[r] # Idle
  /\ Finish(r)
  /\ UNCHANGED <<tables, sent>>

Init ==
  /\ listingStatus = [l \in Listings |-> "PUBLISHED"]
  /\ paymentStatus = [e \in Escrows |-> "NONE"]
  /\ shippingStatus = [e \in Escrows |-> "NULL"]
  /\ escrowStatus = [e \in Escrows |-> "NONE"]
  /\ shippingProvider = [e \in Escrows |-> "envio"]
  /\ proposals = [e \in Escrows |-> [m \in Methods |-> "NONE"]]
  /\ intentStatus = [e \in Escrows |-> "NONE"]
  /\ fundsHeldAt = [e \in Escrows |-> FALSE]
  /\ paymentEvents = [ev \in Events |-> 0]
  /\ policies = {}
  /\ sent = {}
  /\ job = [r \in Requests |-> Idle]

\* A handler called on an operation.
Call(r, e) ==
  \/ CreateCheckout(r, e)
  \/ MarkShipped(r, e)
  \/ ConfirmDelivery(r, e)
  \/ ReleaseFunds(r, e)
  \/ OpenDispute(r, e)
  \/ CancelEscrow(r, e)
  \/ ResolveDispute(r, e)
  \/ ApproveSandboxPayment(r, e)
  \/ \E m \in Methods : RespondDeliveryProposal(r, e, m)

\* The next write of a request in flight.
Write(r) ==
  \/ CreateEscrowTx(r)
  \/ CreatePaymentIntent(r)
  \/ MarkShippedTx(r)
  \/ ConfirmDeliveryTx(r)
  \/ ReleaseFundsTx(r)
  \/ OpenDisputeTx(r)
  \/ CancelEscrowTx(r)
  \/ ResolveDisputeTx(r)
  \/ AcceptDeliveryProposalTx(r)
  \/ DeclineDeliveryProposalTx(r)
  \/ ApproveSandboxPaymentTx(r)
  \/ ApplyWebhookStatusTx(r)
  \/ IssuePolicy(r)

Next ==
  \/ \E r \in Requests, e \in Escrows : Call(r, e)
  \/ \E r \in Requests : Write(r)
  \/ \E r \in Requests, ev \in Events : ReceiveWebhook(r, ev)
  \/ \E r \in Requests : AbortRequest(r)
  \/ \E e \in Escrows, m \in Methods : CreateDeliveryProposal(e, m)
  \/ \E ev \in Events : ProviderReports(ev)
  \/ \E l \in Listings : UpdateListing(l)
  \/ \E l \in Listings : UpdateListingStatus(l)

Spec == Init /\ [][Next]_vars

\* A request in flight comes to an end: it writes or it dies.
RequestsEnd == \A r \in Requests : WF_vars(Write(r) \/ AbortRequest(r))

\* The provider sends a notification again until one of its deliveries is acknowledged,
\* and not every delivery that could commit dies on the way to its transaction.  This
\* promises nothing of a notification the database refuses: its transaction never can.
ProviderRetries ==
  \A ev \in Events :
    /\ SF_vars(\E r \in Requests : ReceiveWebhook(r, ev))
    /\ SF_vars(\E r \in Requests :
               job[r] = [op |-> "webhook", event |-> ev] /\ ApplyWebhookStatusTx(r))

FairSpec == Spec /\ RequestsEnd /\ ProviderRetries

-----------------------------------------------------------------------------
(* What the marketplace keeps, whatever requests overlap.                    *)

Live == {"PAYMENT_PENDING", "PAYMENT_RECEIVED", "DISPUTED"}

\* The buyer's money was taken: by the sandbox, or by the provider, who says so under
\* some event even if that event has not arrived yet.
Captured(e) ==
  \/ fundsHeldAt[e]
  \/ \E ev \in sent : ev.e = e /\ GetPaymentStatus(ev.status) = "FUNDS_HELD"

\* Money held for an operation always belongs to an escrow that is still open: no
\* settled or cancelled operation leaves a payment held, ready or frozen behind it.
HeldFundsHaveLiveEscrow ==
  \A e \in Escrows :
    intentStatus[e] \in {"FUNDS_HELD", "READY_TO_RELEASE", "DISPUTED"} =>
      paymentStatus[e] \in {"PAYMENT_RECEIVED", "DISPUTED"}

\* No good is dispatched and no operation is paid, disputed, released or refunded unless
\* the buyer's money was captured, however webhooks and requests overtake each other.
NothingMovesBeforeCapture ==
  \A e \in Escrows :
    (\/ paymentStatus[e] \in {"PAYMENT_RECEIVED", "DISPUTED", "PAYMENT_RELEASED",
                              "PAYMENT_REFUNDED"}
     \/ shippingStatus[e] # "NULL"
     \/ intentStatus[e] = "RELEASED")
    => Captured(e)

\* A listing taken off the market by a purchase or a dispute has an open operation that
\* can still sell it or put it back: no settlement strands it.
ParkedListingHasLiveEscrow ==
  \A l \in Listings :
    listingStatus[l] \in {"RESERVED", "UNDER_REVIEW"} =>
      \E e \in Escrows : ListingOf[e] = l /\ paymentStatus[e] \in Live

\* A policy exists only for an insured operation whose payment was captured.
PolicyOnlyAfterCapture ==
  \A e \in policies : e \in Insured /\ fundsHeldAt[e]

\* Money paid out or returned is moved again by no handler of the escrow service: only a
\* payment reported or approved anew can reopen it.
SettlementIsFinal ==
  [][\A e \in Escrows :
       /\ intentStatus[e] \in {"RELEASED", "REFUNDED"}
       /\ intentStatus'[e] # intentStatus[e]
       => \E r \in Requests : ApproveSandboxPaymentTx(r) \/ ApplyWebhookStatusTx(r)]_vars

\* The legacy status column says what the two status columns say.
LegacyStatusAgrees ==
  \A e \in Escrows :
    paymentStatus[e] # "NONE" =>
      escrowStatus[e] = DeriveLegacyEscrowStatus(paymentStatus[e], shippingStatus[e])

\* Whatever event id a provider reports ends up in the payment's history, even when
\* deliveries of it die half way and other requests close the operation meanwhile.  Less
\* than QA_PRE_BETA.md expects of a signed webhook, by two exceptions: a word that reaches
\* the database untranslated is never stored, and of the statuses reported under one id
\* only the first to arrive is.
EveryNotificationStored ==
  \A ev \in Events :
    ev.status \in PaymentStatus => (ev \in sent ~> ExistingEvent(ev))

-----------------------------------------------------------------------------
(* Refinement: where the money is.                                           *)

Place(status) ==
  CASE status \in {"FUNDS_HELD", "READY_TO_RELEASE"} -> "held"
    [] status = "DISPUTED" -> "frozen"
    [] status = "RELEASED" -> "seller"
    [] status = "REFUNDED" -> "buyer"
    [] OTHER -> "none"

openOperations == {e \in Escrows : paymentStatus[e] \in Live}
moneyPlaces == [e \in Escrows |-> Place(intentStatus[e])]

Custody == INSTANCE Custody WITH
  Operations <- Escrows, LateCapture <- TRUE, open <- openOperations, money <- moneyPlaces

SerialCustody == INSTANCE Custody WITH
  Operations <- Escrows, LateCapture <- FALSE, open <- openOperations, money <- moneyPlaces

\* With the sandbox provider every step of the services is a step of Custody.
ImplementsCustody == Custody!Spec

\* When requests do not overlap, no capture ever lands on settled money.
ImplementsSerialCustody == SerialCustody!Spec

-----------------------------------------------------------------------------
(* What the repository says of the program and the code does not keep.       *)

\* "While support reviews ... the funds stay held and neither party receives the money":
\* a disputed payment reaches the seller only through the resolution of the dispute.
DisputeFreezesFunds ==
  [][\A e \in Escrows :
       paymentStatus[e] = "DISPUTED" /\ intentStatus[e] = "DISPUTED"
       /\ intentStatus'[e] = "RELEASED"
       => \E r \in Requests : ResolveDisputeTx(r)]_vars

\* "The listing is reserved / not available for another purchase": at most one open
\* operation per listing.
OneLiveEscrowPerListing ==
  \A e, f \in Escrows :
    /\ ListingOf[e] = ListingOf[f]
    /\ paymentStatus[e] \in Live
    /\ paymentStatus[f] \in Live
    => e = f

\* "A duplicated webhook with the same eventId does not duplicate effects": an event id
\* has one row in the history of its payment, with one of the statuses reported under it.
EventAppliedOnce ==
  \A ev, other \in Events :
    /\ ev.e = other.e /\ ev.id = other.id
    /\ paymentEvents[ev] > 0 /\ paymentEvents[other] > 0
    => ev = other /\ paymentEvents[ev] = 1

\* "A confirmed payment issues the policy automatically": an insured operation whose
\* payment is recorded as captured eventually has its policy.
PaidInsuranceIsIssued ==
  \A e \in Insured : fundsHeldAt[e] ~> e \in policies
=============================================================================

---------------------------- MODULE MarketTables ----------------------------
(***************************************************************************)
(* The rows of the database that a protected purchase touches, one         *)
(* variable per column, and the requests the API is serving.  A row is     *)
(* named by its key: an escrow is one checkout of one listing, and since   *)
(* only createCheckout creates payment intents, one per escrow, the intent *)
(* of an escrow is named by the escrow.                                    *)
(*                                                                         *)
(* Every handler of the escrow and payments services reads its row, checks *)
(* its guards on that copy, and only then opens the transaction that       *)
(* writes: `job` holds what a request has decided between the two.         *)
(***************************************************************************)
EXTENDS Naturals, FiniteSets

CONSTANTS
  Listings,          \* listings on the market
  Escrows,           \* checkout attempts; each becomes at most one escrow row
  ListingOf,         \* the listing each checkout buys
  Eligible,          \* the checkouts tried by a USER while both parties may trade
  Insured,           \* the checkouts made with insuranceSelected
  ShippingProviders, \* the delivery labels buyers pick: subset of {"envio", "encuentro"}
  Methods,           \* delivery methods sellers propose: subset of {"COURIER", "SAFE_MEETING"}
  Requests,          \* requests in flight at once
  Sandbox,           \* TRUE: PAYMENT_PROVIDER=SANDBOX; FALSE: an external provider
  Bodies             \* webhook bodies the external provider sends: field, word and id

ASSUME ListingOfType == ListingOf \in [Escrows -> Listings]
\* Both ACTIVE, both with KYC APPROVED.  An account may gain or lose that, but a checkout is
\* one attempt and meets the accounts as they are then.
ASSUME EligibleType == Eligible \subseteq Escrows
ASSUME InsuredType == Insured \subseteq Escrows
ASSUME ShippingProvidersType ==
  ShippingProviders \subseteq {"envio", "encuentro"} /\ ShippingProviders # {}
ASSUME MethodsType == Methods \subseteq {"COURIER", "SAFE_MEETING"}
ASSUME SandboxType == Sandbox \in BOOLEAN

-----------------------------------------------------------------------------
(* The enumerations of schema.prisma.  "NONE" is a row not yet created and   *)
(* "NULL" a column that holds null.                                          *)

EscrowPaymentStatus ==
  {"PAYMENT_PENDING", "PAYMENT_RECEIVED", "PAYMENT_RELEASED", "DISPUTED",
   "PAYMENT_CANCELLED", "PAYMENT_REFUNDED"}

EscrowShippingStatus ==
  {"WAITING_DISPATCH", "IN_TRANSIT", "READY_FOR_PICKUP", "DELIVERED", "RETURNING",
   "WAITING_MEETING", "AT_MEETING_POINT", "QR_CONFIRMED"}

EscrowStatus ==
  {"FUNDS_PENDING", "FUNDS_HELD", "SHIPPED", "DELIVERED", "DISPUTED", "RELEASED",
   "CANCELLED", "REFUNDED"}

PaymentStatus ==
  {"PAYMENT_PENDING", "PAYMENT_APPROVED", "FUNDS_HELD", "READY_TO_RELEASE",
   "RELEASED", "REFUNDED", "DISPUTED", "FAILED"}

ListingStatus ==
  {"DRAFT", "PUBLISHED", "RESERVED", "SOLD", "PAUSED", "UNDER_REVIEW", "REMOVED"}

ProposalStatus == {"NONE", "PENDING", "ACCEPTED", "DECLINED"}

\* Each provider has words of its own; one that is not known stands for a payment still
\* pending, whatever has been reported of it before.
GetPaymentStatus(word) ==
  CASE word \in PaymentStatus -> word
    [] word \in {"APPROVED", "PAID", "SUCCESS", "SUCCEEDED"} -> "FUNDS_HELD"
    [] word \in {"REJECTED", "CANCELLED", "CANCELED", "EXPIRED"} -> "FAILED"
    [] word = "CHARGEBACK" -> "REFUNDED"
    [] word = "IN_DISPUTE" -> "DISPUTED"
    [] OTHER -> "PAYMENT_PENDING"

\* A body that names its word `status` is taken for the marketplace's own DTO and not
\* translated; under `state` (or providerStatus, payment_status, rawPayload.status) the
\* adapter translates it.
WebhookStatus(body) ==
  IF body.field = "status" THEN body.word ELSE GetPaymentStatus(body.word)

WebhookStatuses == {WebhookStatus(body) : body \in Bodies}
EventIds == {body.id : body \in Bodies}

\* What a delivery reports: the payment, its status and providerEventId.  The id may be the
\* payment's own, the same for each of its statuses; a body without any id gets a
\* timestamp, so that each delivery of it has an id of its own.
Events ==
  {ev \in [e : Escrows, status : WebhookStatuses, id : EventIds] :
     \E body \in Bodies : body.id = ev.id /\ WebhookStatus(body) = ev.status}

\* READY_TO_RELEASE and RELEASED are the marketplace's own bookkeeping: no provider
\* speaks of them, though the webhook would take them.
ASSUME BodiesType ==
  /\ \A body \in Bodies : body.field \in {"status", "state"}
  /\ WebhookStatuses \cap {"READY_TO_RELEASE", "RELEASED"} = {}

-----------------------------------------------------------------------------
(* What a request holds between its guards and its transaction.              *)

Idle == [op |-> "idle"]

Jobs ==
       [op : {"checkout", "createIntent", "release", "dispute", "approve", "issuePolicy"},
        e : Escrows]
  \cup [op : {"ship"}, e : Escrows, ship : {"AT_MEETING_POINT", "IN_TRANSIT"}]
  \cup [op : {"confirm"}, e : Escrows, ship : {"QR_CONFIRMED", "DELIVERED"}]
  \cup [op : {"cancel"}, e : Escrows, pay : {"PAYMENT_CANCELLED", "PAYMENT_REFUNDED"}]
  \cup [op : {"resolve"}, e : Escrows, pay : {"PAYMENT_RELEASED", "PAYMENT_REFUNDED"}]
  \cup [op : {"accept"}, e : Escrows, method : Methods,
        pay : EscrowPaymentStatus, ship : EscrowShippingStatus \cup {"NULL"}]
  \cup [op : {"decline"}, e : Escrows, method : Methods]
  \cup [op : {"webhook"}, event : Events]

VARIABLES
  listingStatus,     \* Listing.status
  paymentStatus,     \* EscrowTransaction.paymentStatus
  shippingStatus,    \* EscrowTransaction.shippingStatus
  escrowStatus,      \* EscrowTransaction.status, the legacy summary column
  shippingProvider,  \* EscrowTransaction.shippingProvider: does it say "encuentro"?
  proposals,         \* EscrowDeliveryProposal.status, by escrow and method
  intentStatus,      \* PaymentIntent.status
  fundsHeldAt,       \* PaymentIntent.fundsHeldAt # null
  paymentEvents,     \* how many PaymentEvent rows record each delivery
  policies,          \* escrows with an InsurancePolicy row (escrowId is unique)
  sent,              \* notifications the external provider has issued
  job                \* what each request in flight is about to write

escrowVars  == <<paymentStatus, shippingStatus, escrowStatus>>
intentVars  == <<intentStatus, fundsHeldAt>>
tables == <<listingStatus, paymentStatus, shippingStatus, escrowStatus, shippingProvider,
            proposals, intentStatus, fundsHeldAt, paymentEvents, policies>>
vars == <<listingStatus, paymentStatus, shippingStatus, escrowStatus, shippingProvider,
          proposals, intentStatus, fundsHeldAt, paymentEvents, policies, sent, job>>

TypeOK ==
  /\ listingStatus \in [Listings -> ListingStatus]
  /\ paymentStatus \in [Escrows -> EscrowPaymentStatus \cup {"NONE"}]
  /\ shippingStatus \in [Escrows -> EscrowShippingStatus \cup {"NULL"}]
  /\ escrowStatus \in [Escrows -> EscrowStatus \cup {"NONE"}]
  /\ shippingProvider \in [Escrows -> {"envio", "encuentro"}]
  /\ proposals \in [Escrows -> [Methods -> ProposalStatus]]
  /\ intentStatus \in [Escrows -> PaymentStatus \cup {"NONE"}]
  /\ fundsHeldAt \in [Escrows -> BOOLEAN]
  /\ paymentEvents \in [Events -> Nat]
  /\ policies \subseteq Escrows
  /\ sent \subseteq Events
  /\ job \in [Requests -> Jobs \cup {Idle}]

-----------------------------------------------------------------------------

\* A request that has passed its guards remembers its decision and has written nothing.
Begin(r, j) ==
  /\ job[r] = Idle
  /\ job' = [job EXCEPT ![r] = j]
  /\ UNCHANGED <<tables, sent>>

Continue(r, j) == job' = [job EXCEPT ![r] = j]

Finish(r) == job' = [job EXCEPT ![r] = Idle]

\* The job a successful capture goes on to: issuePolicyForEscrow returns at once for an
\* escrow that is not insured.
AfterCapture(e) == IF e \in Insured THEN [op |-> "issuePolicy", e |-> e] ELSE Idle

MethodLabel(method) == IF method = "SAFE_MEETING" THEN "encuentro" ELSE "envio"

\* Fault: a parcel counts as on its way from the moment it is paid.
GetInitialShippingStatusDispatched(label) ==
  IF label = "encuentro" THEN "WAITING_MEETING" ELSE "IN_TRANSIT"

GetInitialShippingStatus(label) ==
  IF label = "encuentro" THEN "WAITING_MEETING" ELSE "WAITING_DISPATCH"

\* The legacy column is a summary of the two status columns that replaced it.
DeriveLegacyEscrowStatus(pay, ship) ==
  CASE pay = "PAYMENT_PENDING"   -> "FUNDS_PENDING"
    [] pay = "PAYMENT_CANCELLED" -> "CANCELLED"
    [] pay = "PAYMENT_REFUNDED"  -> "REFUNDED"
    [] pay = "DISPUTED"          -> "DISPUTED"
    [] pay = "PAYMENT_RELEASED"  -> "RELEASED"
    [] OTHER ->
         IF ship \in {"DELIVERED", "QR_CONFIRMED"} THEN "DELIVERED"
         ELSE IF ship \in {"IN_TRANSIT", "READY_FOR_PICKUP", "AT_MEETING_POINT"}
              THEN "SHIPPED"
              ELSE "FUNDS_HELD"

\* One UPDATE of an escrow's three status columns.
SetEscrow(e, pay, ship, status) ==
  /\ paymentStatus'  = [paymentStatus  EXCEPT ![e] = pay]
  /\ shippingStatus' = [shippingStatus EXCEPT ![e] = ship]
  /\ escrowStatus'   = [escrowStatus   EXCEPT ![e] = status]

SetListing(e, status) ==
  listingStatus' = [listingStatus EXCEPT ![ListingOf[e]] = status]

\* Fault: the listing update is left out of the transaction.
KeepListing(e) == UNCHANGED listingStatus

SellListing(e) == SetListing(e, "SOLD")

RepublishListing(e) == SetListing(e, "PUBLISHED")

-----------------------------------------------------------------------------
(* markPayments*: the intent of the escrow moves if the query inside the     *)
(* transaction selects it.                                                   *)

MoveIntent(e, from, to) ==
  intentStatus' = [intentStatus EXCEPT ![e] = IF @ \in from THEN to ELSE @]

MarkPaymentsReadyToRelease(e) ==
  MoveIntent(e, {"FUNDS_HELD"}, "READY_TO_RELEASE")

\* Fault: the query forgets the payments confirmDelivery already made ready.
MarkPaymentsReleasedNotReady(e) ==
  MoveIntent(e, {"FUNDS_HELD", "DISPUTED"}, "RELEASED")

\* Fault: the query also selects payments already returned to the buyer.
MarkPaymentsReleasedEvenRefunded(e) ==
  MoveIntent(e, {"FUNDS_HELD", "READY_TO_RELEASE", "DISPUTED", "REFUNDED"}, "RELEASED")

MarkPaymentsReleased(e) ==
  MoveIntent(e, {"FUNDS_HELD", "READY_TO_RELEASE", "DISPUTED"}, "RELEASED")

MarkPaymentsDisputed(e) ==
  MoveIntent(e, {"FUNDS_HELD", "READY_TO_RELEASE", "PAYMENT_APPROVED"}, "DISPUTED")

\* Fault: the query forgets the payments a dispute has frozen.
MarkPaymentsRefundedNotDisputed(e) ==
  MoveIntent(e, {"PAYMENT_PENDING", "PAYMENT_APPROVED", "FUNDS_HELD", "READY_TO_RELEASE"},
             "REFUNDED")

\* Fault: the query forgets the payments nobody has approved yet.
MarkPaymentsRefundedNotPending(e) ==
  MoveIntent(e, {"PAYMENT_APPROVED", "FUNDS_HELD", "READY_TO_RELEASE", "DISPUTED"},
             "REFUNDED")

\* Fault: the escrow's refunded status is written into the intent's column.
MarkPaymentsRefundedWrongEnum(e) ==
  MoveIntent(e, {"PAYMENT_PENDING", "PAYMENT_APPROVED", "FUNDS_HELD", "READY_TO_RELEASE",
                 "DISPUTED"}, "PAYMENT_REFUNDED")

MarkPaymentsRefunded(e) ==
  MoveIntent(e, {"PAYMENT_PENDING", "PAYMENT_APPROVED", "FUNDS_HELD", "READY_TO_RELEASE",
                 "DISPUTED"}, "REFUNDED")
=============================================================================

---------------------------- MODULE MoneyProofs -----------------------------
(***************************************************************************)
(* Type correctness of Marketplace, with the facts about jobs and updates  *)
(* every later proof cites; then the inductive invariant of MoneyInvariant,*)
(* proved first for handlers that only decide (GuardsJustify, BeginKeeps), *)
(* then for transactions, at the escrow they write (RowWritten) and        *)
(* everywhere else (WriteKeeps).                                           *)
(***************************************************************************)
EXTENDS MoneyInvariant, TLAPS

\* Of the statuses that bodies report, the database takes those of the enumeration, and a
\* webhook never stores the marketplace's own.
LEMMA StoredStatuses ==
  WebhookStatuses \cap PaymentStatus \subseteq
    {"PAYMENT_PENDING", "PAYMENT_APPROVED", "FUNDS_HELD", "FAILED", "REFUNDED", "DISPUTED"}
BY BodiesType DEF PaymentStatus

\* A status of the enumeration means itself.
LEMMA StatusMeansItself ==
  ASSUME NEW status \in PaymentStatus
  PROVE  GetPaymentStatus(status) = status
BY DEF GetPaymentStatus, PaymentStatus

\* A notification is about a payment and reports what some body says.
LEMMA EventFields ==
  ASSUME NEW ev \in Events
  PROVE  ev.e \in Escrows /\ ev.status \in WebhookStatuses
BY DEF Events

\* What a job carries has the type its handler gave it.
LEMMA JobFields ==
  ASSUME NEW j \in Jobs \cup {Idle}
  PROVE  /\ j.op \in {"checkout", "createIntent", "release", "dispute", "approve",
                      "issuePolicy", "ship", "confirm", "cancel", "resolve", "accept",
                      "decline"}
            => j.e \in Escrows
         /\ j.op = "ship" => j.ship \in {"AT_MEETING_POINT", "IN_TRANSIT"}
         /\ j.op = "confirm" => j.ship \in {"QR_CONFIRMED", "DELIVERED"}
         /\ j.op = "cancel" => j.pay \in {"PAYMENT_CANCELLED", "PAYMENT_REFUNDED"}
         /\ j.op = "resolve" => j.pay \in {"PAYMENT_RELEASED", "PAYMENT_REFUNDED"}
         /\ j.op = "accept" => /\ j.method \in Methods
                               /\ j.pay \in EscrowPaymentStatus
                               /\ j.ship \in EscrowShippingStatus \cup {"NULL"}
         /\ j.op = "decline" => j.method \in Methods
         /\ j.op = "webhook" => j.event \in Events
BY DEF Jobs, Idle

\* deriveLegacyEscrowStatus always returns a status of the legacy enumeration.
LEMMA LegacyStatusType ==
  ASSUME NEW pay, NEW ship
  PROVE  DeriveLegacyEscrowStatus(pay, ship) \in EscrowStatus
BY DEF DeriveLegacyEscrowStatus, EscrowStatus

\* getInitialShippingStatus always returns a shipping status, never null.
LEMMA InitialShippingType ==
  ASSUME NEW label
  PROVE  GetInitialShippingStatus(label) \in EscrowShippingStatus \ {"NULL"}
BY DEF GetInitialShippingStatus, EscrowShippingStatus

\* An UPDATE of an escrow with values of its columns keeps the columns typed.
LEMMA SetEscrowType ==
  ASSUME TypeOK, NEW e \in Escrows, NEW pay \in EscrowPaymentStatus \cup {"NONE"},
         NEW ship \in EscrowShippingStatus \cup {"NULL"}, NEW status \in EscrowStatus,
         SetEscrow(e, pay, ship, status)
  PROVE  /\ paymentStatus' \in [Escrows -> EscrowPaymentStatus \cup {"NONE"}]
         /\ shippingStatus' \in [Escrows -> EscrowShippingStatus \cup {"NULL"}]
         /\ escrowStatus' \in [Escrows -> EscrowStatus \cup {"NONE"}]
BY DEF TypeOK, SetEscrow

\* An UPDATE of the listing a checkout buys keeps listings typed.
LEMMA SetListingType ==
  ASSUME TypeOK, NEW e \in Escrows, NEW status \in ListingStatus, SetListing(e, status)
  PROVE  listingStatus' \in [Listings -> ListingStatus]
BY ListingOfType DEF TypeOK, SetListing

\* Selling and republishing a listing keep listings typed.
LEMMA SettleListingType ==
  ASSUME TypeOK, NEW e \in Escrows, SellListing(e) \/ RepublishListing(e)
  PROVE  listingStatus' \in [Listings -> ListingStatus]
BY SetListingType DEF SellListing, RepublishListing, ListingStatus

\* Every markPayments... query leaves a payment status in the column.
LEMMA MarkPaymentsType ==
  ASSUME TypeOK, NEW e \in Escrows,
         \/ MarkPaymentsReadyToRelease(e)
         \/ MarkPaymentsReleased(e)
         \/ MarkPaymentsDisputed(e)
         \/ MarkPaymentsRefunded(e)
  PROVE  intentStatus' \in [Escrows -> PaymentStatus \cup {"NONE"}]
BY DEF TypeOK, MarkPaymentsReadyToRelease, MarkPaymentsReleased, MarkPaymentsDisputed,
       MarkPaymentsRefunded, MoveIntent, PaymentStatus

\* The empty tables are typed.
LEMMA TypeInit == Init => TypeOK
BY MethodsType DEF Init, TypeOK, Idle, ListingStatus, EscrowPaymentStatus, ProposalStatus,
   EscrowStatus

\* A handler that has passed its guards leaves a well-typed job.
LEMMA TypeCall ==
  ASSUME TypeOK, NEW r \in Requests, NEW e \in Escrows, Call(r, e)
  PROVE  TypeOK'
<1> USE DEF Begin, tables
<1>1. CASE CreateCheckout(r, e)
  BY <1>1 DEF CreateCheckout, TypeOK, Jobs
<1>2. CASE MarkShipped(r, e)
  BY <1>2 DEF MarkShipped, TypeOK, Jobs
<1>3. CASE ConfirmDelivery(r, e)
  BY <1>3 DEF ConfirmDelivery, TypeOK, Jobs
<1>4. CASE ReleaseFunds(r, e)
  BY <1>4 DEF ReleaseFunds, TypeOK, Jobs
<1>5. CASE OpenDispute(r, e)
  BY <1>5 DEF OpenDispute, TypeOK, Jobs
<1>6. CASE CancelEscrow(r, e)
  BY <1>6 DEF CancelEscrow, TypeOK, Jobs
<1>7. CASE ResolveDispute(r, e)
  BY <1>7 DEF ResolveDispute, TypeOK, Jobs
<1>8. CASE ApproveSandboxPayment(r, e)
  BY <1>8 DEF ApproveSandboxPayment, TypeOK, Jobs
<1>9. ASSUME NEW m \in Methods, RespondDeliveryProposal(r, e, m)
      PROVE  TypeOK'
  <2>1. paymentStatus[e] \in EscrowPaymentStatus
    BY <1>9 DEF RespondDeliveryProposal, MayAnswer, TypeOK
  <2>2. CASE paymentStatus[e] = "PAYMENT_RECEIVED"
    BY <1>9, <2>1, <2>2, InitialShippingType DEF RespondDeliveryProposal, TypeOK, Jobs
  <2>3. CASE paymentStatus[e] # "PAYMENT_RECEIVED"
    BY <1>9, <2>1, <2>3 DEF RespondDeliveryProposal, TypeOK, Jobs
  <2> QED BY <2>2, <2>3
<1> QED BY <1>1, <1>2, <1>3, <1>4, <1>5, <1>6, <1>7, <1>8, <1>9 DEF Call

\* Every transaction writes values of its columns.
LEMMA TypeWrite ==
  ASSUME TypeOK, NEW r \in Requests, Write(r)
  PROVE  TypeOK'
<1>0. job[r] \in Jobs \cup {Idle}
  BY DEF TypeOK
<1>a. ASSUME Finish(r)
      PROVE  job' \in [Requests -> Jobs \cup {Idle}]
  BY <1>a DEF Finish, TypeOK
<1>1. CASE CreateEscrowTx(r)
  <2>1. job[r].e \in Escrows
    BY <1>0, <1>1, JobFields DEF CreateEscrowTx
  <2>2. listingStatus' \in [Listings -> ListingStatus]
    BY <1>1, <2>1, SetListingType DEF CreateEscrowTx, ListingStatus
  <2>3. shippingProvider' \in [Escrows -> {"envio", "encuentro"}]
    BY <1>1, <2>1, ShippingProvidersType DEF CreateEscrowTx, TypeOK
  <2>4. job' \in [Requests -> Jobs \cup {Idle}]
    BY <1>1, <2>1 DEF CreateEscrowTx, TypeOK, Continue, Jobs
  <2> QED BY <1>1, <2>1, <2>2, <2>3, <2>4, SetEscrowType
          DEF CreateEscrowTx, TypeOK, EscrowPaymentStatus, EscrowStatus, intentVars
<1>2. CASE CreatePaymentIntent(r)
  BY <1>0, <1>2, <1>a, JobFields DEF CreatePaymentIntent, TypeOK, PaymentStatus, escrowVars
<1>3. CASE MarkShippedTx(r)
  <2>1. job[r].e \in Escrows /\ job[r].ship \in EscrowShippingStatus
    BY <1>0, <1>3, JobFields DEF MarkShippedTx, EscrowShippingStatus
  <2> QED BY <1>3, <1>a, <2>1, LegacyStatusType DEF MarkShippedTx, TypeOK, SetEscrow, intentVars
<1>4. CASE ConfirmDeliveryTx(r)
  <2>1. job[r].e \in Escrows
    BY <1>0, <1>4, JobFields DEF ConfirmDeliveryTx
  <2> QED BY <1>4, <1>a, <2>1, SetEscrowType, SettleListingType, MarkPaymentsType
          DEF ConfirmDeliveryTx, TypeOK, EscrowPaymentStatus, EscrowShippingStatus,
              EscrowStatus
<1>5. CASE ReleaseFundsTx(r)
  <2>1. job[r].e \in Escrows
    BY <1>0, <1>5, JobFields DEF ReleaseFundsTx
  <2> QED BY <1>5, <1>a, <2>1, SetEscrowType, SettleListingType, MarkPaymentsType
          DEF ReleaseFundsTx, TypeOK, EscrowPaymentStatus, EscrowStatus
<1>6. CASE OpenDisputeTx(r)
  <2>1. job[r].e \in Escrows
    BY <1>0, <1>6, JobFields DEF OpenDisputeTx
  <2>2. listingStatus' \in [Listings -> ListingStatus]
    BY <1>6, <2>1, SetListingType DEF OpenDisputeTx, ListingStatus
  <2> QED BY <1>6, <1>a, <2>1, <2>2, SetEscrowType, MarkPaymentsType
          DEF OpenDisputeTx, TypeOK, EscrowPaymentStatus, EscrowStatus
<1>7. CASE CancelEscrowTx(r)
  <2>1. /\ job[r].e \in Escrows
        /\ job[r].pay \in EscrowPaymentStatus
    BY <1>0, <1>7, JobFields DEF CancelEscrowTx, EscrowPaymentStatus
  <2> QED BY <1>7, <1>a, <2>1, SetEscrowType, SettleListingType, MarkPaymentsType
          DEF CancelEscrowTx, TypeOK, EscrowStatus
<1>8. CASE ResolveDisputeTx(r)
  <2>1. job[r].e \in Escrows
    BY <1>0, <1>8, JobFields DEF ResolveDisputeTx
  <2> QED BY <1>8, <1>a, <2>1, SetEscrowType, SettleListingType, MarkPaymentsType
          DEF ResolveDisputeTx, TypeOK, EscrowPaymentStatus, EscrowStatus
<1>9. CASE AcceptDeliveryProposalTx(r)
  <2>1. /\ job[r].e \in Escrows
        /\ job[r].method \in Methods
        /\ job[r].ship \in EscrowShippingStatus \cup {"NULL"}
    BY <1>0, <1>9, JobFields DEF AcceptDeliveryProposalTx
  <2>2. /\ proposals' \in [Escrows -> [Methods -> ProposalStatus]]
        /\ shippingProvider' \in [Escrows -> {"envio", "encuentro"}]
    BY <1>9, <2>1 DEF AcceptDeliveryProposalTx, TypeOK, ProposalStatus, MethodLabel
  <2>3. paymentStatus[job[r].e] \in EscrowPaymentStatus \cup {"NONE"}
    BY <2>1 DEF TypeOK
  <2> QED BY <1>9, <1>a, <2>1, <2>2, <2>3, SetEscrowType, LegacyStatusType
          DEF AcceptDeliveryProposalTx, TypeOK, intentVars
<1>10. CASE DeclineDeliveryProposalTx(r)
  BY <1>0, <1>10, <1>a, JobFields
     DEF DeclineDeliveryProposalTx, TypeOK, ProposalStatus, escrowVars, intentVars
<1>11. CASE ApproveSandboxPaymentTx(r)
  <2>1. job[r].e \in Escrows
    BY <1>0, <1>11, JobFields DEF ApproveSandboxPaymentTx
  <2>2. job' \in [Requests -> Jobs \cup {Idle}]
    BY <1>11, <2>1 DEF ApproveSandboxPaymentTx, TypeOK, AfterCapture, Continue, Jobs
  <2> QED BY <1>11, <2>1, <2>2, SetEscrowType, InitialShippingType
          DEF ApproveSandboxPaymentTx, TypeOK, PaymentStatus, EscrowPaymentStatus,
              EscrowStatus
<1>12. CASE ApplyWebhookStatusTx(r)
  <2> DEFINE ev == job[r].event
  <2>1. ev \in Events /\ ev.e \in Escrows /\ ev.status \in PaymentStatus
    BY <1>0, <1>12, JobFields, EventFields DEF ApplyWebhookStatusTx
  <2>2. shippingStatus[ev.e] \in EscrowShippingStatus \cup {"NULL"}
    BY <2>1 DEF TypeOK
  <2>3. /\ paymentStatus' \in [Escrows -> EscrowPaymentStatus \cup {"NONE"}]
        /\ shippingStatus' \in [Escrows -> EscrowShippingStatus \cup {"NULL"}]
        /\ escrowStatus' \in [Escrows -> EscrowStatus \cup {"NONE"}]
    <3>1. ApplyEscrowStatusFromPayment(ev.e, ev.status)
      BY <1>12 DEF ApplyWebhookStatusTx
    <3>2. CASE ev.status = "FUNDS_HELD"
      BY <2>1, <3>1, <3>2, SetEscrowType, InitialShippingType
         DEF ApplyEscrowStatusFromPayment, EscrowPaymentStatus, EscrowStatus
    <3>3. CASE ev.status = "REFUNDED"
      BY <2>1, <2>2, <3>1, <3>3, SetEscrowType
         DEF ApplyEscrowStatusFromPayment, EscrowPaymentStatus, EscrowStatus
    <3>4. CASE ev.status = "DISPUTED"
      BY <2>1, <2>2, <3>1, <3>4, SetEscrowType
         DEF ApplyEscrowStatusFromPayment, EscrowPaymentStatus, EscrowStatus
    <3>5. CASE ev.status \notin {"FUNDS_HELD", "REFUNDED", "DISPUTED"}
      BY <3>1, <3>5 DEF ApplyEscrowStatusFromPayment, TypeOK, escrowVars
    <3> QED BY <3>2, <3>3, <3>4, <3>5
  <2>4. job' \in [Requests -> Jobs \cup {Idle}]
    BY <1>12, <2>1
       DEF ApplyWebhookStatusTx, TypeOK, AfterWebhook, AfterCapture, Continue, Jobs
  <2>5. /\ intentStatus' \in [Escrows -> PaymentStatus \cup {"NONE"}]
        /\ fundsHeldAt' \in [Escrows -> BOOLEAN]
        /\ paymentEvents' \in [Events -> Nat]
    BY <1>12, <2>1 DEF ApplyWebhookStatusTx, TypeOK
  <2> QED BY <1>12, <2>3, <2>4, <2>5 DEF ApplyWebhookStatusTx, TypeOK
<1>13. CASE IssuePolicy(r)
  BY <1>0, <1>13, <1>a, JobFields DEF IssuePolicy, TypeOK, escrowVars, intentVars
<1> QED BY <1>1, <1>2, <1>3, <1>4, <1>5, <1>6, <1>7, <1>8, <1>9, <1>10, <1>11, <1>12, <1>13
    DEF Write

\* No step takes the tables out of their types.
LEMMA TypeStep == TypeOK /\ [Next]_vars => TypeOK'
<1> SUFFICES ASSUME TypeOK, [Next]_vars
             PROVE  TypeOK'
  OBVIOUS
<1>1. ASSUME NEW r \in Requests, NEW e \in Escrows, Call(r, e)
      PROVE  TypeOK'
  BY <1>1, TypeCall
<1>2. ASSUME NEW r \in Requests, Write(r)
      PROVE  TypeOK'
  BY <1>2, TypeWrite
<1>3. ASSUME NEW r \in Requests, NEW ev \in Events, ReceiveWebhook(r, ev)
      PROVE  TypeOK'
  BY <1>3 DEF ReceiveWebhook, Begin, TypeOK, tables, Jobs
<1>4. ASSUME NEW r \in Requests, AbortRequest(r)
      PROVE  TypeOK'
  BY <1>4 DEF AbortRequest, Finish, TypeOK, tables
<1>5. ASSUME NEW e \in Escrows, NEW m \in Methods, CreateDeliveryProposal(e, m)
      PROVE  TypeOK'
  BY <1>5 DEF CreateDeliveryProposal, TypeOK, ProposalStatus, escrowVars, intentVars
<1>6. ASSUME NEW ev \in Events, ProviderReports(ev)
      PROVE  TypeOK'
  BY <1>6 DEF ProviderReports, TypeOK, tables
<1>7. ASSUME NEW l \in Listings, UpdateListing(l) \/ UpdateListingStatus(l)
      PROVE  TypeOK'
  BY <1>7, OwnerStatusesType, AdminStatusesType
     DEF UpdateListing, UpdateListingStatus, TypeOK, ListingStatus, escrowVars, intentVars
<1>8. CASE UNCHANGED vars
  BY <1>8 DEF vars, TypeOK
<1> QED BY <1>1, <1>2, <1>3, <1>4, <1>5, <1>6, <1>7, <1>8 DEF Next

\* Every row and every request in flight keeps to its type, for any number of listings,
\* operations, requests and notifications and either kind of provider.
THEOREM TypeCorrect == Spec => []TypeOK
BY TypeInit, TypeStep, PTL DEF Spec

-----------------------------------------------------------------------------

\* The part of the invariant about one row, so that a transaction on one escrow is checked
\* at that escrow and nowhere else.
RowOK(e) ==
  /\ paymentStatus[e] = "NONE" => intentStatus[e] = "NONE" /\ shippingStatus[e] = "NULL"
  /\ intentStatus[e] \in {"FUNDS_HELD", "READY_TO_RELEASE", "DISPUTED"} =>
       paymentStatus[e] \in {"PAYMENT_RECEIVED", "DISPUTED"}
  /\ (\/ paymentStatus[e] \in {"PAYMENT_RECEIVED", "DISPUTED", "PAYMENT_RELEASED",
                               "PAYMENT_REFUNDED"}
      \/ shippingStatus[e] # "NULL"
      \/ intentStatus[e] = "RELEASED")
     => Captured(e)

\* What no step takes back: rows, notifications, captures.
Persists ==
  /\ \A e \in Escrows : paymentStatus[e] # "NONE" => paymentStatus'[e] # "NONE"
  /\ sent \subseteq sent'
  /\ \A e \in Escrows : fundsHeldAt[e] => fundsHeldAt'[e]

SameRow(e) ==
  /\ paymentStatus'[e] = paymentStatus[e]
  /\ shippingStatus'[e] = shippingStatus[e]
  /\ intentStatus'[e] = intentStatus[e]

\* The invariant, said row by row.
LEMMA InvariantByRows ==
  IInv <=> /\ TypeOK
           /\ \A e \in Escrows : RowOK(e)
           /\ \A ev \in sent : paymentStatus[ev.e] # "NONE"
           /\ JobsJustified
           /\ CheckoutsFresh
           /\ ReportsFollowCapture
           /\ PolicyOnlyAfterCapture
BY DEF IInv, RowOK, RowsComeFirst, HeldFundsHaveLiveEscrow, NothingMovesBeforeCapture

\* The same for the next state, the direction the steps need.
LEMMA InvariantOfNextRows ==
  ASSUME TypeOK', \A e \in Escrows : RowOK(e)',
         (\A ev \in sent : paymentStatus[ev.e] # "NONE")', JobsJustified', CheckoutsFresh',
         ReportsFollowCapture', PolicyOnlyAfterCapture'
  PROVE  IInv'
BY DEF IInv, RowOK, RowsComeFirst, HeldFundsHaveLiveEscrow, NothingMovesBeforeCapture

\* Once captured, always captured.
LEMMA CapturedPersists ==
  ASSUME Persists, NEW e \in Escrows, Captured(e)
  PROVE  Captured(e)'
BY DEF Persists, Captured

\* What justified a job still does after a step that takes nothing back.
LEMMA JobPersists ==
  ASSUME Persists, NEW j \in Jobs \cup {Idle}, JobJustified(j)
  PROVE  JobJustified(j)'
BY JobFields, CapturedPersists DEF Persists, JobJustified, NeedsCapture

\* A row nobody writes stays good.
LEMMA SameRowOK ==
  ASSUME Persists, NEW e \in Escrows, SameRow(e), RowOK(e)
  PROVE  RowOK(e)'
BY CapturedPersists DEF SameRow, RowOK

-----------------------------------------------------------------------------
(* Guards: a handler only records a decision the state justifies.            *)

\* A handler whose guards pass begins a job that the state it read justifies.
LEMMA GuardsJustify ==
  ASSUME IInv, NEW r \in Requests, NEW e \in Escrows, Call(r, e)
  PROVE  \E j \in Jobs : /\ Begin(r, j)
                         /\ JobJustified(j)
                         /\ j.op = "checkout" => /\ paymentStatus[j.e] = "NONE"
                                                 /\ \A q \in Requests : job[q] # j
<1> USE DEF JobJustified, NeedsCapture, Jobs
<1>0. RowOK(e) /\ paymentStatus[e] \in EscrowPaymentStatus \cup {"NONE"}
      /\ shippingStatus[e] \in EscrowShippingStatus \cup {"NULL"}
  BY InvariantByRows DEF TypeOK
<1>1. CASE CreateCheckout(r, e)
  BY <1>1 DEF CreateCheckout, MayBuy, Fresh
<1>2. CASE MarkShipped(r, e)
  BY <1>0, <1>2 DEF MarkShipped, MayShip, RowOK
<1>3. CASE ConfirmDelivery(r, e)
  BY <1>0, <1>3 DEF ConfirmDelivery, MayConfirm, RowOK
<1>4. CASE ReleaseFunds(r, e)
  BY <1>0, <1>4 DEF ReleaseFunds, MayRelease, RowOK
<1>5. CASE OpenDispute(r, e)
  BY <1>0, <1>5 DEF OpenDispute, MayDispute, RowOK
<1>6. CASE CancelEscrow(r, e)
  BY <1>0, <1>6 DEF CancelEscrow, MayCancel, RowOK
<1>7. CASE ResolveDispute(r, e)
  BY <1>0, <1>7 DEF ResolveDispute, MayResolve, RowOK
<1>8. CASE ApproveSandboxPayment(r, e)
  BY <1>0, <1>8 DEF ApproveSandboxPayment, MayApprove, RowOK
<1>9. ASSUME NEW m \in Methods, RespondDeliveryProposal(r, e, m)
      PROVE  \E j \in Jobs : Begin(r, j) /\ JobJustified(j) /\ j.op # "checkout"
  <2>1. GetInitialShippingStatus(MethodLabel(m)) \in EscrowShippingStatus \ {"NULL"}
    BY InitialShippingType
  <2>2. CASE paymentStatus[e] = "PAYMENT_RECEIVED"
    BY <1>0, <1>9, <2>1, <2>2 DEF RespondDeliveryProposal, MayAnswer, RowOK, EscrowPaymentStatus
  <2>3. CASE paymentStatus[e] # "PAYMENT_RECEIVED"
    BY <1>0, <1>9, <2>3 DEF RespondDeliveryProposal, MayAnswer, RowOK
  <2> QED BY <2>2, <2>3
<1> QED BY <1>1, <1>2, <1>3, <1>4, <1>5, <1>6, <1>7, <1>8, <1>9 DEF Call

\* A request that has only decided what to write keeps the invariant.
LEMMA BeginKeeps ==
  ASSUME IInv, NEW r \in Requests, NEW j \in Jobs, Begin(r, j), JobJustified(j),
         j.op = "checkout" => /\ paymentStatus[j.e] = "NONE"
                              /\ \A q \in Requests : job[q] # j,
         TypeOK'
  PROVE  IInv'
<1>1. UNCHANGED <<paymentStatus, shippingStatus, intentStatus, fundsHeldAt, policies, sent>>
  BY DEF Begin, tables
<1>2. \A q \in Requests : job'[q] = IF q = r THEN j ELSE job[q]
  BY DEF Begin, TypeOK, IInv
<1>3. Persists
  BY <1>1 DEF Persists
<1>4. \A e \in Escrows : RowOK(e)'
  BY <1>1, <1>3, SameRowOK, InvariantByRows DEF SameRow
<1>5. JobsJustified'
  BY <1>2, <1>3, JobPersists DEF IInv, TypeOK, JobsJustified
<1>6. CheckoutsFresh'
  BY <1>1, <1>2 DEF IInv, CheckoutsFresh
<1>7. ReportsFollowCapture' /\ PolicyOnlyAfterCapture'
       /\ \A ev \in sent' : paymentStatus'[ev.e] # "NONE"
  BY <1>1 DEF IInv, ReportsFollowCapture, PolicyOnlyAfterCapture, RowsComeFirst, Captured
<1> QED BY <1>4, <1>5, <1>6, <1>7, InvariantOfNextRows

-----------------------------------------------------------------------------
(* Transactions.                                                             *)

\* A transaction that writes one escrow keeps the rows good if the row it writes is: money
\* in hand belongs to an open escrow, and nothing moved before a capture.
LEMMA RowWritten ==
  ASSUME IInv, NEW e \in Escrows, NEW pay, NEW ship, NEW status,
         SetEscrow(e, pay, ship, status), pay # "NONE", sent' = sent,
         \A f \in Escrows \ {e} : intentStatus'[f] = intentStatus[f],
         \A f \in Escrows : fundsHeldAt[f] => fundsHeldAt'[f],
         intentStatus'[e] \in {"FUNDS_HELD", "READY_TO_RELEASE", "DISPUTED"} =>
           pay \in {"PAYMENT_RECEIVED", "DISPUTED"},
         Captured(e)' \/ (/\ pay \in {"PAYMENT_PENDING", "PAYMENT_CANCELLED"}
                          /\ ship = "NULL"
                          /\ intentStatus'[e] # "RELEASED")
  PROVE  /\ Persists
         /\ \A f \in Escrows : RowOK(f)'
         /\ \A f \in Escrows : paymentStatus'[f] # paymentStatus[f] => f = e
<1>1. /\ paymentStatus' = [paymentStatus EXCEPT ![e] = pay]
      /\ shippingStatus' = [shippingStatus EXCEPT ![e] = ship]
      /\ paymentStatus'[e] = pay /\ shippingStatus'[e] = ship
  BY DEF SetEscrow, IInv, TypeOK
<1>2. \A f \in Escrows \ {e} : SameRow(f)
  BY <1>1 DEF SameRow, IInv, TypeOK
<1>3. Persists
  BY <1>1, <1>2 DEF Persists, SameRow
<1>4. RowOK(e)'
  BY <1>1 DEF RowOK
<1>5. \A f \in Escrows \ {e} : RowOK(f)'
  BY <1>2, <1>3, SameRowOK, InvariantByRows
<1> QED BY <1>2, <1>3, <1>4, <1>5 DEF SameRow

\* Such a transaction keeps the invariant if it also hands its request a justified job.
LEMMA WriteKeeps ==
  ASSUME IInv, TypeOK', NEW r \in Requests, NEW j \in Jobs \cup {Idle},
         job' = [job EXCEPT ![r] = j], j.op # "checkout", JobJustified(j)',
         Persists, sent' = sent, \A e \in Escrows : RowOK(e)',
         \A e \in Escrows : paymentStatus'[e] # paymentStatus[e] =>
           \/ paymentStatus[e] # "NONE"
           \/ job[r] = [op |-> "checkout", e |-> e],
         PolicyOnlyAfterCapture'
  PROVE  IInv'
<1>1. \A q \in Requests : job'[q] = IF q = r THEN j ELSE job[q]
  BY DEF IInv, TypeOK
<1>2. JobsJustified'
  BY <1>1, JobPersists DEF IInv, TypeOK, JobsJustified
<1>3. CheckoutsFresh'
  <2> SUFFICES ASSUME NEW q \in Requests, job'[q].op = "checkout"
               PROVE  /\ paymentStatus'[job'[q].e] = "NONE"
                      /\ \A p \in Requests : job'[p] = job'[q] => p = q
    BY DEF CheckoutsFresh
  <2>1. q # r /\ job'[q] = job[q] /\ job[q] \in Jobs \cup {Idle}
    BY <1>1 DEF IInv, TypeOK
  <2>2. job[q].e \in Escrows /\ job[q] = [op |-> "checkout", e |-> job[q].e]
    BY <2>1 DEF Jobs, Idle
  <2>3. paymentStatus[job[q].e] = "NONE" /\ job[r] # job[q]
    BY <2>1 DEF IInv, CheckoutsFresh
  <2> QED BY <1>1, <2>1, <2>2, <2>3 DEF IInv, CheckoutsFresh
<1>4. ReportsFollowCapture'
  BY CapturedPersists, EventFields DEF IInv, TypeOK, ReportsFollowCapture
<1>5. (\A ev \in sent : paymentStatus[ev.e] # "NONE")'
  BY EventFields DEF IInv, TypeOK, RowsComeFirst, Persists
<1> QED BY <1>2, <1>3, <1>4, <1>5, InvariantOfNextRows

\* A request that has finished relies on nothing.
LEMMA IdleJustified == JobJustified(Idle)'
BY DEF JobJustified, NeedsCapture, Idle

\* A step that issues no policy leaves every policy justified.
LEMMA PoliciesKept ==
  ASSUME IInv, Persists, policies' = policies
  PROVE  PolicyOnlyAfterCapture'
BY DEF IInv, TypeOK, PolicyOnlyAfterCapture, Persists

\* Every transaction of a request keeps the invariant: RowWritten for the escrow it writes,
\* WriteKeeps for the rest.
LEMMA WriteStep ==
  ASSUME IInv, TypeOK', NEW r \in Requests, Write(r)
  PROVE  IInv'
<1>0. /\ job[r] \in Jobs \cup {Idle}
      /\ Idle \in Jobs \cup {Idle} /\ Idle.op # "checkout"
      /\ JobJustified(job[r])
      /\ \A f \in Escrows : RowOK(f)
  BY InvariantByRows DEF IInv, TypeOK, JobsJustified, Idle
<1>1. CASE CreateEscrowTx(r)
  <2>0. PICK e \in Escrows : e = job[r].e
    BY <1>0, <1>1, JobFields DEF CreateEscrowTx
  <2>1. job[r] = [op |-> "checkout", e |-> e]
    BY <1>0, <1>1, <2>0 DEF CreateEscrowTx, Jobs, Idle
  <2>2. intentStatus[e] = "NONE"
    BY <1>1, <2>0, <2>1 DEF CreateEscrowTx, IInv, CheckoutsFresh, RowsComeFirst
  <2>3. /\ Persists
        /\ \A f \in Escrows : RowOK(f)'
        /\ \A f \in Escrows : paymentStatus'[f] # paymentStatus[f] => f = e
    BY <1>1, <2>0, <2>1, <2>2, RowWritten DEF CreateEscrowTx, intentVars
  <2> DEFINE j == [op |-> "createIntent", e |-> e]
  <2>4. JobJustified(j)' /\ j \in Jobs
    BY <1>1, <2>0, <2>1
       DEF CreateEscrowTx, SetEscrow, JobJustified, NeedsCapture, IInv, TypeOK, Jobs
  <2>5. PolicyOnlyAfterCapture'
    BY <1>1, <2>0, <2>3, PoliciesKept DEF CreateEscrowTx
  <2> QED BY <1>1, <2>0, <2>1, <2>3, <2>4, <2>5, WriteKeeps DEF CreateEscrowTx, Continue
<1>2. CASE CreatePaymentIntent(r)
  <2>0. PICK e \in Escrows : e = job[r].e
    BY <1>0, <1>2, JobFields DEF CreatePaymentIntent
  <2>1. paymentStatus[e] # "NONE"
    BY <1>0, <1>2, <2>0, JobFields DEF CreatePaymentIntent, JobJustified
  <2>2. Persists
    BY <1>2, <2>0 DEF CreatePaymentIntent, Persists, escrowVars
  <2>3. \A f \in Escrows : RowOK(f)'
    BY <1>0, <1>2, <2>0, <2>1, <2>2, CapturedPersists
       DEF CreatePaymentIntent, RowOK, escrowVars, IInv, TypeOK
  <2> QED BY <1>0, <1>2, <2>0, <2>2, <2>3, PoliciesKept, WriteKeeps, IdleJustified
          DEF CreatePaymentIntent, Finish, escrowVars
<1>3. CASE MarkShippedTx(r)
  <2>0. PICK e \in Escrows : e = job[r].e
    BY <1>0, <1>3, JobFields DEF MarkShippedTx
  <2>1. paymentStatus[e] # "NONE" /\ Captured(e)
    BY <1>0, <1>3, <2>0, JobFields DEF MarkShippedTx, JobJustified, NeedsCapture
  <2>2. /\ Persists
        /\ \A f \in Escrows : RowOK(f)'
        /\ \A f \in Escrows : paymentStatus'[f] # paymentStatus[f] => f = e
    <3>1. Captured(e)'
      BY <1>3, <2>0, <2>1 DEF MarkShippedTx, Captured, intentVars
    <3>2. intentStatus' = intentStatus /\ fundsHeldAt' = fundsHeldAt /\ sent' = sent
      BY <1>3, <2>0 DEF MarkShippedTx, intentVars
    <3>3. intentStatus'[e] \in {"FUNDS_HELD", "READY_TO_RELEASE", "DISPUTED"} =>
            paymentStatus[e] \in {"PAYMENT_RECEIVED", "DISPUTED"}
      BY <1>0, <2>0, <2>1, <3>2 DEF RowOK
    <3> QED BY <1>3, <2>0, <2>1, <3>1, <3>2, <3>3, RowWritten DEF MarkShippedTx
  <2> QED BY <1>0, <1>3, <2>0, <2>1, <2>2, PoliciesKept, WriteKeeps, IdleJustified
          DEF MarkShippedTx, Finish
<1>4. CASE ConfirmDeliveryTx(r)
  <2>0. PICK e \in Escrows : e = job[r].e
    BY <1>0, <1>4, JobFields DEF ConfirmDeliveryTx
  <2>1. paymentStatus[e] # "NONE" /\ Captured(e)
    BY <1>0, <1>4, <2>0, JobFields DEF ConfirmDeliveryTx, JobJustified, NeedsCapture
  <2>2. Captured(e)' /\ fundsHeldAt' = fundsHeldAt /\ sent' = sent /\ policies' = policies
    BY <1>4, <2>0, <2>1 DEF ConfirmDeliveryTx, Captured
  <2>3. /\ Persists
        /\ \A f \in Escrows : RowOK(f)'
        /\ \A f \in Escrows : paymentStatus'[f] # paymentStatus[f] => f = e
    <3>1. CASE SetEscrow(e, "PAYMENT_RELEASED", "QR_CONFIRMED", "RELEASED")
               /\ MarkPaymentsReleased(e)
      BY <2>1, <2>2, <3>1, RowWritten DEF MarkPaymentsReleased, MoveIntent, IInv, TypeOK
    <3>2. CASE SetEscrow(e, "PAYMENT_RECEIVED", "DELIVERED", "DELIVERED")
               /\ MarkPaymentsReadyToRelease(e)
      BY <2>1, <2>2, <3>2, RowWritten DEF MarkPaymentsReadyToRelease, MoveIntent, IInv, TypeOK
    <3> QED BY <1>4, <2>0, <3>1, <3>2 DEF ConfirmDeliveryTx
  <2> QED BY <1>0, <1>4, <2>0, <2>1, <2>2, <2>3, PoliciesKept, WriteKeeps, IdleJustified
          DEF ConfirmDeliveryTx, Finish
<1>5. CASE ReleaseFundsTx(r)
  <2>0. PICK e \in Escrows : e = job[r].e
    BY <1>0, <1>5, JobFields DEF ReleaseFundsTx
  <2>1. paymentStatus[e] # "NONE" /\ Captured(e)
    BY <1>0, <1>5, <2>0, JobFields DEF ReleaseFundsTx, JobJustified, NeedsCapture
  <2>2. Captured(e)' /\ fundsHeldAt' = fundsHeldAt /\ sent' = sent /\ policies' = policies
    BY <1>5, <2>0, <2>1 DEF ReleaseFundsTx, Captured
  <2>3. /\ Persists
        /\ \A f \in Escrows : RowOK(f)'
        /\ \A f \in Escrows : paymentStatus'[f] # paymentStatus[f] => f = e
    BY <1>5, <2>0, <2>1, <2>2, RowWritten
       DEF ReleaseFundsTx, MarkPaymentsReleased, MoveIntent, IInv, TypeOK
  <2> QED BY <1>0, <1>5, <2>0, <2>1, <2>2, <2>3, PoliciesKept, WriteKeeps, IdleJustified
          DEF ReleaseFundsTx, Finish
<1>6. CASE OpenDisputeTx(r)
  <2>0. PICK e \in Escrows : e = job[r].e
    BY <1>0, <1>6, JobFields DEF OpenDisputeTx
  <2>1. paymentStatus[e] # "NONE" /\ Captured(e)
    BY <1>0, <1>6, <2>0, JobFields DEF OpenDisputeTx, JobJustified, NeedsCapture
  <2>2. Captured(e)' /\ fundsHeldAt' = fundsHeldAt /\ sent' = sent /\ policies' = policies
    BY <1>6, <2>0, <2>1 DEF OpenDisputeTx, Captured
  <2>3. /\ Persists
        /\ \A f \in Escrows : RowOK(f)'
        /\ \A f \in Escrows : paymentStatus'[f] # paymentStatus[f] => f = e
    BY <1>6, <2>0, <2>1, <2>2, RowWritten
       DEF OpenDisputeTx, MarkPaymentsDisputed, MoveIntent, IInv, TypeOK
  <2> QED BY <1>0, <1>6, <2>0, <2>1, <2>2, <2>3, PoliciesKept, WriteKeeps, IdleJustified
          DEF OpenDisputeTx, Finish
<1>7. CASE CancelEscrowTx(r)
  <2>0. PICK e \in Escrows : e = job[r].e
    BY <1>0, <1>7, JobFields DEF CancelEscrowTx
  <2>1. /\ paymentStatus[e] # "NONE"
        /\ job[r].pay \in {"PAYMENT_CANCELLED", "PAYMENT_REFUNDED"}
        /\ job[r].pay = "PAYMENT_REFUNDED" => Captured(e)
    BY <1>0, <1>7, <2>0, JobFields DEF CancelEscrowTx, JobJustified, NeedsCapture
  <2>2. fundsHeldAt' = fundsHeldAt /\ sent' = sent /\ policies' = policies
    BY <1>7, <2>0 DEF CancelEscrowTx
  <2>3. intentStatus'[e] \notin {"FUNDS_HELD", "READY_TO_RELEASE", "DISPUTED"}
        /\ (intentStatus'[e] = "RELEASED" => intentStatus[e] = "RELEASED")
        /\ \A f \in Escrows \ {e} : intentStatus'[f] = intentStatus[f]
    BY <1>7, <2>0, <2>1 DEF CancelEscrowTx, MarkPaymentsRefunded, MoveIntent, IInv, TypeOK
  <2>4. Captured(e)' \/ (/\ job[r].pay \in {"PAYMENT_PENDING", "PAYMENT_CANCELLED"}
                         /\ shippingStatus[e] = "NULL"
                         /\ intentStatus'[e] # "RELEASED")
    BY <1>0, <2>0, <2>1, <2>2, <2>3 DEF RowOK, Captured
  <2>5. /\ Persists
        /\ \A f \in Escrows : RowOK(f)'
        /\ \A f \in Escrows : paymentStatus'[f] # paymentStatus[f] => f = e
    BY <1>7, <2>0, <2>1, <2>2, <2>3, <2>4, RowWritten DEF CancelEscrowTx
  <2> QED BY <1>0, <1>7, <2>0, <2>1, <2>2, <2>5, PoliciesKept, WriteKeeps, IdleJustified
          DEF CancelEscrowTx, Finish
<1>8. CASE ResolveDisputeTx(r)
  <2>0. PICK e \in Escrows : e = job[r].e
    BY <1>0, <1>8, JobFields DEF ResolveDisputeTx
  <2>1. paymentStatus[e] # "NONE" /\ Captured(e)
    BY <1>0, <1>8, <2>0, JobFields DEF ResolveDisputeTx, JobJustified, NeedsCapture
  <2>2. Captured(e)' /\ fundsHeldAt' = fundsHeldAt /\ sent' = sent /\ policies' = policies
    BY <1>8, <2>0, <2>1 DEF ResolveDisputeTx, Captured
  <2>3. /\ Persists
        /\ \A f \in Escrows : RowOK(f)'
        /\ \A f \in Escrows : paymentStatus'[f] # paymentStatus[f] => f = e
    <3>1. CASE SetEscrow(e, "PAYMENT_RELEASED", shippingStatus[e], "RELEASED")
               /\ MarkPaymentsReleased(e)
      BY <2>1, <2>2, <3>1, RowWritten DEF MarkPaymentsReleased, MoveIntent, IInv, TypeOK
    <3>2. CASE SetEscrow(e, "PAYMENT_REFUNDED", shippingStatus[e], "REFUNDED")
               /\ MarkPaymentsRefunded(e)
      BY <2>1, <2>2, <3>2, RowWritten DEF MarkPaymentsRefunded, MoveIntent, IInv, TypeOK
    <3> QED BY <1>8, <2>0, <3>1, <3>2 DEF ResolveDisputeTx
  <2> QED BY <1>0, <1>8, <2>0, <2>1, <2>2, <2>3, PoliciesKept, WriteKeeps, IdleJustified
          DEF ResolveDisputeTx, Finish
<1>9. CASE AcceptDeliveryProposalTx(r)
  <2>0. PICK e \in Escrows : e = job[r].e
    BY <1>0, <1>9, JobFields DEF AcceptDeliveryProposalTx
  <2>1. /\ paymentStatus[e] # "NONE"
        /\ job[r].ship # "NULL" => Captured(e)
    BY <1>0, <1>9, <2>0, JobFields DEF AcceptDeliveryProposalTx, JobJustified, NeedsCapture
  <2>2. intentStatus' = intentStatus /\ fundsHeldAt' = fundsHeldAt /\ sent' = sent
        /\ policies' = policies
    BY <1>9, <2>0 DEF AcceptDeliveryProposalTx, intentVars
  <2>3. intentStatus'[e] \in {"FUNDS_HELD", "READY_TO_RELEASE", "DISPUTED"} =>
          paymentStatus[e] \in {"PAYMENT_RECEIVED", "DISPUTED"}
    BY <1>0, <2>0, <2>1, <2>2 DEF RowOK
  <2>4. Captured(e)' \/ (/\ paymentStatus[e] \in {"PAYMENT_PENDING", "PAYMENT_CANCELLED"}
                         /\ job[r].ship = "NULL"
                         /\ intentStatus'[e] # "RELEASED")
    <3>1. Captured(e)' <=> Captured(e)
      BY <2>2 DEF Captured
    <3>2. paymentStatus[e] \in EscrowPaymentStatus
      BY <2>1 DEF IInv, TypeOK
    <3> QED BY <1>0, <2>1, <2>2, <3>1, <3>2 DEF RowOK, EscrowPaymentStatus
  <2>5. /\ Persists
        /\ \A f \in Escrows : RowOK(f)'
        /\ \A f \in Escrows : paymentStatus'[f] # paymentStatus[f] => f = e
    BY <1>9, <2>0, <2>1, <2>2, <2>3, <2>4, RowWritten DEF AcceptDeliveryProposalTx
  <2> QED BY <1>0, <1>9, <2>0, <2>1, <2>2, <2>5, PoliciesKept, WriteKeeps, IdleJustified
          DEF AcceptDeliveryProposalTx, Finish
<1>10. CASE DeclineDeliveryProposalTx(r)
  <2>1. UNCHANGED <<paymentStatus, shippingStatus, intentStatus, fundsHeldAt, policies, sent>>
    BY <1>10 DEF DeclineDeliveryProposalTx, escrowVars, intentVars
  <2>2. Persists /\ \A f \in Escrows : SameRow(f)
    BY <2>1 DEF Persists, SameRow
  <2> QED BY <1>0, <1>10, <2>1, <2>2, SameRowOK, PoliciesKept, WriteKeeps, IdleJustified
          DEF DeclineDeliveryProposalTx, Finish
<1>11. CASE ApproveSandboxPaymentTx(r)
  <2>0. PICK e \in Escrows : e = job[r].e
    BY <1>0, <1>11, JobFields DEF ApproveSandboxPaymentTx
  <2>1. paymentStatus[e] # "NONE"
    BY <1>0, <1>11, <2>0, JobFields DEF ApproveSandboxPaymentTx, JobJustified
  <2>2. Captured(e)' /\ (\A f \in Escrows : fundsHeldAt[f] => fundsHeldAt'[f])
        /\ fundsHeldAt'[e] /\ sent' = sent /\ policies' = policies
    BY <1>11, <2>0, <2>1 DEF ApproveSandboxPaymentTx, Captured, IInv, TypeOK
  <2>3. /\ Persists
        /\ \A f \in Escrows : RowOK(f)'
        /\ \A f \in Escrows : paymentStatus'[f] # paymentStatus[f] => f = e
    BY <1>11, <2>0, <2>1, <2>2, RowWritten DEF ApproveSandboxPaymentTx, IInv, TypeOK
  <2>4. /\ AfterCapture(e) \in Jobs \cup {Idle}
        /\ AfterCapture(e).op # "checkout"
        /\ JobJustified(AfterCapture(e))'
    BY <2>1, <2>2, <2>3 DEF AfterCapture, Jobs, Idle, JobJustified, NeedsCapture, Persists
  <2> QED BY <1>11, <2>0, <2>1, <2>2, <2>3, <2>4, PoliciesKept, WriteKeeps
          DEF ApproveSandboxPaymentTx, Continue
<1>12. CASE ApplyWebhookStatusTx(r)
  <2>0. PICK ev \in Events : ev = job[r].event
    BY <1>0, <1>12, JobFields DEF ApplyWebhookStatusTx
  <2> DEFINE f == ev.e
  <2>1. f \in Escrows /\ ev \in sent /\ ev.status \in WebhookStatuses \cap PaymentStatus
    BY <1>0, <1>12, <2>0, EventFields DEF ApplyWebhookStatusTx, JobJustified
  <2>2. /\ paymentStatus[f] # "NONE"
        /\ ev.status \in {"FUNDS_HELD", "REFUNDED", "DISPUTED"} => Captured(f)
    BY <2>1, StatusMeansItself DEF IInv, RowsComeFirst, ReportsFollowCapture, Captured
  <2>3. /\ intentStatus' = [intentStatus EXCEPT ![f] = ev.status]
        /\ fundsHeldAt' = [fundsHeldAt EXCEPT ![f] = @ \/ ev.status = "FUNDS_HELD"]
        /\ ApplyEscrowStatusFromPayment(f, ev.status)
        /\ job' = [job EXCEPT ![r] = AfterWebhook(ev)]
        /\ sent' = sent /\ policies' = policies
    BY <1>12, <2>0 DEF ApplyWebhookStatusTx, Continue
  <2>4. /\ \A g \in Escrows : fundsHeldAt[g] => fundsHeldAt'[g]
        /\ ev.status = "FUNDS_HELD" => fundsHeldAt'[f]
    <3>1. /\ fundsHeldAt'[f] = (fundsHeldAt[f] \/ ev.status = "FUNDS_HELD")
          /\ \A g \in Escrows \ {f} : fundsHeldAt'[g] = fundsHeldAt[g]
      BY <2>1, <2>3 DEF IInv, TypeOK
    <3> QED BY <3>1, Zenon
  <2>5. /\ \A g \in Escrows \ {f} : intentStatus'[g] = intentStatus[g]
        /\ intentStatus'[f] = ev.status
        /\ Captured(f) => Captured(f)'
    BY <2>1, <2>3, <2>4 DEF IInv, TypeOK, Captured
  <2>6. /\ Persists
        /\ \A g \in Escrows : RowOK(g)'
        /\ \A g \in Escrows : paymentStatus'[g] # paymentStatus[g] => g = f
    <3>1. CASE ev.status = "FUNDS_HELD"
      BY <2>1, <2>2, <2>3, <2>4, <2>5, <3>1, RowWritten DEF ApplyEscrowStatusFromPayment
    <3>2. CASE ev.status = "REFUNDED"
      BY <2>1, <2>2, <2>3, <2>4, <2>5, <3>2, RowWritten DEF ApplyEscrowStatusFromPayment
    <3>3. CASE ev.status = "DISPUTED"
      BY <2>1, <2>2, <2>3, <2>4, <2>5, <3>3, RowWritten DEF ApplyEscrowStatusFromPayment
    <3>4. CASE ev.status \notin {"FUNDS_HELD", "REFUNDED", "DISPUTED"}
      <4>1. UNCHANGED <<paymentStatus, shippingStatus>>
        BY <2>3, <3>4 DEF ApplyEscrowStatusFromPayment, escrowVars
      <4>2. Persists
        BY <2>3, <2>4, <4>1 DEF Persists
      <4>3. ev.status \notin {"READY_TO_RELEASE", "RELEASED"}
        BY <2>1, StoredStatuses
      <4>4. RowOK(f)'
        BY <1>0, <2>1, <2>2, <2>5, <3>4, <4>1, <4>3 DEF RowOK
      <4>5. \A g \in Escrows \ {f} : SameRow(g)
        BY <2>5, <4>1 DEF SameRow
      <4> QED BY <1>0, <4>1, <4>2, <4>4, <4>5, SameRowOK
    <3> QED BY <3>1, <3>2, <3>3, <3>4
  <2>7. /\ AfterWebhook(ev) \in Jobs \cup {Idle}
        /\ AfterWebhook(ev).op # "checkout"
        /\ JobJustified(AfterWebhook(ev))'
    BY <2>1, <2>2, <2>4, <2>6
       DEF AfterWebhook, AfterCapture, Jobs, Idle, JobJustified, NeedsCapture, Persists
  <2> QED BY <2>2, <2>3, <2>6, <2>7, PoliciesKept, WriteKeeps
<1>13. CASE IssuePolicy(r)
  <2>1. job[r].e \in Insured /\ fundsHeldAt[job[r].e]
    BY <1>0, <1>13 DEF IssuePolicy, JobJustified
  <2>2. UNCHANGED <<paymentStatus, shippingStatus, intentStatus, fundsHeldAt, sent>>
    BY <1>13 DEF IssuePolicy, escrowVars, intentVars
  <2>3. Persists /\ \A f \in Escrows : SameRow(f)
    BY <2>2 DEF Persists, SameRow
  <2>4. PolicyOnlyAfterCapture'
    BY <1>13, <2>1, <2>2 DEF IssuePolicy, IInv, PolicyOnlyAfterCapture
  <2> QED BY <1>0, <1>13, <2>2, <2>3, <2>4, SameRowOK, WriteKeeps, IdleJustified
          DEF IssuePolicy, Finish
<1> QED BY <1>1, <1>2, <1>3, <1>4, <1>5, <1>6, <1>7, <1>8, <1>9, <1>10, <1>11, <1>12, <1>13
    DEF Write

-----------------------------------------------------------------------------

\* The empty tables satisfy the invariant.
LEMMA InvariantInit == Init => IInv
BY TypeInit DEF Init, IInv, RowsComeFirst, JobsJustified, JobJustified, NeedsCapture, Idle,
   CheckoutsFresh, ReportsFollowCapture, HeldFundsHaveLiveEscrow, NothingMovesBeforeCapture,
   PolicyOnlyAfterCapture

\* Every step of every handler, webhook, owner and administrator keeps the invariant.
LEMMA InvariantStep == IInv /\ [Next]_vars => IInv'
<1> SUFFICES ASSUME IInv, [Next]_vars
             PROVE  IInv'
  OBVIOUS
<1>0. TypeOK /\ TypeOK' /\ \A e \in Escrows : RowOK(e)
  BY TypeStep, InvariantByRows DEF IInv
<1>a. ASSUME UNCHANGED <<paymentStatus, shippingStatus, intentStatus, fundsHeldAt, policies,
                         sent, job>>
      PROVE  IInv'
  BY <1>0, <1>a DEF IInv, RowsComeFirst, JobsJustified, JobJustified, NeedsCapture,
     CheckoutsFresh, ReportsFollowCapture, HeldFundsHaveLiveEscrow,
     NothingMovesBeforeCapture, PolicyOnlyAfterCapture, Captured
<1>1. ASSUME NEW r \in Requests, NEW e \in Escrows, Call(r, e)
      PROVE  IInv'
  BY <1>0, <1>1, GuardsJustify, BeginKeeps
<1>2. ASSUME NEW r \in Requests, Write(r)
      PROVE  IInv'
  BY <1>0, <1>2, WriteStep
<1>3. ASSUME NEW r \in Requests, NEW ev \in Events, ReceiveWebhook(r, ev)
      PROVE  IInv'
  <2> DEFINE j == [op |-> "webhook", event |-> ev]
  <2>1. j \in Jobs /\ JobJustified(j) /\ j.op # "checkout" /\ Begin(r, j)
    BY <1>3 DEF ReceiveWebhook, Jobs, JobJustified, NeedsCapture
  <2> QED BY <1>0, <2>1, BeginKeeps
<1>4. ASSUME NEW r \in Requests, AbortRequest(r)
      PROVE  IInv'
  <2>1. UNCHANGED <<paymentStatus, shippingStatus, intentStatus, fundsHeldAt, policies, sent>>
    BY <1>4 DEF AbortRequest, tables
  <2>2. Persists /\ \A f \in Escrows : SameRow(f)
    BY <2>1 DEF Persists, SameRow
  <2>3. Idle \in Jobs \cup {Idle} /\ Idle.op # "checkout"
    BY DEF Idle
  <2> QED BY <1>0, <1>4, <2>1, <2>2, <2>3, SameRowOK, PoliciesKept, WriteKeeps,
             IdleJustified DEF AbortRequest, Finish
<1>5. ASSUME NEW e \in Escrows, NEW m \in Methods, CreateDeliveryProposal(e, m)
      PROVE  IInv'
  BY <1>a, <1>5 DEF CreateDeliveryProposal, escrowVars, intentVars
<1>6. ASSUME NEW ev \in Events, ProviderReports(ev)
      PROVE  IInv'
  <2>1. /\ UNCHANGED <<paymentStatus, shippingStatus, intentStatus, fundsHeldAt, policies, job>>
        /\ sent' = sent \cup {ev}
    BY <1>6 DEF ProviderReports, tables
  <2>2. Persists /\ \A f \in Escrows : SameRow(f)
    BY <2>1 DEF Persists, SameRow
  <2>3. JobsJustified'
    BY <1>0, <2>1, <2>2, JobPersists DEF JobsJustified, TypeOK, IInv
  <2>4. CheckoutsFresh'
    BY <2>1 DEF CheckoutsFresh, IInv
  <2>5. (\A x \in sent : paymentStatus[x.e] # "NONE")'
    BY <1>0, <1>6, <2>1, EventFields DEF ProviderReports, RowOK, IInv, RowsComeFirst
  <2>6. ReportsFollowCapture'
    BY <1>6, <2>1 DEF ProviderReports, ReportsFollowCapture, IInv, Captured
  <2> QED BY <1>0, <2>1, <2>2, <2>3, <2>4, <2>5, <2>6, SameRowOK, PoliciesKept,
             InvariantOfNextRows
<1>7. ASSUME NEW l \in Listings, UpdateListing(l) \/ UpdateListingStatus(l)
      PROVE  IInv'
  BY <1>a, <1>7 DEF UpdateListing, UpdateListingStatus, escrowVars, intentVars
<1>8. CASE UNCHANGED vars
  BY <1>a, <1>8 DEF vars
<1> QED BY <1>1, <1>2, <1>3, <1>4, <1>5, <1>6, <1>7, <1>8 DEF Next

\* The inductive invariant holds in every behaviour of the services.
THEOREM Invariance == Spec => []IInv
BY InvariantInit, InvariantStep, PTL DEF Spec

\* Money held, ready or frozen always belongs to an escrow still open: no release, refund,
\* cancellation or resolution leaves a payment behind, whatever requests overlap it.
THEOREM HeldFundsSafe == Spec => []HeldFundsHaveLiveEscrow
BY Invariance, PTL DEF IInv

\* No operation is paid, dispatched, disputed, released or refunded before the money of its
\* buyer was captured, whatever order webhooks and requests take.
THEOREM CaptureComesFirst == Spec => []NothingMovesBeforeCapture
BY Invariance, PTL DEF IInv

\* issuePolicyForEscrow only ever runs for an insured operation already captured.
THEOREM PoliciesAreEarned == Spec => []PolicyOnlyAfterCapture
BY Invariance, PTL DEF IInv
=============================================================================

--------------------------- MODULE CustodyProofs ----------------------------
(***************************************************************************)
(* What needs to know more about payment intents than MoneyProofs does:    *)
(* settled money is final, the services implement Custody, no settlement   *)
(* strands a listing, what else holds of requests that keep out of each    *)
(* other's way, and what the pages of the web application offer.           *)
(***************************************************************************)
EXTENDS MoneyProofs, OperationPages

MarkPayments(e) ==
  \/ MarkPaymentsReadyToRelease(e)
  \/ MarkPaymentsReleased(e)
  \/ MarkPaymentsDisputed(e)
  \/ MarkPaymentsRefunded(e)

SameIntents ==
  \A f \in Escrows : intentStatus[f] = "NONE" <=> intentStatus'[f] = "NONE"

\* The markPayments... queries create no intent, remove none, leave settled ones alone and
\* approve none.
LEMMA MarkPaymentsMoves ==
  ASSUME TypeOK, NEW e \in Escrows, MarkPayments(e)
  PROVE  /\ SameIntents
         /\ \A f \in Escrows : intentStatus[f] \in {"RELEASED", "REFUNDED"} =>
              intentStatus'[f] = intentStatus[f]
         /\ \A f \in Escrows : intentStatus'[f] = "PAYMENT_APPROVED" =>
              intentStatus[f] = "PAYMENT_APPROVED"
BY DEF MarkPayments, SameIntents, MarkPaymentsReadyToRelease, MarkPaymentsReleased,
   MarkPaymentsDisputed, MarkPaymentsRefunded, MoveIntent, TypeOK

\* A step that hands one request a job keeps intents fresh if the job is.
LEMMA IntentsFreshKept ==
  ASSUME IInv, IntentsFresh, NEW r \in Requests, NEW j \in Jobs \cup {Idle},
         job' = [job EXCEPT ![r] = j], SameIntents,
         j.op = "createIntent" => /\ intentStatus[j.e] = "NONE"
                                  /\ \A q \in Requests : job[q] # j,
         j.op = "approve" => intentStatus[j.e] # "NONE",
         sent' = sent
  PROVE  IntentsFresh'
<1>1. \A q \in Requests : /\ job'[q] = IF q = r THEN j ELSE job[q]
                          /\ job[q] \in Jobs \cup {Idle}
                          /\ job'[q] \in Jobs \cup {Idle}
  BY DEF IInv, TypeOK
<1>2. ASSUME NEW q \in Requests
      PROVE  /\ job'[q].op = "createIntent" =>
                  /\ intentStatus'[job'[q].e] = "NONE"
                  /\ \A p \in Requests : job'[p] = job'[q] => p = q
             /\ job'[q].op = "approve" => intentStatus'[job'[q].e] # "NONE"
  <2>1. job'[q].op \in {"createIntent", "approve"} => job'[q].e \in Escrows
    BY <1>1, JobFields
  <2>2. CASE q = r
    BY <1>1, <2>1, <2>2 DEF SameIntents
  <2>3. CASE q # r
    BY <1>1, <2>1, <2>3 DEF SameIntents, IntentsFresh
  <2> QED BY <2>2, <2>3
<1>3. \A ev \in sent' : intentStatus'[ev.e] # "NONE"
  BY EventFields DEF SameIntents, IntentsFresh, IInv, TypeOK
<1> QED BY <1>2, <1>3 DEF IntentsFresh

\* A transaction other than the creation of an intent creates none and removes none.
LEMMA IntentsInWrites ==
  ASSUME IInv, IntentsFresh, NEW r \in Requests, Write(r), ~CreatePaymentIntent(r)
  PROVE  SameIntents
<1>0. job[r] \in Jobs \cup {Idle}
  BY DEF IInv, TypeOK
<1>1. CASE CreateEscrowTx(r) \/ MarkShippedTx(r) \/ AcceptDeliveryProposalTx(r)
           \/ DeclineDeliveryProposalTx(r) \/ IssuePolicy(r)
  BY <1>1 DEF CreateEscrowTx, MarkShippedTx, AcceptDeliveryProposalTx,
     DeclineDeliveryProposalTx, IssuePolicy, intentVars, SameIntents
<1>2. CASE ConfirmDeliveryTx(r) \/ ReleaseFundsTx(r) \/ OpenDisputeTx(r)
           \/ CancelEscrowTx(r) \/ ResolveDisputeTx(r)
  <2>1. job[r].e \in Escrows /\ MarkPayments(job[r].e)
    BY <1>0, <1>2, JobFields DEF ConfirmDeliveryTx, ReleaseFundsTx, OpenDisputeTx,
       CancelEscrowTx, ResolveDisputeTx, MarkPayments
  <2> QED BY <2>1, MarkPaymentsMoves DEF IInv
<1>3. CASE ApproveSandboxPaymentTx(r)
  BY <1>0, <1>3, JobFields DEF ApproveSandboxPaymentTx, IntentsFresh, IInv, TypeOK, SameIntents
<1>4. CASE ApplyWebhookStatusTx(r)
  <2>1. PICK ev \in Events : ev = job[r].event
    BY <1>0, <1>4, JobFields DEF ApplyWebhookStatusTx
  <2>2. ev \in sent
    BY <1>4, <2>1 DEF ApplyWebhookStatusTx, IInv, JobsJustified, JobJustified
  <2>3. ev.e \in Escrows /\ intentStatus[ev.e] # "NONE" /\ ev.status # "NONE"
    BY <1>4, <2>1, <2>2, EventFields DEF ApplyWebhookStatusTx, IntentsFresh, PaymentStatus
  <2> QED BY <1>4, <2>1, <2>3 DEF ApplyWebhookStatusTx, IInv, TypeOK, SameIntents
<1> QED BY <1>1, <1>2, <1>3, <1>4 DEF Write

\* What a capture goes on to is a job or nothing.
LEMMA AfterCaptureJob ==
  ASSUME NEW e \in Escrows
  PROVE  /\ AfterCapture(e) \in Jobs \cup {Idle}
         /\ AfterCapture(e).op \in {"issuePolicy", "idle"}
BY DEF AfterCapture, Jobs, Idle

\* No step creates a payment intent twice.
LEMMA IntentsFreshStep == IInv /\ IntentsFresh /\ [Next]_vars => IntentsFresh'
<1> SUFFICES ASSUME IInv, IntentsFresh, [Next]_vars
             PROVE  IntentsFresh'
  OBVIOUS
<1>0. Idle \in Jobs \cup {Idle} /\ Idle.op = "idle"
  BY DEF Idle
<1>a. ASSUME UNCHANGED <<intentStatus, sent, job>>
      PROVE  IntentsFresh'
  BY <1>a DEF IntentsFresh
<1>1. ASSUME NEW r \in Requests, NEW e \in Escrows, Call(r, e)
      PROVE  IntentsFresh'
  <2>1. PICK j \in Jobs : /\ Begin(r, j)
                          /\ j.op # "createIntent"
                          /\ j.op = "approve" => intentStatus[j.e] # "NONE"
    <3> USE DEF Jobs
    <3>1. CASE CreateCheckout(r, e)
      BY <3>1 DEF CreateCheckout, MayBuy
    <3>2. CASE MarkShipped(r, e)
      BY <3>2 DEF MarkShipped, MayShip
    <3>3. CASE ConfirmDelivery(r, e)
      BY <3>3 DEF ConfirmDelivery, MayConfirm
    <3>4. CASE ReleaseFunds(r, e) \/ OpenDispute(r, e)
      BY <3>4 DEF ReleaseFunds, MayRelease, OpenDispute, MayDispute
    <3>5. CASE CancelEscrow(r, e)
      BY <3>5 DEF CancelEscrow, MayCancel
    <3>6. CASE ResolveDispute(r, e)
      BY <3>6 DEF ResolveDispute, MayResolve
    <3>7. CASE ApproveSandboxPayment(r, e)
      BY <3>7 DEF ApproveSandboxPayment, MayApprove
    <3>8. ASSUME NEW m \in Methods, RespondDeliveryProposal(r, e, m)
          PROVE  \E j \in Jobs : Begin(r, j) /\ j.op \in {"accept", "decline"}
      <4>1. paymentStatus[e] \in EscrowPaymentStatus
            /\ shippingStatus[e] \in EscrowShippingStatus \cup {"NULL"}
        BY <3>8 DEF RespondDeliveryProposal, MayAnswer, IInv, TypeOK
      <4>2. GetInitialShippingStatus(MethodLabel(m)) \in EscrowShippingStatus
        BY InitialShippingType
      <4> QED BY <3>8, <4>1, <4>2 DEF RespondDeliveryProposal, MayAnswer
    <3> QED BY <1>1, <3>1, <3>2, <3>3, <3>4, <3>5, <3>6, <3>7, <3>8 DEF Call
  <2>2. SameIntents /\ sent' = sent /\ job' = [job EXCEPT ![r] = j]
    BY <2>1 DEF Begin, tables, SameIntents
  <2> QED BY <2>1, <2>2, IntentsFreshKept
<1>2. ASSUME NEW r \in Requests, Write(r), ~CreatePaymentIntent(r)
      PROVE  IntentsFresh'
  <2>0. SameIntents /\ sent' = sent /\ job[r] \in Jobs \cup {Idle}
    BY <1>2, IntentsInWrites DEF Write, CreateEscrowTx, MarkShippedTx, ConfirmDeliveryTx,
       ReleaseFundsTx, OpenDisputeTx, CancelEscrowTx, ResolveDisputeTx, IInv, TypeOK,
       AcceptDeliveryProposalTx, DeclineDeliveryProposalTx, ApproveSandboxPaymentTx,
       ApplyWebhookStatusTx, IssuePolicy
  <2>1. CASE CreateEscrowTx(r)
    <3>1. PICK e \in Escrows : job[r] = [op |-> "checkout", e |-> e]
      BY <2>0, <2>1 DEF CreateEscrowTx, Jobs, Idle
    <3> DEFINE j == [op |-> "createIntent", e |-> e]
    <3>2. j \in Jobs /\ job' = [job EXCEPT ![r] = j]
      BY <2>1, <3>1 DEF CreateEscrowTx, Continue, Jobs
    <3>3. paymentStatus[e] = "NONE" /\ intentStatus[e] = "NONE"
      BY <3>1 DEF IInv, CheckoutsFresh, RowsComeFirst
    <3>4. \A q \in Requests : job[q] # j
      BY <3>3 DEF IInv, JobsJustified, JobJustified
    <3> QED BY <2>0, <3>2, <3>3, <3>4, IntentsFreshKept
  <2>2. CASE ApproveSandboxPaymentTx(r)
    <3>1. PICK j \in Jobs \cup {Idle} : /\ job' = [job EXCEPT ![r] = j]
                                        /\ j.op \in {"issuePolicy", "idle"}
      <4>1. job[r].e \in Escrows
        BY <2>0, <2>2, JobFields DEF ApproveSandboxPaymentTx
      <4> QED BY <2>2, <4>1, AfterCaptureJob DEF ApproveSandboxPaymentTx, Continue
    <3> QED BY <2>0, <3>1, IntentsFreshKept
  <2>3. CASE ApplyWebhookStatusTx(r)
    <3>1. PICK j \in Jobs \cup {Idle} : /\ job' = [job EXCEPT ![r] = j]
                                        /\ j.op \in {"issuePolicy", "idle"}
      <4>1. PICK ev \in Events : ev = job[r].event
        BY <2>0, <2>3, JobFields DEF ApplyWebhookStatusTx
      <4>2. ev.e \in Escrows
        BY EventFields
      <4>3. /\ AfterWebhook(ev) \in Jobs \cup {Idle}
            /\ AfterWebhook(ev).op \in {"issuePolicy", "idle"}
        BY <1>0, <4>2, AfterCaptureJob DEF AfterWebhook
      <4> QED BY <2>3, <4>1, <4>3 DEF ApplyWebhookStatusTx, Continue
    <3> QED BY <2>0, <3>1, IntentsFreshKept
  <2>4. CASE Finish(r)
    BY <1>0, <2>0, <2>4, IntentsFreshKept DEF Finish
  <2> QED BY <1>2, <2>1, <2>2, <2>3, <2>4 DEF Write, MarkShippedTx, ConfirmDeliveryTx,
       ReleaseFundsTx, OpenDisputeTx, CancelEscrowTx, ResolveDisputeTx,
       AcceptDeliveryProposalTx, DeclineDeliveryProposalTx, IssuePolicy
<1>3. ASSUME NEW r \in Requests, CreatePaymentIntent(r)
      PROVE  IntentsFresh'
  <2>1. PICK e \in Escrows : job[r] = [op |-> "createIntent", e |-> e]
    BY <1>3 DEF CreatePaymentIntent, IInv, TypeOK, Jobs, Idle
  <2>2. /\ intentStatus' = [intentStatus EXCEPT ![e] = "PAYMENT_PENDING"]
        /\ job' = [job EXCEPT ![r] = Idle]
        /\ sent' = sent
    BY <1>3, <2>1 DEF CreatePaymentIntent, Finish
  <2>3. ASSUME NEW q \in Requests
        PROVE  /\ job'[q].op = "createIntent" =>
                    /\ intentStatus'[job'[q].e] = "NONE"
                    /\ \A p \in Requests : job'[p] = job'[q] => p = q
               /\ job'[q].op = "approve" => intentStatus'[job'[q].e] # "NONE"
    <3>1. CASE q = r
      BY <1>0, <2>2, <3>1 DEF IInv, TypeOK
    <3>2. CASE q # r
      <4>1. job'[q] = job[q] /\ job[q] \in Jobs \cup {Idle}
        BY <2>2, <3>2 DEF IInv, TypeOK
      <4>2. CASE job[q].op = "createIntent"
        <5>1. job[q].e \in Escrows /\ job[q] = [op |-> "createIntent", e |-> job[q].e]
          BY <4>1, <4>2 DEF Jobs, Idle
        <5>2. job[q].e # e
          BY <2>1, <3>2, <5>1 DEF IntentsFresh
        <5> QED BY <1>0, <2>2, <4>1, <4>2, <5>1, <5>2 DEF IntentsFresh, IInv, TypeOK
      <4>3. CASE job[q].op = "approve"
        BY <2>2, <4>1, <4>3, JobFields DEF IntentsFresh, IInv, TypeOK
      <4> QED BY <4>1, <4>2, <4>3
    <3> QED BY <3>1, <3>2
  <2>4. \A ev \in sent' : intentStatus'[ev.e] # "NONE"
    BY <2>2, EventFields DEF IntentsFresh, IInv, TypeOK
  <2> QED BY <2>3, <2>4 DEF IntentsFresh
<1>4. ASSUME NEW r \in Requests, NEW ev \in Events, ReceiveWebhook(r, ev)
      PROVE  IntentsFresh'
  <2> DEFINE j == [op |-> "webhook", event |-> ev]
  <2>1. j \in Jobs /\ job' = [job EXCEPT ![r] = j] /\ sent' = sent /\ SameIntents
    BY <1>4 DEF ReceiveWebhook, Begin, tables, SameIntents, Jobs
  <2> QED BY <2>1, IntentsFreshKept
<1>5. ASSUME NEW r \in Requests, AbortRequest(r)
      PROVE  IntentsFresh'
  <2>1. job' = [job EXCEPT ![r] = Idle] /\ sent' = sent /\ SameIntents
    BY <1>5 DEF AbortRequest, Finish, tables, SameIntents
  <2> QED BY <1>0, <2>1, IntentsFreshKept
<1>6. ASSUME NEW e \in Escrows, NEW m \in Methods, CreateDeliveryProposal(e, m)
      PROVE  IntentsFresh'
  BY <1>a, <1>6 DEF CreateDeliveryProposal, intentVars
<1>7. ASSUME NEW ev \in Events, ProviderReports(ev)
      PROVE  IntentsFresh'
  BY <1>7 DEF ProviderReports, tables, IntentsFresh
<1>8. ASSUME NEW l \in Listings, UpdateListing(l) \/ UpdateListingStatus(l)
      PROVE  IntentsFresh'
  BY <1>a, <1>8 DEF UpdateListing, UpdateListingStatus, intentVars
<1>9. CASE UNCHANGED vars
  BY <1>a, <1>9 DEF vars
<1> QED BY <1>1, <1>2, <1>3, <1>4, <1>5, <1>6, <1>7, <1>8, <1>9 DEF Next

\* A payment intent is created once and never deleted.
LEMMA IntentsFreshAlways == Spec => [](IInv /\ IntentsFresh)
<1>1. Init => IntentsFresh
  BY DEF Init, IntentsFresh, Idle
<1> QED BY <1>1, InvariantInit, InvariantStep, IntentsFreshStep, PTL DEF Spec

\* Money paid out or returned is moved again only by a payment approved or reported anew.
THEOREM SettledMoneyStays == Spec => SettlementIsFinal
<1>1. ASSUME IInv, IntentsFresh, [Next]_vars
      PROVE  [\A e \in Escrows :
                /\ intentStatus[e] \in {"RELEASED", "REFUNDED"}
                /\ intentStatus'[e] # intentStatus[e]
                => \E r \in Requests :
                     ApproveSandboxPaymentTx(r) \/ ApplyWebhookStatusTx(r)]_vars
  <2> SUFFICES ASSUME NEW e \in Escrows, intentStatus[e] \in {"RELEASED", "REFUNDED"},
                      intentStatus'[e] # intentStatus[e]
               PROVE  \E r \in Requests :
                        ApproveSandboxPaymentTx(r) \/ ApplyWebhookStatusTx(r)
    OBVIOUS
  <2>1. PICK r \in Requests : Write(r)
    BY <1>1 DEF Next, Call, CreateCheckout, MarkShipped, ConfirmDelivery, ReleaseFunds,
       OpenDispute, CancelEscrow, ResolveDispute, ApproveSandboxPayment,
       RespondDeliveryProposal, ReceiveWebhook, Begin, AbortRequest, tables, ProviderReports,
       CreateDeliveryProposal, UpdateListing, UpdateListingStatus, intentVars, vars
  <2>2. job[r] \in Jobs \cup {Idle}
    BY <1>1 DEF IInv, TypeOK
  <2>3. ~CreatePaymentIntent(r)
    <3> SUFFICES ASSUME CreatePaymentIntent(r)
                 PROVE  FALSE
      OBVIOUS
    <3>1. job[r].e \in Escrows /\ intentStatus[job[r].e] = "NONE"
      BY <1>1, <2>2, JobFields DEF CreatePaymentIntent, IntentsFresh
    <3> QED BY <1>1, <3>1 DEF CreatePaymentIntent, IInv, TypeOK
  <2>4. ~(ConfirmDeliveryTx(r) \/ ReleaseFundsTx(r) \/ OpenDisputeTx(r) \/ CancelEscrowTx(r)
          \/ ResolveDisputeTx(r))
    <3> SUFFICES ASSUME ConfirmDeliveryTx(r) \/ ReleaseFundsTx(r) \/ OpenDisputeTx(r)
                        \/ CancelEscrowTx(r) \/ ResolveDisputeTx(r)
                 PROVE  FALSE
      OBVIOUS
    <3>1. job[r].e \in Escrows /\ MarkPayments(job[r].e)
      BY <2>2, JobFields DEF ConfirmDeliveryTx, ReleaseFundsTx, OpenDisputeTx,
         CancelEscrowTx, ResolveDisputeTx, MarkPayments
    <3> QED BY <1>1, <3>1, MarkPaymentsMoves DEF IInv
  <2> QED BY <2>1, <2>3, <2>4 DEF Write, CreateEscrowTx, MarkShippedTx,
          AcceptDeliveryProposalTx, DeclineDeliveryProposalTx, IssuePolicy, intentVars
<1> QED BY <1>1, IntentsFreshAlways, PTL DEF Spec, SettlementIsFinal

-----------------------------------------------------------------------------
(* Refinement.                                                               *)

\* How an UPDATE of an escrow opens or closes its operation.
LEMMA OpenAfterSetEscrow ==
  ASSUME TypeOK, NEW e \in Escrows, NEW pay, NEW ship, NEW status,
         SetEscrow(e, pay, ship, status)
  PROVE  openOperations' = IF pay \in Live THEN openOperations \cup {e}
                                           ELSE openOperations \ {e}
BY DEF SetEscrow, openOperations, TypeOK

\* How an UPDATE of one intent moves the money of its operation.
LEMMA MoneyAfterMove ==
  ASSUME TypeOK, NEW e \in Escrows, NEW status,
         intentStatus' = [intentStatus EXCEPT ![e] = status]
  PROVE  /\ moneyPlaces' = [moneyPlaces EXCEPT ![e] = Place(status)]
         /\ moneyPlaces[e] = Place(intentStatus[e])
BY DEF moneyPlaces, TypeOK

\* Under the sandbox provider nothing is reported and no payment is merely approved.
LEMMA SandboxOnlyStep == IInv /\ SandboxOnly /\ [Next]_vars => SandboxOnly'
<1> SUFFICES ASSUME IInv, SandboxOnly, [Next]_vars, Sandbox
             PROVE  (sent = {} /\ \A e \in Escrows : intentStatus[e] # "PAYMENT_APPROVED")'
  BY DEF SandboxOnly
<1>0. sent = {} /\ \A e \in Escrows : intentStatus[e] # "PAYMENT_APPROVED"
  BY DEF SandboxOnly
<1>1. ASSUME NEW r \in Requests, Write(r)
      PROVE  sent' = {} /\ \A e \in Escrows : intentStatus'[e] # "PAYMENT_APPROVED"
  <2>0. job[r] \in Jobs \cup {Idle} /\ sent' = {}
    BY <1>0, <1>1 DEF IInv, TypeOK, Write, CreateEscrowTx, CreatePaymentIntent,
       MarkShippedTx, ConfirmDeliveryTx, ReleaseFundsTx, OpenDisputeTx, CancelEscrowTx,
       ResolveDisputeTx, AcceptDeliveryProposalTx, DeclineDeliveryProposalTx,
       ApproveSandboxPaymentTx, ApplyWebhookStatusTx, IssuePolicy
  <2>1. CASE ConfirmDeliveryTx(r) \/ ReleaseFundsTx(r) \/ OpenDisputeTx(r)
             \/ CancelEscrowTx(r) \/ ResolveDisputeTx(r)
    <3>1. job[r].e \in Escrows /\ MarkPayments(job[r].e)
      BY <2>0, <2>1, JobFields DEF ConfirmDeliveryTx, ReleaseFundsTx, OpenDisputeTx,
         CancelEscrowTx, ResolveDisputeTx, MarkPayments
    <3> QED BY <1>0, <2>0, <3>1, MarkPaymentsMoves DEF IInv
  <2>2. ~ApplyWebhookStatusTx(r)
    BY <1>0 DEF ApplyWebhookStatusTx, IInv, JobsJustified, JobJustified
  <2>3. CASE CreatePaymentIntent(r) \/ ApproveSandboxPaymentTx(r)
    BY <1>0, <2>0, <2>3, JobFields DEF CreatePaymentIntent, ApproveSandboxPaymentTx, IInv,
       TypeOK
  <2> QED BY <1>0, <1>1, <2>0, <2>1, <2>2, <2>3 DEF Write, CreateEscrowTx, MarkShippedTx,
          AcceptDeliveryProposalTx, DeclineDeliveryProposalTx, IssuePolicy, intentVars
<1>2. CASE \A r \in Requests : ~Write(r)
  BY <1>0, <1>2 DEF Next, Call, CreateCheckout, MarkShipped, ConfirmDelivery, ReleaseFunds,
     OpenDispute, CancelEscrow, ResolveDispute, ApproveSandboxPayment,
     RespondDeliveryProposal, ReceiveWebhook, Begin, AbortRequest, tables, ProviderReports,
     CreateDeliveryProposal, UpdateListing, UpdateListingStatus, intentVars, vars
<1> QED BY <1>1, <1>2

\* The empty tables are a state Custody starts from.
LEMMA CustodyInit == Init => Custody!Init
BY DEF Init, Custody!Init, openOperations, moneyPlaces, Live, Place

\* Under the sandbox provider each step is one step of Custody: a checkout opens, an approval
\* captures, a dispute freezes, a release pays out, a refund or cancellation returns.
LEMMA CustodyStep ==
  ASSUME Sandbox, IInv, IntentsFresh, SandboxOnly, [Next]_vars
  PROVE  [Custody!Next]_<<openOperations, moneyPlaces>>
<1>0. TypeOK
  BY DEF IInv
<1>a. ASSUME UNCHANGED <<paymentStatus, intentStatus>>
      PROVE  UNCHANGED <<openOperations, moneyPlaces>>
  BY <1>a DEF openOperations, moneyPlaces
<1>1. ASSUME NEW r \in Requests, Write(r)
      PROVE  [Custody!Next]_<<openOperations, moneyPlaces>>
  <2>0. job[r] \in Jobs \cup {Idle}
    BY DEF IInv, TypeOK
  <2>1. CASE CreateEscrowTx(r)
    <3>1. PICK e \in Escrows : e = job[r].e
      BY <2>0, <2>1, JobFields DEF CreateEscrowTx
    <3>2. openOperations' = openOperations \cup {e} /\ UNCHANGED moneyPlaces
      BY <1>0, <2>1, <3>1, OpenAfterSetEscrow
         DEF CreateEscrowTx, intentVars, moneyPlaces, Live
    <3> QED BY <3>2 DEF Custody!Next, Custody!Open
  <2>2. CASE CreatePaymentIntent(r)
    <3>1. PICK e \in Escrows : e = job[r].e
      BY <2>0, <2>2, JobFields DEF CreatePaymentIntent
    <3>2. intentStatus[e] = "NONE"
      BY <2>2, <3>1 DEF CreatePaymentIntent, IntentsFresh
    <3>3. UNCHANGED moneyPlaces
      BY <1>0, <2>2, <3>1, <3>2 DEF CreatePaymentIntent, moneyPlaces, Place, TypeOK
    <3>4. UNCHANGED openOperations
      BY <2>2 DEF CreatePaymentIntent, escrowVars, openOperations
    <3> QED BY <3>3, <3>4
  <2>3. CASE MarkShippedTx(r)
    <3>1. paymentStatus' = paymentStatus /\ intentStatus' = intentStatus
      BY <1>0, <2>0, <2>3, JobFields DEF MarkShippedTx, SetEscrow, intentVars, TypeOK
    <3> QED BY <1>a, <3>1
  <2>4. CASE ConfirmDeliveryTx(r)
    <3>1. PICK e \in Escrows : e = job[r].e
      BY <2>0, <2>4, JobFields DEF ConfirmDeliveryTx
    <3>2. CASE SetEscrow(e, "PAYMENT_RELEASED", "QR_CONFIRMED", "RELEASED")
               /\ MarkPaymentsReleased(e)
      <4>1. openOperations' = openOperations \ {e}
        BY <1>0, <3>2, OpenAfterSetEscrow DEF Live
      <4>2. moneyPlaces' = [moneyPlaces EXCEPT ![e] =
                              IF @ \in {"held", "frozen"} THEN "seller" ELSE @]
        BY <1>0, <3>2 DEF MarkPaymentsReleased, MoveIntent, moneyPlaces, Place, TypeOK
      <4> QED BY <4>1, <4>2 DEF Custody!Next, Custody!PayOut
    <3>3. CASE SetEscrow(e, "PAYMENT_RECEIVED", "DELIVERED", "DELIVERED")
               /\ MarkPaymentsReadyToRelease(e)
      <4>1. openOperations' = openOperations \cup {e}
        BY <1>0, <3>3, OpenAfterSetEscrow DEF Live
      <4>2. moneyPlaces' = moneyPlaces
        BY <1>0, <3>3 DEF MarkPaymentsReadyToRelease, MoveIntent, moneyPlaces, Place, TypeOK
      <4> QED BY <4>1, <4>2 DEF Custody!Next, Custody!Open
    <3> QED BY <2>4, <3>1, <3>2, <3>3 DEF ConfirmDeliveryTx
  <2>5. CASE ReleaseFundsTx(r)
    <3>1. PICK e \in Escrows : e = job[r].e
      BY <2>0, <2>5, JobFields DEF ReleaseFundsTx
    <3>2. openOperations' = openOperations \ {e}
      BY <1>0, <2>5, <3>1, OpenAfterSetEscrow DEF ReleaseFundsTx, Live
    <3>3. moneyPlaces' = [moneyPlaces EXCEPT ![e] =
                            IF @ \in {"held", "frozen"} THEN "seller" ELSE @]
      BY <1>0, <2>5, <3>1
         DEF ReleaseFundsTx, MarkPaymentsReleased, MoveIntent, moneyPlaces, Place, TypeOK
    <3> QED BY <3>2, <3>3 DEF Custody!Next, Custody!PayOut
  <2>6. CASE OpenDisputeTx(r)
    <3>1. PICK e \in Escrows : e = job[r].e
      BY <2>0, <2>6, JobFields DEF OpenDisputeTx
    <3>2. openOperations' = openOperations \cup {e}
      BY <1>0, <2>6, <3>1, OpenAfterSetEscrow DEF OpenDisputeTx, Live
    <3>3. moneyPlaces' = [moneyPlaces EXCEPT ![e] = IF @ = "held" THEN "frozen" ELSE @]
      BY <1>0, <2>6, <3>1 DEF OpenDisputeTx, MarkPaymentsDisputed, MoveIntent, moneyPlaces,
         Place, TypeOK, SandboxOnly
    <3> QED BY <3>2, <3>3 DEF Custody!Next, Custody!Freeze
  <2>7. CASE CancelEscrowTx(r) \/ ResolveDisputeTx(r)
    <3>1. PICK e \in Escrows : e = job[r].e
      BY <2>0, <2>7, JobFields DEF CancelEscrowTx, ResolveDisputeTx
    <3>2. PICK pay \in {"PAYMENT_RELEASED", "PAYMENT_REFUNDED", "PAYMENT_CANCELLED"} :
            /\ \E status : SetEscrow(e, pay, shippingStatus[e], status)
            /\ IF pay = "PAYMENT_RELEASED" THEN MarkPaymentsReleased(e)
                                           ELSE MarkPaymentsRefunded(e)
      BY <2>0, <2>7, <3>1, JobFields DEF CancelEscrowTx, ResolveDisputeTx
    <3>3. openOperations' = openOperations \ {e}
      BY <1>0, <3>2, OpenAfterSetEscrow DEF Live
    <3>4. CASE pay = "PAYMENT_RELEASED"
      <4>1. moneyPlaces' = [moneyPlaces EXCEPT ![e] =
                              IF @ \in {"held", "frozen"} THEN "seller" ELSE @]
        BY <1>0, <3>2, <3>4 DEF MarkPaymentsReleased, MoveIntent, moneyPlaces, Place, TypeOK
      <4> QED BY <3>3, <4>1 DEF Custody!Next, Custody!PayOut
    <3>5. CASE pay # "PAYMENT_RELEASED"
      <4>0. MarkPaymentsRefunded(e)
        BY <3>2, <3>5
      <4>1. CASE intentStatus[e] \in {"PAYMENT_PENDING", "PAYMENT_APPROVED"}
        <5>1. moneyPlaces[e] = "none"
          BY <4>1 DEF moneyPlaces, Place
        <5>2. moneyPlaces' = [moneyPlaces EXCEPT ![e] = "buyer"]
          BY <1>0, <4>0, <4>1 DEF MarkPaymentsRefunded, MoveIntent, moneyPlaces, Place, TypeOK
        <5> QED BY <3>3, <5>1, <5>2 DEF Custody!Next, Custody!Return
      <4>2. CASE intentStatus[e] \notin {"PAYMENT_PENDING", "PAYMENT_APPROVED"}
        <5>1. moneyPlaces' = [moneyPlaces EXCEPT ![e] =
                                IF @ \in {"held", "frozen"} THEN "buyer" ELSE @]
          BY <1>0, <4>0, <4>2 DEF MarkPaymentsRefunded, MoveIntent, moneyPlaces, Place, TypeOK
        <5> QED BY <3>3, <5>1 DEF Custody!Next, Custody!Return
      <4> QED BY <4>1, <4>2
    <3> QED BY <3>4, <3>5
  <2>8. CASE AcceptDeliveryProposalTx(r)
    <3>1. paymentStatus' = paymentStatus /\ intentStatus' = intentStatus
      BY <1>0, <2>0, <2>8, JobFields
         DEF AcceptDeliveryProposalTx, SetEscrow, intentVars, TypeOK
    <3> QED BY <1>a, <3>1
  <2>9. CASE ApproveSandboxPaymentTx(r)
    <3>1. PICK e \in Escrows : e = job[r].e
      BY <2>0, <2>9, JobFields DEF ApproveSandboxPaymentTx
    <3>2. openOperations' = openOperations \cup {e}
      BY <1>0, <2>9, <3>1, OpenAfterSetEscrow DEF ApproveSandboxPaymentTx, Live
    <3>3. moneyPlaces' = [moneyPlaces EXCEPT ![e] = "held"]
      BY <1>0, <2>9, <3>1, MoneyAfterMove DEF ApproveSandboxPaymentTx, Place
    <3> QED BY <3>2, <3>3 DEF Custody!Next, Custody!Capture
  <2>10. ~ApplyWebhookStatusTx(r)
    BY DEF ApplyWebhookStatusTx, IInv, JobsJustified, JobJustified, SandboxOnly
  <2>11. CASE DeclineDeliveryProposalTx(r) \/ IssuePolicy(r)
    BY <1>a, <2>11 DEF DeclineDeliveryProposalTx, IssuePolicy, escrowVars, intentVars
  <2> QED BY <1>1, <2>1, <2>2, <2>3, <2>4, <2>5, <2>6, <2>7, <2>8, <2>9, <2>10, <2>11
          DEF Write
<1>2. CASE \A r \in Requests : ~Write(r)
  BY <1>a, <1>2 DEF Next, Call, CreateCheckout, MarkShipped, ConfirmDelivery, ReleaseFunds,
     OpenDispute, CancelEscrow, ResolveDispute, ApproveSandboxPayment,
     RespondDeliveryProposal, ReceiveWebhook, Begin, AbortRequest, tables, ProviderReports,
     CreateDeliveryProposal, UpdateListing, UpdateListingStatus, intentVars, escrowVars, vars
<1> QED BY <1>1, <1>2

\* With the sandbox provider the services implement Custody.
THEOREM SandboxImplementsCustody ==
  ASSUME Sandbox
  PROVE  Spec => ImplementsCustody
<1>1. Init => SandboxOnly
  BY DEF Init, SandboxOnly
<1>2. Spec => [](IInv /\ IntentsFresh /\ SandboxOnly)
  BY <1>1, IntentsFreshAlways, SandboxOnlyStep, PTL DEF Spec
<1>3. IInv /\ IntentsFresh /\ SandboxOnly /\ [Next]_vars
        => [Custody!Next]_<<openOperations, moneyPlaces>>
  BY CustodyStep
<1> QED BY <1>2, <1>3, CustodyInit, PTL DEF Spec, ImplementsCustody, Custody!Spec
-----------------------------------------------------------------------------
(* Listings.  A provider's REFUNDED closes the escrow and never writes the   *)
(* listing, which is why the sandbox is assumed, or a provider that does not *)
(* report refunds; and administrators must leave RESERVED and UNDER_REVIEW   *)
(* to purchases.                                                             *)

\* What a transaction may do to an escrow and its listing: leave the operation open while it
\* parks the listing or does not touch it, or close it and take the listing off its hands.
SettlesListing(e) ==
  \/ /\ paymentStatus'[e] \in Live
     /\ \A l \in Listings \ {ListingOf[e]} : listingStatus'[l] = listingStatus[l]
  \/ /\ listingStatus'[ListingOf[e]] \in {"SOLD", "PUBLISHED"}
     /\ \A l \in Listings \ {ListingOf[e]} : listingStatus'[l] = listingStatus[l]

\* A transaction that writes one operation that way strands no listing.
LEMMA SettledListing ==
  ASSUME ParkedListingHasLiveEscrow, NEW e \in Escrows, SettlesListing(e),
         \A f \in Escrows \ {e} : paymentStatus'[f] = paymentStatus[f]
  PROVE  ParkedListingHasLiveEscrow'
<1> SUFFICES ASSUME NEW l \in Listings, listingStatus'[l] \in {"RESERVED", "UNDER_REVIEW"}
             PROVE  \E f \in Escrows : ListingOf[f] = l /\ paymentStatus'[f] \in Live
  BY DEF ParkedListingHasLiveEscrow
<1>1. CASE l = ListingOf[e]
  BY <1>1 DEF SettlesListing
<1>2. CASE l # ListingOf[e]
  <2>1. listingStatus'[l] = listingStatus[l]
    BY <1>2 DEF SettlesListing
  <2>2. PICK f \in Escrows : ListingOf[f] = l /\ paymentStatus[f] \in Live
    BY <2>1 DEF ParkedListingHasLiveEscrow
  <2> QED BY <1>2, <2>2
<1> QED BY <1>1, <1>2

\* An UPDATE of one escrow leaves the others' payment status alone.
LEMMA OnePaymentWritten ==
  ASSUME TypeOK, NEW e \in Escrows, NEW pay, NEW ship, NEW status,
         SetEscrow(e, pay, ship, status)
  PROVE  /\ paymentStatus'[e] = pay
         /\ \A f \in Escrows \ {e} : paymentStatus'[f] = paymentStatus[f]
BY DEF SetEscrow, TypeOK

\* The same for an UPDATE of the listing of one escrow.
LEMMA OneListingWritten ==
  ASSUME TypeOK, NEW e \in Escrows, NEW status, SetListing(e, status)
  PROVE  /\ listingStatus'[ListingOf[e]] = status
         /\ \A l \in Listings \ {ListingOf[e]} : listingStatus'[l] = listingStatus[l]
BY ListingOfType DEF SetListing, TypeOK

\* Every step keeps parked listings with an open operation.
LEMMA ParkedStep ==
  ASSUME Sandbox \/ "REFUNDED" \notin WebhookStatuses,
         AdminStatuses \cap {"RESERVED", "UNDER_REVIEW"} = {},
         IInv, SandboxOnly, ParkedListingHasLiveEscrow, [Next]_vars
  PROVE  ParkedListingHasLiveEscrow'
<1>0. TypeOK
  BY DEF IInv
<1>a. ASSUME paymentStatus' = paymentStatus,
             \A l \in Listings : listingStatus'[l] \in {"RESERVED", "UNDER_REVIEW"} =>
               listingStatus'[l] = listingStatus[l]
      PROVE  ParkedListingHasLiveEscrow'
  BY <1>a DEF ParkedListingHasLiveEscrow
<1>1. ASSUME NEW r \in Requests, Write(r)
      PROVE  ParkedListingHasLiveEscrow'
  <2>0. job[r] \in Jobs \cup {Idle}
    BY <1>0 DEF TypeOK
  <2>1. CASE CreateEscrowTx(r) \/ OpenDisputeTx(r)
    <3>1. PICK e \in Escrows : e = job[r].e
      BY <2>0, <2>1, JobFields DEF CreateEscrowTx, OpenDisputeTx
    <3>2. PICK pay \in {"PAYMENT_PENDING", "DISPUTED"} :
            \E ship, status, parked : SetEscrow(e, pay, ship, status) /\ SetListing(e, parked)
      BY <2>1, <3>1 DEF CreateEscrowTx, OpenDisputeTx
    <3> QED BY <1>0, <3>2, OnePaymentWritten, OneListingWritten, SettledListing
            DEF SettlesListing, Live
  <2>2. CASE ReleaseFundsTx(r) \/ CancelEscrowTx(r) \/ ResolveDisputeTx(r)
    <3>1. PICK e \in Escrows : e = job[r].e
      BY <2>0, <2>2, JobFields DEF ReleaseFundsTx, CancelEscrowTx, ResolveDisputeTx
    <3>2. /\ \E pay, ship, status : SetEscrow(e, pay, ship, status)
          /\ SellListing(e) \/ RepublishListing(e)
      BY <2>2, <3>1 DEF ReleaseFundsTx, CancelEscrowTx, ResolveDisputeTx
    <3> QED BY <1>0, <3>2, OnePaymentWritten, OneListingWritten, SettledListing
            DEF SettlesListing, SellListing, RepublishListing
  <2>3. CASE ConfirmDeliveryTx(r)
    <3>1. PICK e \in Escrows : e = job[r].e
      BY <2>0, <2>3, JobFields DEF ConfirmDeliveryTx
    <3>2. \/ /\ \E ship, status : SetEscrow(e, "PAYMENT_RELEASED", ship, status)
             /\ SellListing(e)
          \/ /\ \E ship, status : SetEscrow(e, "PAYMENT_RECEIVED", ship, status)
             /\ UNCHANGED listingStatus
      BY <2>3, <3>1 DEF ConfirmDeliveryTx
    <3> QED BY <1>0, <3>2, OnePaymentWritten, OneListingWritten, SettledListing
            DEF SettlesListing, SellListing, Live
  <2>4. CASE ApproveSandboxPaymentTx(r)
    <3>1. PICK e \in Escrows : e = job[r].e
      BY <2>0, <2>4, JobFields DEF ApproveSandboxPaymentTx
    <3>2. /\ \E ship, status : SetEscrow(e, "PAYMENT_RECEIVED", ship, status)
          /\ UNCHANGED listingStatus
      BY <2>4, <3>1 DEF ApproveSandboxPaymentTx
    <3> QED BY <1>0, <3>2, OnePaymentWritten, SettledListing DEF SettlesListing, Live
  <2>5. CASE MarkShippedTx(r) \/ AcceptDeliveryProposalTx(r)
    <3>1. paymentStatus' = paymentStatus /\ listingStatus' = listingStatus
      BY <1>0, <2>0, <2>5, JobFields
         DEF MarkShippedTx, AcceptDeliveryProposalTx, SetEscrow, TypeOK
    <3> QED BY <1>a, <3>1
  <2>6. CASE ApplyWebhookStatusTx(r)
    <3>1. PICK ev \in Events : ev = job[r].event /\ ev \in sent
      BY <2>0, <2>6, JobFields DEF ApplyWebhookStatusTx, IInv, JobsJustified, JobJustified
    <3>2. ev.e \in Escrows /\ ev.status \in WebhookStatuses
      BY EventFields
    <3>3. ev.status # "REFUNDED"
      BY <3>1, <3>2 DEF SandboxOnly
    <3>4. /\ \/ \E pay \in {"PAYMENT_RECEIVED", "DISPUTED"} :
               \E ship, status : SetEscrow(ev.e, pay, ship, status)
             \/ UNCHANGED escrowVars
          /\ UNCHANGED listingStatus
      BY <2>6, <3>1, <3>3 DEF ApplyWebhookStatusTx, ApplyEscrowStatusFromPayment
    <3>5. CASE UNCHANGED escrowVars
      BY <1>a, <3>4, <3>5 DEF escrowVars
    <3>6. CASE ~UNCHANGED escrowVars
      BY <1>0, <3>2, <3>4, <3>6, OnePaymentWritten, SettledListing DEF SettlesListing, Live
    <3> QED BY <3>5, <3>6
  <2>7. CASE CreatePaymentIntent(r) \/ DeclineDeliveryProposalTx(r) \/ IssuePolicy(r)
    <3>1. paymentStatus' = paymentStatus /\ listingStatus' = listingStatus
      BY <2>7 DEF CreatePaymentIntent, DeclineDeliveryProposalTx, IssuePolicy, escrowVars
    <3> QED BY <1>a, <3>1
  <2> QED BY <1>1, <2>1, <2>2, <2>3, <2>4, <2>5, <2>6, <2>7 DEF Write
<1>2. ASSUME NEW l \in Listings, UpdateListing(l) \/ UpdateListingStatus(l)
      PROVE  ParkedListingHasLiveEscrow'
  <2>1. paymentStatus' = paymentStatus
    BY <1>2 DEF UpdateListing, UpdateListingStatus, escrowVars
  <2>2. PICK status : /\ status \notin {"RESERVED", "UNDER_REVIEW"}
                      /\ listingStatus' = [listingStatus EXCEPT ![l] = status]
    BY <1>2, OwnerStatusesType DEF UpdateListing, UpdateListingStatus
  <2> QED BY <1>0, <1>a, <2>1, <2>2 DEF TypeOK
<1>3. CASE /\ \A r \in Requests : ~Write(r)
           /\ \A l \in Listings : ~(UpdateListing(l) \/ UpdateListingStatus(l))
  <2>1. paymentStatus' = paymentStatus /\ listingStatus' = listingStatus
    BY <1>3 DEF Next, Call, CreateCheckout, MarkShipped, ConfirmDelivery, ReleaseFunds,
       OpenDispute, CancelEscrow, ResolveDispute, ApproveSandboxPayment,
       RespondDeliveryProposal, ReceiveWebhook, Begin, AbortRequest, tables,
       ProviderReports, CreateDeliveryProposal, escrowVars, vars
  <2> QED BY <1>a, <2>1
<1> QED BY <1>1, <1>2, <1>3

\* A listing taken off the market by a purchase or a dispute always has an open operation
\* that can still sell it or put it back, whatever requests and listing edits overlap: with
\* the sandbox, and with every provider that never reports a refund.
THEOREM ListingsAreNotStranded ==
  ASSUME Sandbox \/ "REFUNDED" \notin WebhookStatuses,
         AdminStatuses \cap {"RESERVED", "UNDER_REVIEW"} = {}
  PROVE  Spec => []ParkedListingHasLiveEscrow
<1>1. Init => SandboxOnly /\ ParkedListingHasLiveEscrow
  BY DEF Init, SandboxOnly, ParkedListingHasLiveEscrow
<1>2. IInv /\ SandboxOnly /\ ParkedListingHasLiveEscrow /\ [Next]_vars
        => ParkedListingHasLiveEscrow'
  BY ParkedStep
<1> QED BY <1>1, <1>2, Invariance, SandboxOnlyStep, PTL DEF Spec

-----------------------------------------------------------------------------
(* Requests that keep out of each other's way.                               *)

\* A transaction writes the rows of the one operation its request is about.
LEMMA WritesOwnRows ==
  ASSUME TypeOK, NEW r \in Requests, Write(r)
  PROVE  /\ job[r] # Idle
         /\ OperationOf(job[r]) \in Escrows
         /\ \A e \in Escrows \ {OperationOf(job[r])} :
              /\ paymentStatus'[e] = paymentStatus[e]
              /\ shippingStatus'[e] = shippingStatus[e]
              /\ escrowStatus'[e] = escrowStatus[e]
              /\ intentStatus'[e] = intentStatus[e]
              /\ fundsHeldAt'[e] = fundsHeldAt[e]
<1>0. job[r] \in Jobs \cup {Idle}
  BY DEF TypeOK
<1>1. ASSUME NEW e, e = job[r].e, job[r].op # "webhook", job[r].op # "idle"
      PROVE  job[r] # Idle /\ OperationOf(job[r]) = e /\ e \in Escrows
  BY <1>0, <1>1 DEF Jobs, Idle, OperationOf
<1>2. CASE CreateEscrowTx(r) \/ MarkShippedTx(r) \/ AcceptDeliveryProposalTx(r)
  <2>1. PICK e : e = job[r].e
    OBVIOUS
  <2>2. /\ job[r] # Idle /\ OperationOf(job[r]) = e /\ e \in Escrows
        /\ \E pay, ship, status : SetEscrow(e, pay, ship, status)
        /\ UNCHANGED <<intentStatus, fundsHeldAt>>
    BY <1>1, <1>2, <2>1
       DEF CreateEscrowTx, MarkShippedTx, AcceptDeliveryProposalTx, intentVars
  <2> QED BY <2>2 DEF SetEscrow, TypeOK
<1>3. CASE ConfirmDeliveryTx(r) \/ ReleaseFundsTx(r) \/ OpenDisputeTx(r)
           \/ CancelEscrowTx(r) \/ ResolveDisputeTx(r)
  <2>1. PICK e : e = job[r].e
    OBVIOUS
  <2>2. /\ job[r] # Idle /\ OperationOf(job[r]) = e /\ e \in Escrows
        /\ \E pay, ship, status : SetEscrow(e, pay, ship, status)
        /\ MarkPayments(e)
        /\ UNCHANGED fundsHeldAt
    BY <1>1, <1>3, <2>1
       DEF ConfirmDeliveryTx, ReleaseFundsTx, OpenDisputeTx, CancelEscrowTx,
           ResolveDisputeTx, MarkPayments
  <2>3. \A f \in Escrows \ {e} : intentStatus'[f] = intentStatus[f]
    BY <2>2 DEF MarkPayments, MarkPaymentsReadyToRelease, MarkPaymentsReleased,
       MarkPaymentsDisputed, MarkPaymentsRefunded, MoveIntent, TypeOK
  <2> QED BY <2>2, <2>3 DEF SetEscrow, TypeOK
<1>4. CASE CreatePaymentIntent(r) \/ DeclineDeliveryProposalTx(r) \/ IssuePolicy(r)
  <2>1. PICK e : e = job[r].e
    OBVIOUS
  <2>2. /\ job[r] # Idle /\ OperationOf(job[r]) = e /\ e \in Escrows
        /\ UNCHANGED <<paymentStatus, shippingStatus, escrowStatus, fundsHeldAt>>
        /\ intentStatus' \in {intentStatus, [intentStatus EXCEPT ![e] = "PAYMENT_PENDING"]}
    BY <1>1, <1>4, <2>1 DEF CreatePaymentIntent, DeclineDeliveryProposalTx, IssuePolicy,
       escrowVars, intentVars
  <2> QED BY <2>2 DEF TypeOK
<1>5. CASE ApproveSandboxPaymentTx(r)
  <2>1. PICK e : e = job[r].e
    OBVIOUS
  <2>2. /\ job[r] # Idle /\ OperationOf(job[r]) = e /\ e \in Escrows
        /\ \E pay, ship, status : SetEscrow(e, pay, ship, status)
        /\ intentStatus' = [intentStatus EXCEPT ![e] = "FUNDS_HELD"]
        /\ fundsHeldAt' = [fundsHeldAt EXCEPT ![e] = TRUE]
    BY <1>1, <1>5, <2>1 DEF ApproveSandboxPaymentTx
  <2> QED BY <2>2 DEF SetEscrow, TypeOK
<1>6. CASE ApplyWebhookStatusTx(r)
  <2>1. PICK ev \in Events : ev = job[r].event
    BY <1>0, <1>6, JobFields DEF ApplyWebhookStatusTx
  <2>2. job[r] # Idle /\ OperationOf(job[r]) = ev.e /\ ev.e \in Escrows
    BY <1>6, <2>1, EventFields DEF ApplyWebhookStatusTx, Idle, OperationOf
  <2>3. \/ \E pay, ship, status : SetEscrow(ev.e, pay, ship, status)
        \/ UNCHANGED escrowVars
    BY <1>6, <2>1 DEF ApplyWebhookStatusTx, ApplyEscrowStatusFromPayment
  <2>4. /\ intentStatus' = [intentStatus EXCEPT ![ev.e] = ev.status]
        /\ fundsHeldAt' = [fundsHeldAt EXCEPT ![ev.e] = @ \/ ev.status = "FUNDS_HELD"]
    BY <1>6, <2>1 DEF ApplyWebhookStatusTx
  <2>5. \A f \in Escrows \ {ev.e} : /\ paymentStatus'[f] = paymentStatus[f]
                                    /\ shippingStatus'[f] = shippingStatus[f]
                                    /\ escrowStatus'[f] = escrowStatus[f]
    BY <2>3 DEF SetEscrow, escrowVars, TypeOK
  <2>6. \A e \in Escrows \ {ev.e} : /\ intentStatus'[e] = intentStatus[e]
                                    /\ fundsHeldAt'[e] = fundsHeldAt[e]
    BY <2>4 DEF TypeOK
  <2> QED BY <2>2, <2>5, <2>6
<1> QED BY <1>2, <1>3, <1>4, <1>5, <1>6 DEF Write

\* What its request goes on to relies on nothing the transaction did not leave.
LEMMA NextJob ==
  ASSUME TypeOK, NEW r \in Requests, Write(r)
  PROVE  \E j \in Jobs \cup {Idle} :
           /\ job' = [job EXCEPT ![r] = j]
           /\ JobCurrent(j)'
           /\ j.op \notin {"webhook", "accept", "decline"}
<1> DEFINE AnswersAndWebhooks == {"webhook", "accept", "decline"}
<1>0. /\ job[r] \in Jobs \cup {Idle}
      /\ Idle \in Jobs \cup {Idle} /\ JobCurrent(Idle)' /\ Idle.op \notin AnswersAndWebhooks
  BY DEF TypeOK, Idle, JobCurrent
<1>a. ASSUME NEW j \in Jobs \cup {Idle}, j.op \in {"issuePolicy", "idle"}
      PROVE  JobCurrent(j)' /\ j.op \notin AnswersAndWebhooks
  BY <1>a DEF JobCurrent
<1>1. CASE CreateEscrowTx(r)
  <2>1. PICK e \in Escrows : e = job[r].e
    BY <1>0, <1>1, JobFields DEF CreateEscrowTx
  <2> DEFINE j == [op |-> "createIntent", e |-> e]
  <2>2. job' = [job EXCEPT ![r] = j] /\ j \in Jobs /\ j.op \notin AnswersAndWebhooks
    BY <1>1, <2>1 DEF CreateEscrowTx, Continue, Jobs
  <2>3. paymentStatus'[e] = "PAYMENT_PENDING"
    BY <1>1, <2>1, OnePaymentWritten DEF CreateEscrowTx
  <2>4. JobCurrent(j)'
    BY <2>3 DEF JobCurrent
  <2> QED BY <2>2, <2>4
<1>2. CASE ApproveSandboxPaymentTx(r)
  <2>1. PICK e \in Escrows : e = job[r].e
    BY <1>0, <1>2, JobFields DEF ApproveSandboxPaymentTx
  <2>2. job' = [job EXCEPT ![r] = AfterCapture(e)]
    BY <1>2, <2>1 DEF ApproveSandboxPaymentTx, Continue
  <2> QED BY <1>a, <2>2, AfterCaptureJob
<1>3. CASE ApplyWebhookStatusTx(r)
  <2>1. PICK ev \in Events : ev = job[r].event
    BY <1>0, <1>3, JobFields DEF ApplyWebhookStatusTx
  <2>2. job' = [job EXCEPT ![r] = AfterWebhook(ev)]
    BY <1>3, <2>1 DEF ApplyWebhookStatusTx, Continue
  <2>3. AfterWebhook(ev) \in Jobs \cup {Idle} /\ AfterWebhook(ev).op \in {"issuePolicy", "idle"}
    BY <1>0, AfterCaptureJob, EventFields DEF AfterWebhook, Idle
  <2> QED BY <1>a, <2>2, <2>3
<1>4. CASE Finish(r)
  BY <1>0, <1>4 DEF Finish
<1> QED BY <1>1, <1>2, <1>3, <1>4 DEF Write, CreatePaymentIntent, MarkShippedTx,
   ConfirmDeliveryTx, ReleaseFundsTx, OpenDisputeTx, CancelEscrowTx, ResolveDisputeTx,
   AcceptDeliveryProposalTx, DeclineDeliveryProposalTx, IssuePolicy

\* A handler begins a job that relies only on what it has just read.
LEMMA CallsBeginCurrent ==
  ASSUME TypeOK, NEW r \in Requests, NEW e \in Escrows, Call(r, e)
  PROVE  \E j \in Jobs : Begin(r, j) /\ JobCurrent(j) /\ j.op # "webhook"
<1> USE DEF Jobs, JobCurrent
<1>1. CASE CreateCheckout(r, e)
  BY <1>1 DEF CreateCheckout, MayBuy
<1>2. CASE MarkShipped(r, e)
  BY <1>2 DEF MarkShipped, MayShip
<1>3. CASE ConfirmDelivery(r, e)
  BY <1>3 DEF ConfirmDelivery, MayConfirm
<1>4. CASE ReleaseFunds(r, e) \/ OpenDispute(r, e)
  BY <1>4 DEF ReleaseFunds, MayRelease, OpenDispute, MayDispute
<1>5. CASE CancelEscrow(r, e)
  BY <1>5 DEF CancelEscrow, MayCancel
<1>6. CASE ResolveDispute(r, e)
  BY <1>6 DEF ResolveDispute, MayResolve
<1>7. CASE ApproveSandboxPayment(r, e)
  BY <1>7 DEF ApproveSandboxPayment, MayApprove
<1>8. ASSUME NEW m \in Methods, RespondDeliveryProposal(r, e, m)
      PROVE  \E j \in Jobs : Begin(r, j) /\ JobCurrent(j) /\ j.op # "webhook"
  <2>1. paymentStatus[e] \in EscrowPaymentStatus
        /\ shippingStatus[e] \in EscrowShippingStatus \cup {"NULL"}
    BY <1>8 DEF RespondDeliveryProposal, MayAnswer, TypeOK
  <2>2. GetInitialShippingStatus(MethodLabel(m)) \in EscrowShippingStatus
    BY InitialShippingType
  <2> QED BY <1>8, <2>1, <2>2 DEF RespondDeliveryProposal, MayAnswer
<1> QED BY <1>1, <1>2, <1>3, <1>4, <1>5, <1>6, <1>7, <1>8 DEF Call

\* As long as no two requests on one operation overlap, what each has decided on stays.
LEMMA JobsCurrentStep ==
  ASSUME TypeOK, OneRequestPerOperation, JobsCurrent, [Next]_vars
  PROVE  JobsCurrent'
<1>0. \A q \in Requests : job[q] \in Jobs \cup {Idle} /\ JobCurrent(job[q])
  BY DEF TypeOK, JobsCurrent
<1>a. ASSUME UNCHANGED <<paymentStatus, intentStatus>>,
             NEW j, JobCurrent(j)
      PROVE  JobCurrent(j)'
  BY <1>a DEF JobCurrent
<1>b. ASSUME UNCHANGED <<paymentStatus, intentStatus>>,
             NEW r \in Requests, NEW j \in Jobs \cup {Idle}, JobCurrent(j),
             job' = [job EXCEPT ![r] = j]
      PROVE  JobsCurrent'
  <2>1. \A q \in Requests : job'[q] = IF q = r THEN j ELSE job[q]
    BY <1>b DEF TypeOK
  <2>2. \A q \in Requests : JobCurrent(job'[q])
    BY <1>0, <1>b, <2>1
  <2> QED BY <1>a, <1>b, <2>2 DEF JobsCurrent, JobCurrent
<1>c. JobCurrent(Idle) /\ Idle \in Jobs \cup {Idle}
  BY DEF JobCurrent, Idle
<1>1. ASSUME NEW r \in Requests, NEW e \in Escrows, Call(r, e)
      PROVE  JobsCurrent'
  <2>1. PICK j \in Jobs : Begin(r, j) /\ JobCurrent(j)
    BY <1>1, CallsBeginCurrent
  <2> QED BY <1>b, <2>1 DEF Begin, tables
<1>2. ASSUME NEW r \in Requests, Write(r)
      PROVE  JobsCurrent'
  <2>1. PICK j \in Jobs \cup {Idle} : job' = [job EXCEPT ![r] = j] /\ JobCurrent(j)'
    BY <1>2, NextJob
  <2>2. ASSUME NEW q \in Requests, q # r
        PROVE  job'[q] = job[q] /\ JobCurrent(job[q])'
    <3>1. job'[q] = job[q]
      BY <2>1, <2>2 DEF TypeOK
    <3>2. CASE job[q] = Idle
      BY <3>1, <3>2 DEF JobCurrent, Idle
    <3>3. CASE job[q] # Idle
      <4>1. OperationOf(job[q]) # OperationOf(job[r])
        BY <1>2, <2>2, <3>3, WritesOwnRows DEF OneRequestPerOperation
      <4>2. CASE job[q].op = "webhook"
        BY <3>1, <4>2 DEF JobCurrent
      <4>3. CASE job[q].op # "webhook"
        <5>1. job[q].e \in Escrows \ {OperationOf(job[r])}
          BY <1>0, <3>3, <4>1, <4>3 DEF Jobs, OperationOf
        <5>2. /\ paymentStatus'[job[q].e] = paymentStatus[job[q].e]
              /\ intentStatus'[job[q].e] = intentStatus[job[q].e]
          BY <1>2, <5>1, WritesOwnRows
        <5> QED BY <1>0, <3>1, <4>3, <5>2 DEF JobCurrent
      <4> QED BY <4>2, <4>3
    <3> QED BY <3>2, <3>3
  <2>3. job'[r] = j
    BY <2>1 DEF TypeOK
  <2> QED BY <2>1, <2>2, <2>3 DEF JobsCurrent, JobCurrent
<1>3. ASSUME NEW r \in Requests, NEW ev \in Events, ReceiveWebhook(r, ev)
      PROVE  JobsCurrent'
  <2> DEFINE j == [op |-> "webhook", event |-> ev]
  <2>1. j \in Jobs /\ JobCurrent(j) /\ Begin(r, j)
    BY <1>3 DEF ReceiveWebhook, Jobs, JobCurrent
  <2> QED BY <1>b, <2>1 DEF Begin, tables
<1>4. ASSUME NEW r \in Requests, AbortRequest(r)
      PROVE  JobsCurrent'
  BY <1>4, <1>b, <1>c DEF AbortRequest, Finish, tables
<1>5. CASE UNCHANGED <<paymentStatus, intentStatus, job>>
  BY <1>5 DEF JobsCurrent, JobCurrent
<1> QED BY <1>1, <1>2, <1>3, <1>4, <1>5 DEF Next, CreateDeliveryProposal, ProviderReports,
   UpdateListing, UpdateListingStatus, tables, intentVars, escrowVars, vars

\* The row a transaction wrote is summarised by what the transaction derived.
LEMMA RowSummarised ==
  ASSUME TypeOK, NEW e \in Escrows, NEW pay, NEW ship,
         SetEscrow(e, pay, ship, DeriveLegacyEscrowStatus(pay, ship))
  PROVE  escrowStatus'[e] = DeriveLegacyEscrowStatus(paymentStatus'[e], shippingStatus'[e])
<1>1. /\ paymentStatus'[e] = pay /\ shippingStatus'[e] = ship
      /\ escrowStatus'[e] = DeriveLegacyEscrowStatus(pay, ship)
  BY DEF SetEscrow, TypeOK
<1> QED BY <1>1

\* A request whose decision is current leaves its row with the summary it should have.
LEMMA WriteSummarises ==
  ASSUME TypeOK, DerivationsCurrent, LegacyStatusAgrees, NEW r \in Requests, Write(r),
         NEW e \in Escrows, e = OperationOf(job[r]), paymentStatus'[e] # "NONE"
  PROVE  escrowStatus'[e] = DeriveLegacyEscrowStatus(paymentStatus'[e], shippingStatus'[e])
<1>0. job[r] \in Jobs \cup {Idle}
  BY DEF TypeOK
<1>a. ASSUME UNCHANGED escrowVars
      PROVE  escrowStatus'[e] = DeriveLegacyEscrowStatus(paymentStatus'[e], shippingStatus'[e])
  <2>1. paymentStatus' = paymentStatus /\ shippingStatus' = shippingStatus
        /\ escrowStatus' = escrowStatus
    BY <1>a DEF escrowVars
  <2> QED BY <2>1 DEF LegacyStatusAgrees
<1>b. job[r].op # "webhook" => e = job[r].e
  BY DEF OperationOf
<1>1. CASE CreateEscrowTx(r)
  <2>1. SetEscrow(e, "PAYMENT_PENDING", "NULL",
                  DeriveLegacyEscrowStatus("PAYMENT_PENDING", "NULL"))
    BY <1>1, <1>b DEF CreateEscrowTx, DeriveLegacyEscrowStatus
  <2> QED BY <2>1, RowSummarised
<1>2. CASE MarkShippedTx(r)
  <2>1. PICK ship : /\ SetEscrow(e, paymentStatus[e], ship,
                                 DeriveLegacyEscrowStatus("PAYMENT_RECEIVED", ship))
                    /\ paymentStatus[e] = "PAYMENT_RECEIVED"
    BY <1>0, <1>2, <1>b DEF MarkShippedTx, DerivationsCurrent
  <2> QED BY <2>1, RowSummarised
<1>3. CASE AcceptDeliveryProposalTx(r)
  <2>1. PICK pay, ship : /\ SetEscrow(e, paymentStatus[e], ship,
                                      DeriveLegacyEscrowStatus(pay, ship))
                         /\ paymentStatus[e] = pay
    BY <1>0, <1>3, <1>b DEF AcceptDeliveryProposalTx, DerivationsCurrent
  <2> QED BY <2>1, RowSummarised
<1>4. CASE ConfirmDeliveryTx(r)
  <2>1. \/ SetEscrow(e, "PAYMENT_RELEASED", "QR_CONFIRMED",
                     DeriveLegacyEscrowStatus("PAYMENT_RELEASED", "QR_CONFIRMED"))
        \/ SetEscrow(e, "PAYMENT_RECEIVED", "DELIVERED",
                     DeriveLegacyEscrowStatus("PAYMENT_RECEIVED", "DELIVERED"))
    BY <1>4, <1>b DEF ConfirmDeliveryTx, DeriveLegacyEscrowStatus
  <2> QED BY <2>1, RowSummarised
<1>5. CASE ReleaseFundsTx(r) \/ OpenDisputeTx(r) \/ CancelEscrowTx(r) \/ ResolveDisputeTx(r)
  <2>1. \E pay \in {"PAYMENT_RELEASED", "DISPUTED", "PAYMENT_CANCELLED", "PAYMENT_REFUNDED"} :
          SetEscrow(e, pay, shippingStatus[e],
                    DeriveLegacyEscrowStatus(pay, shippingStatus[e]))
    BY <1>0, <1>5, <1>b, JobFields DEF ReleaseFundsTx, OpenDisputeTx, CancelEscrowTx,
       ResolveDisputeTx, DeriveLegacyEscrowStatus
  <2> QED BY <2>1, RowSummarised
<1>6. CASE ApproveSandboxPaymentTx(r)
  <2>1. PICK ship \in {"WAITING_MEETING", "WAITING_DISPATCH"} :
          SetEscrow(e, "PAYMENT_RECEIVED", ship,
                    DeriveLegacyEscrowStatus("PAYMENT_RECEIVED", ship))
    BY <1>6, <1>b DEF ApproveSandboxPaymentTx, GetInitialShippingStatus,
       DeriveLegacyEscrowStatus
  <2> QED BY <2>1, RowSummarised
<1>7. CASE ApplyWebhookStatusTx(r)
  <2>1. ApplyEscrowStatusFromPayment(e, job[r].event.status)
    BY <1>7 DEF ApplyWebhookStatusTx, OperationOf
  <2>2. CASE job[r].event.status = "FUNDS_HELD"
    <3>1. SetEscrow(e, "PAYMENT_RECEIVED", "WAITING_DISPATCH",
                    DeriveLegacyEscrowStatus("PAYMENT_RECEIVED", "WAITING_DISPATCH"))
      BY <2>1, <2>2 DEF ApplyEscrowStatusFromPayment, GetInitialShippingStatus,
         DeriveLegacyEscrowStatus
    <3> QED BY <3>1, RowSummarised
  <2>3. CASE job[r].event.status \in {"REFUNDED", "DISPUTED"}
    <3>1. \E pay \in {"PAYMENT_REFUNDED", "DISPUTED"} :
            SetEscrow(e, pay, shippingStatus[e],
                      DeriveLegacyEscrowStatus(pay, shippingStatus[e]))
      BY <2>1, <2>3 DEF ApplyEscrowStatusFromPayment, DeriveLegacyEscrowStatus
    <3> QED BY <3>1, RowSummarised
  <2>4. CASE job[r].event.status \notin {"FUNDS_HELD", "REFUNDED", "DISPUTED"}
    BY <1>a, <2>1, <2>4 DEF ApplyEscrowStatusFromPayment
  <2> QED BY <2>2, <2>3, <2>4
<1>8. CASE CreatePaymentIntent(r) \/ DeclineDeliveryProposalTx(r) \/ IssuePolicy(r)
  BY <1>a, <1>8 DEF CreatePaymentIntent, DeclineDeliveryProposalTx, IssuePolicy
<1> QED BY <1>1, <1>2, <1>3, <1>4, <1>5, <1>6, <1>7, <1>8 DEF Write

\* Every step keeps the summaries, as long as the derivations in flight are current.
LEMMA SummariesStep ==
  ASSUME TypeOK, DerivationsCurrent, LegacyStatusAgrees, [Next]_vars
  PROVE  LegacyStatusAgrees'
<1>1. ASSUME NEW r \in Requests, Write(r)
      PROVE  LegacyStatusAgrees'
  <2> SUFFICES ASSUME NEW e \in Escrows, paymentStatus'[e] # "NONE"
               PROVE  escrowStatus'[e] =
                        DeriveLegacyEscrowStatus(paymentStatus'[e], shippingStatus'[e])
    BY DEF LegacyStatusAgrees
  <2>1. CASE e = OperationOf(job[r])
    BY <1>1, <2>1, WriteSummarises
  <2>2. CASE e # OperationOf(job[r])
    <3>1. /\ paymentStatus'[e] = paymentStatus[e]
          /\ shippingStatus'[e] = shippingStatus[e]
          /\ escrowStatus'[e] = escrowStatus[e]
      BY <1>1, <2>2, WritesOwnRows
    <3> QED BY <3>1 DEF LegacyStatusAgrees
  <2> QED BY <2>1, <2>2
<1>2. CASE UNCHANGED escrowVars
  BY <1>2 DEF LegacyStatusAgrees, escrowVars
<1>3. CASE \A r \in Requests : ~Write(r)
  BY <1>2, <1>3 DEF Next, Call, CreateCheckout, MarkShipped, ConfirmDelivery, ReleaseFunds,
     OpenDispute, CancelEscrow, ResolveDispute, ApproveSandboxPayment,
     RespondDeliveryProposal, ReceiveWebhook, Begin, AbortRequest, tables, ProviderReports,
     CreateDeliveryProposal, UpdateListing, UpdateListingStatus, escrowVars, vars
<1> QED BY <1>1, <1>3

\* A step that stores no event and begins no delivery but after the duplicate check.
LEMMA DeliveriesKept ==
  ASSUME TypeOK, DeliveriesFresh, EventAppliedOnce, UNCHANGED paymentEvents,
         NEW r \in Requests, NEW j, job' = [job EXCEPT ![r] = j],
         j.op = "webhook" => ~ExistingEvent(j.event)
  PROVE  DeliveriesFresh' /\ EventAppliedOnce'
<1>1. \A q \in Requests : job'[q] = IF q = r THEN j ELSE job[q]
  BY DEF TypeOK
<1>2. \A q \in Requests :
        job'[q].op = "webhook" =>
          ~\E row \in Events : SameId(row, job'[q].event) /\ paymentEvents[row] > 0
  BY <1>1 DEF DeliveriesFresh, ExistingEvent, SameId
<1> QED BY <1>2 DEF DeliveriesFresh, EventAppliedOnce, ExistingEvent, SameId

\* A delivery that finds its event id missing, alone in doing so, stores it once.
LEMMA DeliveriesStep ==
  ASSUME TypeOK, DeliveriesApart, DeliveriesFresh, EventAppliedOnce, [Next]_vars
  PROVE  DeliveriesFresh' /\ EventAppliedOnce'
<1>1. ASSUME NEW r \in Requests, NEW e \in Escrows, Call(r, e)
      PROVE  DeliveriesFresh' /\ EventAppliedOnce'
  <2>1. PICK j \in Jobs : Begin(r, j) /\ j.op # "webhook"
    BY <1>1, CallsBeginCurrent
  <2> QED BY <2>1, DeliveriesKept DEF Begin, tables
<1>2. ASSUME NEW r \in Requests, ApplyWebhookStatusTx(r)
      PROVE  DeliveriesFresh' /\ EventAppliedOnce'
  <2>0. job[r] \in Jobs \cup {Idle}
    BY DEF TypeOK
  <2>1. PICK ev \in Events : job[r] = [op |-> "webhook", event |-> ev]
    BY <1>2, <2>0 DEF ApplyWebhookStatusTx, Jobs, Idle
  <2>2. /\ \A row \in Events : SameId(row, ev) => paymentEvents[row] = 0
        /\ paymentEvents' = [paymentEvents EXCEPT ![ev] = @ + 1]
    <3>1. ~ExistingEvent(ev)
      BY <2>1 DEF DeliveriesFresh
    <3> QED BY <1>2, <2>1, <3>1 DEF ApplyWebhookStatusTx, ExistingEvent, SameId, TypeOK
  <2>b. \A row \in Events : paymentEvents'[row] = IF row = ev THEN 1 ELSE paymentEvents[row]
    BY <2>2 DEF SameId, TypeOK
  <2>3. EventAppliedOnce'
    <3> SUFFICES ASSUME NEW x \in Events, NEW y \in Events, SameId(x, y),
                        paymentEvents'[x] > 0, paymentEvents'[y] > 0
                 PROVE  x = y /\ paymentEvents'[x] = 1
      BY DEF EventAppliedOnce, SameId
    <3>1. CASE SameId(x, ev)
      <4>1. SameId(y, ev)
        BY <3>1 DEF SameId
      <4> QED BY <2>2, <2>b, <3>1, <4>1
    <3>2. CASE ~SameId(x, ev)
      <4>1. x # ev /\ y # ev
        BY <3>2 DEF SameId
      <4> QED BY <2>b, <4>1 DEF EventAppliedOnce, SameId
    <3> QED BY <3>1, <3>2
  <2>4. job' = [job EXCEPT ![r] = AfterWebhook(ev)] /\ AfterWebhook(ev).op # "webhook"
    <3>1. AfterWebhook(ev).op \in {"issuePolicy", "idle"}
      BY AfterCaptureJob, EventFields DEF AfterWebhook, Idle
    <3> QED BY <1>2, <2>1, <3>1 DEF ApplyWebhookStatusTx, Continue
  <2>5. ASSUME NEW q \in Requests, job'[q].op = "webhook"
        PROVE  ~ExistingEvent(job[q].event)'
    <3>1. q # r /\ job'[q] = job[q] /\ job[q] \in Jobs \cup {Idle}
      BY <2>4, <2>5 DEF TypeOK
    <3>2. PICK other \in Events : job[q] = [op |-> "webhook", event |-> other]
      BY <2>5, <3>1 DEF Jobs, Idle
    <3>3. ~SameId(ev, other)
      BY <2>1, <3>1, <3>2 DEF DeliveriesApart
    <3>4. \A row \in Events : SameId(row, other) => row # ev /\ ~(paymentEvents[row] > 0)
      BY <3>2, <3>3 DEF DeliveriesFresh, ExistingEvent, SameId
    <3>5. \A row \in Events : SameId(row, other) => ~(paymentEvents'[row] > 0)
      BY <2>b, <3>4
    <3> QED BY <3>1, <3>2, <3>5 DEF ExistingEvent, SameId
  <2> QED BY <2>3, <2>5 DEF DeliveriesFresh
<1>3. ASSUME NEW r \in Requests, Write(r), ~ApplyWebhookStatusTx(r)
      PROVE  DeliveriesFresh' /\ EventAppliedOnce'
  <2>1. UNCHANGED paymentEvents
    BY <1>3 DEF Write, CreateEscrowTx, CreatePaymentIntent, MarkShippedTx,
       ConfirmDeliveryTx, ReleaseFundsTx, OpenDisputeTx, CancelEscrowTx, ResolveDisputeTx,
       AcceptDeliveryProposalTx, DeclineDeliveryProposalTx, ApproveSandboxPaymentTx,
       IssuePolicy
  <2>2. PICK j : job' = [job EXCEPT ![r] = j] /\ j.op # "webhook"
    BY <1>3, NextJob
  <2> QED BY <2>1, <2>2, DeliveriesKept
<1>4. ASSUME NEW r \in Requests, NEW ev \in Events, ReceiveWebhook(r, ev)
      PROVE  DeliveriesFresh' /\ EventAppliedOnce'
  <2>1. /\ job' = [job EXCEPT ![r] = [op |-> "webhook", event |-> ev]]
        /\ ~ExistingEvent(ev) /\ UNCHANGED paymentEvents
    BY <1>4 DEF ReceiveWebhook, Begin, tables
  <2> QED BY <2>1, DeliveriesKept
<1>5. ASSUME NEW r \in Requests, AbortRequest(r)
      PROVE  DeliveriesFresh' /\ EventAppliedOnce'
  BY <1>5, DeliveriesKept DEF AbortRequest, Finish, tables, Idle
<1>6. CASE UNCHANGED <<paymentEvents, job>>
  BY <1>6 DEF DeliveriesFresh, EventAppliedOnce, ExistingEvent
<1> QED BY <1>1, <1>2, <1>3, <1>4, <1>5, <1>6 DEF Next, CreateDeliveryProposal,
   ProviderReports, UpdateListing, UpdateListingStatus, tables, vars

\* As long as requests on one operation do not overlap, every decision is current.
LEMMA JobsCurrentAlways == Spec /\ []OneRequestPerOperation => [](TypeOK /\ JobsCurrent)
<1>1. Init => JobsCurrent
  BY DEF Init, JobsCurrent, JobCurrent, Idle
<1>2. TypeOK /\ OneRequestPerOperation /\ JobsCurrent /\ [Next]_vars => JobsCurrent'
  BY JobsCurrentStep
<1> QED BY <1>1, <1>2, TypeCorrect, PTL DEF Spec

\* The legacy status says what the payment and shipping status say, for any number of
\* operations and requests and either provider, as long as no dispatch and no accepted
\* proposal meets another payment status than the one it saw: nothing else can spoil it.
THEOREM LegacyStatusAgreesCurrent ==
  Spec /\ []DerivationsCurrent => []LegacyStatusAgrees
<1>1. Init => LegacyStatusAgrees
  BY DEF Init, LegacyStatusAgrees
<1>2. TypeOK /\ DerivationsCurrent /\ LegacyStatusAgrees /\ [Next]_vars => LegacyStatusAgrees'
  BY SummariesStep
<1> QED BY <1>1, <1>2, TypeCorrect, PTL DEF Spec

\* As long as requests on one operation do not overlap, every derivation is current.
LEMMA DerivationsCurrentApart == Spec /\ []OneRequestPerOperation => []DerivationsCurrent
<1>1. JobsCurrent => DerivationsCurrent
  BY DEF JobsCurrent, JobCurrent, DerivationsCurrent
<1> QED BY <1>1, JobsCurrentAlways, PTL

\* So it does as long as requests on one operation do not overlap.
THEOREM LegacyStatusAgreesApart ==
  Spec /\ []OneRequestPerOperation => []LegacyStatusAgrees
BY LegacyStatusAgreesCurrent, DerivationsCurrentApart, PTL

\* An event id has one row in the history of its payment, however often the provider sends it,
\* with whatever statuses and whatever other requests overlap it, as long as two deliveries
\* under that id do not.
THEOREM EventAppliedOnceApart ==
  Spec /\ []DeliveriesApart => []EventAppliedOnce
<1>1. Init => DeliveriesFresh /\ EventAppliedOnce
  BY DEF Init, DeliveriesFresh, EventAppliedOnce, ExistingEvent, Idle
<1>2. TypeOK /\ DeliveriesApart /\ DeliveriesFresh /\ EventAppliedOnce /\ [Next]_vars
        => DeliveriesFresh' /\ EventAppliedOnce'
  BY DeliveriesStep
<1> QED BY <1>1, <1>2, TypeCorrect, PTL DEF Spec
-----------------------------------------------------------------------------

\* With the sandbox provider and current decisions, a payment that waits for its approval
\* belongs to an operation that was not cancelled and captured nothing.
LEMMA PendingPaymentsStep ==
  ASSUME Sandbox, IInv, IntentsFresh, SandboxOnly, JobsCurrent, PendingPaymentsOpen,
         [Next]_vars
  PROVE  PendingPaymentsOpen'
<1>0. TypeOK
  BY DEF IInv
<1>a. ASSUME UNCHANGED <<paymentStatus, intentStatus, fundsHeldAt>>
      PROVE  PendingPaymentsOpen'
  BY <1>a DEF PendingPaymentsOpen
<1>1. ASSUME NEW r \in Requests, Write(r)
      PROVE  PendingPaymentsOpen'
  <2> DEFINE o == OperationOf(job[r])
  <2>0. /\ job[r] \in Jobs \cup {Idle} /\ JobCurrent(job[r])
        /\ job[r].op # "webhook" => o = job[r].e
        /\ o \in Escrows
    BY <1>0, <1>1, WritesOwnRows DEF TypeOK, JobsCurrent, OperationOf
  <2>a. ASSUME intentStatus'[o] \in {"NONE", "PAYMENT_PENDING"} => ~fundsHeldAt'[o],
               intentStatus'[o] = "PAYMENT_PENDING" =>
                 paymentStatus'[o] # "PAYMENT_CANCELLED"
        PROVE  PendingPaymentsOpen'
    BY <1>0, <1>1, <2>a, WritesOwnRows DEF PendingPaymentsOpen
  <2>b. /\ intentStatus[o] \in {"NONE", "PAYMENT_PENDING"} => ~fundsHeldAt[o]
        /\ intentStatus[o] = "PAYMENT_PENDING" => paymentStatus[o] # "PAYMENT_CANCELLED"
    BY <2>0 DEF PendingPaymentsOpen
  <2> HIDE DEF o
  <2>1. CASE CreateEscrowTx(r)
    <3>1. /\ intentStatus'[o] = intentStatus[o] /\ fundsHeldAt'[o] = fundsHeldAt[o]
          /\ paymentStatus'[o] = "PAYMENT_PENDING"
      BY <1>0, <2>0, <2>1, OnePaymentWritten DEF CreateEscrowTx, intentVars
    <3> QED BY <2>a, <2>b, <3>1
  <2>2. CASE CreatePaymentIntent(r)
    <3>1. intentStatus[o] = "NONE" /\ paymentStatus[o] # "PAYMENT_CANCELLED"
      BY <2>0, <2>2 DEF CreatePaymentIntent, IntentsFresh, JobCurrent
    <3>2. fundsHeldAt'[o] = fundsHeldAt[o] /\ paymentStatus'[o] = paymentStatus[o]
      BY <2>2 DEF CreatePaymentIntent, escrowVars
    <3> QED BY <2>a, <2>b, <3>1, <3>2
  <2>3. CASE MarkShippedTx(r) \/ AcceptDeliveryProposalTx(r)
    <3>1. /\ intentStatus'[o] = intentStatus[o] /\ fundsHeldAt'[o] = fundsHeldAt[o]
          /\ paymentStatus'[o] = paymentStatus[o]
      BY <1>0, <2>0, <2>3, OnePaymentWritten
         DEF MarkShippedTx, AcceptDeliveryProposalTx, intentVars
    <3> QED BY <2>a, <2>b, <3>1
  <2>4. CASE ConfirmDeliveryTx(r) \/ ReleaseFundsTx(r) \/ OpenDisputeTx(r)
             \/ ResolveDisputeTx(r) \/ CancelEscrowTx(r)
    <3>1. /\ intentStatus'[o] \in {"NONE", "PAYMENT_PENDING"} =>
               intentStatus'[o] = intentStatus[o]
          /\ fundsHeldAt'[o] = fundsHeldAt[o]
      <4>1. MarkPayments(o) /\ UNCHANGED fundsHeldAt
        BY <2>0, <2>4 DEF ConfirmDeliveryTx, ReleaseFundsTx, OpenDisputeTx, CancelEscrowTx,
           ResolveDisputeTx, MarkPayments
      <4> QED BY <1>0, <2>0, <4>1 DEF MarkPayments, MarkPaymentsReadyToRelease,
           MarkPaymentsReleased, MarkPaymentsDisputed, MarkPaymentsRefunded, MoveIntent,
           TypeOK
    <3>2. CASE CancelEscrowTx(r) \/ MarkPaymentsRefunded(o)
      <4>1. MarkPaymentsRefunded(o)
        BY <2>0, <3>2 DEF CancelEscrowTx
      <4>2. intentStatus'[o] # "PAYMENT_PENDING"
        BY <1>0, <2>0, <4>1 DEF MarkPaymentsRefunded, MoveIntent, TypeOK
      <4> QED BY <2>a, <2>b, <3>1, <4>2
    <3>3. CASE ~(CancelEscrowTx(r) \/ MarkPaymentsRefunded(o))
      <4>1. paymentStatus'[o] \in {"PAYMENT_RELEASED", "PAYMENT_RECEIVED", "DISPUTED"}
        BY <1>0, <2>0, <2>4, <3>3, OnePaymentWritten DEF ConfirmDeliveryTx, ReleaseFundsTx,
           OpenDisputeTx, ResolveDisputeTx
      <4> QED BY <2>a, <2>b, <3>1, <4>1
    <3> QED BY <3>2, <3>3
  <2>5. CASE ApproveSandboxPaymentTx(r)
    <3>1. intentStatus'[o] = "FUNDS_HELD"
      BY <1>0, <2>0, <2>5 DEF ApproveSandboxPaymentTx, TypeOK
    <3> QED BY <2>a, <3>1
  <2>6. ~ApplyWebhookStatusTx(r)
    BY DEF ApplyWebhookStatusTx, IInv, JobsJustified, JobJustified, SandboxOnly
  <2>7. CASE DeclineDeliveryProposalTx(r) \/ IssuePolicy(r)
    BY <1>a, <2>7 DEF DeclineDeliveryProposalTx, IssuePolicy, escrowVars, intentVars
  <2> QED BY <1>1, <2>1, <2>2, <2>3, <2>4, <2>5, <2>6, <2>7 DEF Write
<1>2. CASE \A r \in Requests : ~Write(r)
  BY <1>a, <1>2 DEF Next, Call, CreateCheckout, MarkShipped, ConfirmDelivery, ReleaseFunds,
     OpenDispute, CancelEscrow, ResolveDispute, ApproveSandboxPayment,
     RespondDeliveryProposal, ReceiveWebhook, Begin, AbortRequest, tables, ProviderReports,
     CreateDeliveryProposal, UpdateListing, UpdateListingStatus, intentVars, escrowVars, vars
<1> QED BY <1>1, <1>2

\* A current approval captures the money of an open operation that has none captured.
LEMMA ApprovalCaptures ==
  ASSUME Sandbox, IInv, SandboxOnly, JobsCurrent, PendingPaymentsOpen,
         NEW r \in Requests, ApproveSandboxPaymentTx(r)
  PROVE  SerialCustody!Next
<1>0. TypeOK
  BY DEF IInv
<1>1. PICK e \in Escrows : e = job[r].e
  <2>1. job[r] \in Jobs \cup {Idle}
    BY <1>0 DEF TypeOK
  <2> QED BY <2>1, JobFields DEF ApproveSandboxPaymentTx
<1>2. intentStatus[e] = "PAYMENT_PENDING"
  BY <1>1 DEF ApproveSandboxPaymentTx, JobsCurrent, JobCurrent
<1>3. paymentStatus[e] = "PAYMENT_PENDING"
  <2>1. ~Captured(e)
    BY <1>2 DEF Captured, PendingPaymentsOpen, SandboxOnly
  <2>2. paymentStatus[e] \notin {"PAYMENT_RECEIVED", "DISPUTED", "PAYMENT_RELEASED",
                                 "PAYMENT_REFUNDED"}
    BY <2>1 DEF IInv, NothingMovesBeforeCapture
  <2>3. paymentStatus[e] # "NONE" /\ paymentStatus[e] # "PAYMENT_CANCELLED"
    BY <1>2 DEF IInv, RowsComeFirst, PendingPaymentsOpen
  <2> QED BY <1>0, <2>2, <2>3 DEF TypeOK, EscrowPaymentStatus
<1>4. e \in openOperations /\ moneyPlaces[e] = "none"
  BY <1>2, <1>3 DEF openOperations, Live, moneyPlaces, Place
<1>5. openOperations' = openOperations \cup {e}
  BY <1>0, <1>1, OpenAfterSetEscrow DEF ApproveSandboxPaymentTx, Live
<1>6. moneyPlaces' = [moneyPlaces EXCEPT ![e] = "held"]
  BY <1>0, <1>1, MoneyAfterMove DEF ApproveSandboxPaymentTx, Place
<1> QED BY <1>4, <1>5, <1>6 DEF SerialCustody!Next, SerialCustody!Capture

\* No other step of the sandbox marketplace takes money from a buyer.
LEMMA OnlyApprovalsCapture ==
  ASSUME IInv, IntentsFresh, Sandbox, SandboxOnly, [Next]_vars,
         \A r \in Requests : ~ApproveSandboxPaymentTx(r), NEW e \in Escrows,
         moneyPlaces'[e] = "held"
  PROVE  moneyPlaces[e] = "held"
<1>0. TypeOK
  BY DEF IInv
<1>1. intentStatus'[e] \in {"FUNDS_HELD", "READY_TO_RELEASE"}
  BY DEF moneyPlaces, Place
<1>2. SUFFICES intentStatus[e] \in {"FUNDS_HELD", "READY_TO_RELEASE"}
  BY DEF moneyPlaces, Place
<1>3. ASSUME NEW r \in Requests, Write(r)
      PROVE  intentStatus[e] \in {"FUNDS_HELD", "READY_TO_RELEASE"}
  <2>0. job[r] \in Jobs \cup {Idle}
    BY <1>0 DEF TypeOK
  <2>1. CASE ConfirmDeliveryTx(r) \/ ReleaseFundsTx(r) \/ OpenDisputeTx(r)
             \/ CancelEscrowTx(r) \/ ResolveDisputeTx(r)
    <3>1. job[r].e \in Escrows /\ MarkPayments(job[r].e)
      BY <2>0, <2>1, JobFields DEF ConfirmDeliveryTx, ReleaseFundsTx, OpenDisputeTx,
         CancelEscrowTx, ResolveDisputeTx, MarkPayments
    <3> QED BY <1>0, <1>1, <3>1 DEF MarkPayments, MarkPaymentsReadyToRelease,
         MarkPaymentsReleased, MarkPaymentsDisputed, MarkPaymentsRefunded, MoveIntent, TypeOK
  <2>2. CASE CreatePaymentIntent(r)
    BY <1>0, <1>1, <2>2 DEF CreatePaymentIntent, TypeOK
  <2>3. ~ApplyWebhookStatusTx(r)
    BY DEF ApplyWebhookStatusTx, IInv, JobsJustified, JobJustified, SandboxOnly
  <2> QED BY <1>1, <1>3, <2>1, <2>2, <2>3 DEF Write, CreateEscrowTx, MarkShippedTx,
       AcceptDeliveryProposalTx, DeclineDeliveryProposalTx, IssuePolicy, intentVars
<1>4. CASE \A r \in Requests : ~Write(r)
  BY <1>1, <1>4 DEF Next, Call, CreateCheckout, MarkShipped, ConfirmDelivery, ReleaseFunds,
     OpenDispute, CancelEscrow, ResolveDispute, ApproveSandboxPayment,
     RespondDeliveryProposal, ReceiveWebhook, Begin, AbortRequest, tables, ProviderReports,
     CreateDeliveryProposal, UpdateListing, UpdateListingStatus, intentVars, vars
<1> QED BY <1>3, <1>4

\* A step of Custody that captures nothing new is a step of it without late captures.
LEMMA NoLateCapture ==
  ASSUME [Custody!Next]_<<openOperations, moneyPlaces>>,
         \A e \in Escrows : moneyPlaces'[e] = "held" => moneyPlaces[e] = "held"
  PROVE  [SerialCustody!Next]_<<openOperations, moneyPlaces>>
<1>1. SUFFICES ASSUME NEW e \in Escrows,
                      \/ Custody!Open(e) \/ Custody!Capture(e) \/ Custody!Freeze(e)
                      \/ Custody!PayOut(e) \/ Custody!Return(e)
               PROVE  SerialCustody!Next
  BY DEF Custody!Next
<1>2. CASE Custody!Open(e)
  BY <1>2 DEF Custody!Open, SerialCustody!Open, SerialCustody!Next
<1>3. CASE Custody!Capture(e)
  <2>1. moneyPlaces' = [moneyPlaces EXCEPT ![e] = "held"]
        /\ openOperations' = openOperations \cup {e}
    BY <1>3 DEF Custody!Capture
  <2>2. moneyPlaces[e] = "held"
    BY <2>1 DEF moneyPlaces
  <2>3. moneyPlaces' = moneyPlaces
    BY <2>1, <2>2 DEF moneyPlaces
  <2> QED BY <2>1, <2>3 DEF SerialCustody!Open, SerialCustody!Next
<1>4. CASE Custody!Freeze(e)
  BY <1>4 DEF Custody!Freeze, SerialCustody!Freeze, SerialCustody!Next
<1>5. CASE Custody!PayOut(e)
  BY <1>5 DEF Custody!PayOut, SerialCustody!PayOut, SerialCustody!Next
<1>6. CASE Custody!Return(e)
  BY <1>6 DEF Custody!Return, SerialCustody!Return, SerialCustody!Next
<1> QED BY <1>1, <1>2, <1>3, <1>4, <1>5, <1>6

\* With the sandbox provider, and as long as requests on one operation do not overlap, no
\* capture lands on an operation already closed or already paid: the services implement
\* Custody without late captures.
THEOREM SandboxImplementsSerialCustody ==
  ASSUME Sandbox
  PROVE  Spec /\ []OneRequestPerOperation => ImplementsSerialCustody
<1> DEFINE I == /\ IInv /\ IntentsFresh /\ SandboxOnly /\ JobsCurrent
                /\ PendingPaymentsOpen
<1>1. Init => SandboxOnly /\ PendingPaymentsOpen /\ SerialCustody!Init
  BY DEF Init, SandboxOnly, PendingPaymentsOpen, SerialCustody!Init, openOperations,
     moneyPlaces, Live, Place
<1>2. IInv /\ IntentsFresh /\ SandboxOnly /\ JobsCurrent /\ PendingPaymentsOpen
        /\ [Next]_vars => PendingPaymentsOpen'
  BY PendingPaymentsStep
<1>3. I /\ [Next]_vars => [SerialCustody!Next]_<<openOperations, moneyPlaces>>
  <2> SUFFICES ASSUME I, [Next]_vars
               PROVE  [SerialCustody!Next]_<<openOperations, moneyPlaces>>
    OBVIOUS
  <2>1. CASE \E r \in Requests : ApproveSandboxPaymentTx(r)
    BY <2>1, ApprovalCaptures
  <2>2. CASE \A r \in Requests : ~ApproveSandboxPaymentTx(r)
    <3>1. [Custody!Next]_<<openOperations, moneyPlaces>>
      BY CustodyStep
    <3>2. \A e \in Escrows : moneyPlaces'[e] = "held" => moneyPlaces[e] = "held"
      BY <2>2, OnlyApprovalsCapture
    <3> QED BY <3>1, <3>2, NoLateCapture
  <2> QED BY <2>1, <2>2
<1>4. Spec /\ []OneRequestPerOperation => []I
  BY <1>1, <1>2, IntentsFreshAlways, SandboxOnlyStep, JobsCurrentAlways, PTL DEF Spec
<1> QED BY <1>1, <1>3, <1>4, PTL DEF Spec, ImplementsSerialCustody, SerialCustody!Spec
-----------------------------------------------------------------------------
(* What the pages offer.                                                     *)

\* Passes is what the call of a form has to meet: no handler begins without it.
LEMMA SubmittedPasses ==
  ASSUME NEW form \in Forms, NEW r \in Requests, NEW e \in Escrows, Submit(form, r, e)
  PROVE  Passes(form, e)
<1>1. CASE form = "answer"
  <2>1. \E m \in Methods : MayAnswer(e, m)
    BY <1>1 DEF Submit, RespondDeliveryProposal
  <2> QED BY <1>1, <2>1 DEF Passes
<1>2. CASE form # "answer"
  BY <1>2 DEF Forms, Submit, Passes, CreateProtectedPurchase, CreateCheckout,
     ApproveSandboxPayment, MarkShipped, ConfirmDelivery, ReleaseFunds, OpenDispute,
     CancelEscrow, ResolveDispute
<1> QED BY <1>1, <1>2

\* What a request that is free may begin with when a form is sent.
CallOf(form, e) ==
  CASE form = "buy"     -> {[op |-> "checkout", e |-> e]}
    [] form = "approve" -> {[op |-> "approve", e |-> e]}
    [] form = "ship"    -> {[op |-> "ship", e |-> e,
                             ship |-> IF shippingStatus[e] = "WAITING_MEETING"
                                      THEN "AT_MEETING_POINT" ELSE "IN_TRANSIT"]}
    [] form = "confirm" -> {[op |-> "confirm", e |-> e,
                             ship |-> IF shippingStatus[e] \in {"WAITING_MEETING",
                                                               "AT_MEETING_POINT"}
                                      THEN "QR_CONFIRMED" ELSE "DELIVERED"]}
    [] form = "release" -> {[op |-> "release", e |-> e]}
    [] form = "dispute" -> {[op |-> "dispute", e |-> e]}
    [] form = "cancel"  -> {[op |-> "cancel", e |-> e,
                             pay |-> IF paymentStatus[e] = "PAYMENT_PENDING"
                                     THEN "PAYMENT_CANCELLED" ELSE "PAYMENT_REFUNDED"]}
    [] form = "resolve" -> {[op |-> "resolve", e |-> e, pay |-> outcome] :
                              outcome \in {"PAYMENT_RELEASED", "PAYMENT_REFUNDED"}}
    [] form = "answer"  -> {[op |-> "decline", e |-> e, method |-> m] :
                              m \in {n \in Methods : MayAnswer(e, n)}}

\* And Passes is all it has to meet: there is a call to begin with, and a request that
\* begins with it has been let in.
LEMMA PassingSubmits ==
  ASSUME NEW form \in Forms, NEW r \in Requests, NEW e \in Escrows, Passes(form, e)
  PROVE  /\ CallOf(form, e) # {}
         /\ \A j \in CallOf(form, e) : Begin(r, j) => Submit(form, r, e)
<1>1. CASE form = "buy"
  BY <1>1 DEF Passes, CallOf, Submit, CreateProtectedPurchase, CreateCheckout
<1>2. CASE form = "approve"
  BY <1>2 DEF Passes, CallOf, Submit, ApproveSandboxPayment
<1>3. CASE form = "ship"
  BY <1>3 DEF Passes, CallOf, Submit, MarkShipped
<1>4. CASE form = "confirm"
  BY <1>4 DEF Passes, CallOf, Submit, ConfirmDelivery
<1>5. CASE form = "release"
  BY <1>5 DEF Passes, CallOf, Submit, ReleaseFunds
<1>6. CASE form = "dispute"
  BY <1>6 DEF Passes, CallOf, Submit, OpenDispute
<1>7. CASE form = "cancel"
  BY <1>7 DEF Passes, CallOf, Submit, CancelEscrow
<1>8. CASE form = "resolve"
  <2>1. CallOf(form, e) = {[op |-> "resolve", e |-> e, pay |-> outcome] :
                             outcome \in {"PAYMENT_RELEASED", "PAYMENT_REFUNDED"}}
    BY <1>8 DEF CallOf
  <2>2. MayResolve(e)
    BY <1>8 DEF Passes
  <2> QED BY <1>8, <2>1, <2>2 DEF Submit, ResolveDispute
<1>9. CASE form = "answer"
  <2>1. CallOf(form, e) = {[op |-> "decline", e |-> e, method |-> m] :
                             m \in {n \in Methods : MayAnswer(e, n)}}
    BY <1>9 DEF CallOf
  <2>2. \E m \in Methods : MayAnswer(e, m)
    BY <1>9 DEF Passes
  <2> QED BY <1>9, <2>1, <2>2 DEF Submit, RespondDeliveryProposal
<1> QED BY <1>1, <1>2, <1>3, <1>4, <1>5, <1>6, <1>7, <1>8, <1>9 DEF Forms

\* The three status columns of one row after an UPDATE of it.
LEMMA RowUpdated ==
  ASSUME TypeOK, NEW e \in Escrows, NEW pay, NEW ship, NEW status,
         SetEscrow(e, pay, ship, status)
  PROVE  paymentStatus'[e] = pay /\ shippingStatus'[e] = ship /\ escrowStatus'[e] = status
BY DEF SetEscrow, TypeOK

\* No transaction of a request makes a proposal or takes one away: it only answers them.
LEMMA ProposalsStay ==
  ASSUME TypeOK, ShippingFollowsPayment, NEW r \in Requests, Write(r)
  PROVE  \A e \in Escrows, m \in Methods :
           proposals'[e][m] # "NONE" <=> proposals[e][m] # "NONE"
<1>1. CASE AcceptDeliveryProposalTx(r) \/ DeclineDeliveryProposalTx(r)
  <2>1. job[r].op \in {"accept", "decline"}
    BY <1>1 DEF AcceptDeliveryProposalTx, DeclineDeliveryProposalTx
  <2>2. PICK f \in Escrows, n \in Methods : f = job[r].e /\ n = job[r].method
    BY <2>1, JobFields DEF TypeOK
  <2>3. proposals[f][n] # "NONE"
    BY <2>1, <2>2 DEF ShippingFollowsPayment, AnswerRemembers
  <2>4. PICK answer \in {"ACCEPTED", "DECLINED"} :
          proposals' = [proposals EXCEPT ![f][n] = answer]
    BY <1>1, <2>2 DEF AcceptDeliveryProposalTx, DeclineDeliveryProposalTx
  <2> QED BY <2>3, <2>4 DEF TypeOK
<1>2. CASE UNCHANGED proposals
  BY <1>2
<1> QED BY <1>1, <1>2 DEF Write, CreateEscrowTx, CreatePaymentIntent, MarkShippedTx,
   ConfirmDeliveryTx, ReleaseFundsTx, OpenDisputeTx, CancelEscrowTx, ResolveDisputeTx,
   ApproveSandboxPaymentTx, ApplyWebhookStatusTx, IssuePolicy

\* A transaction that leaves an operation paid gives it a shipping status; the others never
\* take one away.
LEMMA WriteShips ==
  ASSUME IInv, ShippingFollowsPayment, NEW r \in Requests, Write(r),
         NEW e \in Escrows, e = OperationOf(job[r])
  PROVE  \/ UNCHANGED escrowVars
         \/ \E pay, ship, status :
              /\ SetEscrow(e, pay, ship, status)
              /\ pay # "NONE"
              /\ ship # "NULL" \/ (ship = shippingStatus[e] /\ pay # "PAYMENT_RECEIVED")
<1>0. job[r] \in Jobs \cup {Idle} /\ JobJustified(job[r]) /\ AnswerRemembers(job[r])
  BY DEF IInv, TypeOK, JobsJustified, ShippingFollowsPayment
<1>b. job[r].op # "webhook" => e = job[r].e
  BY DEF OperationOf
<1>1. CASE CreateEscrowTx(r)
  <2>1. shippingStatus[e] = "NULL"
    BY <1>1, <1>b DEF CreateEscrowTx, IInv, CheckoutsFresh, RowsComeFirst
  <2> QED BY <1>1, <1>b, <2>1 DEF CreateEscrowTx
<1>2. CASE MarkShippedTx(r)
  BY <1>0, <1>2, <1>b, JobFields DEF MarkShippedTx, JobJustified
<1>3. CASE AcceptDeliveryProposalTx(r)
  BY <1>0, <1>3, <1>b DEF AcceptDeliveryProposalTx, JobJustified, AnswerRemembers
<1>4. CASE ConfirmDeliveryTx(r)
  BY <1>4, <1>b DEF ConfirmDeliveryTx
<1>5. CASE ReleaseFundsTx(r) \/ OpenDisputeTx(r) \/ CancelEscrowTx(r) \/ ResolveDisputeTx(r)
  <2>1. \E pay \in {"PAYMENT_RELEASED", "DISPUTED", "PAYMENT_CANCELLED", "PAYMENT_REFUNDED"} :
          \E status : SetEscrow(e, pay, shippingStatus[e], status)
    BY <1>0, <1>5, <1>b, JobFields DEF ReleaseFundsTx, OpenDisputeTx, CancelEscrowTx,
       ResolveDisputeTx
  <2> QED BY <2>1
<1>6. CASE ApproveSandboxPaymentTx(r)
  BY <1>6, <1>b, InitialShippingType DEF ApproveSandboxPaymentTx
<1>7. CASE ApplyWebhookStatusTx(r)
  <2>1. ApplyEscrowStatusFromPayment(e, job[r].event.status)
    BY <1>7 DEF ApplyWebhookStatusTx, OperationOf
  <2> QED BY <2>1, InitialShippingType DEF ApplyEscrowStatusFromPayment
<1>8. CASE CreatePaymentIntent(r) \/ DeclineDeliveryProposalTx(r) \/ IssuePolicy(r)
  BY <1>8 DEF CreatePaymentIntent, DeclineDeliveryProposalTx, IssuePolicy
<1> QED BY <1>1, <1>2, <1>3, <1>4, <1>5, <1>6, <1>7, <1>8 DEF Write

\* A handler begins an answer only to a proposal there is, and starts the shipping only of
\* an operation that is paid.
LEMMA CallsRemember ==
  ASSUME TypeOK, RowsComeFirst, ShippingFollowsPayment,
         NEW r \in Requests, NEW e \in Escrows, Call(r, e)
  PROVE  \E j \in Jobs : Begin(r, j) /\ AnswerRemembers(j)
<1>1. ASSUME NEW m \in Methods, RespondDeliveryProposal(r, e, m)
      PROVE  \E j \in Jobs : Begin(r, j) /\ AnswerRemembers(j)
  <2>1. /\ paymentStatus[e] \in EscrowPaymentStatus
        /\ shippingStatus[e] \in EscrowShippingStatus \cup {"NULL"}
        /\ proposals[e][m] # "NONE"
        /\ shippingStatus[e] # "NULL"
    BY <1>1 DEF RespondDeliveryProposal, MayAnswer, TypeOK, ShippingFollowsPayment
  <2>2. GetInitialShippingStatus(MethodLabel(m)) \in {"WAITING_DISPATCH", "WAITING_MEETING"}
    BY DEF GetInitialShippingStatus
  <2>3. "WAITING_DISPATCH" \in EscrowShippingStatus /\ "WAITING_MEETING" \in EscrowShippingStatus
    BY DEF EscrowShippingStatus
  <2> QED BY <1>1, <2>1, <2>2, <2>3 DEF RespondDeliveryProposal, AnswerRemembers, Jobs
<1>2. CASE \A m \in Methods : ~RespondDeliveryProposal(r, e, m)
  BY <1>2 DEF Call, CreateCheckout, MarkShipped, ConfirmDelivery, ReleaseFunds, OpenDispute,
     CancelEscrow, ResolveDispute, ApproveSandboxPayment, AnswerRemembers, Jobs
<1> QED BY <1>1, <1>2

\* A step that hands one request a job keeps what the answers remember, if every proposal
\* made stays made.
LEMMA AnswersKept ==
  ASSUME TypeOK, ShippingFollowsPayment, NEW r \in Requests, NEW j \in Jobs \cup {Idle},
         job' = [job EXCEPT ![r] = j], AnswerRemembers(j),
         \A e \in Escrows, m \in Methods : proposals[e][m] # "NONE" => proposals'[e][m] # "NONE"
  PROVE  \A q \in Requests : AnswerRemembers(job[q])'
<1> SUFFICES ASSUME NEW q \in Requests
             PROVE  AnswerRemembers(job[q])'
  OBVIOUS
<1>1. /\ job'[q] \in Jobs \cup {Idle}
      /\ AnswerRemembers(job'[q])
  BY DEF TypeOK, ShippingFollowsPayment
<1>2. job'[q].op \in {"accept", "decline"} => job'[q].e \in Escrows /\ job'[q].method \in Methods
  BY <1>1, JobFields
<1> QED BY <1>1, <1>2 DEF AnswerRemembers

\* Every step keeps paid operations, and those with a proposal, on their way.
LEMMA ShippingStep ==
  ASSUME IInv, ShippingFollowsPayment, [Next]_vars
  PROVE  ShippingFollowsPayment'
<1>0. TypeOK /\ RowsComeFirst
  BY DEF IInv
<1> DEFINE RowsFollow ==
      \A e \in Escrows :
        /\ paymentStatus[e] = "NONE" => escrowStatus[e] = "NONE"
        /\ \/ paymentStatus[e] = "PAYMENT_RECEIVED"
           \/ \E m \in Methods : proposals[e][m] # "NONE"
           => shippingStatus[e] # "NULL"
<1>a. RowsFollow /\ UNCHANGED <<paymentStatus, shippingStatus, escrowStatus, proposals>>
        => RowsFollow'
  OBVIOUS
<1>b. RowsFollow
  BY DEF ShippingFollowsPayment
<1>c. Idle \in Jobs \cup {Idle} /\ AnswerRemembers(Idle)
  BY DEF AnswerRemembers, Idle
<1>d. RowsFollow' /\ (\A q \in Requests : AnswerRemembers(job[q])') => ShippingFollowsPayment'
  BY DEF ShippingFollowsPayment
<1> HIDE DEF RowsFollow
<1>e. ASSUME NEW r \in Requests, NEW j \in Jobs \cup {Idle}, AnswerRemembers(j),
             job' = [job EXCEPT ![r] = j],
             UNCHANGED <<paymentStatus, shippingStatus, escrowStatus, proposals>>
      PROVE  ShippingFollowsPayment'
  <2>1. \A q \in Requests : AnswerRemembers(job[q])'
    BY <1>0, <1>e, AnswersKept
  <2> QED BY <1>a, <1>b, <1>d, <1>e, <2>1
<1>1. ASSUME NEW r \in Requests, NEW e \in Escrows, Call(r, e)
      PROVE  ShippingFollowsPayment'
  <2>1. PICK j \in Jobs : Begin(r, j) /\ AnswerRemembers(j)
    BY <1>0, <1>1, CallsRemember
  <2> QED BY <1>e, <2>1 DEF Begin, tables
<1>2. ASSUME NEW r \in Requests, Write(r)
      PROVE  ShippingFollowsPayment'
  <2>1. PICK j \in Jobs \cup {Idle} : /\ job' = [job EXCEPT ![r] = j]
                                     /\ j.op \notin {"webhook", "accept", "decline"}
    BY <1>0, <1>2, NextJob
  <2>2. AnswerRemembers(j)
    BY <2>1 DEF AnswerRemembers
  <2>3. \A e \in Escrows, m \in Methods : proposals'[e][m] # "NONE" <=> proposals[e][m] # "NONE"
    BY <1>0, <1>2, ProposalsStay
  <2>4. \A q \in Requests : AnswerRemembers(job[q])'
    BY <1>0, <2>1, <2>2, <2>3, AnswersKept
  <2>5. ASSUME NEW e \in Escrows
        PROVE  /\ paymentStatus'[e] = "NONE" => escrowStatus'[e] = "NONE"
               /\ \/ paymentStatus'[e] = "PAYMENT_RECEIVED"
                  \/ \E m \in Methods : proposals[e][m] # "NONE"
                  => shippingStatus'[e] # "NULL"
    <3>1. CASE e # OperationOf(job[r]) \/ UNCHANGED escrowVars
      <4>1. /\ paymentStatus'[e] = paymentStatus[e]
            /\ shippingStatus'[e] = shippingStatus[e]
            /\ escrowStatus'[e] = escrowStatus[e]
        BY <1>0, <1>2, <3>1, WritesOwnRows DEF escrowVars
      <4> QED BY <1>b, <4>1 DEF RowsFollow
    <3>2. CASE e = OperationOf(job[r]) /\ ~UNCHANGED escrowVars
      <4>1. PICK pay, ship, status :
              /\ SetEscrow(e, pay, ship, status)
              /\ pay # "NONE"
              /\ ship # "NULL" \/ (ship = shippingStatus[e] /\ pay # "PAYMENT_RECEIVED")
        BY <1>2, <3>2, WriteShips
      <4>2. paymentStatus'[e] = pay /\ shippingStatus'[e] = ship
        BY <1>0, <4>1, RowUpdated
      <4> QED BY <1>b, <4>1, <4>2 DEF RowsFollow
    <3> QED BY <3>1, <3>2
  <2>6. RowsFollow'
    BY <2>3, <2>5 DEF RowsFollow
  <2> QED BY <1>d, <2>4, <2>6
<1>3. ASSUME NEW e \in Escrows, NEW m \in Methods, CreateDeliveryProposal(e, m)
      PROVE  ShippingFollowsPayment'
  <2>1. /\ proposals' = [proposals EXCEPT ![e][m] = "PENDING"]
        /\ paymentStatus[e] = "PAYMENT_RECEIVED"
        /\ UNCHANGED <<paymentStatus, shippingStatus, escrowStatus, job>>
    BY <1>3 DEF CreateDeliveryProposal, escrowVars
  <2>2. \A f \in Escrows, n \in Methods :
          /\ proposals[f][n] # "NONE" => proposals'[f][n] # "NONE"
          /\ f # e => proposals'[f][n] = proposals[f][n]
    BY <1>0, <2>1 DEF TypeOK
  <2>3. RowsFollow'
    BY <1>b, <2>1, <2>2 DEF RowsFollow
  <2>4. ASSUME NEW q \in Requests
        PROVE  AnswerRemembers(job[q])'
    <3>1. job[q] \in Jobs \cup {Idle} /\ AnswerRemembers(job[q]) /\ job'[q] = job[q]
      BY <1>0, <2>1 DEF TypeOK, ShippingFollowsPayment
    <3>2. job[q].op \in {"accept", "decline"} => job[q].e \in Escrows /\ job[q].method \in Methods
      BY <3>1, JobFields
    <3> QED BY <2>2, <3>1, <3>2 DEF AnswerRemembers
  <2> QED BY <1>d, <2>3, <2>4
<1>4. ASSUME NEW r \in Requests, NEW ev \in Events, ReceiveWebhook(r, ev)
      PROVE  ShippingFollowsPayment'
  <2> DEFINE j == [op |-> "webhook", event |-> ev]
  <2>1. j \in Jobs /\ AnswerRemembers(j) /\ Begin(r, j)
    BY <1>4 DEF ReceiveWebhook, Jobs, AnswerRemembers
  <2> QED BY <1>e, <2>1 DEF Begin, tables
<1>5. ASSUME NEW r \in Requests, AbortRequest(r)
      PROVE  ShippingFollowsPayment'
  BY <1>5, <1>c, <1>e DEF AbortRequest, Finish, tables
<1>6. CASE UNCHANGED <<paymentStatus, shippingStatus, escrowStatus, proposals, job>>
  <2>1. \A q \in Requests : AnswerRemembers(job[q])'
    BY <1>6 DEF ShippingFollowsPayment, AnswerRemembers
  <2> QED BY <1>6, <1>a, <1>b, <1>d, <2>1
<1> QED BY <1>1, <1>2, <1>3, <1>4, <1>5, <1>6 DEF Next, ProviderReports,
   UpdateListing, UpdateListingStatus, tables, escrowVars, vars

\* That is so in every state, whatever requests overlap.
LEMMA ShippingFollowsAlways == Spec => [](IInv /\ ShippingFollowsPayment)
<1>1. Init => ShippingFollowsPayment
  BY DEF Init, ShippingFollowsPayment, AnswerRemembers, Idle
<1>2. IInv /\ ShippingFollowsPayment /\ [Next]_vars => ShippingFollowsPayment'
  BY ShippingStep
<1> QED BY <1>1, <1>2, Invariance, PTL DEF Spec

\* The buyer of a paid operation can always report a problem from the account page, and the
\* API takes the report.
THEOREM BuyersCanComplain == Spec => []BuyerCanComplain
<1>1. IInv /\ ShippingFollowsPayment => BuyerCanComplain
  BY DEF ShippingFollowsPayment, BuyerCanComplain, Offers, Purchase, DisputePanel, Accepts,
     Admits, People, Passes, MayDispute
<1> QED BY <1>1, ShippingFollowsAlways, PTL
\* What a transaction leaves in a row that is paid or disputed, if the answers in flight
\* are current.
LEMMA WriteUnderWay ==
  ASSUME IInv, ShippingFollowsPayment, AnswersCurrent, PaidIsUnderWay,
         NEW r \in Requests, Write(r), NEW e \in Escrows, e = OperationOf(job[r])
  PROVE  \/ UNCHANGED escrowVars
         \/ \E pay, ship, status :
              /\ SetEscrow(e, pay, ship, status)
              /\ pay = "PAYMENT_RECEIVED" =>
                   ship \in {"WAITING_DISPATCH", "WAITING_MEETING", "IN_TRANSIT",
                            "AT_MEETING_POINT", "DELIVERED"}
              /\ pay = "DISPUTED" =>
                   \/ status = "DISPUTED"
                   \/ status = "SHIPPED" /\ ship \in {"AT_MEETING_POINT", "IN_TRANSIT"}
<1>0. job[r] \in Jobs \cup {Idle} /\ AnswerRemembers(job[r])
  BY DEF IInv, TypeOK, ShippingFollowsPayment
<1>b. job[r].op # "webhook" => e = job[r].e
  BY DEF OperationOf
<1>1. CASE CreateEscrowTx(r)
  BY <1>1, <1>b DEF CreateEscrowTx
<1>2. CASE MarkShippedTx(r)
  <2>1. PICK ship \in {"AT_MEETING_POINT", "IN_TRANSIT"} :
          SetEscrow(e, paymentStatus[e], ship,
                    DeriveLegacyEscrowStatus("PAYMENT_RECEIVED", ship))
    BY <1>0, <1>2, <1>b, JobFields DEF MarkShippedTx
  <2>2. DeriveLegacyEscrowStatus("PAYMENT_RECEIVED", ship) = "SHIPPED"
    BY <2>1 DEF DeriveLegacyEscrowStatus
  <2> QED BY <2>1, <2>2
<1>3. CASE AcceptDeliveryProposalTx(r)
  <2>1. PICK ship : /\ SetEscrow(e, paymentStatus[e], ship,
                                 DeriveLegacyEscrowStatus(paymentStatus[e], ship))
                    /\ paymentStatus[e] = "PAYMENT_RECEIVED" =>
                         ship \in {"WAITING_DISPATCH", "WAITING_MEETING"}
    BY <1>0, <1>3, <1>b DEF AcceptDeliveryProposalTx, AnswersCurrent, AnswerRemembers
  <2>2. DeriveLegacyEscrowStatus("DISPUTED", ship) = "DISPUTED"
    BY DEF DeriveLegacyEscrowStatus
  <2> QED BY <2>1, <2>2
<1>4. CASE ConfirmDeliveryTx(r)
  BY <1>4, <1>b DEF ConfirmDeliveryTx
<1>5. CASE ReleaseFundsTx(r) \/ OpenDisputeTx(r) \/ CancelEscrowTx(r) \/ ResolveDisputeTx(r)
  <2>1. \E pay \in {"PAYMENT_RELEASED", "DISPUTED", "PAYMENT_CANCELLED", "PAYMENT_REFUNDED"} :
          \E status : /\ SetEscrow(e, pay, shippingStatus[e], status)
                      /\ pay = "DISPUTED" => status = "DISPUTED"
    BY <1>0, <1>5, <1>b, JobFields DEF ReleaseFundsTx, OpenDisputeTx, CancelEscrowTx,
       ResolveDisputeTx
  <2> QED BY <2>1
<1>6. CASE ApproveSandboxPaymentTx(r)
  <2>1. \E ship \in {"WAITING_DISPATCH", "WAITING_MEETING"} :
          SetEscrow(e, "PAYMENT_RECEIVED", ship, "FUNDS_HELD")
    BY <1>6, <1>b DEF ApproveSandboxPaymentTx, GetInitialShippingStatus
  <2> QED BY <2>1
<1>7. CASE ApplyWebhookStatusTx(r)
  <2>1. ApplyEscrowStatusFromPayment(e, job[r].event.status)
    BY <1>7 DEF ApplyWebhookStatusTx, OperationOf
  <2>2. GetInitialShippingStatus("envio") = "WAITING_DISPATCH"
    BY DEF GetInitialShippingStatus
  <2> QED BY <2>1, <2>2 DEF ApplyEscrowStatusFromPayment
<1>8. CASE CreatePaymentIntent(r) \/ DeclineDeliveryProposalTx(r) \/ IssuePolicy(r)
  BY <1>8 DEF CreatePaymentIntent, DeclineDeliveryProposalTx, IssuePolicy
<1> QED BY <1>1, <1>2, <1>3, <1>4, <1>5, <1>6, <1>7, <1>8 DEF Write

\* Every step keeps paid operations under way, if the answers in flight are current.
LEMMA UnderWayStep ==
  ASSUME IInv, ShippingFollowsPayment, AnswersCurrent, PaidIsUnderWay, [Next]_vars
  PROVE  PaidIsUnderWay'
<1>0. TypeOK
  BY DEF IInv
<1>1. ASSUME NEW r \in Requests, Write(r), NEW e \in Escrows
      PROVE  /\ paymentStatus'[e] = "PAYMENT_RECEIVED" =>
                  shippingStatus'[e] \in {"WAITING_DISPATCH", "WAITING_MEETING",
                    "IN_TRANSIT", "READY_FOR_PICKUP", "AT_MEETING_POINT", "DELIVERED"}
             /\ paymentStatus'[e] = "DISPUTED" =>
                  \/ escrowStatus'[e] = "DISPUTED"
                  \/ /\ escrowStatus'[e] = "SHIPPED"
                     /\ shippingStatus'[e] \in {"AT_MEETING_POINT", "IN_TRANSIT"}
  <2>1. CASE e # OperationOf(job[r]) \/ UNCHANGED escrowVars
    <3>1. /\ paymentStatus'[e] = paymentStatus[e]
          /\ shippingStatus'[e] = shippingStatus[e]
          /\ escrowStatus'[e] = escrowStatus[e]
      BY <1>0, <1>1, <2>1, WritesOwnRows DEF escrowVars
    <3> QED BY <3>1 DEF PaidIsUnderWay
  <2>2. CASE e = OperationOf(job[r]) /\ ~UNCHANGED escrowVars
    <3>1. PICK pay, ship, status :
            /\ SetEscrow(e, pay, ship, status)
            /\ pay = "PAYMENT_RECEIVED" =>
                 ship \in {"WAITING_DISPATCH", "WAITING_MEETING", "IN_TRANSIT",
                          "AT_MEETING_POINT", "DELIVERED"}
            /\ pay = "DISPUTED" =>
                 \/ status = "DISPUTED"
                 \/ status = "SHIPPED" /\ ship \in {"AT_MEETING_POINT", "IN_TRANSIT"}
      BY <1>1, <2>2, WriteUnderWay
    <3>2. paymentStatus'[e] = pay /\ shippingStatus'[e] = ship /\ escrowStatus'[e] = status
      BY <1>0, <3>1, RowUpdated
    <3> QED BY <3>1, <3>2
  <2> QED BY <2>1, <2>2
<1>2. CASE \E r \in Requests : Write(r)
  BY <1>1, <1>2 DEF PaidIsUnderWay
<1>3. CASE UNCHANGED escrowVars
  BY <1>3 DEF PaidIsUnderWay, escrowVars
<1>4. CASE \A r \in Requests : ~Write(r)
  BY <1>3, <1>4 DEF Next, Call, CreateCheckout, MarkShipped, ConfirmDelivery, ReleaseFunds,
     OpenDispute, CancelEscrow, ResolveDispute, ApproveSandboxPayment,
     RespondDeliveryProposal, ReceiveWebhook, Begin, AbortRequest, tables, ProviderReports,
     CreateDeliveryProposal, UpdateListing, UpdateListingStatus, escrowVars, vars
<1> QED BY <1>2, <1>4

\* A paid operation is under way in every state, as long as no answer to a proposal meets
\* another payment status than the one it saw.
LEMMA UnderWayAlways ==
  Spec /\ []AnswersCurrent => [](IInv /\ ShippingFollowsPayment /\ PaidIsUnderWay)
<1>1. Init => PaidIsUnderWay
  BY DEF Init, PaidIsUnderWay
<1>2. IInv /\ ShippingFollowsPayment /\ AnswersCurrent /\ PaidIsUnderWay /\ [Next]_vars
        => PaidIsUnderWay'
  BY UnderWayStep
<1> QED BY <1>1, <1>2, ShippingFollowsAlways, PTL DEF Spec

\* Where no seller proposes a delivery there are no answers.
LEMMA NoProposalsNoAnswers ==
  ASSUME Methods = {}, TypeOK
  PROVE  AnswersCurrent
<1> SUFFICES ASSUME NEW r \in Requests, job[r].op = "accept"
             PROVE  FALSE
  BY DEF AnswersCurrent
<1> QED BY JobFields DEF TypeOK

\* Until the goods arrive somebody has a pending action whose form is on the page and is
\* accepted, whatever else overlaps, as long as no answer to a delivery proposal meets
\* another payment status than the one it saw.
THEOREM WorkIsAlwaysAssigned == Spec /\ []AnswersCurrent => []WorkIsAssigned
<1>1. PaidIsUnderWay => WorkIsAssigned
  <2> SUFFICES ASSUME PaidIsUnderWay, NEW e \in Escrows,
                      paymentStatus[e] = "PAYMENT_RECEIVED", shippingStatus[e] # "DELIVERED"
               PROVE  \E person \in {"buyer", "seller"} :
                        \E form \in PendingActions(person, e) :
                          Offers(person, form, e) /\ Accepts(person, form, e)
    BY DEF WorkIsAssigned
  <2>1. CASE shippingStatus[e] \in ToConfirm
    <3>1. "confirm" \in PendingActions("buyer", e)
      BY <2>1 DEF PendingActions, BuyerDeliveryActions
    <3>2. Offers("buyer", "confirm", e)
      BY <2>1 DEF Offers, Purchase, BuyerDeliveryActions
    <3>3. Accepts("buyer", "confirm", e)
      BY <2>1 DEF Accepts, Admits, Passes, MayConfirm, ToConfirm
    <3> QED BY <3>1, <3>2, <3>3
  <2>2. CASE shippingStatus[e] = "WAITING_DISPATCH"
    <3>1. "ship" \in PendingActions("seller", e)
      BY <2>2 DEF PendingActions, SellerShippingActions
    <3>2. Offers("seller", "ship", e)
      BY <2>2 DEF Offers, Sale, SellerShippingActions
    <3>3. Accepts("seller", "ship", e)
      BY DEF Accepts, Admits, Passes, MayShip
    <3> QED BY <3>1, <3>2, <3>3
  <2> QED BY <2>1, <2>2 DEF PaidIsUnderWay, ToConfirm
<1> QED BY <1>1, UnderWayAlways, PTL

\* While the marketplace holds the money of an operation some page offers a form, accepted
\* if sent, that moves it on, under the same condition.
THEOREM HeldMoneyAlwaysHasAnExit == Spec /\ []AnswersCurrent => []HeldMoneyHasAnExit
<1>1. IInv /\ ShippingFollowsPayment /\ PaidIsUnderWay => HeldMoneyHasAnExit
  <2> SUFFICES ASSUME IInv, ShippingFollowsPayment, PaidIsUnderWay, NEW e \in Escrows,
                      intentStatus[e] \in {"FUNDS_HELD", "READY_TO_RELEASE", "DISPUTED"}
               PROVE  \E person \in People, form \in Forms \ {"answer"} :
                        Offers(person, form, e) /\ Accepts(person, form, e)
    BY DEF HeldMoneyHasAnExit
  <2> USE DEF People, Forms
  <2>1. CASE paymentStatus[e] = "PAYMENT_RECEIVED"
    <3>1. Offers("buyer", "dispute", e)
      BY <2>1 DEF ShippingFollowsPayment, Offers, Purchase, DisputePanel
    <3>2. Accepts("buyer", "dispute", e)
      BY <2>1 DEF Accepts, Admits, Passes, MayDispute
    <3> QED BY <3>1, <3>2
  <2>2. CASE paymentStatus[e] = "DISPUTED" /\ escrowStatus[e] = "DISPUTED"
    <3>1. Offers("staff", "resolve", e)
      BY <2>2 DEF Offers, Console
    <3>2. Accepts("staff", "resolve", e)
      BY <2>2 DEF Accepts, Admits, Passes, MayResolve
    <3> QED BY <3>1, <3>2
  <2>3. CASE /\ paymentStatus[e] = "DISPUTED"
             /\ escrowStatus[e] = "SHIPPED"
             /\ shippingStatus[e] \in {"AT_MEETING_POINT", "IN_TRANSIT"}
    <3>1. Offers("staff", "confirm", e)
      BY <2>3 DEF Offers, Console
    <3>2. Accepts("staff", "confirm", e)
      BY <2>3 DEF Accepts, Admits, Passes, MayConfirm
    <3> QED BY <3>1, <3>2
  <2>4. paymentStatus[e] \in {"PAYMENT_RECEIVED", "DISPUTED"}
    BY DEF IInv, HeldFundsHaveLiveEscrow
  <2> QED BY <2>1, <2>2, <2>3, <2>4 DEF PaidIsUnderWay
<1> QED BY <1>1, UnderWayAlways, PTL

\* Where no seller proposes a delivery both hold without a condition: whatever overlaps,
\* and with either provider.
THEOREM PagesServeWithoutProposals ==
  ASSUME Methods = {}
  PROVE  Spec => [](HeldMoneyHasAnExit /\ WorkIsAssigned)
<1>1. TypeOK => AnswersCurrent
  BY NoProposalsNoAnswers
<1> QED BY <1>1, TypeCorrect, HeldMoneyAlwaysHasAnExit, WorkIsAlwaysAssigned, PTL

\* As long as no dispatch and no accepted proposal meets another payment status than the one
\* it saw, no form on a page that is up to date is refused, on the pages that go by the legacy
\* column included, except those a page offers blindly: the console's dispute of an operation
\* that is not paid, and the purchase card of the staff or of parties who may not trade.
THEOREM OffersAcceptedCurrent == Spec /\ []DerivationsCurrent => []OffersAreAccepted
<1> DEFINE I == /\ IInv /\ ShippingFollowsPayment /\ PaidIsUnderWay /\ LegacyStatusAgrees
<1>1. I => OffersAreAccepted
  <2> SUFFICES ASSUME I, Quiet, NEW e \in Escrows, NEW person \in People, NEW form \in Forms,
                      Offers(person, form, e), ~OfferedBlindly(person, form, e)
               PROVE  Accepts(person, form, e)
    BY DEF OffersAreAccepted
  <2>0. paymentStatus[e] \in EscrowPaymentStatus \cup {"NONE"}
    BY DEF IInv, TypeOK
  <2>1. CASE person # "seller" /\ form = "buy" /\ PurchaseCheckoutCard(e)
    <3>1. person = "buyer" /\ e \in Eligible
      BY <2>1 DEF OfferedBlindly, People
    <3>2. MayBuy(e)
      BY <2>1, <3>1 DEF PurchaseCheckoutCard, ListingDetailPage, MayBuy, Fresh, Quiet, Idle
    <3> QED BY <2>1, <3>1, <3>2 DEF Accepts, Admits, AdmitsToPayments, Passes
  <2>2. CASE person = "buyer" /\ form = "confirm" /\ BuyerDeliveryActions(e)
    BY <2>2 DEF Accepts, Admits, Passes, BuyerDeliveryActions, ToConfirm, MayConfirm
  <2>3. CASE person = "buyer" /\ form = "answer" /\ DeliveryProposalPanel(e)
    <3>1. \E m \in Methods : MayAnswer(e, m)
      BY <2>3 DEF DeliveryProposalPanel, PendingAnswer, MayAnswer, IInv, RowsComeFirst
    <3> QED BY <2>3, <3>1 DEF Accepts, Admits, Passes
  <2>4. CASE form = "dispute" /\ (DisputePanel(e) \/ person = "staff")
    BY <2>4 DEF OfferedBlindly, Accepts, Admits, Passes, DisputePanel, MayDispute
  <2>5. CASE person = "seller" /\ form = "ship" /\ SellerShippingActions(e)
    BY <2>5 DEF Accepts, Admits, Passes, SellerShippingActions, MayShip
  <2>6. CASE person = "staff" /\ form = "approve" /\ ConsolePayment(e)
    BY <2>6 DEF Accepts, Admits, AdmitsToPayments, Passes, ConsolePayment, MayApprove
  <2>7. CASE person = "staff" /\ form \in (Console(e) \cup Dashboard(e)) \ {"dispute"}
    <3>1. form \in {"cancel", "ship", "confirm", "release", "resolve"}
      BY <2>7 DEF Console, Dashboard
    <3>2. /\ paymentStatus[e] = "NONE" => escrowStatus[e] = "NONE"
          /\ paymentStatus[e] # "NONE" =>
               escrowStatus[e] = DeriveLegacyEscrowStatus(paymentStatus[e], shippingStatus[e])
          /\ paymentStatus[e] = "PAYMENT_RECEIVED" => shippingStatus[e] # "QR_CONFIRMED"
      BY DEF ShippingFollowsPayment, LegacyStatusAgrees, PaidIsUnderWay
    <3>3. CASE form = "cancel"
      <4>1. escrowStatus[e] \in {"FUNDS_PENDING", "FUNDS_HELD"}
        BY <2>7, <3>3 DEF Console, Dashboard
      <4>2. MayCancel(e)
        BY <2>0, <3>2, <4>1 DEF DeriveLegacyEscrowStatus, MayCancel, EscrowPaymentStatus
      <4> QED BY <2>7, <3>3, <4>2 DEF Accepts, Admits, Passes
    <3>4. CASE form = "ship"
      <4>1. escrowStatus[e] = "FUNDS_HELD"
        BY <2>7, <3>4 DEF Console, Dashboard
      <4>2. MayShip(e)
        BY <2>0, <3>2, <4>1 DEF DeriveLegacyEscrowStatus, MayShip, EscrowPaymentStatus
      <4> QED BY <2>7, <3>4, <4>2 DEF Accepts, Admits, Passes
    <3>5. CASE form = "confirm"
      <4>1. escrowStatus[e] = "SHIPPED"
        BY <2>7, <3>5 DEF Console, Dashboard
      <4>2. MayConfirm(e)
        BY <2>0, <3>2, <4>1 DEF DeriveLegacyEscrowStatus, MayConfirm, EscrowPaymentStatus
      <4> QED BY <2>7, <3>5, <4>2 DEF Accepts, Admits, Passes
    <3>6. CASE form = "release"
      <4>1. escrowStatus[e] = "DELIVERED"
        BY <2>7, <3>6 DEF Console, Dashboard
      <4>2. MayRelease(e)
        BY <2>0, <3>2, <4>1 DEF DeriveLegacyEscrowStatus, MayRelease, EscrowPaymentStatus
      <4> QED BY <2>7, <3>6, <4>2 DEF Accepts, Admits, Passes
    <3>7. CASE form = "resolve"
      <4>1. escrowStatus[e] = "DISPUTED"
        BY <2>7, <3>7 DEF Console, Dashboard
      <4>2. MayResolve(e)
        BY <2>0, <3>2, <4>1 DEF DeriveLegacyEscrowStatus, MayResolve, EscrowPaymentStatus
      <4> QED BY <2>7, <3>7, <4>2 DEF Accepts, Admits, Passes
    <3> QED BY <3>1, <3>3, <3>4, <3>5, <3>6, <3>7
  <2> QED BY <2>1, <2>2, <2>3, <2>4, <2>5, <2>6, <2>7 DEF Offers, Purchase, Sale
<1>2. DerivationsCurrent => AnswersCurrent
  BY DEF DerivationsCurrent, AnswersCurrent
<1>3. Spec /\ []DerivationsCurrent => []I
  BY <1>2, UnderWayAlways, LegacyStatusAgreesCurrent, PTL
<1> QED BY <1>1, <1>3, PTL

\* So is none but those as long as requests on one operation do not overlap.
THEOREM OffersAcceptedApart == Spec /\ []OneRequestPerOperation => []OffersAreAccepted
BY OffersAcceptedCurrent, DerivationsCurrentApart, PTL
=============================================================================

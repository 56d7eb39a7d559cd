-------------------------- MODULE PaymentsService ---------------------------
(***************************************************************************)
(* PaymentsService: the payment intent of an operation, its manual         *)
(* approval in the sandbox, and the webhook of an external provider,       *)
(* followed by the insurance policy both of them issue.                    *)
(*                                                                         *)
(* The external provider is outside the repository.  It reports statuses   *)
(* under event ids, in any order and as often as it likes, several under   *)
(* one id if its bodies carry the id of the payment.  Two things it never  *)
(* does: use one id for two payments, and report a refund or a dispute of  *)
(* a payment whose capture it has not reported in some body.               *)
(***************************************************************************)
EXTENDS MarketTables

\* The second write of createCheckout, after the adapter built the checkout.
CreatePaymentIntent(r) ==
  /\ job[r].op = "createIntent"
  /\ intentStatus' = [intentStatus EXCEPT ![job[r].e] = "PAYMENT_PENDING"]
  /\ Finish(r)
  /\ UNCHANGED <<escrowVars, fundsHeldAt, listingStatus, shippingProvider, proposals,
                 paymentEvents, policies, sent>>

-----------------------------------------------------------------------------
(* Sandbox                                                                   *)

MayApprove(e) == Sandbox /\ intentStatus[e] = "PAYMENT_PENDING"

ApproveSandboxPayment(r, e) ==
  /\ MayApprove(e)
  /\ Begin(r, [op |-> "approve", e |-> e])

\* Neither row is checked again: the intent becomes held and the escrow paid.
ApproveSandboxPaymentTx(r) ==
  /\ job[r].op = "approve"
  /\ LET e == job[r].e IN
     /\ intentStatus' = [intentStatus EXCEPT ![e] = "FUNDS_HELD"]
     /\ fundsHeldAt' = [fundsHeldAt EXCEPT ![e] = TRUE]
     /\ SetEscrow(e, "PAYMENT_RECEIVED", GetInitialShippingStatus(shippingProvider[e]),
                  "FUNDS_HELD")
     /\ Continue(r, AfterCapture(e))
  /\ UNCHANGED <<listingStatus, shippingProvider, proposals, paymentEvents, policies, sent>>

-----------------------------------------------------------------------------
(* Webhooks                                                                  *)

\* External: the provider issues a notification about a payment it knows of.
ProviderReports(ev) ==
  /\ ~Sandbox
  /\ ev \notin sent
  /\ intentStatus[ev.e] # "NONE"
  /\ GetPaymentStatus(ev.status) \in {"REFUNDED", "DISPUTED"} =>
       \E cause \in sent : cause.e = ev.e /\ GetPaymentStatus(cause.status) = "FUNDS_HELD"
  /\ sent' = sent \cup {ev}
  /\ UNCHANGED <<tables, job>>

\* The duplicate check: a row under this event id, whatever status it records.
ExistingEvent(ev) ==
  \E row \in Events : row.e = ev.e /\ row.id = ev.id /\ paymentEvents[row] > 0

\* Fault: a notification about an operation that is already closed is dropped.
ReceiveWebhookIfOpen(r, ev) ==
  /\ ev \in sent
  /\ ~ExistingEvent(ev)
  /\ paymentStatus[ev.e] \in {"PAYMENT_PENDING", "PAYMENT_RECEIVED", "DISPUTED"}
  /\ Begin(r, [op |-> "webhook", event |-> ev])

\* Fault: no duplicate check (up to two deliveries of each notification).
ReceiveWebhookAgain(r, ev) ==
  /\ ev \in sent
  /\ paymentEvents[ev] < 2
  /\ Begin(r, [op |-> "webhook", event |-> ev])

\* An event id already stored is acknowledged and nothing more.
ReceiveWebhook(r, ev) ==
  /\ ev \in sent
  /\ ~ExistingEvent(ev)
  /\ Begin(r, [op |-> "webhook", event |-> ev])

\* applyEscrowStatusFromPayment: three statuses reach the escrow row, none the listing.
\* The intent row has no shippingProvider, so the label is always the default one.
ApplyEscrowStatusFromPayment(e, status) ==
  CASE status = "FUNDS_HELD" ->
         SetEscrow(e, "PAYMENT_RECEIVED", GetInitialShippingStatus("envio"), "FUNDS_HELD")
    [] status = "REFUNDED" ->
         SetEscrow(e, "PAYMENT_REFUNDED", shippingStatus[e], "REFUNDED")
    [] status = "DISPUTED" ->
         SetEscrow(e, "DISPUTED", shippingStatus[e], "DISPUTED")
    [] OTHER -> UNCHANGED escrowVars

\* Fault: every notification issues the policy.
AfterWebhookAnyStatus(ev) == AfterCapture(ev.e)

AfterWebhook(ev) == IF ev.status = "FUNDS_HELD" THEN AfterCapture(ev.e) ELSE Idle

\* The status is written whatever the intent's current one is.  A word that is none of the
\* enumeration is refused by the database: that request can only abort.
ApplyWebhookStatusTx(r) ==
  /\ job[r].op = "webhook"
  /\ job[r].event.status \in PaymentStatus
  /\ LET ev == job[r].event IN
     /\ intentStatus' = [intentStatus EXCEPT ![ev.e] = ev.status]
     /\ fundsHeldAt' = [fundsHeldAt EXCEPT ![ev.e] = @ \/ ev.status = "FUNDS_HELD"]
     /\ paymentEvents' = [paymentEvents EXCEPT ![ev] = @ + 1]
     /\ ApplyEscrowStatusFromPayment(ev.e, ev.status)
     /\ Continue(r, AfterWebhook(ev))
  /\ UNCHANGED <<listingStatus, shippingProvider, proposals, policies, sent>>

-----------------------------------------------------------------------------

\* issuePolicyForEscrow, once the capture is committed.  It throws when the buyer's
\* identity is no longer approved or the insert fails: the request then aborts.
IssuePolicy(r) ==
  /\ job[r].op = "issuePolicy"
  /\ policies' = policies \cup {job[r].e}
  /\ Finish(r)
  /\ UNCHANGED <<escrowVars, intentVars, listingStatus, shippingProvider, proposals,
                 paymentEvents, sent>>
=============================================================================

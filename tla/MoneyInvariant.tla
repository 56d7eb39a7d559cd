-------------------------- MODULE MoneyInvariant ----------------------------
(***************************************************************************)
(* The inductive invariant behind the safety of Marketplace.  The          *)
(* properties alone are not inductive: a transaction writes what its       *)
(* request decided earlier, so what the guards saw has to be remembered    *)
(* about every request in flight.                                          *)
(***************************************************************************)
EXTENDS Marketplace

\* A row comes first: before the escrow is inserted it has no payment intent, no shipping
\* status and no notification.
RowsComeFirst ==
  /\ \A e \in Escrows :
       paymentStatus[e] = "NONE" => intentStatus[e] = "NONE" /\ shippingStatus[e] = "NULL"
  /\ \A ev \in sent : paymentStatus[ev.e] # "NONE"

\* The writes that take for granted that the money was captured.
NeedsCapture(j) ==
  \/ j.op \in {"ship", "confirm", "release", "dispute", "resolve"}
  \/ j.op = "cancel" /\ j.pay = "PAYMENT_REFUNDED"
  \/ j.op = "accept" /\ j.ship # "NULL"

\* What a request in flight may still rely on when it writes.
JobJustified(j) ==
  /\ j.op \in {"createIntent", "approve", "issuePolicy", "ship", "confirm", "release",
               "dispute", "cancel", "resolve", "accept", "decline"}
       => paymentStatus[j.e] # "NONE"
  /\ j.op = "webhook" => j.event \in sent
  /\ NeedsCapture(j) => Captured(j.e)
  /\ j.op = "issuePolicy" => j.e \in Insured /\ fundsHeldAt[j.e]

JobsJustified == \A r \in Requests : JobJustified(job[r])

\* A primary key about to be inserted has no row and no other request about to insert it.
CheckoutsFresh ==
  \A r \in Requests :
    job[r].op = "checkout" =>
      /\ paymentStatus[job[r].e] = "NONE"
      /\ \A q \in Requests : job[q] = job[r] => q = r

\* A refund or a dispute is reported only of a payment that was captured.
ReportsFollowCapture ==
  \A ev \in sent :
    GetPaymentStatus(ev.status) \in {"REFUNDED", "DISPUTED"} => Captured(ev.e)

IInv ==
  /\ TypeOK
  /\ RowsComeFirst
  /\ JobsJustified
  /\ CheckoutsFresh
  /\ ReportsFollowCapture
  /\ HeldFundsHaveLiveEscrow
  /\ NothingMovesBeforeCapture
  /\ PolicyOnlyAfterCapture

\* A payment intent is created once: the request about to create it finds none, and what
\* approves or reports a payment has seen it.
IntentsFresh ==
  /\ \A r \in Requests :
       /\ job[r].op = "createIntent" =>
            /\ intentStatus[job[r].e] = "NONE"
            /\ \A q \in Requests : job[q] = job[r] => q = r
       /\ job[r].op = "approve" => intentStatus[job[r].e] # "NONE"
  /\ \A ev \in sent : intentStatus[ev.e] # "NONE"

\* With the sandbox provider nothing is reported, and a payment is never left approved
\* but not held.
SandboxOnly ==
  Sandbox => sent = {} /\ \A e \in Escrows : intentStatus[e] # "PAYMENT_APPROVED"
-----------------------------------------------------------------------------
(* Requests that keep out of each other's way.  Nothing in the code queues   *)
(* the requests on one operation; these are the facts that hold as long as   *)
(* no two of them happen to overlap, however many operations are busy.       *)

\* The operation a request in flight is about.
OperationOf(j) == IF j.op = "webhook" THEN j.event.e ELSE j.e

OneRequestPerOperation ==
  \A q, r \in Requests :
    /\ job[q] # Idle
    /\ job[r] # Idle
    /\ OperationOf(job[q]) = OperationOf(job[r])
    => q = r

\* What a request in flight decided on is what is still stored when it writes: the payment
\* status from which an answer or a dispatch derives the legacy column, the payment to be
\* approved, the operation that was not cancelled.
JobCurrent(j) ==
  /\ j.op = "ship" => paymentStatus[j.e] = "PAYMENT_RECEIVED"
  /\ j.op = "accept" => paymentStatus[j.e] = j.pay
  /\ j.op = "createIntent" => paymentStatus[j.e] # "PAYMENT_CANCELLED"
  /\ j.op = "approve" => intentStatus[j.e] = "PAYMENT_PENDING"

JobsCurrent == \A r \in Requests : JobCurrent(job[r])

\* The two writes that derive the legacy column from a payment status read before find that
\* status still stored.
DerivationsCurrent ==
  \A r \in Requests :
    /\ job[r].op = "ship" => paymentStatus[job[r].e] = "PAYMENT_RECEIVED"
    /\ job[r].op = "accept" => paymentStatus[job[r].e] = job[r].pay

\* With the sandbox provider a payment that waits for its approval has captured nothing,
\* and its operation was not cancelled.
PendingPaymentsOpen ==
  \A e \in Escrows :
    /\ intentStatus[e] \in {"NONE", "PAYMENT_PENDING"} => ~fundsHeldAt[e]
    /\ intentStatus[e] = "PAYMENT_PENDING" => paymentStatus[e] # "PAYMENT_CANCELLED"

\* Whether two notifications of a payment come under one event id.
SameId(ev, other) == ev.e = other.e /\ ev.id = other.id

\* No two deliveries under one event id are between the duplicate check and the insert.
DeliveriesApart ==
  \A q, r \in Requests :
    /\ job[q].op = "webhook"
    /\ job[r].op = "webhook"
    /\ SameId(job[q].event, job[r].event)
    => q = r

\* A delivery that passed the duplicate check still finds its event id missing.
DeliveriesFresh ==
  \A r \in Requests : job[r].op = "webhook" => ~ExistingEvent(job[r].event)
-----------------------------------------------------------------------------
(* What the pages can count on about a row.                                  *)

\* What an answer in flight remembers: it was to a proposal of its operation, and if it saw
\* the operation paid it starts the shipping.
AnswerRemembers(j) ==
  /\ j.op \in {"accept", "decline"} => proposals[j.e][j.method] # "NONE"
  /\ j.op = "accept" =>
       /\ j.ship # "NULL"
       /\ j.pay = "PAYMENT_RECEIVED" => j.ship \in {"WAITING_DISPATCH", "WAITING_MEETING"}

\* A paid operation has a shipping status from the moment it is paid, and so has one with
\* a delivery proposal, whatever happened to it since.
ShippingFollowsPayment ==
  /\ \A e \in Escrows :
       /\ paymentStatus[e] = "NONE" => escrowStatus[e] = "NONE"
       /\ \/ paymentStatus[e] = "PAYMENT_RECEIVED"
          \/ \E m \in Methods : proposals[e][m] # "NONE"
          => shippingStatus[e] # "NULL"
  /\ \A r \in Requests : AnswerRemembers(job[r])

\* The payment status from which an answer to a proposal computed what it will write is
\* still the stored one.
AnswersCurrent ==
  \A r \in Requests : job[r].op = "accept" => paymentStatus[job[r].e] = job[r].pay

\* A paid operation is on its way to the buyer or delivered, and the legacy column of a
\* disputed one says so, or what a dispatch that raced with the dispute wrote.
PaidIsUnderWay ==
  \A e \in Escrows :
    /\ paymentStatus[e] = "PAYMENT_RECEIVED" =>
         shippingStatus[e] \in {"WAITING_DISPATCH", "WAITING_MEETING", "IN_TRANSIT",
                                "READY_FOR_PICKUP", "AT_MEETING_POINT", "DELIVERED"}
    /\ paymentStatus[e] = "DISPUTED" =>
         \/ escrowStatus[e] = "DISPUTED"
         \/ escrowStatus[e] = "SHIPPED" /\ shippingStatus[e] \in {"AT_MEETING_POINT", "IN_TRANSIT"}
=============================================================================

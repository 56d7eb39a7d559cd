--------------------------- MODULE OperationPages ---------------------------
(***************************************************************************)
(* What the pages of the web application offer about an operation: the     *)
(* page of the listing to whoever is not its seller, the account page to   *)
(* buyer and seller, the console to the staff.                             *)
(* The pages render the rows and keep no state, so they are predicates on  *)
(* the tables.  The account page goes by the payment and the shipping      *)
(* status, the console by the legacy summary of both; each decides by      *)
(* itself, and the API decides again when the form arrives.                *)
(***************************************************************************)
EXTENDS Marketplace

People == {"buyer", "seller", "staff"}

Forms == {"buy", "approve", "ship", "confirm", "release", "dispute", "cancel", "resolve", "answer"}

-----------------------------------------------------------------------------
(* The page of the listing, market/[id]/page.tsx                             *)

\* isAvailable.  Everybody who is logged in and is not the seller gets the card.
ListingDetailPage(l) == listingStatus[l] = "PUBLISHED"

\* The card asks for nothing but the insurance, and never disables its button: whoever is
\* not eligible to buy learns it from the API.
PurchaseCheckoutCard(e) == paymentStatus[e] = "NONE" /\ ListingDetailPage(ListingOf[e])

\* createProtectedPurchaseAction, with one fixed shipping label; the API takes any.
CreateProtectedPurchase(r, e) == CreateCheckout(r, e)

-----------------------------------------------------------------------------
(* The account page, account/page.tsx                                        *)

ToConfirm == {"IN_TRANSIT", "READY_FOR_PICKUP", "WAITING_MEETING", "AT_MEETING_POINT"}

\* Fault: only meetings are confirmed from the page.
BuyerDeliveryActionsAtMeetings(e) ==
  /\ paymentStatus[e] = "PAYMENT_RECEIVED"
  /\ shippingStatus[e] \in {"WAITING_MEETING", "AT_MEETING_POINT"}

BuyerDeliveryActions(e) ==
  paymentStatus[e] = "PAYMENT_RECEIVED" /\ shippingStatus[e] \in ToConfirm

\* Fault: the panel stays while a dispute is open, whatever the shipping.
SellerShippingActionsWhenPaid(e) == paymentStatus[e] \in {"PAYMENT_RECEIVED", "DISPUTED"}

SellerShippingActions(e) ==
  /\ paymentStatus[e] = "PAYMENT_RECEIVED"
  /\ shippingStatus[e] \in {"WAITING_DISPATCH", "WAITING_MEETING"}

\* Fault: a problem can be reported only while the goods are on their way.
DisputePanelInTransit(e) ==
  paymentStatus[e] = "PAYMENT_RECEIVED" /\ shippingStatus[e] \in ToConfirm

DisputePanel(e) ==
  paymentStatus[e] = "PAYMENT_RECEIVED" /\ shippingStatus[e] # "NULL"

\* The proposals waiting for the buyer: the panel shows while nothing is dispatched, the
\* task in the list of pending actions whatever the shipping.
PendingAnswer(e) == \E m \in Methods : proposals[e][m] = "PENDING"

DeliveryProposalPanel(e) == shippingStatus[e] = "WAITING_DISPATCH" /\ PendingAnswer(e)

\* pendingActions: what the account page asks its reader to do.
PendingActions(person, e) ==
  CASE person = "buyer" ->
         (IF PendingAnswer(e) THEN {"answer"} ELSE {})
           \cup (IF BuyerDeliveryActions(e) THEN {"confirm"} ELSE {})
    [] person = "seller" -> IF SellerShippingActions(e) THEN {"ship"} ELSE {}
    [] OTHER -> {}

-----------------------------------------------------------------------------
(* The console, admin/escrows/[id]/page.tsx                                  *)

\* Fault: the resolution of a dispute is left to the list of operations.
ConsoleWithoutResolve(e) ==
  CASE escrowStatus[e] = "FUNDS_PENDING" -> {"dispute", "cancel"}
    [] escrowStatus[e] = "FUNDS_HELD"    -> {"ship", "dispute", "cancel"}
    [] escrowStatus[e] = "SHIPPED"       -> {"confirm", "dispute"}
    [] escrowStatus[e] = "DELIVERED"     -> {"release", "dispute"}
    [] OTHER -> {}

Console(e) ==
  CASE escrowStatus[e] = "FUNDS_PENDING" -> {"dispute", "cancel"}
    [] escrowStatus[e] = "FUNDS_HELD"    -> {"ship", "dispute", "cancel"}
    [] escrowStatus[e] = "SHIPPED"       -> {"confirm", "dispute"}
    [] escrowStatus[e] = "DELIVERED"     -> {"release", "dispute"}
    [] escrowStatus[e] = "DISPUTED"      -> {"resolve"}
    [] OTHER -> {}

\* The list of operations on the dashboard, admin/page.tsx: no cancellation, no resolution,
\* and a dispute of anything that is neither disputed nor released.
Dashboard(e) ==
  CASE escrowStatus[e] = "FUNDS_HELD" -> {"ship", "dispute"}
    [] escrowStatus[e] = "SHIPPED"    -> {"confirm", "dispute"}
    [] escrowStatus[e] = "DELIVERED"  -> {"release", "dispute"}
    [] escrowStatus[e] \in {"FUNDS_PENDING", "CANCELLED", "REFUNDED"} -> {"dispute"}
    [] OTHER -> {}

ConsolePayment(e) == Sandbox /\ intentStatus[e] = "PAYMENT_PENDING"

-----------------------------------------------------------------------------

\* "Mis compras" and "Mis ventas": the panels an operation shows to each of its parties.
Purchase(form, e) ==
  \/ form = "confirm" /\ BuyerDeliveryActions(e)
  \/ form = "answer" /\ DeliveryProposalPanel(e)
  \/ form = "dispute" /\ DisputePanel(e)

Sale(form, e) ==
  \/ form = "ship" /\ SellerShippingActions(e)
  \/ form = "dispute" /\ DisputePanel(e)

Offers(person, form, e) ==
  \/ person # "seller" /\ form = "buy" /\ PurchaseCheckoutCard(e)
  \/ person = "buyer" /\ Purchase(form, e)
  \/ person = "seller" /\ Sale(form, e)
  \/ person = "staff" /\ form \in Console(e) \cup Dashboard(e)
  \/ person = "staff" /\ form = "approve" /\ ConsolePayment(e)

\* Who may call a handler: the role guards of the controllers and the ensure... checks of
\* the services.
AdmitsToPayments(form) ==
  CASE form = "buy"     -> {"buyer"}
    [] form = "approve" -> {"staff"}

Admits(form) ==
  CASE form \in {"buy", "approve"} -> AdmitsToPayments(form)
    [] form \in {"release", "cancel", "resolve"} -> {"staff"}
    [] form = "ship"    -> {"seller", "staff"}
    [] form \in {"confirm", "answer"} -> {"buyer", "staff"}
    [] OTHER            -> People

\* The call the server action of a form makes.
Submit(form, r, e) ==
  \/ form = "buy"     /\ CreateProtectedPurchase(r, e)
  \/ form = "approve" /\ ApproveSandboxPayment(r, e)
  \/ form = "ship"    /\ MarkShipped(r, e)
  \/ form = "confirm" /\ ConfirmDelivery(r, e)
  \/ form = "release" /\ ReleaseFunds(r, e)
  \/ form = "dispute" /\ OpenDispute(r, e)
  \/ form = "cancel"  /\ CancelEscrow(r, e)
  \/ form = "resolve" /\ ResolveDispute(r, e)
  \/ form = "answer"  /\ \E m \in Methods : RespondDeliveryProposal(r, e, m)

\* The guard that call meets, as the tables are.
Passes(form, e) ==
  CASE form = "buy"     -> MayBuy(e)
    [] form = "approve" -> MayApprove(e)
    [] form = "ship"    -> MayShip(e)
    [] form = "confirm" -> MayConfirm(e)
    [] form = "release" -> MayRelease(e)
    [] form = "dispute" -> MayDispute(e)
    [] form = "cancel"  -> MayCancel(e)
    [] form = "resolve" -> MayResolve(e)
    [] form = "answer"  -> \E m \in Methods : MayAnswer(e, m)

Accepts(person, form, e) == person \in Admits(form) /\ Passes(form, e)

-----------------------------------------------------------------------------
(* What the pages and the API promise together.                              *)

\* Nothing is being decided: a page rendered now is the latest there is.
Quiet == \A r \in Requests : job[r] = Idle

\* The forms a page shows without asking what the API will: the console's dispute, which
\* it offers of operations that are not paid, or not any more, and the purchase card, which
\* it offers to the staff and to parties who may not trade.
OfferedBlindly(person, form, e) ==
  \/ person = "staff" /\ form = "dispute" /\ paymentStatus[e] # "PAYMENT_RECEIVED"
  \/ form = "buy" /\ (person = "staff" \/ e \notin Eligible)

\* A form on a page that is up to date is not refused for what the rows say, the legacy
\* column included, nor for who sends it: the conditions of the pages imply the guards of
\* the handlers.  Excepted are the forms offered blindly: the console's dispute, and the
\* purchase card of a reader who is staff or of parties of whom one is not active or not
\* verified.
OffersAreAccepted ==
  Quiet =>
    \A e \in Escrows, person \in People, form \in Forms :
      /\ Offers(person, form, e)
      /\ ~OfferedBlindly(person, form, e)
      => Accepts(person, form, e)

\* While the marketplace holds money, even after requests that overlapped left the columns
\* in disagreement, some page offers a form the API accepts and that brings it closer to
\* the seller or back to the buyer: nobody has to mend the tables by hand.  Only an answer
\* to a delivery proposal that saw another payment status than the one it meets can break
\* this, and WorkIsAssigned too.
HeldMoneyHasAnExit ==
  Quiet =>
    \A e \in Escrows :
      intentStatus[e] \in {"FUNDS_HELD", "READY_TO_RELEASE", "DISPUTED"} =>
        \E person \in People, form \in Forms \ {"answer"} :
          Offers(person, form, e) /\ Accepts(person, form, e)

\* Until the goods arrive it is somebody's turn and the account page says whose: one of
\* the parties has a pending action with its form on the page, accepted if sent.
WorkIsAssigned ==
  Quiet =>
    \A e \in Escrows :
      /\ paymentStatus[e] = "PAYMENT_RECEIVED"
      /\ shippingStatus[e] # "DELIVERED"
      => \E person \in {"buyer", "seller"} : \E form \in PendingActions(person, e) :
           Offers(person, form, e) /\ Accepts(person, form, e)

\* The buyer of a paid operation can report a problem from the account page for as long
\* as nobody has settled it.
BuyerCanComplain ==
  Quiet =>
    \A e \in Escrows :
      paymentStatus[e] = "PAYMENT_RECEIVED" =>
        Offers("buyer", "dispute", e) /\ Accepts("buyer", "dispute", e)
=============================================================================

# libremercado: a verification of the marketplace

libremercado is a marketplace with escrow. A seller writes a draft and publishes it; a buyer
checks the listing out, an escrow and a payment intent are created, a provider (or the
sandbox) captures the money, the seller ships or both meet, and the money is released,
refunded, or frozen in a dispute. The parties arrange the delivery, an insured buyer may
claim, staff review members and decide. The API (`src/apps/api`, NestJS over Prisma and
PostgreSQL) keeps all of that state; the web application (`src/apps/web`, Next.js) renders it
and sends the forms.

This directory models the parts in which a wrong interleaving, an old page or a request that
dies half way does damage: the purchase and its money, the publication of a listing, what
follows a sale, the account, the pages that offer operations, and the rate limiter. TLC
checks the models on small instances, TLAPS proves most of the invariants for every value of
the constants.

## 1. Inventory

| Component | State it keeps | Operations | Interacts with | Hard behaviour | What makes it correct |
|---|---|---|---|---|---|
| Escrow lifecycle (`escrow.service.ts`) | `EscrowTransaction.{paymentStatus, shippingStatus, status}`, `Listing.status` | createEscrow, markShipped, confirmDelivery, releaseFunds, openDispute, cancelEscrow, resolveDispute | writes listings and payment intents in the same transaction | guards are evaluated on a row read before the transaction; the transaction updates by key | no settlement strands money or a listing; nothing moves before a capture; settled money stays settled |
| Delivery proposals (same file) | `EscrowDeliveryProposal.status`, `shippingProvider` | create, respond | rewrites the escrow's shipping status | answers race with settlement | the summary column agrees with the status columns |
| Coordination (same file) | meeting proposals, availability slots, messages | propose, respond, offer, select, write | the payment status; notices to the other party | overlapping selections and answers; a notice lost after the write | an answer counts once; the last notice is right |
| Payments (`payments.service.ts`) | `PaymentIntent`, `PaymentEvent` | createCheckout, approveSandboxPayment, processWebhook | calls escrow and insurance | duplicated and reordered notifications; a crash between commit and policy | every event id stored, once; only captures issue policies |
| Insurance (`insurance.service.ts`) | `InsurancePolicy.{status, rawPayload}` | quote, issue, submitClaim, resolveClaim, updatePolicyStatus, policy webhook | called after a capture; insurer | one row written by buyer, staff and insurer, from copies | status and claim agree; a decision stands |
| Drafts and publication (`listings.service.ts`, `listing-publish-wizard.tsx`) | `ListingDraft`, `Product`, `ProductMedia`, `Listing`; the copy and the forms of the page | getOrCreateActiveDraft, updateDraft, publishDraft; type, save, photos, publish | server actions of the web application | saves overlap; answers arrive late, or never; several tabs | a draft is published once, complete, and as the seller reviewed it |
| Accounts (`auth`, `users`) | `User.{status, password}`, reset links, failed logins in memory, session cookie | register, login, reset, change password, block | login and recovery pages | links used twice; the lockout counter under overlap and restart | a link sets one password; failed attempts are bounded |
| Identity (`kyc`) | `KycVerification.status`, `User.kycStatus` | createVerification, reviewVerification | gates checkout and listings | two writes of one review, not in a transaction | the standing agrees with some verification |
| Rate limit (`rate-limit.service.ts`, `apps/web/lib/rate-limit.ts`) | a counter per key in Redis or in memory, `redisAvailable` | hit | every sensitive route; Redis | failover, a counter without expiry | hits let through are bounded, and nobody is refused for ever |
| Pages of an operation (`account/page.tsx`, `admin/escrows/[id]/page.tsx`, `admin/page.tsx`, `market/[id]/page.tsx`) | none: they render rows | which form is shown to whom, and the call it makes | every handler of the purchase | three pages decide by three different columns | a form on a fresh page is accepted; held money has an exit on some page |
| Catalogue, search, favourites, profiles, settings, audit, e-mail, maps | rows no guard reads | read, edit | – | best effort | – |
| Deployment, migrations, seed | – | – | – | – | – |

`PROJECT.json` lists the components with what is modelled of each, and under `hazards` what
is hard to test in this code, each at its line with the property that watches it or the reason
why none does.

## 2. How the models correspond to the code

A row of the database is a key; each column that some guard reads is a variable. Every handler
has the same shape, and that shape is where the hard behaviour is:

1. it reads its row and checks its guards;
2. it writes **by primary key**, in a transaction or not, without checking again;
3. it may notify somebody afterwards.

At each `await` any other request may run. So a handler is two or three actions:
`MarkShipped(r, e)` is the guards and what is computed from the copy, kept with the request;
`MarkShippedTx(r)` is the transaction, with every row it writes. A transaction is one action:
the row locks of PostgreSQL order two that overlap, and one chosen as a deadlock victim is a
request that fails. A request may die between any two of its actions.

There are five independent state machines. They share rows only where the table below says so.

| Module | Models | Variables and actions |
|---|---|---|
| **Purchase** | | |
| `MarketTables` | the tables, the enumerations of `schema.prisma`, `deriveLegacyEscrowStatus`, `getInitialShippingStatus`, the `markPayments...` queries, the bodies of a webhook (`GetPaymentStatus`, `WebhookStatus`, `Events`) | one variable per column; `job`: requests in flight; `sent`: what the provider has issued |
| `EscrowService` | `escrow.service.ts`: lifecycle and delivery proposals | `CreateCheckout`/`CreateEscrowTx`, `MarkShipped`, `ConfirmDelivery`, `ReleaseFunds`, `OpenDispute`, `CancelEscrow`, `ResolveDispute` and their `...Tx`; `CreateDeliveryProposal`, `RespondDeliveryProposal`, `AcceptDeliveryProposalTx`, `DeclineDeliveryProposalTx` |
| `PaymentsService` | `payments.service.ts`, which words of a provider the adapter translates (`payment-adapters.ts`) and which reach the database as they are, `issuePolicyForEscrow` | `CreatePaymentIntent`, `ApproveSandboxPayment(Tx)`, `ProviderReports` (external), `ExistingEvent`, `ReceiveWebhook`, `ApplyWebhookStatusTx`, `IssuePolicy` |
| `Marketplace` | both services on the same rows, with listing edits and failing requests; the properties | `UpdateListing`, `UpdateListingStatus`, `AbortRequest`, `Next`, `Spec`, `FairSpec` |
| `OperationPages` | the pages of the listing, of the account and of the console, as predicates on the tables, and the call each form makes | `Offers(person, form, e)`, `Accepts(person, form, e)`, `PendingActions` |
| `Custody` | the abstract promise about the buyer's money | `open`, `money`; `Open`, `Capture`, `Freeze`, `PayOut`, `Return` |
| `MoneyInvariant` | the inductive invariant | `IInv`, `IntentsFresh`, `SandboxOnly` |
| **Publication** | | |
| `ListingDrafts` | drafts of one seller in `listings.service.ts` | `draft`, `listings`, `call`; `ActiveDraftFound`, `NoActiveDraft`, `CreateDraft`, `ReadDraft`, `UpdateDraft`, `PublishRead`, `PublishDraft`, `CallFails` |
| `ListingWizard` | `listing-publish-wizard.tsx` and its server actions, over `ListingDrafts` | `page[p]`: the copy, the forms, the step, the button; `OpenPage`, `Type...`, `SaveStep`, `StepBack`, `UseCatalogSheet`, photos, `ClickPublish`, and what each answer does: `ShowPage`, `SaveAnswered`, `PublishAnswered`, `AnswerLost`, `LeavePage` |
| **After the sale** | | |
| `AftersaleTables` | the rows of one operation: meetings, slots, messages, policy and claim; the last notice about each | `call[c]`: requests; `Begin`, `Notify`, `Die` |
| `Coordination` | meetings, slots, messages of `escrow.service.ts` and the forms of `account/page.tsx` | five handlers, each with its `...Tx`; `OperationCloses` |
| `InsuranceClaims` | claims, status edits and the webhook of `insurance.service.ts` and their forms | `SubmitClaim`, `ResolveClaim`, `UpdatePolicyStatus` with `...Tx`; `ProcessPolicyWebhook` |
| `Aftersale` | both on the same calls | `Init`, `Next`, the properties |
| **Accounts** | | |
| `MemberTables` | one person's user row, verifications, reset links, failed logins, session | `call[c]`: requests |
| `Access` | `auth.service.ts`, `changePassword` and `updateStatus` of `users.service.ts`, and their pages | `Register`, `Login` in its stages, `RequestPasswordReset`, `WriteLink`, `SendPasswordResetEmail`, `ResetPassword`, `ChangePassword`, `LogOut`, `UpdateStatus` |
| `Identity` | `kyc.service.ts` and its pages | `CreateVerification`, `ReviewVerification`, `WriteStanding` |
| `Members` | both, with dying requests and restarts | `Die`, `Restart`, `Next`, the properties |
| **Rate limit** | | |
| `RateLimit` | `rate-limit.service.ts` and its copy in the web server, for one key | the counters, `redisAvailable`, a clock, `webServer`; `Hit`, `HitMemory`, `Incr`, `Expire`, `Answer`, `RedisCommandFails`, `RedisErrorEvent`, `Reconnect`, `PruneMemory`, `Restart`; external: `Tick`, `RedisGoesDown`, `RedisComesBack` |
| `MCMarketplace`, `MCListingWizard`, `MCAftersale`, `MCMembers`, `MCRateLimit` | the instances TLC checks | values of constants, symmetry of requests |
| `MoneyProofs`, `CustodyProofs`, `CustodyPromise`, `DraftProofs`, `WizardProofs`, `AftersaleProofs`, `MemberProofs`, `RateLimitProofs` | the proofs | |

Operators commented "Fault:" are wrong versions of the definition that follows them. Each
property is known to catch at least one of them.

### Abstractions of the purchase

- Callers are left out of the handlers: in every state each handler admits somebody (a party,
  an administrator), so leaving out who calls loses no behaviour. `OperationPages` adds who
  sees which form and whom each handler admits.
- A checkout is refused unless a USER makes it and both parties are ACTIVE with KYC APPROVED.
  Accounts change, but a checkout is one attempt that meets them as they are: the constant
  `Eligible` is the set of attempts that find them in order, and `MayBuy` asks for it.
- Events, order history, notifications, e-mail, audit, tracking codes, evidence, amounts and
  timestamps other than `fundsHeldAt` are not read by any guard and are left out.
  `releaseEligibleAt` is among them: `releaseFunds` does not look at it.
- `markFundsHeld` has no caller and no action.
- The API creates one intent per escrow, so the intent of an escrow is named by the escrow.
  `findPaymentIntentForWebhook` is its result: the matching intent.
- A provider writes words of its own, in bodies of its own shape: `Bodies` lists the bodies it
  sends, each with the field that holds the word, the word and the event id. `GetPaymentStatus`
  is the adapter's translation; a word it does not know becomes PAYMENT_PENDING, even over an
  intent that holds money. A body with a `status` of its own is not handed to the adapter: its
  word is written as it came, and if it is none of `PaymentStatus` the transaction fails, at
  every delivery. Words are in capitals; the adapter, unlike the database, takes any case.
- Duplicates are recognised by the event id alone (`ExistingEvent`). The adapter takes the id
  of the payment if the body has no other, so that all statuses of a payment can come under
  one id; an id belongs to one payment. A body without any id gets a timestamp: each of its
  deliveries is then an event of its own.
- `applyEscrowStatusFromPayment` asks the intent for a shipping provider it does not have, so
  a webhook's capture always starts from the default label: `WAITING_DISPATCH`.
- One delivery proposal of each method per operation: enough for two answers to race. The
  guard and the insert of `createDeliveryProposal` are one step, because no other action reads
  a proposal's existence together with the payment status. The account page shows the accepted
  proposal created last while `shippingProvider` is the one answered last; the label is shown
  and not acted on.
- The provider is external. It may report any status in any order any number of times. Its one
  restriction: no refund or dispute of a payment whose capture it never reported in some
  body (which may still be on its way, or be refused). It does not report READY_TO_RELEASE or RELEASED,
  which are the marketplace's own.
- Pages are predicates: they render rows and keep nothing. A form sent from an old page is a
  handler called in a state that does not offer it, which `Marketplace` allows anyway.

### Abstractions of the publication

- A draft's columns are grouped by the step that edits them and by how `updateDraft` writes
  them: sheet, proof, terms, price, photos. `currentStep` only says where the wizard opens.
- The seller is cleared to publish; `publishDraft` does not check what `createListing` checks.
- What the code does and the model keeps: fields typed since the last save are lost when an
  answer refills the forms; an upload that ends after a removal brings the photo back, since
  both send the list they saw; `updateDraft` may still write a draft after its publication; a
  lost answer to a publication followed by a second click may publish twice if the two overlap
  at the server.

### Abstractions of what follows a sale

- One operation, its policy issued. Places, times, texts and evidence are values nobody
  distinguishes. Messages are counted. The staff's messages notify nobody and are left out.
- A call may come from any form some page has shown before, because tabs stay open; `fresh`
  remembers whether the form was up to date when it was sent.
- The insurer's words are checked beside the payload and read inside it; `NormalizeWebhook`
  makes a word that is not one of ours PENDING.
- What the code does and the model keeps: slots can be selected after the operation is closed,
  and several can be; the insurer's webhook replaces the payload and with it the claim, and
  notifies nobody; a claim submitted again from an old form erases its resolution; the status
  form of the console can set ACTIVE over CLAIMED.

### Abstractions of the accounts

- One person. Tokens are abstracted to what they allow. Whether the mail arrives is not
  modelled beyond the request dying before it is sent; a link expires at any time.
- What the code does and the model keeps: a change of password leaves reset links alive; a
  session survives a change of password; a review of an older verification overwrites the
  standing; the count of failed logins is in memory and a restart clears it.
- Role and profile edits, the documents and the notice of a review are left out.

### Abstractions of the rate limiter

- Counts above the limit are alike and saturate at `Limit + 1`; clocks of process and Redis
  are one clock.

## 3. What is checked

`Next` never restricts overlap: the number of requests does. Deadlock checking is off in the
runs of the marketplace, of publication and of what follows a sale, because there the system
really stops: every operation is closed and nothing is left to send, or the seller has
published and leaves. In `members` and `rate_limit` something can always happen, and it is on.

| Run | Instance | Shows |
|---|---|---|
| `sandbox` | 1 operation, 2 overlapping requests, both labels, both proposals, owner edits | `HeldFundsHaveLiveEscrow`, `NothingMovesBeforeCapture`, `ParkedListingHasLiveEscrow`, `SettlementIsFinal`; every step is a step of `Custody` (`ImplementsCustody`); the buyer of a paid operation can report a problem until somebody settles it (`BuyerCanComplain`) |
| `provider` | 1 insured operation, 2 overlapping requests, an external provider with four words: a capture, a refund, a dispute and one unknown to the adapter | the same money invariants with webhooks in any order, `PolicyOnlyAfterCapture`; some page always offers an accepted form that moves held money on (`HeldMoneyHasAnExit`), and until the goods arrive a pending action says whose turn it is (`WorkIsAssigned`) |
| `serial` | 2 checkouts of one listing and a third that may not trade, 1 request at a time, crashes between writes, owner and administrator edits | `LegacyStatusAgrees`, `ParkedListingHasLiveEscrow`; a form on a fresh page is not refused, two exceptions aside (`OffersAreAccepted`); and the stronger refinement `ImplementsSerialCustody`: a capture lands only on an open operation without money |
| `delivery` | 1 operation, 4 bodies: a capture and a failure under one id, a failure under its own, an untranslated word; 1 request at a time that can die, fairness | `EveryNotificationStored` (liveness): every id reported with a status the database takes is in the history; and, without overlap, `EventAppliedOnce`: in one row |
| `publishing` | 1 seller with 1 tab that can be left and opened again, 2 overlapping requests, up to 3 drafts, lost answers | `ListingsBounded`, `OpenDraftsBounded`: no more listings of a draft, or open drafts, than requests overlapped; `PublishedIffListed`; `ListingsComplete`; `PublishedAsReviewed`: without overlap or loss a listing shows what the review step showed; `PageAgrees`, `PriceFollowsTerms`; `PublishingWaits`: the publish button never waits for nothing |
| `aftersale` | 1 meeting, 2 slots, messages, 1 policy, 2 overlapping calls that can die, old pages, the insurer | `NoticesAgree`: the last thing a person was told is what the row says; `AnsweredOnce`; `ClaimAgrees`: policy status and claim say the same; `DecisionStands`: a decision is undone only by the insurer or by a request older than it |
| `members` | 1 member, 2 passwords, 2 overlapping requests that can die, restarts | `StandingAgrees`: a member stands as some verification says; `ApprovalStands`; `AttemptsBounded`: failed logins exceed the limit only by those under way; `LinksWorkOnce` |
| `rate_limit` | 1 key, 2 overlapping requests, Redis failing and losing keys, a restart; the API or the web server | `AdmissionsBounded`: a stretch as long as a window lets through less than two windows' worth per place that counts, and one more for each counter that was lost; `CounterEnds`: a counter in Redis gets an end |
| `dispute_race` | expected violation | `DisputeFreezesFunds`: a party confirms the meeting of a disputed operation and the frozen money is paid out |
| `double_sale` | expected violation | `OneLiveEscrowPerListing`: two overlapping checkouts reserve one listing |
| `duplicate_webhook` | expected violation | `EventAppliedOnce`: two overlapping deliveries of one notification are both applied |
| `lost_policy` | expected violation | `PaidInsuranceIsIssued`: a delivery that dies after its commit is acknowledged as a duplicate when retried |

Each state machine has one `TypeOK`; the marketplace's is checked in `sandbox`. The four
violations are disagreements between the code and what the repository says of it, quoted in
`PROJECT.json` under `findings`.

### Properties stated of less than everything

The code keeps no more than this:

- `LegacyStatusAgrees` holds when requests do not overlap. An answer to a delivery proposal or
  a dispatch derives the legacy column from a payment status read before its transaction, so
  overlapping requests can leave the columns apart.
- `OffersAreAccepted` is serial for the same reason: a dispatch that overlaps a cancellation
  leaves SHIPPED on a cancelled operation, and the console offers its confirmation. It leaves
  out two forms, which `OfferedBlindly` names: the console offers a dispute of operations that
  are unpaid or closed; and the listing shows the purchase card to whoever is logged in and is
  not the seller, also to staff, to a member who is not verified and of a seller who no longer
  is. The API refuses both. Rate limits, expired sessions and malformed fields can refuse any
  form and are not considered.
- `EveryNotificationStored` leaves out two losses. A provider's word in a top-level `status`
  is never translated: the database refuses it at every delivery and it is never stored, though
  QA_PRE_BETA.md:184 expects a signed webhook to update the intent. And of several statuses
  under one event id only the first to arrive is stored, the others are acknowledged as
  duplicates. `delivery` has both.
  What it says is that an id with a status the database takes gets its row, however often
  deliveries die.
- `HeldMoneyHasAnExit` and `WorkIsAssigned` are checked where there are no delivery proposals,
  and proved wherever the answers to proposals are current (`AnswersCurrent`). Accepting one
  with a payment status read before a dispute or a settlement writes a legacy status that the
  console has no form for. The shortest chain in the sandbox: a payment is approved twice at
  once, the first approval is written and the operation refunded, the answer to an old proposal
  reads REFUNDED, the second approval holds the money again, a party disputes, and the answer
  writes REFUNDED over the legacy column: nobody is offered the resolution of the dispute.
- `ParkedListingHasLiveEscrow` is about the sandbox, or a provider that reports no refunds: a
  REFUNDED closes the escrow and writes no listing, so the listing stays RESERVED.
- `ListingsBounded` and `OpenDraftsBounded` are bounds by overlap and not by one: neither
  `publishDraft` nor `getOrCreateActiveDraft` checks again when it writes. `PublishedAsReviewed`,
  `PageAgrees` and `PriceFollowsTerms` leave out drafts that two requests or tabs had at once,
  or that an answer was lost for: there a save of another step rewrites the price it had read,
  and a removed photo comes back.
- `NoticesAgree` and `AnsweredOnce` leave out rows two requests handled at once, or one left
  between write and notice. Nothing repairs those. `ClaimAgrees` ends with the first edit by
  staff or insurer: a status form whose value is old overwrites CLAIMED.
- `StandingAgrees` leaves out members whose last reviews overlapped or died between the two
  writes; the next one that runs alone puts it right.
- `LinksWorkOnce` leaves out links that two requests used at once: both succeed.
- `AttemptsBounded` is about one life of the process: a restart starts counting anew.
- `CounterEnds` is about the API server, one life of the process and no command sent twice. A
  process that dies between INCR and EXPIRE, or an INCR whose lost answer is asked for again
  and comes back as 2, leaves a counter that Redis keeps for ever. In the web server, which
  goes back to Redis, an EXPIRE that failed does the same.

### Bounds, and why they are enough

- Two requests: every hazard listed is one request overtaking another between guard and
  write. A third adds longer chains of the same pairs. The proofs have no such bound.
- One operation where handlers race: the only thing two operations share is the listing, which
  `serial` and `double_sale` check with two.
- `Bodies` bounds how often one status is reported and under which ids: `delivery` has two
  statuses under one id, one status under two ids, and a word nobody translates; ids of their
  own are enough where statuses are interleaved (`provider`).
- A failed payment is reported in `delivery` and not in `provider`: like the word unknown to
  the adapter it writes the intent and leaves the escrow alone. The money invariants are
  proved for every set of bodies.
- Administrators edit listings in `serial` only: the statuses they set cannot reach money,
  because no guard but the checkout's reads the listing.
- The sandbox instance receives no webhooks. The endpoint would take one for the sandbox, but
  nobody sends it: no provider knows of a sandbox payment.
- `publishing`: two values per group tell a new value from an old one; three sends are a
  save, a publication and its repetition; `MaxEdits = 1` is one field typed or photo changed in
  between; two photos stand for the four a listing needs (`MinPhotos = MaxPhotos`: one less
  is not enough; the page adds none beyond the twelve it allows). Three drafts are the first
  one and two created at once; the first one may be absent or ready to publish.
- `aftersale`: one meeting, since the code never relates two; two slots, since two may both be
  selected; five calls are a proposal, two answers, a claim and its resolution in any mixture.
- `members`: six calls are a registration, documents, their review, a login and two more;
  two links and two verifications are what "another one" means. `LOGIN_MAX_ATTEMPTS` is 2
  instead of 5: one failure below the limit and one that reaches it.
- `rate_limit`: two requests are what INCR and EXPIRE of one and INCR of the other need;
  `Limit = Window = 2` and three instants hold a window, the next one's start and the
  stretch across both, where more than one window's worth gets through; one
  restart, one loss of keys and one command sent twice are each enough to start counting
  anew, and two reconnections go there and back again; the bound of `AdmissionsBounded`
  counts them. Hits are not bounded in number, only how many are under way at once. An API
  server that gives Redis up while requests are counted there gets close to the larger of the
  two bounds only with four requests under way; the theorem covers every number.

### Fairness

`RequestsEnd`: a request in flight writes or dies (weak fairness of each request's next step).
The server runs every promise it started, or crashes. `ProviderRetries`: the provider
repeats a notification until it is acknowledged, and not every delivery that could commit dies
on the way (strong fairness, since another request may hold the only slot for a while). It
promises nothing of a notification whose transaction the database refuses: that action is never
enabled, and the provider repeats it in vain. It is an
assumption about the provider, external to the repository: the handler's duplicate check exists
because providers do that. `EveryNotificationStored` needs it; the safety properties need none.
`lost_policy` is violated in spite of it.

The other state machines have no fairness: nothing in their code promises that a person sends
a form. What must not be stuck is stated as an invariant instead (`PublishingWaits`,
`CounterEnds`, `HeldMoneyHasAnExit`, `WorkIsAssigned`, `BuyerCanComplain`).

## 4. What is proved

Assumptions: only the ASSUMEs of the modules (types of the constants, and that the requests
whose number a bound counts are finitely many). Listings, operations, requests of the
marketplace and notifications may be any sets, infinite ones included.

| Theorem | Says | For |
|---|---|---|
| `TypeCorrect` | `[]TypeOK` of the marketplace | all constants |
| `Invariance` | `[]IInv` | all constants |
| `HeldFundsSafe` | `[]HeldFundsHaveLiveEscrow` | all constants |
| `CaptureComesFirst` | `[]NothingMovesBeforeCapture` | all constants |
| `PoliciesAreEarned` | `[]PolicyOnlyAfterCapture` | all constants |
| `SettledMoneyStays` | `SettlementIsFinal` | all constants |
| `SandboxImplementsCustody` | `Spec => Custody!Spec` | the sandbox provider |
| `SandboxImplementsSerialCustody` | `Spec => SerialCustody!Spec`: no capture lands on settled money | the sandbox provider; as long as no two requests on one operation overlap |
| `ListingsAreNotStranded` | `[]ParkedListingHasLiveEscrow` | the sandbox, or a provider that reports no refunds; administrators do not set RESERVED or UNDER_REVIEW themselves |
| `LegacyStatusAgreesCurrent`, `OffersAcceptedCurrent` | `[]LegacyStatusAgrees`, `[]OffersAreAccepted` | as long as no dispatch and no accepted proposal meets another payment status than the one it saw |
| `LegacyStatusAgreesApart`, `OffersAcceptedApart` | the same | as long as no two requests on one operation overlap |
| `EventAppliedOnceApart` | `[]EventAppliedOnce` | as long as no two deliveries under one event id of a payment overlap |
| `BuyersCanComplain` | `[]BuyerCanComplain` | all constants |
| `WorkIsAlwaysAssigned`, `HeldMoneyAlwaysHasAnExit` | `[]WorkIsAssigned`, `[]HeldMoneyHasAnExit` | as long as no answer to a proposal meets another payment status than the one it saw |
| `PagesServeWithoutProposals` | both of them | no delivery proposals, all other constants |
| `MoneyHeldForOpenOperations` | Custody holds money only for open operations | every implementation of Custody |
| `WizardTyped` | `[]TypeOK` of publication | all constants |
| `PublishedIffListedAlways`, `ListingsCompleteAlways`, `ListingsBoundedAlways`, `OpenDraftsBoundedAlways`, `PublishingWaitsAlways` | five invariants of publication | all constants |
| `PageAgreesAlways`, `PublishedAsReviewedAlways` | `[]PageAgrees`, `PublishedAsReviewed` | all constants |
| `PriceFollowsTermsAlways` | `[]PriceFollowsTerms` | first drafts whose price follows their terms |
| `AftersaleTyped` | `[]TypeOK` of what follows a sale | all constants |
| `NoticesAgreeAlways`, `AnsweredOnceAlways`, `ClaimAgreesAlways` | the three invariants of what follows a sale | all constants |
| `DecisionStandsAlways` | `DecisionStands` | all constants |
| `MembersTyped`, `LinksWorkOnceAlways`, `AttemptsBoundedAlways`, `StandingAgreesAlways` | the invariants of an account | all constants |
| `ApprovalStandsAlways` | `ApprovalStands` | all constants |
| `RateLimitTypes`, `AdmissionsBoundedAlways`, `CountersEnd` | the invariants of the rate limiter | all constants |

"As long as" is a hypothesis `[]H` of the theorem about the behaviour, not about the
constants: the code does not queue the requests on one row, and the theorem says what follows
while they happen not to overlap. Any number of requests may run at once on different
operations, so these theorems say more than the runs `serial` and `delivery`, which have one
request. Without the hypothesis the properties fail (section 3).

None of the properties is inductive, for one reason everywhere: a request writes what it
decided in an earlier state. Each inductive invariant remembers what a request in flight saw
that is *still* true when it writes.

**Purchase** (`MoneyProofs`, `CustodyProofs`). `IInv` says it with `JobJustified`. What survives
are the facts no step takes back (`Persists`): a row exists, a notification was sent, a capture
happened. `NeedsCapture` lists the jobs that take a capture for granted, e.g. a cancellation
that refunds but not one that cancels. `CheckoutsFresh` says that the row about to be inserted
is not there, and `RowsComeFirst` that nothing refers to a row before it exists.
`GuardsJustify` and `BeginKeeps` settle all handlers up to their transaction. For transactions
`RowWritten` reduces the invariant to the escrow written, and `WriteKeeps` adds the job the
request is left with; `WriteStep` goes through the thirteen transactions. `CustodyProofs` adds
that intents are created once (`IntentsFresh`), so that the creation of an intent is no movement
of money, and that the sandbox reports nothing (`SandboxOnly`); `CustodyStep` maps each
transaction to one step of Custody. `ListingsAreNotStranded` needs of a listing only that its
writers either reserve it with an open operation or give it back.

*Requests that keep apart.* `JobsCurrent` says that what a request decided on is still stored:
the payment status a dispatch or an answer derives the legacy column from, the intent an
approval will hold. It is inductive because a transaction writes the rows of one operation
only (`WritesOwnRows`), so another request's decision can only be spoilt by overlapping it.
`LegacyStatusAgrees` needs less, `DerivationsCurrent`, and follows transaction by transaction
(`WriteSummarises`): dispatches and accepted proposals are all that can spoil it. For Custody
without late captures `PendingPaymentsOpen` adds that a payment waiting for its approval has
captured nothing and that its operation was not cancelled; then an approval is the one step
that captures (`OnlyApprovalsCapture`) and it finds an open operation without money
(`ApprovalCaptures`). `EventAppliedOnce` needs only `DeliveriesFresh`: a delivery past the
duplicate check still finds its event id missing.

*Pages.* The guard of each handler has a name (`MayShip`, `MayCancel`, ...) that the handler and
`Passes` share, so that what a page offers is compared with what the API accepts without asking
what is ENABLED; `SubmittedPasses` and `PassingSubmits` say that `Passes` is exactly what a call
by a free request has to meet. `ShippingFollowsPayment` is inductive: a paid operation, and one
with a proposal, has a shipping status, since every write that pays sets one and none takes it
away. That is enough for `BuyerCanComplain`.
`PaidIsUnderWay` says where the shipping of a paid operation can be, and what the legacy column
of a disputed one can say; it holds step by step except for an answer that is not current, and
the attempt to prove it of every answer is what showed the chain in section 3.

**Publication** (`DraftProofs`). `Sound` types the rows, the pages and the requests.
`PublishedIffListed` is inductive over it, because one transaction writes both rows and no
other writes either. `ReadsComplete` says of every request past the checks of `publishDraft`
that its snapshot is complete; the listing is made from the snapshot and not from the row, so
edits in between do no harm. `PublishingBounded` counts listings and requests past the checks
together: a request passes only while the draft is open, when there are no listings, and each
publication turns one such request into one listing. `CreatingBounded` is the same argument for
drafts, and the two bound the number of rows that `TypeOK` asks for. `PublishingWaits` names
the request the button waits for; every answer and every loss
that takes that request away gives the button back.

**The wizard** (`WizardProofs`). `WInv` says of a draft nobody disturbed (`Quiet`) that at most
one request is about it, sent by the one page that shows it, and that this request and that
page agree with the row: the page's copy is the row unless an answer is on its way, and the
request carries what the row or the copy holds (`UpToDate`). `KnownAreCreated`,
`AnswersFindTheirPage`, `BodiesPriceTerms` and `ChecksSawOpen` say of every request what makes
that inductive. The variable `disturbed` marks the drafts two requests or tabs had at once, or
an answer was lost for, which is where `Quiet` ends.

**After the sale** (`AftersaleProofs`). `TopicRight`: a row that was never disturbed has at most
one request, which is about to write it or about to notify what it says; otherwise the last
notice is right. `AnswerRight`: what a request about an undisturbed row found is still there.
`ClaimAgrees` is inductive with the types; `DecisionStands` needs only that a form up to date
was read before any decision (`CallSound`). The type invariant counts the messages written and
the requests about to write one together (`MessagesFit`).

**Accounts** (`MemberProofs`). `LinkSpent`: at most one request uses a link that never raced,
and none once it has worked. `AttemptsRoom` counts failures and logins under way together,
since each may still fail and none begins at the limit. `Standing`: of two identity requests
none is marked alone (`MarksRight`), the second write of one that is alone repeats what its
first has left (`WritesMatch`), so row and standing agree when no request is between the two
(`RowsAgree`).

**Rate limit** (`RateLimitProofs`). `CounterEnds` is inductive over the types: a counter without
an end has the request that is about to set it, and that request leaves its stage only by
setting it, by giving Redis up, or by a restart. `AdmissionsBounded` needs a potential: for each
stretch of time, the hits let through, those counted and waiting for their answer (`Seen`), and
what each counter can still let through before the stretch ends (`RedisLeft`, `MemoryLeft`: the
rest of its window, and the next one if it begins in time). No step raises the sum but a
restart or a loss, which adds one window. `TwoPlaces` bounds it for both counters together;
`OnePlace` halves it for an API server that never gave Redis up, because one life of it counts
in one place.

**Only model-checked.** `EveryNotificationStored` is liveness under fairness, out of the prover's
reach. Every invariant and every other action property of the passing runs is a theorem above.
The four expected violations are counterexamples.

## 5. Plan

Done, in this order: the purchase with its refinement, the rate limiter, the pages of an
operation, publication with the wizard, claims and coordination, accounts and identity, and
the theorems above.

What is left, most important first:

1. A provider's refinement: which abstract custody an external provider's words implement, with
   the captures and reversals that webhooks report at any time.
2. The one-step `createListing` and the listing forms of the owner and of the administrator
   beside the wizard: they offer statuses whatever the status of the listing.
3. Meetings, proposals and settlement on one operation: `Aftersale` takes the payment status
   as a single flag; composed with `Marketplace` it would show which answers land on a
   disputed operation.

## 6. Not modelled

- Search, facets, ranking, the catalogue and pagination: queries over columns no handler
  guards on. Favourites: a row only its owner's page reads.
- `createListing`, which no page calls any more; meeting suggestions, a
  stateless call to an external service.
- Amounts, fees, premiums, quotes and platform settings: a fee never reaches a guard, though
  a fixed fee above the amount gives a negative net amount (`escrow.service.ts:96`).
- The clock of the purchase: `releaseEligibleAt` is stored and never compared.
- Profile fields, roles, documents, uploads and the storage of media, maps, the audit log,
  e-mail other than the reset link: written after the fact, best effort, read by no handler
  modelled here.
- Market, help and profile pages, migrations, seed data, deployment and scripts.

The reasons are with each component in `PROJECT.json`. Six hazards have no property; each
says why in its note.

----------------------------- MODULE Aftersale ------------------------------
(***************************************************************************)
(* The parties of a paid operation arranging its delivery while its        *)
(* insurance is claimed, decided, edited and reported on.                  *)
(***************************************************************************)
EXTENDS Coordination, InsuranceClaims

Init ==
  /\ paid = TRUE
  /\ meetings = [m \in Meetings |-> "NONE"]
  /\ slots = [s \in Slots |-> "NONE"]
  /\ messages = 0
  /\ policyStatus = "ACTIVE"
  /\ claim = "NONE"
  /\ notices = [t \in Topics |-> IF t = "messages" THEN 0 ELSE "NONE"]
  /\ call = [c \in Calls |-> Idle]
  /\ sent = 0
  /\ answers = [x \in Meetings \cup Slots |-> 0]
  /\ disturbed = {}
  /\ edited = FALSE

\* The calls of the account page and of the console.
CoordinationRequest(c) ==
  \/ \E m \in Meetings : CreateMeetingProposal(c, m) \/ RespondMeetingProposal(c, m)
  \/ \E s \in Slots : CreateAvailabilitySlot(c, s) \/ SelectAvailabilitySlot(c, s)
  \/ SendMessage(c)

ClaimRequest(c) == SubmitClaim(c)

StaffRequest(c) == ResolveClaim(c) \/ UpdatePolicyStatus(c)

Request(c) == CoordinationRequest(c) \/ ClaimRequest(c) \/ StaffRequest(c)

Write(c) ==
  \/ CreateMeetingProposalTx(c)
  \/ RespondMeetingProposalTx(c)
  \/ CreateAvailabilitySlotTx(c)
  \/ SelectAvailabilitySlotTx(c)
  \/ SendMessageTx(c)
  \/ SubmitClaimTx(c)
  \/ ResolveClaimTx(c)
  \/ UpdatePolicyStatusTx(c)

Next ==
  \/ \E c \in Calls : Request(c) \/ Write(c) \/ Notify(c) \/ Die(c)
  \/ OperationCloses
  \/ ProcessPolicyWebhook

Spec == Init /\ [][Next]_vars

-----------------------------------------------------------------------------

Row(topic) ==
  CASE topic \in Meetings -> meetings[topic]
    [] topic \in Slots -> slots[topic]
    [] topic = "messages" -> messages
    [] OTHER -> claim

\* The last thing a person was told about a meeting, a slot, the conversation or a claim
\* is what the database says, except about a topic two requests handled at once, or one
\* request left half way, or the insurer overwrote: there the last notice can be wrong,
\* and no later request corrects it.
NoticesAgree ==
  \A topic \in Topics \ disturbed :
    InFlight(topic) = {} => notices[topic] = Row(topic)

\* An answer counts: a meeting is answered, and a slot selected, at most once, unless two
\* answers of the same person overlapped.
AnsweredOnce ==
  \A x \in (Meetings \cup Slots) \ disturbed : answers[x] <= 1

\* The status of the policy and the claim in its payload say the same, from whatever
\* copies overlapping submissions and resolutions wrote them, until staff or the insurer
\* writes the status by itself.
ClaimAgrees ==
  ~edited => (policyStatus = "CLAIMED" <=> claim \in {"OPEN", "APPROVED"})

\* A request that writes the claim, sent from an old form or on its way before a decision.
Overtaken(c) ==
  /\ SubmitClaimTx(c) \/ ResolveClaimTx(c)
  /\ call[c].read \notin Decided \/ ~call[c].fresh

\* A decision on a claim is final for everyone who has seen it: only the insurer, a form
\* rendered before the decision, or a request that was on its way when the decision was
\* written can undo it.  The API would let more through; the pages do not offer it.
DecisionStands ==
  [][(claim \in Decided /\ claim' # claim) =>
       (ProcessPolicyWebhook \/ \E c \in Calls : Overtaken(c))]_vars
=============================================================================

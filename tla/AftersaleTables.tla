-------------------------- MODULE AftersaleTables ---------------------------
(***************************************************************************)
(* What the parties of one paid operation write besides its status columns:*)
(* the meetings and time slots they agree on, their messages, and the      *)
(* insurance policy with its claim; and the notices they are sent.         *)
(*                                                                         *)
(* Every handler here has three moments: it reads and checks, it writes,   *)
(* it notifies the other side.  Requests overlap at each of them, and one  *)
(* may die at each of them.  A form can be sent long after its page was    *)
(* rendered: a tab left open offers what it offered then, so a call may    *)
(* come from any form that some page has shown before.                     *)
(***************************************************************************)
EXTENDS Naturals, FiniteSets

CONSTANTS
  Meetings,     \* meeting proposals, by primary key
  Slots,        \* availability slots, by primary key
  Calls,        \* requests in flight at once
  MaxCalls,     \* bound: requests sent in a behaviour
  MaxMessages   \* bound: messages of the operation

ASSUME CallsFinite == IsFiniteSet(Calls)
ASSUME BoundsType == MaxCalls \in Nat /\ MaxMessages \in Nat
ASSUME TopicsDiffer ==
  /\ Meetings \cap Slots = {}
  /\ {"none", "messages", "claim", "policy"} \cap (Meetings \cup Slots) = {}

\* "NONE" is a row, or a claim, that does not exist.
MeetingProposalStatus == {"NONE", "PENDING", "ACCEPTED", "DECLINED"}
AvailabilitySlotStatus == {"NONE", "OPEN", "SELECTED"}
InsurancePolicyStatus == {"PENDING", "ACTIVE", "CLAIMED"}
ClaimStatus == {"NONE", "OPEN", "APPROVED", "REJECTED"}

\* What people are notified about.
Topics == Meetings \cup Slots \cup {"messages", "claim"}

VARIABLES
  paid,         \* EscrowTransaction.paymentStatus = PAYMENT_RECEIVED
  meetings,     \* EscrowMeetingProposal.status
  slots,        \* EscrowAvailabilitySlot.status
  messages,     \* how many EscrowMessage rows there are
  policyStatus, \* InsurancePolicy.status
  claim,        \* InsurancePolicy.rawPayload.claim.status
  notices,      \* what the last UserNotification about each topic said
  call,         \* what each request in flight is about to do
  sent,         \* how many requests were sent
  answers,      \* history: how often each proposal and slot was answered
  disturbed,    \* history: topics with overlapping requests, or one that died unheard
  edited        \* history: staff or insurer wrote the policy since its claim was written

tables == <<paid, meetings, slots, messages, policyStatus, claim>>
vars == <<paid, meetings, slots, messages, policyStatus, claim, notices, call, sent,
          answers, disturbed, edited>>

Idle == [op |-> "idle", topic |-> "none"]

\* `says` is the notice the request will send, `fresh` whether the page it came from was
\* up to date, `read` the claim its handler read.
CallRecords ==
  [op : {"propose", "respond", "offer", "select", "submit", "resolve", "edit", "notify"},
   topic : (Topics \ {"messages"}) \cup {"policy"},
   says : MeetingProposalStatus \cup AvailabilitySlotStatus \cup InsurancePolicyStatus
            \cup ClaimStatus,
   fresh : BOOLEAN,
   read : ClaimStatus]

MessageRecords ==
  [op : {"write", "notify"}, topic : {"messages"}, says : 0..MaxMessages, fresh : {TRUE},
   read : ClaimStatus]

TypeOK ==
  /\ paid \in BOOLEAN
  /\ meetings \in [Meetings -> MeetingProposalStatus]
  /\ slots \in [Slots -> AvailabilitySlotStatus]
  /\ messages \in 0..MaxMessages
  /\ policyStatus \in InsurancePolicyStatus
  /\ claim \in ClaimStatus
  /\ call \in [Calls -> CallRecords \cup MessageRecords \cup {Idle}]
  /\ sent \in 0..MaxCalls
  /\ answers \in [Meetings \cup Slots -> Nat]
  /\ disturbed \subseteq Topics

-----------------------------------------------------------------------------

InFlight(topic) == {c \in Calls : call[c].topic = topic}

\* A request passes its guards and remembers what it decided.
Begin(c, op, topic, says, fresh) ==
  /\ call[c] = Idle
  /\ sent < MaxCalls
  /\ sent' = sent + 1
  /\ call' = [call EXCEPT ![c] = [op |-> op, topic |-> topic, says |-> says,
                                  fresh |-> fresh, read |-> claim]]
  /\ disturbed' = IF InFlight(topic) # {} THEN disturbed \cup ({topic} \cap Topics)
                  ELSE disturbed
  /\ UNCHANGED <<tables, notices, answers, edited>>

\* It has written its row and goes on to the notice.
ThenNotify(c) ==
  /\ call' = [call EXCEPT ![c].op = "notify"]
  /\ UNCHANGED <<notices, sent, disturbed>>

\* createNotification, the last write of a request.  The e-mail that follows is best
\* effort and changes nothing.
Notify(c) ==
  /\ call[c].op = "notify"
  /\ notices' = [notices EXCEPT ![call[c].topic] = call[c].says]
  /\ call' = [call EXCEPT ![c] = Idle]
  /\ UNCHANGED <<tables, sent, answers, disturbed, edited>>

\* A request dies: a failed query, a failed audit record, a restart.  If its row is
\* written the other side is never told.
Die(c) ==
  /\ call[c] # Idle
  /\ call' = [call EXCEPT ![c] = Idle]
  /\ disturbed' = IF call[c].op = "notify" THEN disturbed \cup {call[c].topic} ELSE disturbed
  /\ UNCHANGED <<tables, notices, sent, answers, edited>>
=============================================================================

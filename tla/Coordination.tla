---------------------------- MODULE Coordination ----------------------------
(***************************************************************************)
(* EscrowService: how buyer and seller arrange the delivery of a paid      *)
(* operation, from the forms of the account page.  The seller proposes     *)
(* meetings and publishes time slots, the buyer answers and selects, both  *)
(* write messages.                                                         *)
(***************************************************************************)
EXTENDS AftersaleTables

\* MeetingPlanner offers an answer to a pending proposal of the other party, and to the
\* buyer the slots that are open.
AnswerForm(m) == meetings[m] = "PENDING"
SelectForm(s) == slots[s] = "OPEN"

\* The handlers that create rows look at the payment, those that answer them do not.
CreateMeetingProposal(c, m) ==
  /\ paid
  /\ meetings[m] = "NONE"
  /\ InFlight(m) = {}
  /\ Begin(c, "propose", m, "PENDING", TRUE)

CreateMeetingProposalTx(c) ==
  /\ call[c].op = "propose"
  /\ meetings' = [meetings EXCEPT ![call[c].topic] = "PENDING"]
  /\ ThenNotify(c)
  /\ UNCHANGED <<paid, slots, messages, policyStatus, claim, answers, edited>>

\* Fault: a proposal that is already answered can be answered again.
RespondMeetingProposalAgain(c, m) ==
  /\ meetings[m] # "NONE"
  /\ \E outcome \in {"ACCEPTED", "DECLINED"} :
       Begin(c, "respond", m, outcome, AnswerForm(m))

RespondMeetingProposal(c, m) ==
  /\ meetings[m] = "PENDING"
  /\ \E outcome \in {"ACCEPTED", "DECLINED"} :
       Begin(c, "respond", m, outcome, AnswerForm(m))

\* Fault: every answer leaves the proposal accepted.
RespondMeetingProposalTxAccepts(c) ==
  /\ call[c].op = "respond"
  /\ meetings' = [meetings EXCEPT ![call[c].topic] = "ACCEPTED"]
  /\ answers' = [answers EXCEPT ![call[c].topic] = @ + 1]
  /\ ThenNotify(c)
  /\ UNCHANGED <<paid, slots, messages, policyStatus, claim, edited>>

\* The row is updated by primary key, whatever another answer has made of it.
RespondMeetingProposalTx(c) ==
  /\ call[c].op = "respond"
  /\ meetings' = [meetings EXCEPT ![call[c].topic] = call[c].says]
  /\ answers' = [answers EXCEPT ![call[c].topic] = @ + 1]
  /\ ThenNotify(c)
  /\ UNCHANGED <<paid, slots, messages, policyStatus, claim, edited>>

CreateAvailabilitySlot(c, s) ==
  /\ paid
  /\ slots[s] = "NONE"
  /\ InFlight(s) = {}
  /\ Begin(c, "offer", s, "OPEN", TRUE)

CreateAvailabilitySlotTx(c) ==
  /\ call[c].op = "offer"
  /\ slots' = [slots EXCEPT ![call[c].topic] = "OPEN"]
  /\ ThenNotify(c)
  /\ UNCHANGED <<paid, meetings, messages, policyStatus, claim, answers, edited>>

\* Selecting one slot closes none of the others.
SelectAvailabilitySlot(c, s) ==
  /\ slots[s] = "OPEN"
  /\ Begin(c, "select", s, "SELECTED", SelectForm(s))

\* The note of the buyer becomes a message, in a write of its own: it can be lost.
SelectAvailabilitySlotTx(c) ==
  /\ call[c].op = "select"
  /\ slots' = [slots EXCEPT ![call[c].topic] = "SELECTED"]
  /\ answers' = [answers EXCEPT ![call[c].topic] = @ + 1]
  /\ ThenNotify(c)
  /\ UNCHANGED <<paid, meetings, messages, policyStatus, claim, edited>>

\* Messages are numbered as they are written; sendMessage looks at no status.  Staff may
\* write too, and then nobody is notified: only the parties are modelled.
SendMessage(c) ==
  /\ messages + Cardinality(InFlight("messages")) < MaxMessages
  /\ Begin(c, "write", "messages", 0, TRUE)

SendMessageTx(c) ==
  /\ call[c].op = "write"
  /\ messages' = messages + 1
  /\ call' = [call EXCEPT ![c].op = "notify", ![c].says = messages + 1]
  /\ UNCHANGED <<paid, meetings, slots, policyStatus, claim, notices, sent, answers,
                 disturbed, edited>>

\* The operation is disputed, settled or refunded, from wherever it is.
OperationCloses ==
  /\ paid
  /\ paid' = FALSE
  /\ UNCHANGED <<meetings, slots, messages, policyStatus, claim, notices, call, sent,
                 answers, disturbed, edited>>
=============================================================================

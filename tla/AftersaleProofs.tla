--------------------------- MODULE AftersaleProofs ---------------------------
(***************************************************************************)
(* What holds of a paid operation's meetings, slots, messages and claim    *)
(* however many requests overlap and die: the last notice tells the truth, *)
(* an answer counts once, the policy agrees with its claim, a decision     *)
(* stands, and the conversation stays within its bound.                    *)
(***************************************************************************)
EXTENDS Aftersale, FiniteSetTheorems, TLAPS

Ops == {"propose", "respond", "offer", "select", "submit", "resolve", "edit", "write", "notify"}
Says == MeetingProposalStatus \cup AvailabilitySlotStatus \cup InsurancePolicyStatus
          \cup ClaimStatus \cup Nat
Requests == [op : Ops, topic : Topics \cup {"policy"}, says : Says, fresh : BOOLEAN,
             read : ClaimStatus]

\* The tables as far as the arguments need them; how many messages there are is no matter.
Shape ==
  /\ meetings \in [Meetings -> MeetingProposalStatus]
  /\ slots \in [Slots -> AvailabilitySlotStatus]
  /\ messages \in Nat
  /\ claim \in ClaimStatus
  /\ notices \in [Topics -> Says]
  /\ answers \in [Meetings \cup Slots -> Nat]
  /\ disturbed \subseteq Topics
  /\ call \in [Calls -> Requests \cup {Idle}]

\* What a request is about and carries fits what it is about to do; a claim form up to
\* date was read before any decision.
CallSound(c) ==
  /\ call[c].op = "propose" => call[c].topic \in Meetings /\ call[c].says = "PENDING"
  /\ call[c].op = "respond" =>
       call[c].topic \in Meetings /\ call[c].says \in {"ACCEPTED", "DECLINED"}
  /\ call[c].op = "offer" => call[c].topic \in Slots /\ call[c].says = "OPEN"
  /\ call[c].op = "select" => call[c].topic \in Slots /\ call[c].says = "SELECTED"
  /\ call[c].op \in {"submit", "resolve"} =>
       call[c].topic = "claim" /\ (call[c].fresh => call[c].read \notin Decided)
  /\ call[c].op = "submit" => call[c].says = "OPEN"
  /\ call[c].op = "resolve" => call[c].says \in Decided
  /\ call[c].op = "edit" => call[c].topic = "policy" /\ call[c].says \in InsurancePolicyStatus
  /\ call[c].op = "write" => call[c].topic = "messages"
  /\ call[c].op = "notify" => call[c].topic \in Topics

CallsSound == \A c \in Calls : CallSound(c)

Sound == Shape /\ CallsSound

\* A request that begins.
LEMMA BeginSound ==
  ASSUME Sound, NEW c \in Calls, NEW op \in Ops, NEW topic \in Topics \cup {"policy"},
         NEW says \in Says, NEW fresh \in BOOLEAN, Begin(c, op, topic, says, fresh)
  PROVE  /\ Shape'
         /\ UNCHANGED <<tables, notices, answers, edited>>
         /\ call[c] = Idle
         /\ call'[c] = [op |-> op, topic |-> topic, says |-> says, fresh |-> fresh,
                        read |-> claim]
         /\ \A d \in Calls \ {c} : call'[d] = call[d]
         /\ \A d \in Calls \ {c} : CallSound(d)'
         /\ disturbed \subseteq disturbed'
         /\ topic \in Topics /\ InFlight(topic) # {} => topic \in disturbed'
<1>1. [op |-> op, topic |-> topic, says |-> says, fresh |-> fresh, read |-> claim] \in Requests
  BY DEF Sound, Shape, Requests
<1>2. call' = [call EXCEPT ![c] = [op |-> op, topic |-> topic, says |-> says,
                                   fresh |-> fresh, read |-> claim]]
  BY DEF Begin
<1>3. call' \in [Calls -> Requests \cup {Idle}]
  BY <1>1, <1>2 DEF Sound, Shape
<1>4. disturbed \subseteq disturbed' /\ disturbed' \subseteq Topics
  BY DEF Begin, Sound, Shape
<1>5. topic \in Topics /\ InFlight(topic) # {} => topic \in disturbed'
  BY DEF Begin
<1>6. UNCHANGED <<tables, notices, answers, edited>> /\ call[c] = Idle
  BY DEF Begin
<1>7. Shape'
  BY <1>3, <1>4, <1>6 DEF Sound, Shape, tables
<1>8. /\ call'[c] = [op |-> op, topic |-> topic, says |-> says, fresh |-> fresh,
                     read |-> claim]
      /\ \A d \in Calls \ {c} : call'[d] = call[d]
  BY <1>2 DEF Sound, Shape
<1>9. \A d \in Calls \ {c} : CallSound(d)'
  BY <1>8 DEF Sound, CallsSound, CallSound
<1> QED BY <1>4, <1>5, <1>6, <1>7, <1>8, <1>9

\* A request that has written goes on to its notice.
LEMMA ThenNotifySound ==
  ASSUME Sound, NEW c \in Calls, call[c].op \in Ops, call[c].topic \in Topics, ThenNotify(c)
  PROVE  /\ call' \in [Calls -> Requests \cup {Idle}]
         /\ CallsSound'
         /\ call'[c].op = "notify" /\ call'[c].topic = call[c].topic
         /\ call'[c].says = call[c].says
         /\ \A d \in Calls \ {c} : call'[d] = call[d]
         /\ UNCHANGED <<notices, disturbed>>
<1>1. call[c] \in Requests
  BY DEF Sound, Shape, Idle, Ops
<1>2. /\ call'[c] \in Requests
      /\ call'[c].op = "notify" /\ call'[c].topic = call[c].topic
      /\ call'[c].says = call[c].says
  BY <1>1 DEF ThenNotify, Sound, Shape, Requests, Ops
<1>3. \A d \in Calls \ {c} : call'[d] = call[d]
  BY DEF ThenNotify
<1>4. call' \in [Calls -> Requests \cup {Idle}]
  BY <1>2 DEF ThenNotify, Sound, Shape
<1>5. CallsSound'
  BY <1>2, <1>3 DEF Sound, CallsSound, CallSound
<1> QED BY <1>2, <1>3, <1>4, <1>5 DEF ThenNotify
-----------------------------------------------------------------------------

\* What the types and the requests keep, one lemma for requests that write.
LEMMA RowIs ==
  /\ \A m \in Meetings : Row(m) = meetings[m] /\ Row(m)' = meetings'[m]
  /\ \A s \in Slots : Row(s) = slots[s] /\ Row(s)' = slots'[s]
  /\ Row("messages") = messages /\ Row("messages")' = messages'
  /\ Row("claim") = claim /\ Row("claim")' = claim'
<1>1. \A m \in Meetings : Row(m) = meetings[m] /\ Row(m)' = meetings'[m]
  BY TopicsDiffer DEF Row
<1>2. \A s \in Slots : Row(s) = slots[s] /\ Row(s)' = slots'[s]
  BY TopicsDiffer DEF Row
<1>3. Row("messages") = messages /\ Row("messages")' = messages'
  BY TopicsDiffer DEF Row
<1>4. Row("claim") = claim /\ Row("claim")' = claim'
  BY TopicsDiffer DEF Row
<1> QED BY <1>1, <1>2, <1>3, <1>4

\* What a write does to its row.  The other rows, the notices and the marks stay.
Writes(c, t) ==
  /\ call[c].op \in Ops \ {"notify", "edit"}
  /\ call[c].topic = t
  /\ call'[c].op = "notify" /\ call'[c].topic = t /\ call'[c].says = Row(t)'
  /\ \A d \in Calls \ {c} : call'[d] = call[d]
  /\ \A u \in Topics : u # t => Row(u)' = Row(u)
  /\ UNCHANGED <<notices, disturbed>>

LEMMA WriteSound ==
  ASSUME Sound, NEW c \in Calls, Write(c)
  PROVE  /\ Sound'
         /\ UpdatePolicyStatusTx(c) \/ \E t \in Topics : Writes(c, t)
<1>0. call[c].op \in Ops /\ call[c] \in Requests
  BY DEF Sound, Shape, Idle, Ops, Requests, Write, CreateMeetingProposalTx,
     RespondMeetingProposalTx, CreateAvailabilitySlotTx, SelectAvailabilitySlotTx,
     SendMessageTx, SubmitClaimTx, ResolveClaimTx, UpdatePolicyStatusTx
<1>1. CASE CreateMeetingProposalTx(c) \/ RespondMeetingProposalTx(c)
  <2>1. /\ call[c].op \in {"propose", "respond"} /\ call[c].topic \in Meetings
        /\ call[c].says \in MeetingProposalStatus
        /\ ThenNotify(c)
        /\ meetings' = [meetings EXCEPT ![call[c].topic] = call[c].says]
        /\ UNCHANGED <<slots, messages, claim>>
    BY <1>1 DEF CreateMeetingProposalTx, RespondMeetingProposalTx, Sound, CallsSound, CallSound,
       MeetingProposalStatus
  <2>2. answers' \in [Meetings \cup Slots -> Nat]
    <3>1. CASE CreateMeetingProposalTx(c)
      BY <3>1 DEF CreateMeetingProposalTx, Sound, Shape
    <3>2. CASE RespondMeetingProposalTx(c)
      <4>1. answers' = [answers EXCEPT ![call[c].topic] = answers[call[c].topic] + 1]
        BY <3>2 DEF RespondMeetingProposalTx
      <4>2. answers[call[c].topic] + 1 \in Nat
        BY <2>1 DEF Sound, Shape
      <4> QED BY <2>1, <4>1, <4>2 DEF Sound, Shape
    <3> QED BY <1>1, <3>1, <3>2
  <2>3. /\ call' \in [Calls -> Requests \cup {Idle}] /\ CallsSound'
        /\ call'[c].op = "notify" /\ call'[c].topic = call[c].topic
        /\ call'[c].says = call[c].says
        /\ \A d \in Calls \ {c} : call'[d] = call[d]
        /\ UNCHANGED <<notices, disturbed>>
    BY <1>0, <2>1, ThenNotifySound DEF Topics
  <2>4. Sound'
    BY <2>1, <2>2, <2>3 DEF Sound, Shape
  <2>5. PICK t \in Meetings : call[c].topic = t
    BY <2>1
  <2>6. /\ Row(t)' = call[c].says
        /\ \A u \in Topics : u # t => Row(u)' = Row(u)
    BY <2>1, <2>5, RowIs DEF Sound, Shape, Topics
  <2>7. t \in Topics /\ Writes(c, t)
    BY <2>1, <2>3, <2>5, <2>6 DEF Writes, Topics, Ops
  <2> QED BY <2>4, <2>7
<1>2. CASE CreateAvailabilitySlotTx(c) \/ SelectAvailabilitySlotTx(c)
  <2>1. /\ call[c].op \in {"offer", "select"} /\ call[c].topic \in Slots
        /\ call[c].says \in AvailabilitySlotStatus
        /\ ThenNotify(c)
        /\ slots' = [slots EXCEPT ![call[c].topic] = call[c].says]
        /\ UNCHANGED <<meetings, messages, claim>>
    BY <1>2 DEF CreateAvailabilitySlotTx, SelectAvailabilitySlotTx, Sound, CallsSound, CallSound,
       AvailabilitySlotStatus
  <2>2. answers' \in [Meetings \cup Slots -> Nat]
    <3>1. CASE CreateAvailabilitySlotTx(c)
      BY <3>1 DEF CreateAvailabilitySlotTx, Sound, Shape
    <3>2. CASE SelectAvailabilitySlotTx(c)
      <4>1. answers' = [answers EXCEPT ![call[c].topic] = answers[call[c].topic] + 1]
        BY <3>2 DEF SelectAvailabilitySlotTx
      <4>2. answers[call[c].topic] + 1 \in Nat
        BY <2>1 DEF Sound, Shape
      <4> QED BY <2>1, <4>1, <4>2 DEF Sound, Shape
    <3> QED BY <1>2, <3>1, <3>2
  <2>3. /\ call' \in [Calls -> Requests \cup {Idle}] /\ CallsSound'
        /\ call'[c].op = "notify" /\ call'[c].topic = call[c].topic
        /\ call'[c].says = call[c].says
        /\ \A d \in Calls \ {c} : call'[d] = call[d]
        /\ UNCHANGED <<notices, disturbed>>
    BY <1>0, <2>1, ThenNotifySound DEF Topics
  <2>4. Sound'
    BY <2>1, <2>2, <2>3 DEF Sound, Shape
  <2>5. PICK t \in Slots : call[c].topic = t
    BY <2>1
  <2>6. /\ Row(t)' = call[c].says
        /\ \A u \in Topics : u # t => Row(u)' = Row(u)
    BY <2>1, <2>5, RowIs DEF Sound, Shape, Topics
  <2>7. t \in Topics /\ Writes(c, t)
    BY <2>1, <2>3, <2>5, <2>6 DEF Writes, Topics, Ops
  <2> QED BY <2>4, <2>7
<1>3. CASE SendMessageTx(c)
  <2>1. /\ call[c].op = "write" /\ call[c].topic = "messages" /\ messages' = messages + 1
        /\ UNCHANGED <<meetings, slots, claim, notices, answers, disturbed>>
    BY <1>3 DEF SendMessageTx, Sound, CallsSound, CallSound
  <2>2. messages' \in Nat
    BY <2>1 DEF Sound, Shape
  <2>3. /\ call'[c] \in Requests
        /\ call'[c].op = "notify" /\ call'[c].topic = "messages"
        /\ call'[c].says = messages'
        /\ \A d \in Calls \ {c} : call'[d] = call[d]
    <3>1. call'[c] = [call[c] EXCEPT !.op = "notify", !.says = messages']
      BY <1>3, <2>1 DEF SendMessageTx, Sound, Shape
    <3>2. messages' \in Says
      BY <2>2 DEF Says
    <3>3. \A d \in Calls \ {c} : call'[d] = call[d]
      BY <1>3 DEF SendMessageTx, Sound, Shape
    <3> QED BY <1>0, <2>1, <3>1, <3>2, <3>3 DEF Requests, Ops
  <2>4. call' \in [Calls -> Requests \cup {Idle}]
    BY <1>3, <2>3 DEF SendMessageTx, Sound, Shape
  <2>5. CallsSound'
    BY <2>3 DEF Sound, CallsSound, CallSound, Topics
  <2>6. Sound'
    BY <2>1, <2>2, <2>4, <2>5 DEF Sound, Shape
  <2>7. \A t \in Topics : t # "messages" => Row(t)' = Row(t)
    BY <2>1, RowIs DEF Topics
  <2>8. "messages" \in Topics /\ Writes(c, "messages")
    BY <2>1, <2>3, <2>7, RowIs DEF Writes, Topics, Ops
  <2> QED BY <2>6, <2>8
<1>4. CASE SubmitClaimTx(c) \/ ResolveClaimTx(c)
  <2>1. /\ call[c].op \in {"submit", "resolve"} /\ call[c].topic = "claim"
        /\ call[c].says \in ClaimStatus /\ claim' = call[c].says
        /\ ThenNotify(c)
        /\ UNCHANGED <<meetings, slots, messages, answers>>
    BY <1>4 DEF SubmitClaimTx, ResolveClaimTx, Sound, CallsSound, CallSound, ClaimStatus, Decided
  <2>3. /\ call' \in [Calls -> Requests \cup {Idle}] /\ CallsSound'
        /\ call'[c].op = "notify" /\ call'[c].topic = call[c].topic
        /\ call'[c].says = call[c].says
        /\ \A d \in Calls \ {c} : call'[d] = call[d]
        /\ UNCHANGED <<notices, disturbed>>
    BY <1>0, <2>1, ThenNotifySound DEF Topics
  <2>4. Sound'
    BY <2>1, <2>3 DEF Sound, Shape
  <2>5. /\ Row("claim")' = call[c].says
        /\ \A t \in Topics : t # "claim" => Row(t)' = Row(t)
    BY <2>1, RowIs DEF Topics
  <2>6. "claim" \in Topics /\ Writes(c, "claim")
    BY <2>1, <2>3, <2>5 DEF Writes, Topics, Ops
  <2> QED BY <2>4, <2>6
<1>5. CASE UpdatePolicyStatusTx(c)
  <2>1. call' = [call EXCEPT ![c] = Idle]
    BY <1>5 DEF UpdatePolicyStatusTx
  <2>2. call' \in [Calls -> Requests \cup {Idle}] /\ CallsSound'
    BY <2>1 DEF Sound, Shape, CallsSound, CallSound, Idle
  <2> QED BY <1>5, <2>2 DEF UpdatePolicyStatusTx, Sound, Shape
<1> QED BY <1>1, <1>2, <1>3, <1>4, <1>5 DEF Write


\* A request that passes its guards says what it is about, and writes nothing yet.
Begins(c, t) ==
  /\ call[c] = Idle
  /\ call'[c].op \in Ops \ {"notify"} /\ call'[c].topic = t
  /\ \A d \in Calls \ {c} : call'[d] = call[d]
  /\ UNCHANGED <<tables, notices, answers, edited>>
  /\ disturbed \subseteq disturbed'
  /\ t \in Topics /\ InFlight(t) # {} => t \in disturbed'

LEMMA BeginsSound ==
  ASSUME Sound, NEW c \in Calls, NEW op \in Ops \ {"notify"}, NEW t \in Topics \cup {"policy"},
         NEW says \in Says, NEW fresh \in BOOLEAN, Begin(c, op, t, says, fresh),
         op = "propose" => t \in Meetings /\ says = "PENDING",
         op = "respond" => t \in Meetings /\ says \in {"ACCEPTED", "DECLINED"},
         op = "offer" => t \in Slots /\ says = "OPEN",
         op = "select" => t \in Slots /\ says = "SELECTED",
         op \in {"submit", "resolve"} => t = "claim" /\ (fresh => claim \notin Decided),
         op = "submit" => says = "OPEN",
         op = "resolve" => says \in Decided,
         op = "edit" => t = "policy" /\ says \in InsurancePolicyStatus,
         op = "write" => t = "messages"
  PROVE  Sound' /\ Begins(c, t)
<1>1. /\ Shape'
      /\ UNCHANGED <<tables, notices, answers, edited>>
      /\ call[c] = Idle
      /\ call'[c] = [op |-> op, topic |-> t, says |-> says, fresh |-> fresh, read |-> claim]
      /\ \A d \in Calls \ {c} : call'[d] = call[d]
      /\ \A d \in Calls \ {c} : CallSound(d)'
      /\ disturbed \subseteq disturbed'
      /\ t \in Topics /\ InFlight(t) # {} => t \in disturbed'
  BY BeginSound
<1>2. CallSound(c)'
  BY <1>1 DEF CallSound
<1>3. Sound'
  BY <1>1, <1>2 DEF Sound, CallsSound
<1>4. Begins(c, t)
  BY <1>1 DEF Begins
<1> QED BY <1>3, <1>4

LEMMA RequestSound ==
  ASSUME Sound, NEW c \in Calls, Request(c)
  PROVE  Sound' /\ \E t \in Topics \cup {"policy"} : Begins(c, t)
<1> USE DEF Topics, Says, Ops, MeetingProposalStatus, AvailabilitySlotStatus,
        InsurancePolicyStatus, ClaimStatus
<1>1. ASSUME NEW m \in Meetings, CreateMeetingProposal(c, m)
      PROVE  Sound' /\ Begins(c, m)
  <2>1. PICK fresh \in BOOLEAN : Begin(c, "propose", m, "PENDING", fresh)
    BY <1>1 DEF CreateMeetingProposal
  <2> QED BY <2>1, BeginsSound
<1>2. ASSUME NEW m \in Meetings, RespondMeetingProposal(c, m)
      PROVE  Sound' /\ Begins(c, m)
  <2>1. PICK outcome \in {"ACCEPTED", "DECLINED"}, fresh \in BOOLEAN :
          Begin(c, "respond", m, outcome, fresh)
    BY <1>2 DEF RespondMeetingProposal, AnswerForm
  <2> QED BY <2>1, BeginsSound
<1>3. ASSUME NEW s \in Slots, CreateAvailabilitySlot(c, s)
      PROVE  Sound' /\ Begins(c, s)
  <2>1. PICK fresh \in BOOLEAN : Begin(c, "offer", s, "OPEN", fresh)
    BY <1>3 DEF CreateAvailabilitySlot
  <2> QED BY <2>1, BeginsSound
<1>4. ASSUME NEW s \in Slots, SelectAvailabilitySlot(c, s)
      PROVE  Sound' /\ Begins(c, s)
  <2>1. PICK fresh \in BOOLEAN : Begin(c, "select", s, "SELECTED", fresh)
    BY <1>4 DEF SelectAvailabilitySlot, SelectForm
  <2> QED BY <2>1, BeginsSound
<1>5. CASE SendMessage(c)
  <2>1. PICK fresh \in BOOLEAN : Begin(c, "write", "messages", 0, fresh)
    BY <1>5 DEF SendMessage
  <2>2. "messages" \in Topics \cup {"policy"} /\ 0 \in Says
    OBVIOUS
  <2>3. Sound' /\ Begins(c, "messages")
    BY ONLY <2>1, <2>2, BeginsSound, Sound, c \in Calls DEF Ops
  <2> QED BY <2>3
<1>6. CASE SubmitClaim(c)
  <2>1. PICK fresh \in BOOLEAN : /\ Begin(c, "submit", "claim", "OPEN", fresh)
                                 /\ fresh => claim = "NONE"
    BY <1>6 DEF SubmitClaim, ClaimForm
  <2>2. Sound' /\ Begins(c, "claim")
    BY <2>1, BeginsSound DEF Decided
  <2> QED BY <2>2
<1>7. CASE ResolveClaim(c)
  <2>1. PICK outcome \in Decided, fresh \in BOOLEAN :
          /\ Begin(c, "resolve", "claim", outcome, fresh)
          /\ fresh => claim = "OPEN"
    BY <1>7 DEF ResolveClaim, ResolveForm
  <2>2. Sound' /\ Begins(c, "claim")
    BY <2>1, BeginsSound DEF Decided
  <2> QED BY <2>2
<1>8. CASE UpdatePolicyStatus(c)
  <2>1. PICK status \in InsurancePolicyStatus, fresh \in BOOLEAN :
          Begin(c, "edit", "policy", status, fresh)
    BY <1>8 DEF UpdatePolicyStatus
  <2>2. Sound' /\ Begins(c, "policy")
    BY <2>1, BeginsSound
  <2> QED BY <2>2
<1> QED BY <1>1, <1>2, <1>3, <1>4, <1>5, <1>6, <1>7, <1>8 DEF Request, CoordinationRequest, ClaimRequest, StaffRequest

\* A notice, a death, the end of the operation, the insurer's word.
LEMMA OthersSound ==
  ASSUME Sound,
         \/ \E c \in Calls : Notify(c) \/ Die(c)
         \/ OperationCloses \/ ProcessPolicyWebhook \/ UNCHANGED vars
  PROVE  Sound'
<1>1. ASSUME NEW c \in Calls, Notify(c)
      PROVE  Sound'
  <2>1. call[c] \in Requests /\ call[c].topic \in Topics
    BY <1>1 DEF Notify, Sound, Shape, CallsSound, CallSound, Idle
  <2>2. notices' \in [Topics -> Says]
    BY <1>1, <2>1 DEF Notify, Sound, Shape, Requests
  <2>3. call' \in [Calls -> Requests \cup {Idle}] /\ CallsSound'
    BY <1>1 DEF Notify, Sound, Shape, CallsSound, CallSound, Idle
  <2> QED BY <1>1, <2>2, <2>3 DEF Notify, Sound, Shape, tables
<1>2. ASSUME NEW c \in Calls, Die(c)
      PROVE  Sound'
  <2>1. disturbed' \subseteq Topics
    BY <1>2 DEF Die, Sound, Shape, CallsSound, CallSound
  <2>2. call' \in [Calls -> Requests \cup {Idle}] /\ CallsSound'
    BY <1>2 DEF Die, Sound, Shape, CallsSound, CallSound, Idle
  <2> QED BY <1>2, <2>1, <2>2 DEF Die, Sound, Shape, tables
<1>3. CASE OperationCloses
  BY <1>3 DEF OperationCloses, Sound, Shape, CallsSound, CallSound
<1>4. CASE ProcessPolicyWebhook
  BY <1>4 DEF ProcessPolicyWebhook, Sound, Shape, CallsSound, CallSound, ClaimStatus, Topics
<1>5. CASE UNCHANGED vars
  BY <1>5 DEF vars, Sound, Shape, CallsSound, CallSound
<1> QED BY <1>1, <1>2, <1>3, <1>4, <1>5

\* The rows, the requests in flight and what they carry keep their types.
LEMMA AftersaleSound == Spec => []Sound
<1>1. Init => Sound
  BY DEF Init, Sound, Shape, CallsSound, CallSound, Idle, Topics, Says, MeetingProposalStatus,
     AvailabilitySlotStatus, ClaimStatus
<1>2. Sound /\ [Next]_vars => Sound'
  BY WriteSound, RequestSound, OthersSound DEF Next
<1> QED BY <1>1, <1>2, PTL DEF Spec

-----------------------------------------------------------------------------

\* A topic that was never disturbed has at most one request in flight.  It was written
\* and will be notified, or the last notice is right.
TopicRight(t) ==
  /\ \A c, d \in Calls : call[c].topic = t /\ call[d].topic = t => c = d
  /\ \A c \in Calls : call[c].topic = t /\ call[c].op = "notify" => call[c].says = Row(t)
  /\ (\A c \in Calls : call[c].topic = t => call[c].op # "notify") => notices[t] = Row(t)

TopicsRight == \A t \in Topics \ disturbed : TopicRight(t)

\* The rows that notices are about stay when nothing is written.
LEMMA RowsStay ==
  ASSUME UNCHANGED <<meetings, slots, messages, claim>>
  PROVE  \A t \in Topics : Row(t)' = Row(t)
BY RowIs DEF Topics

\* Requests about one topic follow one another, or the topic is disturbed.
LEMMA TopicsRightHolds == Spec => []TopicsRight
<1>1. Init => TopicsRight
  <2> SUFFICES ASSUME Init PROVE TopicsRight
    OBVIOUS
  <2>1. \A t \in Topics : notices[t] = Row(t)
    BY RowIs, TopicsDiffer DEF Init, Topics
  <2>2. \A c \in Calls : call[c].topic = "none" /\ call[c].op = "idle"
    BY DEF Init, Idle
  <2> QED BY <2>1, <2>2, TopicsDiffer DEF TopicsRight, TopicRight, Topics
<1>2. ASSUME Sound, TopicsRight, [Next]_vars
      PROVE  TopicsRight'
  <2>1. ASSUME NEW c \in Calls, NEW t \in Topics \cup {"policy"}, Begins(c, t)
        PROVE  TopicsRight'
    <3>1. \A u \in Topics : Row(u)' = Row(u)
      BY <2>1, RowsStay DEF Begins, tables
    <3>2. ASSUME NEW u \in Topics \ disturbed'
          PROVE  TopicRight(u)'
      <4>1. TopicRight(u)
        BY <1>2, <2>1, <3>2 DEF TopicsRight, Begins
      <4>2. CASE u = t
        <5>1. InFlight(u) = {}
          BY <2>1, <3>2, <4>2 DEF Begins
        <5>2. \A d \in Calls : call'[d].topic = u => d = c
          BY <2>1, <5>1 DEF Begins, InFlight
        <5>3. notices'[u] = Row(u)'
          BY <2>1, <3>1, <3>2, <4>1, <5>1 DEF Begins, TopicRight, InFlight
        <5> QED BY <2>1, <5>2, <5>3 DEF TopicRight, Begins
      <4>3. CASE u # t
        <5>1. \A d \in Calls : call'[d].topic = u => call'[d] = call[d]
          BY <2>1, <4>3 DEF Begins
        <5>2. \A d \in Calls : call[d].topic = u => call'[d] = call[d]
          BY <2>1, <3>2, TopicsDiffer DEF Begins, Idle, Topics
        <5>3. notices'[u] = notices[u] /\ Row(u)' = Row(u)
          BY <2>1, <3>1, <3>2 DEF Begins
        <5> QED BY <4>1, <5>1, <5>2, <5>3 DEF TopicRight
      <4> QED BY <4>2, <4>3
    <3> QED BY <3>2 DEF TopicsRight
  <2>2. ASSUME NEW c \in Calls, NEW t \in Topics, Writes(c, t)
        PROVE  TopicsRight'
    <3>1. ASSUME NEW u \in Topics \ disturbed
          PROVE  TopicRight(u)'
      <4>1. TopicRight(u)
        BY <1>2 DEF TopicsRight
      <4>2. \A d \in Calls : call'[d].topic = call[d].topic
        BY <2>2 DEF Writes
      <4>3. CASE u = t
        BY <2>2, <4>1, <4>2, <4>3 DEF Writes, TopicRight
      <4>4. CASE u # t
        <5>1. \A d \in Calls : call[d].topic = u => call'[d] = call[d]
          BY <2>2, <4>4 DEF Writes
        <5>2. notices'[u] = notices[u] /\ Row(u)' = Row(u)
          BY <2>2, <4>4 DEF Writes
        <5> QED BY <4>1, <4>2, <5>1, <5>2 DEF TopicRight
      <4> QED BY <4>3, <4>4
    <3> QED BY <2>2, <3>1 DEF TopicsRight, Writes
  <2>3. ASSUME NEW c \in Calls, Notify(c)
        PROVE  TopicsRight'
    <3>1. PICK t \in Topics : t = call[c].topic
      BY <1>2, <2>3 DEF Notify, Sound, CallsSound, CallSound
    <3>2. /\ call'[c] = Idle /\ \A d \in Calls \ {c} : call'[d] = call[d]
          /\ notices' = [notices EXCEPT ![t] = call[c].says]
          /\ disturbed' = disturbed
      BY <1>2, <2>3, <3>1 DEF Notify, Sound, Shape
    <3>3. \A u \in Topics : Row(u)' = Row(u)
      BY <2>3, RowsStay DEF Notify, tables
    <3>4. ASSUME NEW u \in Topics \ disturbed
          PROVE  TopicRight(u)'
      <4>1. TopicRight(u)
        BY <1>2 DEF TopicsRight
      <4>2. \A d \in Calls : call'[d].topic = u => call'[d] = call[d] /\ d # c
        BY <3>2, TopicsDiffer DEF Idle, Topics
      <4>3. CASE u = t
        <5>1. notices'[u] = Row(u)'
          BY <1>2, <2>3, <3>1, <3>2, <3>3, <4>1, <4>3 DEF Notify, TopicRight, Sound, Shape
        <5>2. \A d \in Calls : call'[d].topic # u
          BY <3>1, <4>1, <4>2, <4>3 DEF TopicRight
        <5> QED BY <5>1, <5>2 DEF TopicRight
      <4>4. CASE u # t
        <5>1. notices'[u] = notices[u]
          BY <1>2, <3>2, <4>4 DEF Sound, Shape
        <5>2. \A d \in Calls : call[d].topic = u => call'[d] = call[d]
          BY <3>1, <3>2, <4>4
        <5> QED BY <3>3, <4>1, <4>2, <5>1, <5>2 DEF TopicRight
      <4> QED BY <4>3, <4>4
    <3> QED BY <3>2, <3>4 DEF TopicsRight
  <2>4. ASSUME NEW c \in Calls, Die(c)
        PROVE  TopicsRight'
    <3>1. /\ call'[c] = Idle /\ \A d \in Calls \ {c} : call'[d] = call[d]
          /\ notices' = notices /\ disturbed \subseteq disturbed'
          /\ call[c].op = "notify" => call[c].topic \in disturbed'
      BY <1>2, <2>4 DEF Die, Sound, Shape
    <3>2. \A u \in Topics : Row(u)' = Row(u)
      BY <2>4, RowsStay DEF Die, tables
    <3>3. ASSUME NEW u \in Topics \ disturbed'
          PROVE  TopicRight(u)'
      <4>1. TopicRight(u)
        BY <1>2, <3>1, <3>3 DEF TopicsRight
      <4>2. \A d \in Calls : call'[d].topic = u => call'[d] = call[d]
        BY <3>1, TopicsDiffer DEF Idle, Topics
      <4>3. \A d \in Calls : call[d].topic = u /\ call[d].op = "notify" => call'[d] = call[d]
        BY <3>1, <3>3
      <4> QED BY <3>1, <3>2, <3>3, <4>1, <4>2, <4>3 DEF TopicRight
    <3> QED BY <3>3 DEF TopicsRight
  <2>5. ASSUME UNCHANGED <<call, notices>>, disturbed \subseteq disturbed',
               \A u \in Topics \ disturbed' : Row(u)' = Row(u)
        PROVE  TopicsRight'
    BY <1>2, <2>5 DEF TopicsRight, TopicRight
  <2>6. ASSUME NEW c \in Calls, UpdatePolicyStatusTx(c)
        PROVE  TopicsRight'
    <3>1. /\ call'[c] = Idle /\ \A d \in Calls \ {c} : call'[d] = call[d]
          /\ notices' = notices /\ disturbed' = disturbed /\ call[c].topic = "policy"
      BY <1>2, <2>6 DEF UpdatePolicyStatusTx, Sound, Shape, CallsSound, CallSound
    <3>2. \A u \in Topics : Row(u)' = Row(u)
      BY <2>6, RowsStay DEF UpdatePolicyStatusTx
    <3>3. ASSUME NEW u \in Topics \ disturbed
          PROVE  TopicRight(u)'
      <4>1. TopicRight(u)
        BY <1>2 DEF TopicsRight
      <4>2. \A d \in Calls : call'[d].topic = u => call'[d] = call[d]
        BY <3>1, TopicsDiffer DEF Idle, Topics
      <4>3. \A d \in Calls : call[d].topic = u => call'[d] = call[d]
        BY <3>1, TopicsDiffer DEF Topics
      <4> QED BY <3>1, <3>2, <4>1, <4>2, <4>3 DEF TopicRight
    <3> QED BY <3>1, <3>3 DEF TopicsRight
  <2>7. CASE OperationCloses
    <3>1. \A u \in Topics : Row(u)' = Row(u)
      BY <2>7, RowsStay DEF OperationCloses
    <3> QED BY <2>5, <2>7, <3>1 DEF OperationCloses
  <2>8. CASE ProcessPolicyWebhook
    <3>1. \A u \in Topics : u # "claim" => Row(u)' = Row(u)
      BY <2>8, RowIs DEF ProcessPolicyWebhook, Topics
    <3>2. "claim" \in disturbed' /\ disturbed \subseteq disturbed' /\ UNCHANGED <<call, notices>>
      BY <2>8 DEF ProcessPolicyWebhook
    <3>3. \A u \in Topics \ disturbed' : Row(u)' = Row(u)
      BY <3>1, <3>2
    <3> QED BY <2>5, <3>2, <3>3
  <2>9. CASE UNCHANGED vars
    <3>1. \A u \in Topics : Row(u)' = Row(u)
      BY <2>9, RowsStay DEF vars
    <3> QED BY <2>5, <2>9, <3>1 DEF vars
  <2> QED BY <1>2, <2>1, <2>2, <2>3, <2>4, <2>6, <2>7, <2>8, <2>9, RequestSound, WriteSound
          DEF Next
<1> QED BY <1>1, <1>2, AftersaleSound, PTL DEF Spec

\* Whoever was told about an undisturbed topic was told what is so.
THEOREM NoticesAgreeAlways == Spec => []NoticesAgree
<1>1. TopicsRight => NoticesAgree
  BY DEF TopicsRight, TopicRight, NoticesAgree, InFlight
<1> QED BY <1>1, TopicsRightHolds, PTL


-----------------------------------------------------------------------------

Unanswered == {"NONE", "PENDING", "OPEN"}

\* What a request about row x found when it began is still so, and x was answered at
\* most once, never if it is still to be answered.
AnswerRight(x) ==
  /\ answers[x] <= 1
  /\ Row(x) \in Unanswered => answers[x] = 0
  /\ \A c \in Calls : call[c].topic = x =>
       /\ call[c].op \in {"propose", "offer"} => Row(x) = "NONE"
       /\ call[c].op = "respond" => Row(x) = "PENDING"
       /\ call[c].op = "select" => Row(x) = "OPEN"

AnswersRight == \A x \in (Meetings \cup Slots) \ disturbed : AnswerRight(x)

\* A step that answers nothing and starts no request.
LEMMA AnswersStay ==
  ASSUME AnswersRight, answers' = answers, UNCHANGED <<meetings, slots>>,
         disturbed \subseteq disturbed',
         \A d \in Calls : call'[d].topic \in Meetings \cup Slots =>
           call'[d] = call[d] \/ call'[d].op = "notify"
  PROVE  AnswersRight'
<1>1. \A x \in Meetings \cup Slots : Row(x)' = Row(x)
  BY RowIs
<1> QED BY <1>1 DEF AnswersRight, AnswerRight

\* Of two answers that never met only one is taken.
THEOREM AnsweredOnceAlways == Spec => []AnsweredOnce
<1>1. Init => AnswersRight
  <2> SUFFICES ASSUME Init PROVE AnswersRight
    OBVIOUS
  <2>1. \A c \in Calls : call[c].topic = "none"
    BY DEF Init, Idle
  <2>2. \A x \in Meetings \cup Slots : answers[x] = 0
    BY DEF Init
  <2> QED BY <2>1, <2>2, TopicsDiffer DEF AnswersRight, AnswerRight
<1>2. ASSUME Sound, TopicsRight, AnswersRight, [Next]_vars
      PROVE  AnswersRight'
  <2>1. ASSUME NEW c \in Calls, NEW x \in Meetings \cup Slots,
               NEW op \in Ops, NEW says \in Says, NEW fresh \in BOOLEAN,
               Begin(c, op, x, says, fresh),
               op \in {"propose", "offer"} => Row(x) = "NONE",
               op = "respond" => Row(x) = "PENDING",
               op = "select" => Row(x) = "OPEN"
        PROVE  AnswersRight'
    <3>1. /\ UNCHANGED <<tables, notices, answers, edited>>
          /\ call'[c].op = op /\ call'[c].topic = x
          /\ \A d \in Calls \ {c} : call'[d] = call[d]
          /\ disturbed \subseteq disturbed'
          /\ InFlight(x) # {} => x \in disturbed'
      <4>1. x \in Topics /\ x \in Topics \cup {"policy"}
        BY DEF Topics
      <4>2. /\ UNCHANGED <<tables, notices, answers, edited>>
            /\ call'[c] = [op |-> op, topic |-> x, says |-> says, fresh |-> fresh,
                           read |-> claim]
            /\ \A d \in Calls \ {c} : call'[d] = call[d]
            /\ disturbed \subseteq disturbed'
            /\ x \in Topics /\ InFlight(x) # {} => x \in disturbed'
        BY <1>2, <2>1, <4>1, BeginSound
      <4> QED BY <4>1, <4>2
    <3>2. \A y \in Meetings \cup Slots : Row(y)' = Row(y)
      BY <3>1, RowIs DEF tables
    <3>3. ASSUME NEW y \in (Meetings \cup Slots) \ disturbed'
          PROVE  AnswerRight(y)'
      <4>1. AnswerRight(y)
        BY <1>2, <3>1, <3>3 DEF AnswersRight
      <4>2. answers'[y] = answers[y] /\ Row(y)' = Row(y)
        BY <3>1, <3>2, <3>3
      <4>3. ASSUME NEW d \in Calls, call'[d].topic = y
            PROVE  /\ call'[d].op \in {"propose", "offer"} => Row(y) = "NONE"
                   /\ call'[d].op = "respond" => Row(y) = "PENDING"
                   /\ call'[d].op = "select" => Row(y) = "OPEN"
        <5>1. CASE d = c
          BY <2>1, <3>1, <4>3, <5>1
        <5>2. CASE d # c
          BY <3>1, <4>1, <4>3, <5>2 DEF AnswerRight
        <5> QED BY <5>1, <5>2
      <4> QED BY <4>1, <4>2, <4>3 DEF AnswerRight
    <3> QED BY <3>3 DEF AnswersRight
  <2>2. ASSUME NEW c \in Calls, NEW t \in {"messages", "claim", "policy"}, Begins(c, t)
        PROVE  AnswersRight'
    BY <1>2, <2>2, TopicsDiffer, AnswersStay DEF Begins, tables
  <2>3. ASSUME NEW c \in Calls, Request(c)
        PROVE  AnswersRight'
    <3> USE DEF Ops, Says, MeetingProposalStatus, AvailabilitySlotStatus
    <3>1. ASSUME NEW m \in Meetings, CreateMeetingProposal(c, m)
          PROVE  AnswersRight'
      <4>1. PICK fresh \in BOOLEAN : Begin(c, "propose", m, "PENDING", fresh)
        BY <3>1 DEF CreateMeetingProposal
      <4>2. Row(m) = "NONE"
        BY <3>1, RowIs DEF CreateMeetingProposal
      <4> QED BY <2>1, <4>1, <4>2
    <3>2. ASSUME NEW m \in Meetings, RespondMeetingProposal(c, m)
          PROVE  AnswersRight'
      <4>1. PICK outcome \in {"ACCEPTED", "DECLINED"}, fresh \in BOOLEAN :
              Begin(c, "respond", m, outcome, fresh)
        BY <3>2 DEF RespondMeetingProposal, AnswerForm
      <4>2. Row(m) = "PENDING"
        BY <3>2, RowIs DEF RespondMeetingProposal
      <4> QED BY <2>1, <4>1, <4>2
    <3>3. ASSUME NEW s \in Slots, CreateAvailabilitySlot(c, s)
          PROVE  AnswersRight'
      <4>1. PICK fresh \in BOOLEAN : Begin(c, "offer", s, "OPEN", fresh)
        BY <3>3 DEF CreateAvailabilitySlot
      <4>2. Row(s) = "NONE"
        BY <3>3, RowIs DEF CreateAvailabilitySlot
      <4> QED BY <2>1, <4>1, <4>2
    <3>4. ASSUME NEW s \in Slots, SelectAvailabilitySlot(c, s)
          PROVE  AnswersRight'
      <4>1. PICK fresh \in BOOLEAN : Begin(c, "select", s, "SELECTED", fresh)
        BY <3>4 DEF SelectAvailabilitySlot, SelectForm
      <4>2. Row(s) = "OPEN"
        BY <3>4, RowIs DEF SelectAvailabilitySlot
      <4> QED BY <2>1, <4>1, <4>2
    <3>5. CASE SendMessage(c) \/ SubmitClaim(c) \/ ResolveClaim(c) \/ UpdatePolicyStatus(c)
      <4>1. PICK t \in {"messages", "claim", "policy"} :
              /\ call'[c].topic = t /\ call[c] = Idle
              /\ UNCHANGED <<meetings, slots, answers>> /\ disturbed \subseteq disturbed'
              /\ \A d \in Calls \ {c} : call'[d] = call[d]
        BY <1>2, <3>5 DEF SendMessage, SubmitClaim, ResolveClaim, UpdatePolicyStatus, Begin,
           tables, Sound, Shape
      <4> QED BY <1>2, <4>1, TopicsDiffer, AnswersStay
    <3> QED BY <2>3, <3>1, <3>2, <3>3, <3>4, <3>5 DEF Request, CoordinationRequest,
         ClaimRequest, StaffRequest
  <2>4. ASSUME NEW c \in Calls, Write(c)
        PROVE  AnswersRight'
    <3>1. CASE UpdatePolicyStatusTx(c)
      BY <1>2, <3>1, TopicsDiffer, AnswersStay DEF UpdatePolicyStatusTx, Idle
    <3>2. ASSUME NEW t \in Topics, Writes(c, t)
          PROVE  AnswersRight'
      <4>1. ASSUME NEW x \in (Meetings \cup Slots) \ disturbed
            PROVE  AnswerRight(x)'
        <5>1. AnswerRight(x) /\ x \in Topics
          BY <1>2, <4>1 DEF AnswersRight, Topics
        <5>2. CASE x # t
          <6>1. answers'[x] = answers[x]
            <7>1. answers' = answers \/ answers' = [answers EXCEPT ![t] = @ + 1]
              BY <2>4, <3>2 DEF Writes, Write, CreateMeetingProposalTx, RespondMeetingProposalTx,
                 CreateAvailabilitySlotTx, SelectAvailabilitySlotTx, SendMessageTx,
                 SubmitClaimTx, ResolveClaimTx, UpdatePolicyStatusTx
            <7> QED BY <1>2, <4>1, <5>2, <7>1 DEF Sound, Shape
          <6>2. Row(x)' = Row(x)
            BY <3>2, <5>1, <5>2 DEF Writes
          <6>3. \A d \in Calls : call'[d].topic = x => call'[d] = call[d]
            BY <3>2, <5>2 DEF Writes
          <6> QED BY <5>1, <6>1, <6>2, <6>3 DEF AnswerRight
        <5>3. CASE x = t
          <6>1. \A d \in Calls : call'[d].topic = x => call'[d].op = "notify"
            <7>1. \A d \in Calls : call'[d].topic = call[d].topic
              BY <3>2 DEF Writes
            <7>2. \A d \in Calls : call[d].topic = x => d = c
              BY <1>2, <3>2, <4>1, <5>1, <5>3 DEF TopicsRight, TopicRight, Writes
            <7> QED BY <3>2, <7>1, <7>2 DEF Writes
          <6>2. call[c].topic = x
            BY <3>2, <5>3 DEF Writes
          <6>3. CASE CreateMeetingProposalTx(c) \/ CreateAvailabilitySlotTx(c)
            <7>1. answers' = answers /\ Row(x) = "NONE"
              BY <5>1, <6>2, <6>3 DEF CreateMeetingProposalTx, CreateAvailabilitySlotTx,
                 AnswerRight
            <7>2. answers'[x] = 0
              BY <5>1, <7>1 DEF AnswerRight, Unanswered
            <7> QED BY <6>1, <7>2 DEF AnswerRight
          <6>4. CASE RespondMeetingProposalTx(c) \/ SelectAvailabilitySlotTx(c)
            <7>1. /\ answers' = [answers EXCEPT ![x] = answers[x] + 1]
                  /\ Row(x) \in {"PENDING", "OPEN"}
                  /\ call[c].op \in {"respond", "select"}
              BY <5>1, <6>2, <6>4 DEF RespondMeetingProposalTx, SelectAvailabilitySlotTx,
                 AnswerRight
            <7>2. answers'[x] = 1
              BY <1>2, <4>1, <5>1, <7>1 DEF AnswerRight, Unanswered, Sound, Shape
            <7>3. Row(x)' \notin Unanswered
              <8>1. call[c].says \in {"ACCEPTED", "DECLINED", "SELECTED"}
                BY <1>2, <7>1 DEF Sound, CallsSound, CallSound
              <8>2. Row(x)' = call[c].says
                <9>1. call'[c].says = Row(x)' /\ ThenNotify(c)
                  BY <3>2, <5>3, <6>4 DEF Writes, RespondMeetingProposalTx,
                     SelectAvailabilitySlotTx
                <9>2. call[c] \in Requests
                  BY <1>2, <7>1 DEF Sound, Shape, Idle
                <9> QED BY <1>2, <9>1, <9>2 DEF ThenNotify, Sound, Shape, Requests
              <8> QED BY <8>1, <8>2 DEF Unanswered
            <7> QED BY <6>1, <7>2, <7>3 DEF AnswerRight
          <6>5. CASE SendMessageTx(c) \/ SubmitClaimTx(c) \/ ResolveClaimTx(c)
            <7>1. call[c].topic \in {"messages", "claim"}
              BY <1>2, <6>5 DEF SendMessageTx, SubmitClaimTx, ResolveClaimTx, Sound, CallsSound,
                 CallSound
            <7> QED BY <4>1, <6>2, <7>1, TopicsDiffer
          <6>6. ~UpdatePolicyStatusTx(c)
            BY <3>2 DEF UpdatePolicyStatusTx, Writes
          <6> QED BY <2>4, <6>3, <6>4, <6>5, <6>6 DEF Write
        <5> QED BY <5>2, <5>3
      <4> QED BY <3>2, <4>1 DEF AnswersRight, Writes
    <3> QED BY <1>2, <2>4, <3>1, <3>2, WriteSound
  <2>5. ASSUME NEW c \in Calls, Notify(c) \/ Die(c)
        PROVE  AnswersRight'
    <3>1. /\ call'[c] = Idle /\ \A d \in Calls \ {c} : call'[d] = call[d]
          /\ disturbed \subseteq disturbed' /\ UNCHANGED <<tables, answers>>
      BY <1>2, <2>5 DEF Notify, Die, Sound, Shape
    <3> QED BY <1>2, <3>1, TopicsDiffer, AnswersStay DEF tables, Idle
  <2>6. CASE OperationCloses \/ ProcessPolicyWebhook \/ UNCHANGED vars
    BY <1>2, <2>6, AnswersStay DEF OperationCloses, ProcessPolicyWebhook, vars
  <2> QED BY <1>2, <2>3, <2>4, <2>5, <2>6 DEF Next
<1>3. AnswersRight => AnsweredOnce
  BY DEF AnswersRight, AnswerRight, AnsweredOnce
<1> QED BY <1>1, <1>2, <1>3, AftersaleSound, TopicsRightHolds, PTL DEF Spec

-----------------------------------------------------------------------------

\* Status and claim are written together by all who write the claim.
THEOREM ClaimAgreesAlways == Spec => []ClaimAgrees
<1>1. Init => ClaimAgrees
  BY DEF Init, ClaimAgrees
<1>2. ASSUME Sound, ClaimAgrees, [Next]_vars
      PROVE  ClaimAgrees'
  <2>1. ASSUME UNCHANGED <<policyStatus, claim, edited>>
        PROVE  ClaimAgrees'
    BY <1>2, <2>1 DEF ClaimAgrees
  <2>2. ASSUME NEW c \in Calls, Request(c)
        PROVE  ClaimAgrees'
    BY <1>2, <2>1, <2>2, RequestSound DEF Begins, tables
  <2>3. ASSUME NEW c \in Calls, Write(c)
        PROVE  ClaimAgrees'
    <3>1. CASE SubmitClaimTx(c)
      BY <1>2, <3>1 DEF SubmitClaimTx, Sound, CallsSound, CallSound, ClaimAgrees
    <3>2. CASE ResolveClaimTx(c)
      <4>1. call[c].says \in Decided
        BY <1>2, <3>2 DEF ResolveClaimTx, Sound, CallsSound, CallSound
      <4> QED BY <3>2, <4>1 DEF ResolveClaimTx, Decided, ClaimAgrees
    <3>3. CASE UpdatePolicyStatusTx(c)
      BY <3>3 DEF UpdatePolicyStatusTx, ClaimAgrees
    <3>4. CASE CreateMeetingProposalTx(c) \/ RespondMeetingProposalTx(c)
               \/ CreateAvailabilitySlotTx(c) \/ SelectAvailabilitySlotTx(c) \/ SendMessageTx(c)
      BY <2>1, <3>4 DEF CreateMeetingProposalTx, RespondMeetingProposalTx,
         CreateAvailabilitySlotTx, SelectAvailabilitySlotTx, SendMessageTx
    <3> QED BY <2>3, <3>1, <3>2, <3>3, <3>4 DEF Write
  <2>4. ASSUME NEW c \in Calls, Notify(c) \/ Die(c)
        PROVE  ClaimAgrees'
    BY <2>1, <2>4 DEF Notify, Die, tables
  <2>5. CASE OperationCloses \/ UNCHANGED vars
    BY <2>1, <2>5 DEF OperationCloses, vars
  <2>6. CASE ProcessPolicyWebhook
    BY <2>6 DEF ProcessPolicyWebhook, ClaimAgrees
  <2> QED BY <1>2, <2>2, <2>3, <2>4, <2>5, <2>6 DEF Next
<1> QED BY <1>1, <1>2, AftersaleSound, PTL DEF Spec

\* Who has seen a decision and acts on it does not undo it.
THEOREM DecisionStandsAlways == Spec => DecisionStands
<1> DEFINE Undone == claim \in Decided /\ claim' # claim
           Excused == ProcessPolicyWebhook \/ \E c \in Calls : Overtaken(c)
<1>1. Sound /\ [Next]_vars => [Undone => Excused]_vars
  <2> SUFFICES ASSUME Sound, [Next]_vars, Undone
               PROVE  Excused
    OBVIOUS
  <2>1. CASE ProcessPolicyWebhook
    BY <2>1
  <2>2. ASSUME NEW c \in Calls, Write(c)
        PROVE  Excused
    <3>1. SubmitClaimTx(c) \/ ResolveClaimTx(c)
      BY <2>2 DEF Write, CreateMeetingProposalTx, RespondMeetingProposalTx,
         CreateAvailabilitySlotTx, SelectAvailabilitySlotTx, SendMessageTx, UpdatePolicyStatusTx
    <3>2. call[c].read \notin Decided \/ ~call[c].fresh
      BY <3>1 DEF SubmitClaimTx, ResolveClaimTx, Sound, CallsSound, CallSound
    <3> QED BY <3>1, <3>2 DEF Overtaken
  <2>3. ASSUME NEW c \in Calls, Request(c)
        PROVE  FALSE
    BY <2>3, RequestSound DEF Begins, tables
  <2>4. ASSUME NEW c \in Calls, Notify(c) \/ Die(c)
        PROVE  FALSE
    BY <2>4 DEF Notify, Die, tables
  <2>5. ~OperationCloses /\ ~UNCHANGED vars
    BY DEF OperationCloses, vars
  <2> QED BY <2>1, <2>2, <2>3, <2>4, <2>5 DEF Next
<1> QED BY <1>1, AftersaleSound, PTL DEF Spec, DecisionStands

-----------------------------------------------------------------------------
(* The bound on messages, and with it the types.                             *)

\* Messages checked and not yet written.
Writers == {c \in Calls : call[c].op = "write"}

\* The guard counts the requests that will still write, so overlapping messages stay within
\* the bound.
MessagesFit == messages + Cardinality(Writers) <= MaxMessages

InFlightRecords == CallRecords \cup MessageRecords \cup {Idle}

\* What a request is about to do tells its kind.
LEMMA KindsOfCalls ==
  ASSUME TypeOK, NEW c \in Calls
  PROVE  /\ call[c].op \notin {"idle", "write", "notify"} => call[c] \in CallRecords
         /\ call[c].op = "write" => call[c] \in MessageRecords /\ call[c].topic = "messages"
<1>1. call[c] \in CallRecords \/ call[c] \in MessageRecords \/ call[c] = Idle
  BY DEF TypeOK
<1>2. CASE call[c] \in CallRecords
  <2>1. call[c].op # "write"
    BY <1>2 DEF CallRecords
  <2> QED BY <1>2, <2>1
<1>3. CASE call[c] \in MessageRecords
  BY <1>3 DEF MessageRecords
<1>4. CASE call[c] = Idle
  BY <1>4 DEF Idle
<1> QED BY <1>1, <1>2, <1>3, <1>4

\* Sets of calls are finite; fewer calls in flight write fewer messages.
LEMMA WritersCount ==
  /\ Cardinality(Writers) \in Nat
  /\ Writers' \subseteq Writers => Cardinality(Writers') <= Cardinality(Writers)
  /\ Cardinality(Writers') \in Nat
<1>1. IsFiniteSet(Writers) /\ IsFiniteSet(Writers')
  BY CallsFinite, FS_Subset DEF Writers
<1> QED BY <1>1, FS_CardinalityType, FS_Subset

\* A request that begins keeps the types.
LEMMA BeginTyped ==
  ASSUME TypeOK, NEW c \in Calls, NEW op, NEW topic, NEW says, NEW fresh,
         Begin(c, op, topic, says, fresh),
         [op |-> op, topic |-> topic, says |-> says, fresh |-> fresh, read |-> claim]
           \in CallRecords \cup MessageRecords
  PROVE  TypeOK'
<1>1. call' \in [Calls -> InFlightRecords]
  BY DEF TypeOK, Begin, InFlightRecords
<1>2. sent' \in 0..MaxCalls
  BY BoundsType DEF TypeOK, Begin
<1>3. disturbed' \subseteq Topics
  BY DEF TypeOK, Begin
<1>4. UNCHANGED <<paid, meetings, slots, messages, policyStatus, claim, answers>>
  BY DEF Begin, tables
<1> QED BY <1>1, <1>2, <1>3, <1>4 DEF TypeOK, InFlightRecords

\* A request that is not a message begins: nobody more is about to write one.
LEMMA BeginFits ==
  ASSUME TypeOK, MessagesFit, NEW c \in Calls, NEW op, op # "write", NEW topic, NEW says,
         NEW fresh, Begin(c, op, topic, says, fresh)
  PROVE  MessagesFit'
<1>1. Writers' \subseteq Writers
  BY DEF TypeOK, Begin, Writers
<1>2. messages' = messages /\ messages \in Nat
  BY BoundsType DEF Begin, tables, TypeOK
<1> QED BY <1>1, <1>2, WritersCount, BoundsType DEF MessagesFit

\* The requests of the pages keep the types and the room for messages.
LEMMA RequestTyped ==
  ASSUME TypeOK, MessagesFit, NEW c \in Calls, Request(c)
  PROVE  TypeOK' /\ MessagesFit'
<1> DEFINE Record(op, t, says, fresh) ==
      [op |-> op, topic |-> t, says |-> says, fresh |-> fresh, read |-> claim]
<1>0. claim \in ClaimStatus
  BY DEF TypeOK
<1>1. ASSUME NEW m \in Meetings, CreateMeetingProposal(c, m) \/ RespondMeetingProposal(c, m)
      PROVE  TypeOK' /\ MessagesFit'
  <2>1. PICK op \in {"propose", "respond"}, says \in MeetingProposalStatus, fresh \in BOOLEAN :
          Begin(c, op, m, says, fresh)
    BY <1>1 DEF CreateMeetingProposal, RespondMeetingProposal, AnswerForm,
       MeetingProposalStatus
  <2>2. m \in Topics \ {"messages"}
    BY TopicsDiffer DEF Topics
  <2>3. Record(op, m, says, fresh) \in CallRecords
    BY <1>0, <2>2 DEF CallRecords
  <2> QED BY <2>1, <2>3, BeginTyped, BeginFits
<1>2. ASSUME NEW s \in Slots, CreateAvailabilitySlot(c, s) \/ SelectAvailabilitySlot(c, s)
      PROVE  TypeOK' /\ MessagesFit'
  <2>1. PICK op \in {"offer", "select"}, says \in AvailabilitySlotStatus, fresh \in BOOLEAN :
          Begin(c, op, s, says, fresh)
    BY <1>2 DEF CreateAvailabilitySlot, SelectAvailabilitySlot, SelectForm,
       AvailabilitySlotStatus
  <2>2. s \in Topics \ {"messages"}
    BY TopicsDiffer DEF Topics
  <2>3. Record(op, s, says, fresh) \in CallRecords
    BY <1>0, <2>2 DEF CallRecords
  <2> QED BY <2>1, <2>3, BeginTyped, BeginFits
<1>3. CASE SendMessage(c)
  <2>1. /\ messages + Cardinality(InFlight("messages")) < MaxMessages
        /\ Begin(c, "write", "messages", 0, TRUE)
    BY <1>3 DEF SendMessage
  <2>2. Record("write", "messages", 0, TRUE) \in MessageRecords
    BY <1>0, BoundsType DEF MessageRecords
  <2>3. TypeOK'
    BY <2>1, <2>2, BeginTyped
  <2>4. Writers' \subseteq InFlight("messages") \cup {c}
    <3>1. \A d \in Calls \ {c} : call'[d] = call[d]
      BY <2>1 DEF Begin, TypeOK
    <3> QED BY <3>1, KindsOfCalls DEF Writers, InFlight
  <2>5. IsFiniteSet(InFlight("messages")) /\ Cardinality(InFlight("messages")) \in Nat
    BY CallsFinite, FS_Subset, FS_CardinalityType DEF InFlight
  <2>6. /\ IsFiniteSet(InFlight("messages") \cup {c})
        /\ Cardinality(InFlight("messages") \cup {c}) <= Cardinality(InFlight("messages")) + 1
    BY <2>5, FS_AddElement
  <2>7. Cardinality(Writers') <= Cardinality(InFlight("messages") \cup {c})
    BY <2>4, <2>6, FS_Subset
  <2>8. messages' = messages /\ messages \in Nat
    BY <2>1, BoundsType DEF Begin, tables, TypeOK
  <2>9. Cardinality(InFlight("messages") \cup {c}) \in Nat
    BY <2>6, FS_CardinalityType
  <2> HIDE DEF Record
  <2>10. messages' + Cardinality(Writers') <= MaxMessages
    BY <2>1, <2>5, <2>6, <2>7, <2>8, <2>9, WritersCount, BoundsType
  <2> QED BY <2>3, <2>10 DEF MessagesFit
<1>4. CASE SubmitClaim(c) \/ ResolveClaim(c)
  <2>1. PICK op \in {"submit", "resolve"}, says \in ClaimStatus, fresh \in BOOLEAN :
          Begin(c, op, "claim", says, fresh)
    BY <1>4 DEF SubmitClaim, ClaimForm, ResolveClaim, ResolveForm, Decided, ClaimStatus
  <2>2. "claim" \in Topics \ {"messages"}
    BY DEF Topics
  <2>3. Record(op, "claim", says, fresh) \in CallRecords
    BY <1>0, <2>2 DEF CallRecords
  <2> QED BY <2>1, <2>3, BeginTyped, BeginFits
<1>5. CASE UpdatePolicyStatus(c)
  <2>1. PICK status \in InsurancePolicyStatus : Begin(c, "edit", "policy", status, TRUE)
    BY <1>5 DEF UpdatePolicyStatus
  <2>2. Record("edit", "policy", status, TRUE) \in CallRecords
    BY <1>0 DEF CallRecords
  <2> QED BY <2>1, <2>2, BeginTyped, BeginFits
<1> QED BY <1>1, <1>2, <1>3, <1>4, <1>5
        DEF Request, CoordinationRequest, ClaimRequest, StaffRequest

\* A request that has written another row than a message goes on to its notice.
LEMMA ThenNotifyTyped ==
  ASSUME TypeOK, NEW c \in Calls, call[c].op \notin {"idle", "write", "notify"}, ThenNotify(c)
  PROVE  /\ call[c] \in CallRecords
         /\ call' \in [Calls -> InFlightRecords]
         /\ Writers' \subseteq Writers
         /\ UNCHANGED <<sent, disturbed>>
<1>1. call[c] \in CallRecords
  BY KindsOfCalls
<1>2. [call[c] EXCEPT !.op = "notify"] \in CallRecords
  BY <1>1 DEF CallRecords
<1>3. call' = [call EXCEPT ![c] = [call[c] EXCEPT !.op = "notify"]]
  BY DEF ThenNotify
<1>4. call' \in [Calls -> InFlightRecords]
  BY <1>2, <1>3 DEF TypeOK, InFlightRecords
<1>5. Writers' \subseteq Writers
  BY <1>1, <1>3 DEF TypeOK, Writers, CallRecords
<1> QED BY <1>1, <1>4, <1>5 DEF ThenNotify

\* What is written keeps the types and the room for messages.
LEMMA WriteTyped ==
  ASSUME Sound, TypeOK, MessagesFit, NEW c \in Calls, Write(c)
  PROVE  TypeOK' /\ MessagesFit'
<1>0. /\ CallSound(c) /\ messages \in Nat /\ sent \in 0..MaxCalls
      /\ claim \in ClaimStatus /\ disturbed \subseteq Topics
  BY BoundsType DEF Sound, CallsSound, TypeOK
<1>1. CASE \/ CreateMeetingProposalTx(c) \/ RespondMeetingProposalTx(c)
           \/ CreateAvailabilitySlotTx(c) \/ SelectAvailabilitySlotTx(c)
           \/ SubmitClaimTx(c) \/ ResolveClaimTx(c)
  <2>1. /\ call[c].op \notin {"idle", "write", "notify"}
        /\ ThenNotify(c)
        /\ UNCHANGED <<paid, messages>>
    BY <1>1 DEF CreateMeetingProposalTx, RespondMeetingProposalTx, CreateAvailabilitySlotTx,
       SelectAvailabilitySlotTx, SubmitClaimTx, ResolveClaimTx
  <2>2. /\ call' \in [Calls -> InFlightRecords]
        /\ Writers' \subseteq Writers
        /\ UNCHANGED <<sent, disturbed>>
    BY <2>1, ThenNotifyTyped
  <2>3. MessagesFit'
    BY <1>0, <2>1, <2>2, WritersCount, BoundsType DEF MessagesFit
  <2>4. /\ meetings' \in [Meetings -> MeetingProposalStatus]
        /\ slots' \in [Slots -> AvailabilitySlotStatus]
    BY <1>0, <1>1 DEF CreateMeetingProposalTx, RespondMeetingProposalTx,
       CreateAvailabilitySlotTx, SelectAvailabilitySlotTx, SubmitClaimTx, ResolveClaimTx,
       TypeOK, CallSound, MeetingProposalStatus, AvailabilitySlotStatus
  <2>5. policyStatus' \in InsurancePolicyStatus /\ claim' \in ClaimStatus
    BY <1>0, <1>1 DEF CreateMeetingProposalTx, RespondMeetingProposalTx,
       CreateAvailabilitySlotTx, SelectAvailabilitySlotTx, SubmitClaimTx, ResolveClaimTx,
       TypeOK, CallSound, InsurancePolicyStatus, ClaimStatus, Decided
  <2>6. answers' \in [Meetings \cup Slots -> Nat]
    BY <1>1 DEF CreateMeetingProposalTx, RespondMeetingProposalTx,
       CreateAvailabilitySlotTx, SelectAvailabilitySlotTx, SubmitClaimTx, ResolveClaimTx,
       TypeOK
  <2>7. paid' \in BOOLEAN /\ messages' \in 0..MaxMessages
    BY <2>1 DEF TypeOK
  <2> QED BY <1>0, <2>2, <2>3, <2>4, <2>5, <2>6, <2>7 DEF TypeOK, InFlightRecords
<1>2. CASE SendMessageTx(c)
  <2>1. c \in Writers
    BY <1>2 DEF SendMessageTx, Writers
  <2>2. call[c] \in MessageRecords
    BY <1>2 DEF SendMessageTx, TypeOK, CallRecords, Idle
  <2>3. call' = [call EXCEPT ![c] = [call[c] EXCEPT !.op = "notify", !.says = messages + 1]]
    BY <1>2 DEF SendMessageTx
  <2>4. Writers' \subseteq Writers \ {c}
    BY <2>2, <2>3 DEF TypeOK, Writers, MessageRecords
  <2>5. IsFiniteSet(Writers)
    BY CallsFinite, FS_Subset DEF Writers
  <2>6. /\ IsFiniteSet(Writers \ {c}) /\ Cardinality(Writers \ {c}) = Cardinality(Writers) - 1
        /\ Cardinality(Writers \ {c}) \in Nat
    BY <2>1, <2>5, FS_RemoveElement, FS_CardinalityType
  <2>7. Cardinality(Writers') <= Cardinality(Writers) - 1
    BY <2>4, <2>6, FS_Subset
  <2>8. messages' = messages + 1
    BY <1>2 DEF SendMessageTx
  <2>9. MessagesFit' /\ messages' \in 0..MaxMessages
    BY <1>0, <2>6, <2>7, <2>8, WritersCount, BoundsType DEF MessagesFit
  <2>10. [call[c] EXCEPT !.op = "notify", !.says = messages + 1] \in MessageRecords
    BY <2>2, <2>8, <2>9 DEF MessageRecords
  <2>11. call' \in [Calls -> InFlightRecords]
    BY <2>3, <2>10 DEF TypeOK, InFlightRecords
  <2> QED BY <1>2, <2>9, <2>11 DEF SendMessageTx, TypeOK, InFlightRecords
<1>3. CASE UpdatePolicyStatusTx(c)
  <2>1. call' \in [Calls -> InFlightRecords]
    BY <1>3 DEF UpdatePolicyStatusTx, TypeOK, InFlightRecords
  <2>2. Writers' \subseteq Writers
    BY <1>3 DEF UpdatePolicyStatusTx, TypeOK, Writers, Idle
  <2>3. MessagesFit'
    BY <1>0, <1>3, <2>2, WritersCount, BoundsType DEF MessagesFit, UpdatePolicyStatusTx
  <2>4. policyStatus' \in InsurancePolicyStatus
    BY <1>0, <1>3 DEF UpdatePolicyStatusTx, CallSound
  <2> QED BY <1>3, <2>1, <2>3, <2>4 DEF UpdatePolicyStatusTx, TypeOK, InFlightRecords
<1> QED BY <1>1, <1>2, <1>3 DEF Write

\* A notice, a death, the end of the operation, the insurer's word.
LEMMA OthersTyped ==
  ASSUME Sound, TypeOK, MessagesFit,
         \/ \E c \in Calls : Notify(c) \/ Die(c)
         \/ OperationCloses \/ ProcessPolicyWebhook \/ UNCHANGED vars
  PROVE  TypeOK' /\ MessagesFit'
<1>0. messages \in Nat
  BY BoundsType DEF TypeOK
<1>1. ASSUME NEW c \in Calls, Notify(c) \/ Die(c)
      PROVE  TypeOK' /\ MessagesFit'
  <2>1. call' = [call EXCEPT ![c] = Idle] /\ UNCHANGED <<tables, sent, answers>>
    BY <1>1 DEF Notify, Die
  <2>2. call' \in [Calls -> InFlightRecords] /\ Writers' \subseteq Writers
    BY <2>1 DEF TypeOK, InFlightRecords, Writers, Idle
  <2>3. disturbed' \subseteq Topics
    BY <1>1 DEF Notify, Die, Sound, CallsSound, CallSound, TypeOK
  <2>4. MessagesFit'
    BY <1>0, <2>1, <2>2, WritersCount, BoundsType DEF MessagesFit, tables
  <2> QED BY <2>1, <2>2, <2>3, <2>4 DEF TypeOK, InFlightRecords, tables
<1>2. CASE OperationCloses
  BY <1>2 DEF OperationCloses, TypeOK, MessagesFit, Writers
<1>3. CASE ProcessPolicyWebhook
  <2>1. MessagesFit'
    BY <1>3 DEF ProcessPolicyWebhook, MessagesFit, Writers
  <2>2. policyStatus' \in InsurancePolicyStatus
    BY <1>3 DEF ProcessPolicyWebhook, NormalizeWebhook, InsurancePolicyStatus
  <2>3. sent' \in 0..MaxCalls
    BY <1>3, BoundsType DEF ProcessPolicyWebhook, TypeOK
  <2> QED BY <1>3, <2>1, <2>2, <2>3 DEF ProcessPolicyWebhook, TypeOK, ClaimStatus, Topics
<1>4. CASE UNCHANGED vars
  BY <1>4 DEF vars, TypeOK, MessagesFit, Writers
<1> QED BY <1>1, <1>2, <1>3, <1>4

\* Rows, requests in flight and the count of messages keep their types, however many
\* messages are sent at once.
THEOREM AftersaleTyped == Spec => []TypeOK
<1>1. Init => TypeOK /\ MessagesFit
  <2> SUFFICES ASSUME Init PROVE TypeOK /\ MessagesFit
    OBVIOUS
  <2>1. TypeOK
    BY BoundsType DEF Init, TypeOK, MeetingProposalStatus, AvailabilitySlotStatus,
       InsurancePolicyStatus, ClaimStatus, Topics
  <2>2. Writers = {}
    BY DEF Init, Writers, Idle
  <2> QED BY <2>1, <2>2, FS_EmptySet, BoundsType DEF MessagesFit, Init
<1>2. Sound /\ TypeOK /\ MessagesFit /\ [Next]_vars => (TypeOK /\ MessagesFit)'
  BY RequestTyped, WriteTyped, OthersTyped DEF Next
<1> QED BY <1>1, <1>2, AftersaleSound, PTL DEF Spec
=============================================================================

------------------------------ MODULE Identity ------------------------------
(***************************************************************************)
(* KycService and the pages around it: a member sends documents, staff     *)
(* review them.  Each writes two rows one after the other, the             *)
(* verification and the standing of the user that the rest of the          *)
(* marketplace asks for.                                                   *)
(***************************************************************************)
EXTENDS MemberTables

IdentityCalls == {c \in Calls : call[c].op \in {"verify", "review", "stand"}}

\* Begin, for a request that will write the standing: it overlaps those in flight.
BeginIdentity(c, op, row, says, fresh) ==
  /\ call[c] = Idle
  /\ sent < MaxCalls
  /\ sent' = sent + 1
  /\ call' = [d \in Calls |->
       CASE d = c -> [op |-> op, row |-> row, says |-> says, ok |-> FALSE, fresh |-> fresh,
                      alone |-> (IdentityCalls = {})]
         [] d \in IdentityCalls -> [call[d] EXCEPT !.alone = FALSE]
         [] OTHER -> call[d]]
  /\ UNCHANGED <<account, identity, lockout, history>>

\* Fault: the form is there for everybody.
KycFormAlways == TRUE

\* The page has no form for a member whose identity is approved.
KycForm == kycStatus # "APPROVED"

CreateVerification(c) ==
  /\ session
  /\ status = "ACTIVE"
  /\ Len(verifications) + Cardinality({d \in Calls : call[d].op = "verify"})
       < MaxVerifications
  /\ BeginIdentity(c, "verify", 0, "PENDING", KycForm)

CreateVerificationTx(c) ==
  /\ call[c].op = "verify"
  /\ verifications' = Append(verifications, "PENDING")
  /\ GoOn(c, "stand")
  /\ UNCHANGED <<account, kycStatus, lockout, history>>

\* The dashboard offers every outcome for every verification, also an older one or one
\* already reviewed.
ReviewVerification(c, v) ==
  \E outcome \in Reviews : BeginIdentity(c, "review", v, outcome, TRUE)

ReviewVerificationTx(c) ==
  /\ call[c].op = "review"
  /\ verifications' = [verifications EXCEPT ![call[c].row] = call[c].says]
  /\ GoOn(c, "stand")
  /\ UNCHANGED <<account, kycStatus, lockout, history>>

\* Fault: only a review that approves reaches the member.
WriteStandingApproved(c) ==
  /\ call[c].op = "stand"
  /\ kycStatus' = IF call[c].says = "APPROVED" THEN "APPROVED" ELSE kycStatus
  /\ muddled' = ~call[c].alone
  /\ Finish(c)
  /\ UNCHANGED <<account, verifications, lockout, uses, raced>>

\* The last write of both handlers; the notification of a review is left out.
WriteStanding(c) ==
  /\ call[c].op = "stand"
  /\ kycStatus' = call[c].says
  /\ muddled' = ~call[c].alone
  /\ Finish(c)
  /\ UNCHANGED <<account, verifications, lockout, uses, raced>>
=============================================================================

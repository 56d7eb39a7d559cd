------------------------------ MODULE Members -------------------------------
(***************************************************************************)
(* An account from registration on: the member logs in, resets and changes *)
(* the password, sends documents; staff review them and block the account; *)
(* requests overlap, die, and the server restarts.                         *)
(***************************************************************************)
EXTENDS Access, Identity

Init ==
  /\ registered = FALSE
  /\ status = "ACTIVE"
  /\ kycStatus = "PENDING"
  /\ password \in Passwords
  /\ verifications = <<>>
  /\ links = <<>>
  /\ attempts = 0
  /\ lapsed = FALSE
  /\ session = FALSE
  /\ call = [c \in Calls |-> Idle]
  /\ sent = 0
  /\ muddled = FALSE
  /\ uses = [t \in 1..MaxLinks |-> 0]
  /\ raced = {}

\* Requests end unanswered.  One that has written a verification leaves the standing of
\* the member behind.
Lose(lost) ==
  /\ call' = [c \in Calls |-> IF c \in lost THEN Idle ELSE call[c]]
  /\ muddled' = (muddled \/ \E c \in lost : call[c].op = "stand")
  /\ UNCHANGED <<account, identity, uses, raced, sent>>

Die(c) ==
  /\ call[c] # Idle
  /\ Lose({c})
  /\ UNCHANGED lockout

\* The count of failed logins is in memory.
Restart ==
  /\ Lose(Calls)
  /\ attempts' = 0
  /\ lapsed' = FALSE

Request(c) ==
  \/ Register(c) \/ Login(c) \/ RequestPasswordReset(c) \/ ChangePassword(c)
  \/ CreateVerification(c)
  \/ \E t \in DOMAIN links : ResetPassword(c, t)
  \/ \E v \in DOMAIN verifications : ReviewVerification(c, v)

Serve(c) ==
  \/ RegisterTx(c) \/ NobodyThere(c) \/ FindByEmail(c) \/ Refuse(c) \/ Accept(c) \/ Enter(c)
  \/ WriteLink(c) \/ SendPasswordResetEmail(c) \/ ResetPasswordTx(c) \/ ChangePasswordTx(c)
  \/ CreateVerificationTx(c) \/ ReviewVerificationTx(c) \/ WriteStanding(c)

Next ==
  \/ \E c \in Calls : Request(c) \/ Serve(c) \/ Die(c)
  \/ \E t \in DOMAIN links : LinkExpires(t)
  \/ LogOut \/ WindowPasses \/ UpdateStatus \/ Restart

Spec == Init /\ [][Next]_vars

-----------------------------------------------------------------------------

\* The standing of a member is what some verification of theirs says - nobody is approved
\* without an approved one - whenever no submission or review is under way, unless the
\* last ones overlapped or one died between its two writes.  The next one that runs alone
\* puts it right.
StandingAgrees ==
  (registered /\ ~muddled /\ IdentityCalls = {}) =>
    \E v \in DOMAIN verifications : verifications[v] = kycStatus

\* An approved member goes back to pending only by documents sent from an old page, or
\* sent while the review was under way: everything else that takes the approval away is
\* a decision of the staff.
ApprovalStands ==
  [][(kycStatus = "APPROVED" /\ kycStatus' = "PENDING") =>
       \E c \in Calls : WriteStanding(c) /\ ~(call[c].fresh /\ call[c].alone)]_vars

\* However logins overlap, fail, succeed and lapse, no more of them fail in a window than
\* the limit and those that were under way when it was reached.
AttemptsBounded == attempts < LoginMaxAttempts + Cardinality(Calls)

\* A link sets one password, whatever becomes of the member, of other links and of the
\* requests meanwhile; only requests that use one link at once can both succeed.
LinksWorkOnce == \A t \in (1..MaxLinks) \ raced : uses[t] <= 1
=============================================================================

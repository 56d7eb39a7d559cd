---------------------------- MODULE MemberTables ----------------------------
(***************************************************************************)
(* One person's account: the user row, the identity verifications and      *)
(* reset links that belong to it, the failed logins the server remembers   *)
(* and the session cookie of the browser.                                  *)
(*                                                                         *)
(* Handlers read and check, hash or compare a password, then write; every  *)
(* `await' lets another request in, and a request may die at each of them. *)
(* A page can be old: its forms may be sent long after what they show has  *)
(* changed.                                                                *)
(***************************************************************************)
EXTENDS Naturals, Sequences, FiniteSets

CONSTANTS
  Passwords,        \* what may be typed as a password
  Calls,            \* requests in flight at once
  LoginMaxAttempts, \* LOGIN_MAX_ATTEMPTS
  MaxCalls,         \* bound: requests sent in a behaviour
  MaxVerifications, \* bound: verifications of the member
  MaxLinks          \* bound: reset links of the member

ASSUME MemberBounds ==
  /\ LoginMaxAttempts \in Nat \ {0}
  /\ MaxCalls \in Nat /\ MaxVerifications \in Nat \ {0} /\ MaxLinks \in Nat
  /\ IsFiniteSet(Calls)

UserStatus == {"ACTIVE", "BLOCKED", "PENDING_REVIEW"}
KycStatus == {"PENDING", "APPROVED", "REJECTED", "REQUIRES_REVIEW"}
Reviews == KycStatus \ {"PENDING"}

\* A link is written, then e-mailed, and ends used or expired.
LinkStatus == {"written", "mailed", "used", "expired"}

VARIABLES
  registered,    \* there is a User row
  status,        \* User.status
  kycStatus,     \* User.kycStatus
  password,      \* what User.passwordHash is the hash of
  verifications, \* KycVerification.status, oldest first
  links,         \* PasswordResetToken, oldest first
  attempts,      \* loginAttempts: the count of the member's key, 0 when there is none
  lapsed,        \* the window of that entry is over
  session,       \* the browser has a session cookie
  call,          \* what each request in flight is about to do
  sent,          \* how many requests were sent
  muddled,       \* history: the last write of kycStatus overlapped with another, or is missing
  uses,          \* history: how often each link has set a password
  raced          \* history: links two requests used at once

account == <<registered, status, password, links, session>>
identity == <<kycStatus, verifications>>
lockout == <<attempts, lapsed>>
history == <<muddled, uses, raced>>
vars == <<account, identity, lockout, history, call, sent>>

Idle == [op |-> "idle"]
Anything == Passwords \cup KycStatus \cup {"none"}
CallRecords ==
  [op : {"register", "enter", "find", "compare", "link", "mail", "reset", "change",
         "verify", "review", "stand"},
   row : Nat,           \* the link or the verification the request is about
   says : Anything,     \* the password or the status it came with
   ok : BOOLEAN,        \* the password was right and the account active
   fresh : BOOLEAN,     \* its page was up to date
   alone : BOOLEAN]     \* no other identity request has overlapped it

TypeOK ==
  /\ registered \in BOOLEAN /\ session \in BOOLEAN /\ lapsed \in BOOLEAN
  /\ status \in UserStatus
  /\ kycStatus \in KycStatus
  /\ password \in Passwords
  /\ verifications \in Seq(KycStatus)
  /\ links \in Seq(LinkStatus)
  /\ attempts \in Nat /\ sent \in Nat
  /\ call \in [Calls -> CallRecords \cup {Idle}]
  /\ muddled \in BOOLEAN
  /\ uses \in [1..MaxLinks -> Nat]
  /\ raced \subseteq Nat

-----------------------------------------------------------------------------

\* A request passes its first checks.
Begin(c, op, row, says, fresh) ==
  /\ call[c] = Idle
  /\ sent < MaxCalls
  /\ sent' = sent + 1
  /\ call' = [call EXCEPT ![c] = [op |-> op, row |-> row, says |-> says, ok |-> FALSE,
                                  fresh |-> fresh, alone |-> FALSE]]

Finish(c) == call' = [call EXCEPT ![c] = Idle] /\ UNCHANGED sent

GoOn(c, op) == call' = [call EXCEPT ![c].op = op] /\ UNCHANGED sent
=============================================================================

------------------------------- MODULE Access -------------------------------
(***************************************************************************)
(* AuthService and the pages around it: registration, login with its       *)
(* lockout, reset links, change of password, the session of the browser.   *)
(***************************************************************************)
EXTENDS MemberTables

\* The signup form uploads the documents first; then neither e-mail nor DNI is taken.
Register(c) ==
  /\ ~registered
  /\ \E p \in Passwords : Begin(c, "register", 0, p, TRUE)
  /\ UNCHANGED <<account, identity, lockout, history>>

\* User and first verification are one transaction; of two submissions one wins the key.
RegisterTx(c) ==
  /\ call[c].op = "register"
  /\ IF registered
       THEN Finish(c) /\ UNCHANGED <<registered, password, verifications>>
       ELSE /\ registered' = TRUE
            /\ password' = call[c].says
            /\ verifications' = <<"PENDING">>
            /\ GoOn(c, "enter")
  /\ UNCHANGED <<status, links, session, kycStatus, lockout, history>>

-----------------------------------------------------------------------------

\* Fault: the count may pass the limit by one.
EnsureLoginAllowedLate == attempts = 0 \/ lapsed \/ attempts <= LoginMaxAttempts

EnsureLoginAllowed == attempts = 0 \/ lapsed \/ attempts < LoginMaxAttempts

\* A lapsed entry is deleted.
Login(c) ==
  /\ EnsureLoginAllowed
  /\ \E p \in Passwords : Begin(c, "find", 0, p, TRUE)
  /\ attempts' = IF lapsed THEN 0 ELSE attempts
  /\ lapsed' = FALSE
  /\ UNCHANGED <<account, identity, history>>

TrackFailedLogin ==
  /\ attempts' = IF lapsed THEN 1 ELSE attempts + 1
  /\ lapsed' = FALSE

NobodyThere(c) ==
  /\ call[c].op = "find"
  /\ ~registered
  /\ TrackFailedLogin
  /\ Finish(c)
  /\ UNCHANGED <<account, identity, history>>

FindByEmail(c) ==
  /\ call[c].op = "find"
  /\ registered
  /\ call' = [call EXCEPT ![c].op = "compare",
                          ![c].ok = (call[c].says = password /\ status = "ACTIVE")]
  /\ UNCHANGED <<sent, account, identity, lockout, history>>

\* A wrong password and an account that is not active count alike.
Refuse(c) ==
  /\ call[c].op = "compare"
  /\ ~call[c].ok
  /\ TrackFailedLogin
  /\ Finish(c)
  /\ UNCHANGED <<account, identity, history>>

\* Fault: a success takes one failure back.
AcceptTakesBack(c) ==
  /\ call[c].op = "compare"
  /\ call[c].ok
  /\ attempts' = attempts - 1
  /\ lapsed' = FALSE
  /\ GoOn(c, "enter")
  /\ UNCHANGED <<account, identity, history>>

Accept(c) ==
  /\ call[c].op = "compare"
  /\ call[c].ok
  /\ attempts' = 0
  /\ lapsed' = FALSE
  /\ GoOn(c, "enter")
  /\ UNCHANGED <<account, identity, history>>

\* The answer carries a token, and the web server puts it in a cookie.
Enter(c) ==
  /\ call[c].op = "enter"
  /\ session' = TRUE
  /\ Finish(c)
  /\ UNCHANGED <<registered, status, password, links, identity, lockout, history>>

\* Logging out deletes the cookie whatever the API answers; a token also expires.
LogOut ==
  /\ session
  /\ session' = FALSE
  /\ UNCHANGED <<registered, status, password, links, identity, lockout, history, call, sent>>

\* Fifteen minutes since the first failure.
WindowPasses ==
  /\ attempts > 0 /\ ~lapsed
  /\ lapsed' = TRUE
  /\ UNCHANGED <<account, identity, attempts, history, call, sent>>

-----------------------------------------------------------------------------

\* requestPasswordReset goes on for an account that is there and active.
MayReset == registered /\ status = "ACTIVE"

\* The form asks for an e-mail, of anybody and any number of times.  For any other account
\* the page says the same and nothing is written.
RequestPasswordReset(c) ==
  /\ MayReset
  /\ Len(links) + Cardinality({d \in Calls : call[d].op = "link"}) < MaxLinks
  /\ Begin(c, "link", 0, "none", TRUE)
  /\ UNCHANGED <<account, identity, lockout, history>>

WriteLink(c) ==
  /\ call[c].op = "link"
  /\ links' = Append(links, "written")
  /\ call' = [call EXCEPT ![c].op = "mail", ![c].row = Len(links) + 1]
  /\ UNCHANGED <<registered, status, password, session, sent, identity, lockout, history>>

SendPasswordResetEmail(c) ==
  /\ call[c].op = "mail"
  /\ links' = [links EXCEPT ![call[c].row] = IF @ = "written" THEN "mailed" ELSE @]
  /\ Finish(c)
  /\ UNCHANGED <<registered, status, password, session, identity, lockout, history>>

LinkExpires(t) ==
  /\ links[t] \in {"written", "mailed"}
  /\ links' = [links EXCEPT ![t] = "expired"]
  /\ UNCHANGED <<registered, status, password, session, identity, lockout, history, call,
                 sent>>

\* resetPassword looks for a link that is neither used nor expired, of an active account.
LinkWorks(t) == links[t] = "mailed" /\ status = "ACTIVE"

\* The page opened from the mail shows its form for every link, and leaves the button
\* enabled while it waits: one link may be sent twice.
ResetPassword(c, t) ==
  /\ LinkWorks(t)
  /\ \E p \in Passwords \ {password} : Begin(c, "reset", t, p, TRUE)
  /\ raced' = IF \E d \in Calls : call[d].op = "reset" /\ call[d].row = t
                THEN raced \cup {t} ELSE raced
  /\ UNCHANGED <<account, identity, lockout, muddled, uses>>

\* Fault: the links stay as they are.
ResetPasswordTxKeepsLinks(c) ==
  /\ call[c].op = "reset"
  /\ password' = call[c].says
  /\ uses' = [uses EXCEPT ![call[c].row] = @ + 1]
  /\ Finish(c)
  /\ UNCHANGED <<registered, status, links, session, identity, lockout, muddled, raced>>

\* Every link of the member is spent, also the ones that were not used.
ResetPasswordTx(c) ==
  /\ call[c].op = "reset"
  /\ password' = call[c].says
  /\ links' = [t \in DOMAIN links |-> "used"]
  /\ uses' = [uses EXCEPT ![call[c].row] = @ + 1]
  /\ Finish(c)
  /\ UNCHANGED <<registered, status, session, identity, lockout, muddled, raced>>

\* The page asks for the new password twice, the handler for the current one.  An account that is not
\* active any more keeps its session, and the handler does not ask.
ChangePassword(c) ==
  /\ session /\ registered
  /\ \E p \in Passwords \ {password} : Begin(c, "change", 0, p, TRUE)
  /\ UNCHANGED <<account, identity, lockout, history>>

\* The row is updated whatever has been written meanwhile, and links stay as they are.
ChangePasswordTx(c) ==
  /\ call[c].op = "change"
  /\ password' = call[c].says
  /\ Finish(c)
  /\ UNCHANGED <<registered, status, links, session, identity, lockout, history>>

\* Staff: the page offers every status but the one it shows, and may be old.
StatusForm == {UserStatus \ {shown} : shown \in UserStatus}

UpdateStatus ==
  /\ registered
  /\ sent < MaxCalls
  /\ sent' = sent + 1
  /\ \E offered \in StatusForm : \E s \in offered : status' = s
  /\ UNCHANGED <<registered, password, links, session, identity, lockout, history, call>>
=============================================================================

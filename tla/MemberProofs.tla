----------------------------- MODULE MemberProofs -----------------------------
(***************************************************************************)
(* What holds of an account however many requests overlap and whatever     *)
(* dies: a reset link works once, failed logins are bounded, an approval   *)
(* is taken back only by decision, the standing says what a verification   *)
(* says.                                                                   *)
(***************************************************************************)
EXTENDS Members, FiniteSetTheorems, TLAPS

Ops == {"register", "enter", "find", "compare", "link", "mail", "reset", "change",
        "verify", "review", "stand"}

\* What a request carries fits what it is about to do.
CallSound(c) ==
  /\ call[c].op \in {"register", "reset", "change"} => call[c].says \in Passwords
  /\ call[c].op = "verify" => call[c].says = "PENDING"
  /\ call[c].op = "review" =>
       call[c].says \in Reviews /\ call[c].row \in DOMAIN verifications
  /\ call[c].op = "stand" => call[c].says \in KycStatus
  /\ call[c].op \in {"mail", "reset"} => call[c].row \in DOMAIN links

CallsSound == \A c \in Calls : CallSound(c)

\* Nothing but registrations and failing logins happens before there is a user.
NobodyYet ==
  ~registered =>
    /\ verifications = <<>> /\ links = <<>> /\ session = FALSE /\ kycStatus = "PENDING"
    /\ \A c \in Calls : call[c].op \in {"idle", "register", "find"}

\* A request that begins is typed.
LEMMA BeginType ==
  ASSUME TypeOK, NEW c \in Calls, NEW op \in Ops, NEW row \in Nat, NEW says \in Anything,
         NEW fresh \in BOOLEAN, Begin(c, op, row, says, fresh)
  PROVE  /\ call' \in [Calls -> CallRecords \cup {Idle}]
         /\ sent' \in Nat
<1>1. [op |-> op, row |-> row, says |-> says, ok |-> FALSE, fresh |-> fresh,
       alone |-> FALSE] \in CallRecords
  BY DEF CallRecords, Ops
<1> QED BY <1>1 DEF TypeOK, Begin

\* One that goes on too.
LEMMA GoOnType ==
  ASSUME TypeOK, NEW c \in Calls, call[c].op \in Ops, NEW op \in Ops, GoOn(c, op)
  PROVE  /\ call' \in [Calls -> CallRecords \cup {Idle}]
         /\ sent' \in Nat
<1>1. call[c] \in CallRecords
  BY DEF TypeOK, Idle, Ops
<1>2. [call[c] EXCEPT !.op = op] \in CallRecords
  BY <1>1 DEF CallRecords, Ops
<1>3. call' = [call EXCEPT ![c] = [call[c] EXCEPT !.op = op]]
  BY DEF GoOn
<1> QED BY <1>2, <1>3 DEF TypeOK, GoOn

\* And one that ends.
LEMMA FinishType ==
  ASSUME TypeOK, NEW c \in Calls, Finish(c)
  PROVE  /\ call' \in [Calls -> CallRecords \cup {Idle}]
         /\ sent' \in Nat
BY DEF TypeOK, Finish

\* A request about identity does nothing else to those in flight than to take their mark.
LEMMA BeginIdentityEffect ==
  ASSUME TypeOK, NEW c \in Calls, NEW op, NEW row, NEW says, NEW fresh,
         BeginIdentity(c, op, row, says, fresh)
  PROVE  /\ call'[c].op = op /\ call'[c].row = row /\ call'[c].says = says
         /\ call'[c].fresh = fresh
         /\ UNCHANGED <<account, identity, lockout, history>>
         /\ \A d \in Calls \ {c} :
              /\ call'[d].op = call[d].op
              /\ call[d] = Idle => call'[d] = Idle
              /\ call[d] # Idle => /\ call'[d].row = call[d].row
                                   /\ call'[d].says = call[d].says
                                   /\ call'[d].fresh = call[d].fresh
<1>1. call'[c] = [op |-> op, row |-> row, says |-> says, ok |-> FALSE, fresh |-> fresh,
                  alone |-> (IdentityCalls = {})]
  BY DEF BeginIdentity, IdentityCalls, Idle
<1>2. ASSUME NEW d \in Calls, d # c
      PROVE  /\ call'[d].op = call[d].op
             /\ call[d] = Idle => call'[d] = Idle
             /\ call[d] # Idle => /\ call'[d].row = call[d].row
                                  /\ call'[d].says = call[d].says
                                  /\ call'[d].fresh = call[d].fresh
  <2>1. CASE d \in IdentityCalls
    <3>1. call'[d] = [call[d] EXCEPT !.alone = FALSE]
      BY <1>2, <2>1 DEF BeginIdentity
    <3>2. call[d] \in CallRecords
      BY <2>1 DEF IdentityCalls, TypeOK, Idle
    <3>3. call[d] # Idle
      BY <2>1 DEF IdentityCalls, Idle
    <3> QED BY <3>1, <3>2, <3>3 DEF CallRecords
  <2>2. CASE d \notin IdentityCalls
    BY <1>2, <2>2 DEF BeginIdentity
  <2> QED BY <2>1, <2>2
<1> QED BY <1>1, <1>2 DEF BeginIdentity

\* A request about identity takes the mark of being alone from those in flight.
LEMMA BeginIdentityType ==
  ASSUME TypeOK, NEW c \in Calls, NEW op \in Ops, NEW row \in Nat, NEW says \in Anything,
         NEW fresh \in BOOLEAN, BeginIdentity(c, op, row, says, fresh)
  PROVE  /\ call' \in [Calls -> CallRecords \cup {Idle}]
         /\ sent' \in Nat
<1>1. [op |-> op, row |-> row, says |-> says, ok |-> FALSE, fresh |-> fresh,
       alone |-> (IdentityCalls = {})] \in CallRecords
  BY DEF CallRecords, Ops
<1>2. ASSUME NEW d \in IdentityCalls
      PROVE  [call[d] EXCEPT !.alone = FALSE] \in CallRecords
  <2>1. call[d] \in CallRecords
    BY DEF TypeOK, Idle, IdentityCalls
  <2> QED BY <2>1 DEF CallRecords
<1>3. call' \in [Calls -> CallRecords \cup {Idle}]
  BY <1>1, <1>2 DEF TypeOK, BeginIdentity
<1> QED BY <1>3 DEF TypeOK, BeginIdentity

\* What happens to one request leaves the others sound.
LEMMA OthersSound ==
  ASSUME CallsSound, NEW c \in Calls, CallSound(c)',
         \A d \in Calls \ {c} : call'[d] = call[d],
         DOMAIN links \subseteq DOMAIN links',
         DOMAIN verifications \subseteq DOMAIN verifications'
  PROVE  CallsSound'
BY DEF CallsSound, CallSound

\* A request ends, and so do all that a restart or a crash takes.
LEMMA IdleSound ==
  ASSUME TypeOK, CallsSound, NEW lost \in SUBSET Calls, Lose(lost)
  PROVE  /\ call' \in [Calls -> CallRecords \cup {Idle}]
         /\ muddled' \in BOOLEAN
         /\ CallsSound'
<1>1. muddled' \in BOOLEAN
  BY DEF Lose, TypeOK
<1>2. \A d \in Calls : call'[d] \in {call[d], Idle}
  BY DEF Lose
<1>3. call' \in [Calls -> CallRecords \cup {Idle}]
  BY DEF Lose, TypeOK
<1>4. links' = links /\ verifications' = verifications
  BY DEF Lose, account, identity
<1> QED BY <1>1, <1>2, <1>3, <1>4 DEF CallsSound, CallSound, Idle

\* The rows keep their types when a row is added or one is written.
LEMMA RowsType ==
  ASSUME NEW S, NEW rows \in Seq(S), NEW s \in S, NEW i \in DOMAIN rows
  PROVE  /\ [rows EXCEPT ![i] = s] \in Seq(S)
         /\ DOMAIN [rows EXCEPT ![i] = s] = DOMAIN rows
         /\ [j \in DOMAIN rows |-> s] \in Seq(S)
         /\ DOMAIN [j \in DOMAIN rows |-> s] = DOMAIN rows
OBVIOUS

LEMMA AppendType ==
  ASSUME NEW S, NEW rows \in Seq(S), NEW s \in S
  PROVE  /\ Append(rows, s) \in Seq(S)
         /\ DOMAIN rows \subseteq DOMAIN Append(rows, s)
         /\ Len(rows) + 1 \in DOMAIN Append(rows, s)
OBVIOUS

\* Only a registration makes a user, and no user is ever deleted.
LEMMA NobodyYetHolds == Spec => []NobodyYet
<1> DEFINE Inv == DOMAIN call = Calls /\ NobodyYet
<1> USE DEF account, identity, lockout, history
<1>1. Init => Inv
  BY DEF Init, NobodyYet, Idle
<1>2. ASSUME Inv, [Next]_vars
      PROVE  Inv'
  <2>1. ASSUME NEW c \in Calls, Request(c)
        PROVE  Inv'
    <3>1. CASE Register(c) \/ Login(c) \/ RequestPasswordReset(c) \/ ChangePassword(c)
      BY <1>2, <3>1 DEF Register, Login, RequestPasswordReset, MayReset, ChangePassword, Begin, NobodyYet
    <3>2. CASE CreateVerification(c)
      BY <1>2, <3>2 DEF CreateVerification, BeginIdentity, NobodyYet
    <3>3. ASSUME NEW t \in DOMAIN links, ResetPassword(c, t)
          PROVE  Inv'
      BY <1>2, <3>3 DEF ResetPassword, LinkWorks, Begin, NobodyYet
    <3>4. ASSUME NEW v \in DOMAIN verifications, ReviewVerification(c, v)
          PROVE  Inv'
      BY <1>2, <3>4 DEF ReviewVerification, BeginIdentity, NobodyYet
    <3> QED BY <2>1, <3>1, <3>2, <3>3, <3>4 DEF Request
  <2>2. ASSUME NEW c \in Calls, Serve(c)
        PROVE  Inv'
    <3>1. CASE RegisterTx(c)
      BY <1>2, <3>1 DEF RegisterTx, Finish, GoOn, NobodyYet
    <3>2. CASE NobodyThere(c) \/ FindByEmail(c)
      BY <1>2, <3>2 DEF NobodyThere, FindByEmail, Finish, NobodyYet, Idle
    <3>3. CASE Refuse(c) \/ Accept(c) \/ Enter(c) \/ WriteLink(c) \/ SendPasswordResetEmail(c)
      BY <1>2, <3>3 DEF Refuse, Accept, Enter, WriteLink, SendPasswordResetEmail, Finish, GoOn,
         NobodyYet
    <3>4. CASE ResetPasswordTx(c) \/ ChangePasswordTx(c) \/ CreateVerificationTx(c)
               \/ ReviewVerificationTx(c) \/ WriteStanding(c)
      BY <1>2, <3>4 DEF ResetPasswordTx, ChangePasswordTx, CreateVerificationTx,
         ReviewVerificationTx, WriteStanding, Finish, GoOn, NobodyYet
    <3> QED BY <2>2, <3>1, <3>2, <3>3, <3>4 DEF Serve
  <2>3. ASSUME NEW c \in Calls, Die(c)
        PROVE  Inv'
    BY <1>2, <2>3 DEF Die, Lose, NobodyYet, Idle
  <2>4. CASE LogOut \/ WindowPasses \/ UpdateStatus \/ Restart
    BY <1>2, <2>4 DEF LogOut, WindowPasses, UpdateStatus, Restart, Lose, NobodyYet, Idle
  <2>5. ASSUME NEW t \in DOMAIN links, LinkExpires(t)
        PROVE  Inv'
    BY <1>2, <2>5 DEF LinkExpires, NobodyYet
  <2>6. CASE UNCHANGED vars
    BY <1>2, <2>6 DEF vars, NobodyYet
  <2> QED BY <1>2, <2>1, <2>2, <2>3, <2>4, <2>5, <2>6 DEF Next
<1> QED BY <1>1, <1>2, PTL DEF Spec

\* Every step keeps the types, and what requests carry.
LEMMA MembersSound == Spec => [](TypeOK /\ CallsSound)
<1> USE MemberBounds DEF account, identity, lockout, history
<1>1. Init => TypeOK /\ CallsSound
  <2> SUFFICES ASSUME Init PROVE TypeOK /\ CallsSound
    OBVIOUS
  <2>1. CallsSound
    BY DEF Init, CallsSound, CallSound, Idle
  <2>2. call \in [Calls -> CallRecords \cup {Idle}] /\ uses \in [1..MaxLinks -> Nat]
    BY DEF Init
  <2>3. links \in Seq(LinkStatus) /\ verifications \in Seq(KycStatus)
    BY DEF Init
  <2> QED BY <2>1, <2>2, <2>3 DEF Init, TypeOK, UserStatus, KycStatus
<1>2. ASSUME TypeOK, CallsSound, NobodyYet, [Next]_vars
      PROVE  TypeOK' /\ CallsSound'
  <2>1. ASSUME NEW c \in Calls, Register(c)
        PROVE  TypeOK' /\ CallsSound'
    <3>1. PICK p \in Passwords : Begin(c, "register", 0, p, TRUE)
      BY <2>1 DEF Register
    <3>2. call' \in [Calls -> CallRecords \cup {Idle}] /\ sent' \in Nat
      BY <1>2, <3>1, BeginType DEF Ops, Anything
    <3>3. CallSound(c)' /\ \A d \in Calls \ {c} : call'[d] = call[d]
      BY <1>2, <3>1 DEF Begin, CallSound, TypeOK
    <3> QED BY <1>2, <2>1, <3>2, <3>3, OthersSound DEF Register, TypeOK
  <2>2. ASSUME NEW c \in Calls, Login(c)
        PROVE  TypeOK' /\ CallsSound'
    <3>1. PICK p \in Passwords : Begin(c, "find", 0, p, TRUE)
      BY <2>2 DEF Login
    <3>2. call' \in [Calls -> CallRecords \cup {Idle}] /\ sent' \in Nat
      BY <1>2, <3>1, BeginType DEF Ops, Anything
    <3>3. CallSound(c)' /\ \A d \in Calls \ {c} : call'[d] = call[d]
      BY <1>2, <3>1 DEF Begin, CallSound, TypeOK
    <3>4. attempts' \in Nat /\ lapsed' \in BOOLEAN
      BY <1>2, <2>2 DEF Login, TypeOK
    <3> QED BY <1>2, <2>2, <3>2, <3>3, <3>4, OthersSound DEF Login, TypeOK
  <2>3. ASSUME NEW c \in Calls, RequestPasswordReset(c)
        PROVE  TypeOK' /\ CallsSound'
    <3>1. Begin(c, "link", 0, "none", TRUE)
      BY <2>3 DEF RequestPasswordReset, MayReset
    <3>2. call' \in [Calls -> CallRecords \cup {Idle}] /\ sent' \in Nat
      BY <1>2, <3>1, BeginType DEF Ops, Anything
    <3>3. CallSound(c)' /\ \A d \in Calls \ {c} : call'[d] = call[d]
      BY <1>2, <3>1 DEF Begin, CallSound, TypeOK
    <3> QED BY <1>2, <2>3, <3>2, <3>3, OthersSound DEF RequestPasswordReset, MayReset, TypeOK
  <2>4. ASSUME NEW c \in Calls, ChangePassword(c)
        PROVE  TypeOK' /\ CallsSound'
    <3>1. PICK p \in Passwords : Begin(c, "change", 0, p, TRUE)
      BY <2>4 DEF ChangePassword
    <3>2. call' \in [Calls -> CallRecords \cup {Idle}] /\ sent' \in Nat
      BY <1>2, <3>1, BeginType DEF Ops, Anything
    <3>3. CallSound(c)' /\ \A d \in Calls \ {c} : call'[d] = call[d]
      BY <1>2, <3>1 DEF Begin, CallSound, TypeOK
    <3> QED BY <1>2, <2>4, <3>2, <3>3, OthersSound DEF ChangePassword, TypeOK
  <2>5. ASSUME NEW c \in Calls, CreateVerification(c)
        PROVE  TypeOK' /\ CallsSound'
    <3>1. PICK fresh \in BOOLEAN : BeginIdentity(c, "verify", 0, "PENDING", fresh)
      BY <2>5 DEF CreateVerification, KycForm
    <3>2. "PENDING" \in Anything
      BY DEF Anything, KycStatus
    <3>3. call' \in [Calls -> CallRecords \cup {Idle}] /\ sent' \in Nat
      BY <1>2, <3>1, <3>2, BeginIdentityType DEF Ops
    <3>4. /\ call'[c].op = "verify" /\ call'[c].row = 0 /\ call'[c].says = "PENDING"
          /\ UNCHANGED <<account, identity, lockout, history>>
          /\ \A d \in Calls \ {c} :
               /\ call'[d].op = call[d].op
               /\ call[d] = Idle => call'[d] = Idle
               /\ call[d] # Idle => call'[d].row = call[d].row /\ call'[d].says = call[d].says
      BY <1>2, <3>1, BeginIdentityEffect
    <3>5. CallSound(c)'
      BY <3>4 DEF CallSound
    <3>6. ASSUME NEW d \in Calls, d # c
          PROVE  CallSound(d)'
      <4>1. CASE call[d] = Idle
        BY <3>4, <3>6, <4>1 DEF CallSound, Idle
      <4>2. CASE call[d] # Idle
        <5>1. CallSound(d)
          BY <1>2 DEF CallsSound
        <5> QED BY <3>4, <3>6, <4>2, <5>1 DEF CallSound
      <4> QED BY <4>1, <4>2
    <3> QED BY <1>2, <3>3, <3>4, <3>5, <3>6 DEF CallsSound, TypeOK
  <2>6. ASSUME NEW c \in Calls, NEW v \in DOMAIN verifications, ReviewVerification(c, v)
        PROVE  TypeOK' /\ CallsSound'
    <3>1. PICK outcome \in Reviews, fresh \in BOOLEAN :
           BeginIdentity(c, "review", v, outcome, fresh)
      BY <2>6 DEF ReviewVerification
    <3>2. outcome \in Anything /\ v \in Nat
      BY <1>2 DEF Reviews, Anything, TypeOK
    <3>3. call' \in [Calls -> CallRecords \cup {Idle}] /\ sent' \in Nat
      BY <1>2, <3>1, <3>2, BeginIdentityType DEF Ops
    <3>4. /\ call'[c].op = "review" /\ call'[c].row = v /\ call'[c].says = outcome
          /\ UNCHANGED <<account, identity, lockout, history>>
          /\ \A d \in Calls \ {c} :
               /\ call'[d].op = call[d].op
               /\ call[d] = Idle => call'[d] = Idle
               /\ call[d] # Idle => call'[d].row = call[d].row /\ call'[d].says = call[d].says
      BY <1>2, <3>1, BeginIdentityEffect
    <3>5. CallSound(c)'
      BY <3>4 DEF CallSound
    <3>6. ASSUME NEW d \in Calls, d # c
          PROVE  CallSound(d)'
      <4>1. CASE call[d] = Idle
        BY <3>4, <3>6, <4>1 DEF CallSound, Idle
      <4>2. CASE call[d] # Idle
        <5>1. CallSound(d)
          BY <1>2 DEF CallsSound
        <5> QED BY <3>4, <3>6, <4>2, <5>1 DEF CallSound
      <4> QED BY <4>1, <4>2
    <3> QED BY <1>2, <3>3, <3>4, <3>5, <3>6 DEF CallsSound, TypeOK
  <2>7. ASSUME NEW c \in Calls, NEW t \in DOMAIN links, ResetPassword(c, t)
        PROVE  TypeOK' /\ CallsSound'
    <3>1. PICK p \in Passwords : Begin(c, "reset", t, p, TRUE)
      BY <2>7 DEF ResetPassword, LinkWorks
    <3>5. t \in Nat
      BY <1>2 DEF TypeOK
    <3>2. call' \in [Calls -> CallRecords \cup {Idle}] /\ sent' \in Nat
      BY <1>2, <3>1, <3>5, BeginType DEF Ops, Anything
    <3>3. CallSound(c)' /\ \A d \in Calls \ {c} : call'[d] = call[d]
      BY <1>2, <2>7, <3>1 DEF Begin, CallSound, TypeOK, ResetPassword, LinkWorks
    <3>4. raced' \subseteq Nat
      BY <1>2, <2>7, <3>5 DEF ResetPassword, LinkWorks, TypeOK
    <3> QED BY <1>2, <2>7, <3>2, <3>3, <3>4, OthersSound DEF ResetPassword, LinkWorks, TypeOK
  <2>8. ASSUME NEW c \in Calls, RegisterTx(c)
        PROVE  TypeOK' /\ CallsSound'
    <3>1. CASE registered
      <4>1. Finish(c) /\ UNCHANGED <<registered, password, verifications>>
        BY <2>8, <3>1 DEF RegisterTx
      <4>2. call' \in [Calls -> CallRecords \cup {Idle}] /\ sent' \in Nat
        BY <1>2, <4>1, FinishType
      <4>3. CallSound(c)' /\ \A d \in Calls \ {c} : call'[d] = call[d]
        BY <1>2, <4>1 DEF Finish, CallSound, TypeOK, Idle
      <4> QED BY <1>2, <2>8, <4>1, <4>2, <4>3, OthersSound DEF RegisterTx, TypeOK
    <3>2. CASE ~registered
      <4>1. GoOn(c, "enter") /\ verifications' = <<"PENDING">> /\ password' = call[c].says
        BY <2>8, <3>2 DEF RegisterTx
      <4>2. call' \in [Calls -> CallRecords \cup {Idle}] /\ sent' \in Nat
        BY <1>2, <2>8, <4>1, GoOnType DEF RegisterTx, Ops
      <4>3. CallSound(c)' /\ \A d \in Calls \ {c} : call'[d] = call[d]
        BY <1>2, <4>1 DEF GoOn, CallSound, TypeOK
      <4>4. password' \in Passwords /\ verifications' \in Seq(KycStatus)
        BY <1>2, <2>8, <4>1 DEF RegisterTx, CallsSound, CallSound, KycStatus
      <4>5. DOMAIN verifications \subseteq DOMAIN verifications'
        BY <1>2, <3>2 DEF NobodyYet
      <4> QED BY <1>2, <2>8, <3>2, <4>2, <4>3, <4>4, <4>5, OthersSound DEF RegisterTx, TypeOK
    <3> QED BY <3>1, <3>2
  <2>9. ASSUME NEW c \in Calls, NobodyThere(c)
        PROVE  TypeOK' /\ CallsSound'
    <3>1. Finish(c)
      BY <2>9 DEF NobodyThere
    <3>2. call' \in [Calls -> CallRecords \cup {Idle}] /\ sent' \in Nat
      BY <1>2, <3>1, FinishType
    <3>3. CallSound(c)' /\ \A d \in Calls \ {c} : call'[d] = call[d]
      BY <1>2, <3>1 DEF Finish, CallSound, TypeOK, Idle
    <3>4. attempts' \in Nat
      <4>1. attempts' \in {1, attempts + 1}
        BY <2>9 DEF NobodyThere, TrackFailedLogin
      <4>2. attempts + 1 \in Nat
        BY <1>2 DEF TypeOK
      <4> QED BY <4>1, <4>2
    <3>5. lapsed' \in BOOLEAN
      BY <2>9 DEF NobodyThere, TrackFailedLogin
    <3> QED BY <1>2, <2>9, <3>2, <3>3, <3>4, <3>5, OthersSound DEF NobodyThere, TypeOK
  <2>10. ASSUME NEW c \in Calls, Refuse(c)
        PROVE  TypeOK' /\ CallsSound'
    <3>1. Finish(c)
      BY <2>10 DEF Refuse
    <3>2. call' \in [Calls -> CallRecords \cup {Idle}] /\ sent' \in Nat
      BY <1>2, <3>1, FinishType
    <3>3. CallSound(c)' /\ \A d \in Calls \ {c} : call'[d] = call[d]
      BY <1>2, <3>1 DEF Finish, CallSound, TypeOK, Idle
    <3>4. attempts' \in Nat
      <4>1. attempts' \in {1, attempts + 1}
        BY <2>10 DEF Refuse, TrackFailedLogin
      <4>2. attempts + 1 \in Nat
        BY <1>2 DEF TypeOK
      <4> QED BY <4>1, <4>2
    <3>5. lapsed' \in BOOLEAN
      BY <2>10 DEF Refuse, TrackFailedLogin
    <3> QED BY <1>2, <2>10, <3>2, <3>3, <3>4, <3>5, OthersSound DEF Refuse, TypeOK
  <2>11. ASSUME NEW c \in Calls, FindByEmail(c)
         PROVE  TypeOK' /\ CallsSound'
    <3>1. call[c] \in CallRecords
      BY <1>2, <2>11 DEF FindByEmail, TypeOK, Idle
    <3>2. PICK ok \in BOOLEAN : call' = [call EXCEPT ![c].op = "compare", ![c].ok = ok]
      BY <2>11 DEF FindByEmail
    <3>3. call'[c] \in CallRecords /\ call'[c].op = "compare"
      BY <1>2, <3>1, <3>2 DEF CallRecords, TypeOK
    <3>4. call' \in [Calls -> CallRecords \cup {Idle}]
      BY <1>2, <3>2, <3>3 DEF TypeOK
    <3>5. CallSound(c)' /\ \A d \in Calls \ {c} : call'[d] = call[d]
      BY <1>2, <3>2, <3>3 DEF CallSound, TypeOK
    <3> QED BY <1>2, <2>11, <3>4, <3>5, OthersSound DEF FindByEmail, TypeOK
  <2>12. ASSUME NEW c \in Calls, Accept(c)
        PROVE  TypeOK' /\ CallsSound'
    <3>1. GoOn(c, "enter")
      BY <2>12 DEF Accept
    <3>2. call' \in [Calls -> CallRecords \cup {Idle}] /\ sent' \in Nat
      BY <1>2, <2>12, <3>1, GoOnType DEF Ops, Accept
    <3>3. CallSound(c)' /\ \A d \in Calls \ {c} : call'[d] = call[d]
      BY <1>2, <3>1 DEF GoOn, CallSound, TypeOK
    <3>4. attempts' \in Nat /\ lapsed' \in BOOLEAN
      BY <1>2, <2>12 DEF Accept, TypeOK
    <3> QED BY <1>2, <2>12, <3>2, <3>3, <3>4, OthersSound DEF Accept, TypeOK
  <2>13. ASSUME NEW c \in Calls, Enter(c)
        PROVE  TypeOK' /\ CallsSound'
    <3>1. Finish(c)
      BY <2>13 DEF Enter
    <3>2. call' \in [Calls -> CallRecords \cup {Idle}] /\ sent' \in Nat
      BY <1>2, <3>1, FinishType
    <3>3. CallSound(c)' /\ \A d \in Calls \ {c} : call'[d] = call[d]
      BY <1>2, <3>1 DEF Finish, CallSound, TypeOK, Idle
    <3> QED BY <1>2, <2>13, <3>2, <3>3, OthersSound DEF Enter, TypeOK
  <2>14. ASSUME NEW c \in Calls, WriteLink(c)
         PROVE  TypeOK' /\ CallsSound'
    <3>1. call[c] \in CallRecords
      BY <1>2, <2>14 DEF WriteLink, TypeOK, Idle
    <3>2. /\ links' \in Seq(LinkStatus)
          /\ DOMAIN links \subseteq DOMAIN links'
          /\ Len(links) + 1 \in DOMAIN links'
      BY <1>2, <2>14, AppendType DEF WriteLink, TypeOK, LinkStatus
    <3>3. call' = [call EXCEPT ![c].op = "mail", ![c].row = Len(links) + 1]
      BY <2>14 DEF WriteLink
    <3>4. call'[c] \in CallRecords /\ call'[c].op = "mail" /\ call'[c].row = Len(links) + 1
      <4>1. call'[c] = [call[c] EXCEPT !.op = "mail", !.row = Len(links) + 1]
        BY <1>2, <3>3 DEF TypeOK
      <4>2. Len(links) + 1 \in Nat
        BY <1>2 DEF TypeOK
      <4> QED BY <3>1, <4>1, <4>2 DEF CallRecords
    <3>5. call' \in [Calls -> CallRecords \cup {Idle}]
      BY <1>2, <3>3, <3>4 DEF TypeOK
    <3>6. CallSound(c)' /\ \A d \in Calls \ {c} : call'[d] = call[d]
      BY <1>2, <3>2, <3>3, <3>4 DEF CallSound, TypeOK
    <3> QED BY <1>2, <2>14, <3>2, <3>5, <3>6, OthersSound DEF WriteLink, TypeOK
  <2>15. ASSUME NEW c \in Calls, SendPasswordResetEmail(c)
        PROVE  TypeOK' /\ CallsSound'
    <3>1. Finish(c)
      BY <2>15 DEF SendPasswordResetEmail
    <3>2. call' \in [Calls -> CallRecords \cup {Idle}] /\ sent' \in Nat
      BY <1>2, <3>1, FinishType
    <3>3. CallSound(c)' /\ \A d \in Calls \ {c} : call'[d] = call[d]
      BY <1>2, <3>1 DEF Finish, CallSound, TypeOK, Idle
    <3>4. call[c].row \in DOMAIN links
      BY <1>2, <2>15 DEF SendPasswordResetEmail, CallsSound, CallSound
    <3>7. links[call[c].row] \in LinkStatus
      BY <1>2, <3>4 DEF TypeOK
    <3>5. PICK l \in LinkStatus : links' = [links EXCEPT ![call[c].row] = l]
      BY <2>15, <3>7 DEF SendPasswordResetEmail, LinkStatus
    <3>6. links' \in Seq(LinkStatus) /\ DOMAIN links' = DOMAIN links
      BY <1>2, <3>4, <3>5, RowsType DEF TypeOK
    <3> QED BY <1>2, <2>15, <3>2, <3>3, <3>6, OthersSound DEF SendPasswordResetEmail, TypeOK
  <2>16. ASSUME NEW c \in Calls, ResetPasswordTx(c)
        PROVE  TypeOK' /\ CallsSound'
    <3>1. Finish(c)
      BY <2>16 DEF ResetPasswordTx
    <3>2. call' \in [Calls -> CallRecords \cup {Idle}] /\ sent' \in Nat
      BY <1>2, <3>1, FinishType
    <3>3. CallSound(c)' /\ \A d \in Calls \ {c} : call'[d] = call[d]
      BY <1>2, <3>1 DEF Finish, CallSound, TypeOK, Idle
    <3>4. password' \in Passwords
      BY <1>2, <2>16 DEF ResetPasswordTx, CallsSound, CallSound
    <3>5. call[c].row \in DOMAIN links
      BY <1>2, <2>16 DEF ResetPasswordTx, CallsSound, CallSound
    <3>6. links' \in Seq(LinkStatus) /\ DOMAIN links' = DOMAIN links
      BY <1>2, <2>16, <3>5, RowsType DEF ResetPasswordTx, TypeOK, LinkStatus
    <3>7. uses' \in [1..MaxLinks -> Nat]
      <4>1. \A t \in 1..MaxLinks : uses[t] + 1 \in Nat
        BY <1>2 DEF TypeOK
      <4>2. uses' = [uses EXCEPT ![call[c].row] = uses[call[c].row] + 1]
        BY <2>16 DEF ResetPasswordTx
      <4> QED BY <1>2, <4>1, <4>2 DEF TypeOK
    <3> QED BY <1>2, <2>16, <3>2, <3>3, <3>4, <3>6, <3>7, OthersSound DEF ResetPasswordTx, TypeOK
  <2>17. ASSUME NEW c \in Calls, ChangePasswordTx(c)
        PROVE  TypeOK' /\ CallsSound'
    <3>1. Finish(c)
      BY <2>17 DEF ChangePasswordTx
    <3>2. call' \in [Calls -> CallRecords \cup {Idle}] /\ sent' \in Nat
      BY <1>2, <3>1, FinishType
    <3>3. CallSound(c)' /\ \A d \in Calls \ {c} : call'[d] = call[d]
      BY <1>2, <3>1 DEF Finish, CallSound, TypeOK, Idle
    <3>4. password' \in Passwords
      BY <1>2, <2>17 DEF ChangePasswordTx, CallsSound, CallSound
    <3> QED BY <1>2, <2>17, <3>2, <3>3, <3>4, OthersSound DEF ChangePasswordTx, TypeOK
  <2>18. ASSUME NEW c \in Calls, CreateVerificationTx(c)
         PROVE  TypeOK' /\ CallsSound'
    <3>1. GoOn(c, "stand") /\ call[c].says = "PENDING"
      BY <1>2, <2>18 DEF CreateVerificationTx, CallsSound, CallSound
    <3>2. call' \in [Calls -> CallRecords \cup {Idle}] /\ sent' \in Nat
      BY <1>2, <2>18, <3>1, GoOnType DEF Ops, CreateVerificationTx
    <3>3. call'[c].op = "stand" /\ call'[c].says = "PENDING"
      <4>1. call[c] \in CallRecords
        BY <1>2, <2>18 DEF CreateVerificationTx, TypeOK, Idle
      <4> QED BY <1>2, <3>1, <4>1 DEF GoOn, TypeOK, CallRecords
    <3>4. CallSound(c)' /\ \A d \in Calls \ {c} : call'[d] = call[d]
      BY <1>2, <3>1, <3>3 DEF GoOn, CallSound, TypeOK, KycStatus
    <3>5. verifications' \in Seq(KycStatus) /\ DOMAIN verifications \subseteq DOMAIN verifications'
      BY <1>2, <2>18, AppendType DEF CreateVerificationTx, TypeOK, KycStatus
    <3> QED BY <1>2, <2>18, <3>2, <3>4, <3>5, OthersSound DEF CreateVerificationTx, TypeOK
  <2>19. ASSUME NEW c \in Calls, ReviewVerificationTx(c)
         PROVE  TypeOK' /\ CallsSound'
    <3>1. GoOn(c, "stand") /\ call[c].says \in KycStatus /\ call[c].row \in DOMAIN verifications
      BY <1>2, <2>19 DEF ReviewVerificationTx, CallsSound, CallSound, Reviews
    <3>2. call' \in [Calls -> CallRecords \cup {Idle}] /\ sent' \in Nat
      BY <1>2, <2>19, <3>1, GoOnType DEF Ops, ReviewVerificationTx
    <3>3. call'[c].op = "stand" /\ call'[c].says = call[c].says
      <4>1. call[c] \in CallRecords
        BY <1>2, <2>19 DEF ReviewVerificationTx, TypeOK, Idle
      <4> QED BY <1>2, <3>1, <4>1 DEF GoOn, TypeOK, CallRecords
    <3>4. CallSound(c)' /\ \A d \in Calls \ {c} : call'[d] = call[d]
      BY <1>2, <3>1, <3>3 DEF GoOn, CallSound, TypeOK
    <3>5. verifications' \in Seq(KycStatus) /\ DOMAIN verifications' = DOMAIN verifications
      BY <1>2, <2>19, <3>1, RowsType DEF ReviewVerificationTx, TypeOK
    <3> QED BY <1>2, <2>19, <3>2, <3>4, <3>5, OthersSound DEF ReviewVerificationTx, TypeOK
  <2>20. ASSUME NEW c \in Calls, WriteStanding(c)
        PROVE  TypeOK' /\ CallsSound'
    <3>1. Finish(c)
      BY <2>20 DEF WriteStanding
    <3>2. call' \in [Calls -> CallRecords \cup {Idle}] /\ sent' \in Nat
      BY <1>2, <3>1, FinishType
    <3>3. CallSound(c)' /\ \A d \in Calls \ {c} : call'[d] = call[d]
      BY <1>2, <3>1 DEF Finish, CallSound, TypeOK, Idle
    <3>4. kycStatus' \in KycStatus
      BY <1>2, <2>20 DEF WriteStanding, CallsSound, CallSound
    <3>5. muddled' \in BOOLEAN
      <4>1. call[c] \in CallRecords
        BY <1>2, <2>20 DEF WriteStanding, TypeOK, Idle
      <4> QED BY <2>20, <4>1 DEF WriteStanding, CallRecords
    <3> QED BY <1>2, <2>20, <3>2, <3>3, <3>4, <3>5, OthersSound DEF WriteStanding, TypeOK
  <2>21. ASSUME NEW c \in Calls, Die(c)
         PROVE  TypeOK' /\ CallsSound'
    <3>1. {c} \in SUBSET Calls /\ Lose({c})
      BY <2>21 DEF Die
    <3>2. /\ call' \in [Calls -> CallRecords \cup {Idle}]
          /\ muddled' \in BOOLEAN
          /\ CallsSound'
      BY ONLY <1>2, <3>1, IdleSound
    <3> QED BY <1>2, <2>21, <3>2 DEF Die, Lose, TypeOK
  <2>22. CASE Restart
    BY <1>2, <2>22, IdleSound DEF Restart, Lose, TypeOK
  <2>23. ASSUME NEW t \in DOMAIN links, LinkExpires(t)
         PROVE  TypeOK' /\ CallsSound'
    <3>1. links' \in Seq(LinkStatus) /\ DOMAIN links' = DOMAIN links
      BY <1>2, <2>23, RowsType DEF LinkExpires, TypeOK, LinkStatus
    <3> QED BY <1>2, <2>23, <3>1 DEF LinkExpires, TypeOK, CallsSound, CallSound
  <2>24. CASE LogOut \/ WindowPasses \/ UpdateStatus
    <3>1. CASE LogOut
      BY <1>2, <3>1 DEF LogOut, TypeOK, CallsSound, CallSound
    <3>2. CASE WindowPasses
      BY <1>2, <3>2 DEF WindowPasses, TypeOK, CallsSound, CallSound
    <3>3. CASE UpdateStatus
      <4>1. status' \in UserStatus
        BY <3>3 DEF UpdateStatus, StatusForm
      <4> QED BY <1>2, <3>3, <4>1 DEF UpdateStatus, TypeOK, CallsSound, CallSound
    <3> QED BY <2>24, <3>1, <3>2, <3>3
  <2>25. CASE UNCHANGED vars
    BY <1>2, <2>25 DEF vars, TypeOK, CallsSound, CallSound
  <2> QED
    BY <1>2, <2>1, <2>2, <2>3, <2>4, <2>5, <2>6, <2>7, <2>8, <2>9, <2>10, <2>11, <2>12, <2>13,
       <2>14, <2>15, <2>16, <2>17, <2>18, <2>19, <2>20, <2>21, <2>22, <2>23, <2>24, <2>25
       DEF Next, Request, Serve
<1> QED BY <1>1, <1>2, NobodyYetHolds, PTL DEF Spec

\* No request, failure or restart takes the account out of its types.
THEOREM MembersTyped == Spec => []TypeOK
BY MembersSound, PTL

-----------------------------------------------------------------------------

Using(c, t) == call[c].op = "reset" /\ call[c].row = t

\* At most one request uses a link that never raced, and none does once it has worked.
LinkSpent(t) ==
  /\ \A c, d \in Calls : Using(c, t) /\ Using(d, t) => c = d
  /\ \/ uses[t] = 0
     \/ /\ uses[t] = 1
        /\ t \in DOMAIN links /\ links[t] = "used"
        /\ \A c \in Calls : ~Using(c, t)

LinksSpent == \A t \in (1..MaxLinks) \ raced : LinkSpent(t)

\* A step that starts no reset, ends none and revives no link.
LEMMA LinksQuiet ==
  ASSUME LinksSpent,
         \A d \in Calls : call'[d].op = "reset" => call'[d] = call[d],
         \A t \in DOMAIN links : links[t] = "used" => t \in DOMAIN links' /\ links'[t] = "used",
         uses' = uses, raced' = raced
  PROVE  LinksSpent'
<1>1. \A d \in Calls, t \in 1..MaxLinks : Using(d, t)' => Using(d, t)
  BY DEF Using
<1> QED BY <1>1 DEF LinksSpent, LinkSpent

\* Whatever happens to the link, to others and to the account: one password per link,
\* unless two requests brought it at once.
THEOREM LinksWorkOnceAlways == Spec => []LinksWorkOnce
<1> USE DEF account, identity, lockout, history
<1>1. Init => LinksSpent
  BY DEF Init, LinksSpent, LinkSpent, Using, Idle
<1>2. ASSUME TypeOK, CallsSound, LinksSpent, [Next]_vars
      PROVE  LinksSpent'
  <2>1. ASSUME NEW c \in Calls, Request(c)
        PROVE  LinksSpent'
    <3>1. CASE Register(c) \/ Login(c) \/ RequestPasswordReset(c) \/ ChangePassword(c)
      <4>1. \A d \in Calls : call'[d].op = "reset" => call'[d] = call[d]
        BY <1>2, <3>1 DEF Register, Login, RequestPasswordReset, MayReset, ChangePassword, Begin, TypeOK
      <4>2. links' = links /\ uses' = uses /\ raced' = raced
        BY <3>1 DEF Register, Login, RequestPasswordReset, MayReset, ChangePassword
      <4> QED BY <1>2, <4>1, <4>2, LinksQuiet
    <3>2. CASE CreateVerification(c)
      <4>1. \A d \in Calls : call'[d].op = "reset" => call'[d] = call[d]
        BY <3>2, <1>2 DEF CreateVerification, BeginIdentity, IdentityCalls, TypeOK, CallRecords
      <4>2. links' = links /\ uses' = uses /\ raced' = raced
        BY <3>2 DEF CreateVerification, BeginIdentity
      <4> QED BY <1>2, <4>1, <4>2, LinksQuiet
    <3>3. ASSUME NEW t \in DOMAIN links, ResetPassword(c, t)
          PROVE  LinksSpent'
      <4>1. PICK p \in Passwords : Begin(c, "reset", t, p, TRUE)
        BY <3>3 DEF ResetPassword, LinkWorks
      <4>2. /\ Using(c, t)'
            /\ \A d \in Calls \ {c} : call'[d] = call[d]
            /\ call[c].op # "reset"
        BY <1>2, <4>1 DEF Begin, Using, TypeOK, Idle
      <4>3. links[t] = "mailed" /\ links' = links /\ uses' = uses /\ raced \subseteq raced'
        BY <3>3 DEF ResetPassword, LinkWorks
      <4>4. ASSUME NEW u \in (1..MaxLinks) \ raced'
            PROVE  LinkSpent(u)'
        <5>1. LinkSpent(u)
          BY <1>2, <4>3, <4>4 DEF LinksSpent
        <5>2. CASE u = t
          <6>1. \A d \in Calls : ~Using(d, t)
            BY <3>3, <4>4, <5>2 DEF ResetPassword, LinkWorks, Using
          <6>2. uses[t] = 0
            BY <4>3, <5>1, <5>2 DEF LinkSpent
          <6> QED BY <4>2, <4>3, <5>2, <6>1, <6>2 DEF LinkSpent, Using
        <5>3. CASE u # t
          <6>1. \A d \in Calls : Using(d, u)' => Using(d, u)
            BY <4>1, <4>2, <5>3 DEF Using
          <6> QED BY <4>3, <5>1, <6>1 DEF LinkSpent
        <5> QED BY <5>2, <5>3
      <4> QED BY <4>4 DEF LinksSpent
    <3>4. ASSUME NEW v \in DOMAIN verifications, ReviewVerification(c, v)
          PROVE  LinksSpent'
      <4>1. \A d \in Calls : call'[d].op = "reset" => call'[d] = call[d]
        BY <3>4, <1>2 DEF ReviewVerification, BeginIdentity, IdentityCalls, TypeOK, CallRecords
      <4>2. links' = links /\ uses' = uses /\ raced' = raced
        BY <3>4 DEF ReviewVerification, BeginIdentity
      <4> QED BY <1>2, <4>1, <4>2, LinksQuiet
    <3> QED BY <2>1, <3>1, <3>2, <3>3, <3>4 DEF Request
  <2>2. ASSUME NEW c \in Calls, Serve(c)
        PROVE  LinksSpent'
    <3>1. CASE RegisterTx(c) \/ NobodyThere(c) \/ FindByEmail(c) \/ Refuse(c) \/ Accept(c)
               \/ Enter(c) \/ ChangePasswordTx(c) \/ CreateVerificationTx(c)
               \/ ReviewVerificationTx(c) \/ WriteStanding(c)
      <4>1. \A d \in Calls : call'[d].op = "reset" => call'[d] = call[d]
        <5>1. CASE RegisterTx(c) \/ NobodyThere(c) \/ FindByEmail(c) \/ Refuse(c) \/ Accept(c)
          <6>1. call[c] \in CallRecords
            BY <1>2, <5>1 DEF RegisterTx, NobodyThere, FindByEmail, Refuse, Accept, TypeOK, Idle
          <6> QED BY <1>2, <5>1, <6>1 DEF RegisterTx, NobodyThere, FindByEmail, Refuse, Accept,
                  Finish, GoOn, TypeOK, Idle, CallRecords
        <5>2. CASE Enter(c) \/ ChangePasswordTx(c) \/ CreateVerificationTx(c)
                   \/ ReviewVerificationTx(c) \/ WriteStanding(c)
          <6>1. call[c] \in CallRecords
            BY <1>2, <5>2 DEF Enter, ChangePasswordTx, CreateVerificationTx,
               ReviewVerificationTx, WriteStanding, TypeOK, Idle
          <6> QED BY <1>2, <5>2, <6>1 DEF Enter, ChangePasswordTx, CreateVerificationTx,
                  ReviewVerificationTx, WriteStanding, Finish, GoOn, TypeOK, Idle, CallRecords
        <5> QED BY <3>1, <5>1, <5>2
      <4>2. links' = links /\ uses' = uses /\ raced' = raced
        BY <3>1 DEF RegisterTx, NobodyThere, FindByEmail, Refuse, Accept, Enter,
           ChangePasswordTx, CreateVerificationTx, ReviewVerificationTx, WriteStanding
      <4> QED BY <1>2, <4>1, <4>2, LinksQuiet
    <3>2. CASE WriteLink(c)
      <4>1. \A d \in Calls : call'[d].op = "reset" => call'[d] = call[d]
        BY <1>2, <3>2 DEF WriteLink, TypeOK, CallRecords, Idle
      <4>2. \A t \in DOMAIN links : t \in DOMAIN links' /\ links'[t] = links[t]
        BY <1>2, <3>2 DEF WriteLink, TypeOK
      <4>3. uses' = uses /\ raced' = raced
        BY <3>2 DEF WriteLink
      <4> QED BY <1>2, <4>1, <4>2, <4>3, LinksQuiet
    <3>3. CASE SendPasswordResetEmail(c)
      <4>1. \A d \in Calls : call'[d].op = "reset" => call'[d] = call[d]
        BY <1>2, <3>3 DEF SendPasswordResetEmail, Finish, TypeOK, Idle
      <4>2. \A t \in DOMAIN links :
              links[t] = "used" => t \in DOMAIN links' /\ links'[t] = "used"
        BY <1>2, <3>3 DEF SendPasswordResetEmail, TypeOK
      <4>3. uses' = uses /\ raced' = raced
        BY <3>3 DEF SendPasswordResetEmail
      <4> QED BY <1>2, <4>1, <4>2, <4>3, LinksQuiet
    <3>4. CASE ResetPasswordTx(c)
      <4>1. PICK t \in DOMAIN links : Using(c, t)
        BY <1>2, <3>4 DEF ResetPasswordTx, CallsSound, CallSound, Using
      <4>2. /\ call'[c].op = "idle"
            /\ \A d \in Calls \ {c} : call'[d] = call[d]
        BY <1>2, <3>4 DEF ResetPasswordTx, Finish, TypeOK, Idle
      <4>3. /\ raced' = raced
            /\ links' = [u \in DOMAIN links |-> "used"]
            /\ uses' = [uses EXCEPT ![t] = uses[t] + 1]
        BY <3>4, <4>1 DEF ResetPasswordTx, Using
      <4>4. ASSUME NEW u \in (1..MaxLinks) \ raced
            PROVE  LinkSpent(u)'
        <5>1. LinkSpent(u)
          BY <1>2 DEF LinksSpent
        <5>2. \A d \in Calls : Using(d, u)' => Using(d, u) /\ d # c
          BY <4>2 DEF Using
        <5>3. CASE u = t
          <6>1. uses[t] = 0
            BY <4>1, <5>1, <5>3 DEF LinkSpent
          <6>2. uses'[t] = 1
            BY <1>2, <4>3, <4>4, <5>3, <6>1 DEF TypeOK
          <6>3. \A d \in Calls : ~Using(d, t)'
            BY <4>1, <5>1, <5>2, <5>3 DEF LinkSpent
          <6> QED BY <4>3, <5>3, <6>2, <6>3 DEF LinkSpent
        <5>4. CASE u # t
          <6>1. uses'[u] = uses[u]
            BY <1>2, <4>3, <4>4, <5>4 DEF TypeOK
          <6>2. u \in DOMAIN links => u \in DOMAIN links' /\ links'[u] = "used"
            BY <4>3
          <6> QED BY <5>1, <5>2, <6>1, <6>2 DEF LinkSpent
        <5> QED BY <5>3, <5>4
      <4> QED BY <4>3, <4>4 DEF LinksSpent
    <3> QED BY <2>2, <3>1, <3>2, <3>3, <3>4 DEF Serve
  <2>3. ASSUME NEW lost \in SUBSET Calls, Lose(lost)
        PROVE  LinksSpent'
    <3>1. \A d \in Calls : call'[d].op = "reset" => call'[d] = call[d]
      BY <2>3 DEF Lose, Idle
    <3>2. links' = links /\ uses' = uses /\ raced' = raced
      BY <2>3 DEF Lose
    <3> QED BY <1>2, <3>1, <3>2, LinksQuiet
  <2>4. CASE LogOut \/ WindowPasses \/ UpdateStatus
    <3>1. call' = call /\ links' = links /\ uses' = uses /\ raced' = raced
      BY <2>4 DEF LogOut, WindowPasses, UpdateStatus
    <3> QED BY <1>2, <3>1, LinksQuiet
  <2>5. ASSUME NEW t \in DOMAIN links, LinkExpires(t)
        PROVE  LinksSpent'
    <3>1. \A u \in DOMAIN links :
            links[u] = "used" => u \in DOMAIN links' /\ links'[u] = "used"
      BY <1>2, <2>5 DEF LinkExpires, TypeOK
    <3>2. call' = call /\ uses' = uses /\ raced' = raced
      BY <2>5 DEF LinkExpires
    <3> QED BY <1>2, <3>1, <3>2, LinksQuiet
  <2>6. CASE UNCHANGED vars
    BY <1>2, <2>6, LinksQuiet DEF vars
  <2>7. ASSUME NEW c \in Calls, Die(c)
        PROVE  LinksSpent'
    <3>1. {c} \in SUBSET Calls /\ Lose({c})
      BY <2>7 DEF Die
    <3> QED BY <2>3, <3>1
  <2> QED BY <1>2, <2>1, <2>2, <2>3, <2>4, <2>5, <2>6, <2>7 DEF Next, Restart
<1>3. LinksSpent => LinksWorkOnce
  BY DEF LinksSpent, LinkSpent, LinksWorkOnce
<1> QED BY <1>1, <1>2, <1>3, MembersSound, PTL DEF Spec
-----------------------------------------------------------------------------

\* Logins under way.
Trying == {c \in Calls : call[c].op \in {"find", "compare"}}

\* Each login under way may still fail, and only below the limit does one begin.
AttemptsRoom == attempts + Cardinality(Trying) <= LoginMaxAttempts - 1 + Cardinality(Calls)

LEMMA TryingFinite ==
  /\ Cardinality(Calls) \in Nat
  /\ IsFiniteSet(Trying) /\ Cardinality(Trying) \in Nat
  /\ Cardinality(Trying) <= Cardinality(Calls)
<1>1. Trying \subseteq Calls
  BY DEF Trying
<1> QED BY <1>1, MemberBounds, FS_CardinalityType, FS_Subset

\* Fewer logins under way and no more failures counted.
LEMMA FewerTrying ==
  ASSUME AttemptsRoom, TypeOK, attempts' \in Nat, attempts' <= attempts, Trying' \subseteq Trying
  PROVE  AttemptsRoom'
<1>1. Cardinality(Trying') \in Nat /\ Cardinality(Trying') <= Cardinality(Trying)
  BY TryingFinite, FS_CardinalityType, FS_Subset
<1> QED BY <1>1, TryingFinite, MemberBounds DEF AttemptsRoom, TypeOK

\* A login that fails.
LEMMA OneFails ==
  ASSUME AttemptsRoom, TypeOK, NEW c \in Trying, Finish(c), TrackFailedLogin
  PROVE  AttemptsRoom'
<1>1. Trying' = Trying \ {c}
  BY DEF Trying, Finish, TypeOK, Idle
<1>2. Cardinality(Trying') = Cardinality(Trying) - 1
  BY <1>1, TryingFinite, FS_RemoveElement
<1>3. CASE lapsed
  <2>1. attempts' = 1
    BY <1>3 DEF TrackFailedLogin
  <2> QED BY <1>2, <2>1, TryingFinite, MemberBounds DEF AttemptsRoom, TypeOK
<1>4. CASE ~lapsed
  <2>1. attempts' = attempts + 1
    BY <1>4 DEF TrackFailedLogin
  <2> QED BY <1>2, <2>1, TryingFinite, MemberBounds DEF AttemptsRoom, TypeOK
<1> QED BY <1>3, <1>4

\* A login that begins: the count is below the limit, or starts again.
LEMMA OneBegins ==
  ASSUME TypeOK, NEW c \in Calls, Login(c)
  PROVE  AttemptsRoom'
<1>1. attempts' \in Nat /\ attempts' <= LoginMaxAttempts - 1
  <2>1. CASE lapsed
    BY <2>1, MemberBounds DEF Login
  <2>2. CASE ~lapsed
    BY <2>2, MemberBounds DEF Login, EnsureLoginAllowed, TypeOK
  <2> QED BY <2>1, <2>2
<1>2. Trying' \subseteq Calls
  BY DEF Trying
<1>3. Cardinality(Trying') \in Nat /\ Cardinality(Trying') <= Cardinality(Calls)
  BY <1>2, MemberBounds, FS_CardinalityType, FS_Subset
<1> QED BY <1>1, <1>3, TryingFinite, MemberBounds DEF AttemptsRoom

\* Overlapping logins cannot fail without end before the limit shuts the door.
THEOREM AttemptsBoundedAlways == Spec => []AttemptsBounded
<1> USE DEF account, identity, lockout, history
<1>1. Init => AttemptsRoom
  <2> SUFFICES ASSUME Init PROVE AttemptsRoom
    OBVIOUS
  <2>1. attempts = 0 /\ Cardinality(Trying) <= Cardinality(Calls)
    BY TryingFinite DEF Init
  <2> QED BY <2>1, TryingFinite, MemberBounds DEF AttemptsRoom
<1>2. ASSUME TypeOK, AttemptsRoom, [Next]_vars
      PROVE  AttemptsRoom'
  <2> DEFINE Quiet == attempts' = attempts /\ \A d \in Calls :
                        call'[d].op \in {"find", "compare"} => call[d].op \in {"find", "compare"}
  <2>0. ASSUME Quiet PROVE AttemptsRoom'
    <3>1. Trying' \subseteq Trying
      BY <2>0 DEF Trying
    <3> QED BY <1>2, <2>0, <3>1, FewerTrying DEF TypeOK
  <2>1. ASSUME NEW c \in Calls, Request(c)
        PROVE  AttemptsRoom'
    <3>1. CASE Register(c) \/ RequestPasswordReset(c) \/ ChangePassword(c)
      <4>1. Quiet
        BY <1>2, <3>1 DEF Register, RequestPasswordReset, MayReset, ChangePassword, Begin, TypeOK
      <4> QED BY <2>0, <4>1
    <3>2. CASE Login(c)
      BY <1>2, <3>2, OneBegins
    <3>3. ASSUME NEW t \in DOMAIN links, ResetPassword(c, t)
          PROVE  AttemptsRoom'
      <4>1. Quiet
        BY <1>2, <3>3 DEF ResetPassword, LinkWorks, Begin, TypeOK
      <4> QED BY <2>0, <4>1
    <3>4. CASE CreateVerification(c)
      <4>1. Quiet
        BY <1>2, <3>4 DEF CreateVerification, BeginIdentity, IdentityCalls, TypeOK, CallRecords
      <4> QED BY <2>0, <4>1
    <3>5. ASSUME NEW v \in DOMAIN verifications, ReviewVerification(c, v)
          PROVE  AttemptsRoom'
      <4>1. Quiet
        BY <1>2, <3>5 DEF ReviewVerification, BeginIdentity, IdentityCalls, TypeOK, CallRecords
      <4> QED BY <2>0, <4>1
    <3> QED BY <2>1, <3>1, <3>2, <3>3, <3>4, <3>5 DEF Request
  <2>2. ASSUME NEW c \in Calls, Serve(c)
        PROVE  AttemptsRoom'
    <3>1. CASE RegisterTx(c) \/ FindByEmail(c) \/ Enter(c) \/ WriteLink(c)
               \/ SendPasswordResetEmail(c)
      <4>1. call[c] \in CallRecords
        BY <1>2, <3>1 DEF RegisterTx, FindByEmail, Enter, WriteLink, SendPasswordResetEmail,
           TypeOK, Idle
      <4>2. Quiet
        <5>1. CASE FindByEmail(c) \/ WriteLink(c)
          BY <1>2, <4>1, <5>1 DEF FindByEmail, WriteLink, TypeOK, CallRecords
        <5>2. CASE RegisterTx(c)
          <6>1. attempts' = attempts /\ (Finish(c) \/ GoOn(c, "enter"))
            BY <5>2 DEF RegisterTx
          <6> QED BY <1>2, <4>1, <6>1 DEF Finish, GoOn, TypeOK, Idle, CallRecords
        <5>3. CASE Enter(c) \/ SendPasswordResetEmail(c)
          BY <1>2, <4>1, <5>3 DEF Enter, SendPasswordResetEmail, Finish, TypeOK, Idle
        <5> QED BY <3>1, <5>1, <5>2, <5>3
      <4> QED BY <2>0, <4>2
    <3>2. CASE NobodyThere(c) \/ Refuse(c)
      <4>1. c \in Trying /\ Finish(c) /\ TrackFailedLogin
        BY <3>2 DEF NobodyThere, Refuse, Trying
      <4> QED BY <1>2, <4>1, OneFails
    <3>3. CASE Accept(c)
      <4>1. call[c] \in CallRecords
        BY <1>2, <3>3 DEF Accept, TypeOK, Idle
      <4>2. Trying' \subseteq Trying
        BY <1>2, <3>3, <4>1 DEF Accept, GoOn, Trying, TypeOK, CallRecords
      <4>3. attempts' = 0
        BY <3>3 DEF Accept
      <4>4. attempts' \in Nat /\ attempts' <= attempts
        BY <1>2, <4>3 DEF TypeOK
      <4> QED BY <1>2, <4>2, <4>4, FewerTrying
    <3>4. CASE ResetPasswordTx(c) \/ ChangePasswordTx(c) \/ CreateVerificationTx(c)
               \/ ReviewVerificationTx(c) \/ WriteStanding(c)
      <4>1. call[c] \in CallRecords
        BY <1>2, <3>4 DEF ResetPasswordTx, ChangePasswordTx, CreateVerificationTx,
           ReviewVerificationTx, WriteStanding, TypeOK, Idle
      <4>2. attempts' = attempts /\ (Finish(c) \/ GoOn(c, "stand"))
        BY <3>4 DEF ResetPasswordTx, ChangePasswordTx, CreateVerificationTx,
           ReviewVerificationTx, WriteStanding
      <4>3. Quiet
        BY <1>2, <4>1, <4>2 DEF Finish, GoOn, TypeOK, Idle, CallRecords
      <4> QED BY <2>0, <4>3
    <3> QED BY <2>2, <3>1, <3>2, <3>3, <3>4 DEF Serve
  <2>3. ASSUME NEW c \in Calls, Die(c)
        PROVE  AttemptsRoom'
    <3>1. Quiet
      BY <2>3 DEF Die, Lose, Idle
    <3> QED BY <2>0, <3>1
  <2>4. CASE Restart
    <3>1. Trying' \subseteq Trying
      BY <2>4 DEF Restart, Lose, Trying, Idle
    <3>2. attempts' = 0
      BY <2>4 DEF Restart
    <3>3. attempts' \in Nat /\ attempts' <= attempts
      BY <1>2, <3>2 DEF TypeOK
    <3> QED BY <1>2, <3>1, <3>3, FewerTrying
  <2>5. CASE LogOut \/ WindowPasses \/ UpdateStatus \/ UNCHANGED vars
    <3>1. Quiet
      BY <2>5 DEF LogOut, WindowPasses, UpdateStatus, vars
    <3> QED BY <2>0, <3>1
  <2>6. ASSUME NEW t \in DOMAIN links, LinkExpires(t)
        PROVE  AttemptsRoom'
    <3>1. Quiet
      BY <2>6 DEF LinkExpires
    <3> QED BY <2>0, <3>1
  <2> QED BY <1>2, <2>1, <2>2, <2>3, <2>4, <2>5, <2>6 DEF Next
<1>3. TypeOK /\ AttemptsRoom => AttemptsBounded
  BY TryingFinite, MemberBounds DEF TypeOK, AttemptsRoom, AttemptsBounded
<1> QED BY <1>1, <1>2, <1>3, MembersSound, PTL DEF Spec

-----------------------------------------------------------------------------

\* Of two identity requests under way none is marked as alone.
MarksRight ==
  \A c, d \in Calls : c # d /\ c \in IdentityCalls /\ d \in IdentityCalls => ~call[c].alone

\* Documents from a page up to date meet no approval but one that overlaps them.
NotYetApproved ==
  \A c \in Calls :
    (/\ call[c].op \in {"verify", "stand"}
     /\ call[c].says = "PENDING"
     /\ call[c].fresh /\ call[c].alone) => kycStatus # "APPROVED"

\* The second write of a request that is alone repeats what the first has left.
WritesMatch ==
  \A c \in Calls : call[c].op = "stand" /\ call[c].alone =>
    \E v \in DOMAIN verifications : verifications[v] = call[c].says

RowsAgree ==
  (registered /\ ~muddled /\ \A c \in Calls : call[c].op # "stand") =>
    \E v \in DOMAIN verifications : verifications[v] = kycStatus

Standing == MarksRight /\ NotYetApproved /\ WritesMatch /\ RowsAgree

\* A step that leaves identity alone: its requests stay, nobody joins them.
LEMMA StandingQuiet ==
  ASSUME Standing,
         \A d \in Calls : call'[d].op \in {"verify", "review", "stand"} => call'[d] = call[d],
         \A d \in Calls : call[d].op = "stand" => call'[d] = call[d] \/ muddled',
         muddled => muddled',
         registered' = registered, verifications' = verifications, kycStatus' = kycStatus
  PROVE  Standing'
<1>1. MarksRight'
  <2>1. \A d \in Calls : d \in IdentityCalls' => d \in IdentityCalls
    BY DEF IdentityCalls
  <2>2. \A d \in Calls : d \in IdentityCalls' => call'[d] = call[d]
    BY DEF IdentityCalls
  <2> QED BY <2>1, <2>2 DEF Standing, MarksRight
<1>2. NotYetApproved'
  BY DEF Standing, NotYetApproved
<1>3. WritesMatch'
  BY DEF Standing, WritesMatch
<1>4. RowsAgree'
  BY DEF Standing, RowsAgree
<1> QED BY <1>1, <1>2, <1>3, <1>4 DEF Standing

\* A request about identity overlaps all that are under way.
LEMMA BeginIdentityMarks ==
  ASSUME TypeOK, NEW c \in Calls, NEW op, NEW row, NEW says, NEW fresh,
         op \in {"verify", "review"},
         BeginIdentity(c, op, row, says, fresh)
  PROVE  /\ IdentityCalls' = IdentityCalls \cup {c}
         /\ c \notin IdentityCalls
         /\ IdentityCalls # {} => ~call'[c].alone
         /\ \A d \in IdentityCalls : ~call'[d].alone
<1>1. c \notin IdentityCalls
  BY DEF BeginIdentity, IdentityCalls, Idle
<1>2. call'[c] = [op |-> op, row |-> row, says |-> says, ok |-> FALSE, fresh |-> fresh,
                  alone |-> (IdentityCalls = {})]
  BY <1>1 DEF BeginIdentity
<1>3. IdentityCalls # {} => ~call'[c].alone
  <2> SUFFICES ASSUME IdentityCalls # {} PROVE ~call'[c].alone
    OBVIOUS
  <2>1. (IdentityCalls = {}) = FALSE
    OBVIOUS
  <2>2. call'[c] = [op |-> op, row |-> row, says |-> says, ok |-> FALSE, fresh |-> fresh,
                    alone |-> FALSE]
    BY <1>2, <2>1, Zenon
  <2> QED BY <2>2
<1>4. ASSUME NEW d \in IdentityCalls
      PROVE  ~call'[d].alone
  <2>1. call[d] \in CallRecords /\ d \in Calls /\ d # c
    BY <1>1 DEF IdentityCalls, TypeOK, Idle
  <2>2. call'[d] = [call[d] EXCEPT !.alone = FALSE]
    BY <2>1 DEF BeginIdentity
  <2> QED BY <2>1, <2>2 DEF CallRecords
<1>5. \A d \in Calls \ {c} : call'[d].op = call[d].op
  BY BeginIdentityEffect
<1>6. IdentityCalls' = IdentityCalls \cup {c}
  BY <1>2, <1>5 DEF IdentityCalls
<1> QED BY <1>1, <1>3, <1>4, <1>6

\* Documents arrive, or a review: it is alone only if nothing else is under way.
LEMMA StandingBegins ==
  ASSUME TypeOK, Standing, NEW c \in Calls, NEW op \in {"verify", "review"}, NEW row, NEW says,
         NEW fresh, BeginIdentity(c, op, row, says, fresh),
         op = "verify" /\ fresh => kycStatus # "APPROVED"
  PROVE  Standing'
<1>1. /\ IdentityCalls' = IdentityCalls \cup {c}
      /\ c \notin IdentityCalls
      /\ IdentityCalls # {} => ~call'[c].alone
      /\ \A d \in IdentityCalls : ~call'[d].alone
  BY BeginIdentityMarks
<1>2. /\ call'[c].op = op /\ call'[c].says = says /\ call'[c].fresh = fresh
      /\ \A d \in Calls \ {c} : call'[d].op = call[d].op
  BY BeginIdentityEffect
<1>3. UNCHANGED <<registered, verifications, kycStatus, muddled>>
  BY DEF BeginIdentity, account, identity, history
<1>4. MarksRight'
  BY <1>1 DEF MarksRight
<1>5. NotYetApproved'
  <2> SUFFICES ASSUME NEW d \in Calls, call'[d].op \in {"verify", "stand"},
                      call'[d].fresh, call'[d].alone
               PROVE  kycStatus' # "APPROVED"
    BY DEF NotYetApproved
  <2>1. d \in IdentityCalls'
    BY DEF IdentityCalls
  <2>2. d = c
    BY <1>1, <2>1
  <2> QED BY <1>2, <1>3, <2>2
<1>6. WritesMatch'
  <2> SUFFICES ASSUME NEW d \in Calls, call'[d].op = "stand", call'[d].alone
               PROVE  FALSE
    BY DEF WritesMatch
  <2>1. d # c
    BY <1>2
  <2>2. d \in IdentityCalls
    BY <1>2, <2>1 DEF IdentityCalls
  <2> QED BY <1>1, <2>2
<1>7. RowsAgree'
  <2>1. (\A d \in Calls : call'[d].op # "stand") => (\A d \in Calls : call[d].op # "stand")
    <3>1. call[c].op # "stand"
      BY <1>1 DEF IdentityCalls
    <3> QED BY <1>2, <3>1
  <2> QED BY <1>3, <2>1 DEF Standing, RowsAgree
<1> QED BY <1>4, <1>5, <1>6, <1>7 DEF Standing

\* The first write: what the second will say is in a row, and later writes of others
\* find this one under way.
LEMMA StandingFirstWrite ==
  ASSUME TypeOK, Standing, NEW c \in Calls, call[c].op \in {"verify", "review"},
         GoOn(c, "stand"),
         call[c].op = "verify" \/ call[c].says # "PENDING",
         \E v \in DOMAIN verifications' : verifications'[v] = call[c].says,
         kycStatus' = kycStatus, registered' = registered, muddled' = muddled
  PROVE  Standing'
<1>1. call[c] \in CallRecords
  BY DEF TypeOK, Idle
<1>2. /\ call'[c].op = "stand" /\ call'[c].says = call[c].says
      /\ call'[c].fresh = call[c].fresh /\ call'[c].alone = call[c].alone
      /\ \A d \in Calls \ {c} : call'[d] = call[d]
  BY <1>1 DEF GoOn, TypeOK, CallRecords
<1>3. IdentityCalls' = IdentityCalls /\ c \in IdentityCalls
  BY <1>2 DEF IdentityCalls
<1>4. MarksRight'
  BY <1>2, <1>3 DEF Standing, MarksRight
<1>5. NotYetApproved'
  BY <1>2 DEF Standing, NotYetApproved
<1>6. WritesMatch'
  <2> SUFFICES ASSUME NEW d \in Calls, call'[d].op = "stand", call'[d].alone
               PROVE  \E v \in DOMAIN verifications' : verifications'[v] = call'[d].says
    BY DEF WritesMatch
  <2>1. d = c
    <3> SUFFICES ASSUME d # c PROVE FALSE
      OBVIOUS
    <3>1. d \in IdentityCalls /\ call'[d] = call[d]
      BY <1>2 DEF IdentityCalls
    <3> QED BY <1>3, <3>1 DEF Standing, MarksRight
  <2> QED BY <1>2, <2>1
<1>7. RowsAgree'
  BY <1>2 DEF RowsAgree
<1> QED BY <1>4, <1>5, <1>6, <1>7 DEF Standing

\* The second write, overlapped or not.
LEMMA StandingSecondWrite ==
  ASSUME TypeOK, Standing, NEW c \in Calls, WriteStanding(c)
  PROVE  Standing'
<1>1. call[c] \in CallRecords /\ c \in IdentityCalls
  BY DEF WriteStanding, TypeOK, Idle, IdentityCalls
<1>2. /\ call'[c].op = "idle"
      /\ \A d \in Calls \ {c} : call'[d] = call[d]
      /\ kycStatus' = call[c].says /\ verifications' = verifications
      /\ muddled' = ~call[c].alone
  BY DEF WriteStanding, Finish, TypeOK, Idle, account
<1>3. IdentityCalls' = IdentityCalls \ {c}
  BY <1>1, <1>2 DEF IdentityCalls
<1>4. MarksRight'
  BY <1>2, <1>3 DEF Standing, MarksRight
<1>5. NotYetApproved'
  <2> SUFFICES ASSUME NEW d \in Calls, call'[d].op \in {"verify", "stand"}, call'[d].alone
               PROVE  FALSE
    BY DEF NotYetApproved
  <2>1. d # c /\ d \in IdentityCalls /\ call'[d] = call[d]
    BY <1>2 DEF IdentityCalls
  <2> QED BY <1>1, <2>1 DEF Standing, MarksRight
<1>6. WritesMatch'
  BY <1>2 DEF Standing, WritesMatch
<1>7. RowsAgree'
  <2>1. CASE call[c].alone
    BY <1>2, <2>1 DEF Standing, WritesMatch, RowsAgree, WriteStanding
  <2>2. CASE ~call[c].alone
    BY <1>2, <2>2 DEF RowsAgree
  <2> QED BY <2>1, <2>2
<1> QED BY <1>4, <1>5, <1>6, <1>7 DEF Standing

\* Every step keeps the standing and what the requests about it promise.
LEMMA StandingKept ==
  ASSUME TypeOK, CallsSound, NobodyYet, Standing, [Next]_vars
  PROVE  Standing'
<1> USE DEF account, identity, lockout, history
<1> DEFINE Quiet ==
      /\ \A d \in Calls : call'[d].op \in {"verify", "review", "stand"} => call'[d] = call[d]
      /\ \A d \in Calls : call[d].op = "stand" => call'[d] = call[d] \/ muddled'
      /\ muddled => muddled'
      /\ registered' = registered /\ verifications' = verifications /\ kycStatus' = kycStatus
<1>0. ASSUME Quiet PROVE Standing'
  BY <1>0, StandingQuiet
<1>1. ASSUME NEW c \in Calls, Request(c)
      PROVE  Standing'
  <2>1. CASE Register(c) \/ Login(c) \/ RequestPasswordReset(c) \/ ChangePassword(c)
    <3>1. PICK op \in {"register", "find", "link", "change"}, says \in Anything :
            Begin(c, op, 0, says, TRUE)
      BY <2>1 DEF Register, Login, RequestPasswordReset, MayReset, ChangePassword, Anything
    <3>2. /\ call'[c].op \notin {"verify", "review", "stand"} /\ call[c].op # "stand"
          /\ \A d \in Calls \ {c} : call'[d] = call[d]
      BY <3>1 DEF Begin, TypeOK, Idle
    <3>3. UNCHANGED <<registered, verifications, kycStatus, muddled>>
      BY <2>1 DEF Register, Login, RequestPasswordReset, MayReset, ChangePassword
    <3>4. Quiet
      BY <3>2, <3>3
    <3> QED BY <1>0, <3>4
  <2>2. ASSUME NEW t \in DOMAIN links, ResetPassword(c, t)
        PROVE  Standing'
    <3>1. PICK says \in Passwords : Begin(c, "reset", t, says, TRUE)
      BY <2>2 DEF ResetPassword, LinkWorks
    <3>2. /\ call'[c].op \notin {"verify", "review", "stand"} /\ call[c].op # "stand"
          /\ \A d \in Calls \ {c} : call'[d] = call[d]
      BY <3>1 DEF Begin, TypeOK, Idle
    <3>3. Quiet
      BY <2>2, <3>2 DEF ResetPassword, LinkWorks
    <3> QED BY <1>0, <3>3
  <2>3. CASE CreateVerification(c)
    <3>1. PICK fresh \in BOOLEAN : /\ BeginIdentity(c, "verify", 0, "PENDING", fresh)
                                   /\ fresh => kycStatus # "APPROVED"
      BY <2>3 DEF CreateVerification, KycForm
    <3> QED BY <3>1, StandingBegins
  <2>4. ASSUME NEW v \in DOMAIN verifications, ReviewVerification(c, v)
        PROVE  Standing'
    <3>1. PICK outcome \in Reviews, fresh \in BOOLEAN :
            BeginIdentity(c, "review", v, outcome, fresh)
      BY <2>4 DEF ReviewVerification
    <3> QED BY <3>1, StandingBegins
  <2> QED BY <1>1, <2>1, <2>2, <2>3, <2>4 DEF Request
<1>2. ASSUME NEW c \in Calls, Serve(c)
      PROVE  Standing'
  <2>1. CASE RegisterTx(c)
    <3>1. call[c] \in CallRecords
      BY <2>1 DEF RegisterTx, TypeOK, Idle
    <3>2. /\ call'[c].op \in {"idle", "enter"} /\ call[c].op = "register"
          /\ \A d \in Calls \ {c} : call'[d] = call[d]
      <4>1. Finish(c) \/ GoOn(c, "enter")
        BY <2>1 DEF RegisterTx
      <4> QED BY <2>1, <3>1, <4>1 DEF RegisterTx, Finish, GoOn, TypeOK, Idle, CallRecords
    <3>3. CASE registered
      <4>1. Quiet
        BY <2>1, <3>2, <3>3 DEF RegisterTx
      <4> QED BY <1>0, <4>1
    <3>4. CASE ~registered
      <4>1. \A d \in Calls : call'[d].op \notin {"verify", "review", "stand"}
        BY <3>2, <3>4 DEF NobodyYet
      <4>2. verifications' = <<"PENDING">> /\ kycStatus' = "PENDING"
        BY <2>1, <3>4 DEF RegisterTx, NobodyYet
      <4>3. 1 \in DOMAIN verifications' /\ verifications'[1] = kycStatus'
        BY <4>2
      <4> QED BY <4>1, <4>3 DEF Standing, MarksRight, NotYetApproved, WritesMatch, RowsAgree,
              IdentityCalls
    <3> QED BY <3>3, <3>4
  <2>2. CASE NobodyThere(c) \/ FindByEmail(c) \/ Refuse(c) \/ Accept(c) \/ Enter(c)
    <3>1. call[c] \in CallRecords
      BY <2>2 DEF NobodyThere, FindByEmail, Refuse, Accept, Enter, TypeOK, Idle
    <3>2. /\ call'[c].op \in {"idle", "compare", "enter"} /\ call[c].op # "stand"
          /\ \A d \in Calls \ {c} : call'[d] = call[d]
      <4>1. CASE FindByEmail(c)
        BY <3>1, <4>1 DEF FindByEmail, TypeOK, CallRecords
      <4>2. CASE NobodyThere(c) \/ Refuse(c) \/ Accept(c) \/ Enter(c)
        <5>1. (Finish(c) \/ GoOn(c, "enter")) /\ call[c].op # "stand"
          BY <4>2 DEF NobodyThere, Refuse, Accept, Enter
        <5> QED BY <3>1, <5>1 DEF Finish, GoOn, TypeOK, Idle, CallRecords
      <4> QED BY <2>2, <4>1, <4>2
    <3>3. Quiet
      BY <2>2, <3>2 DEF NobodyThere, FindByEmail, Refuse, Accept, Enter
    <3> QED BY <1>0, <3>3
  <2>3. CASE WriteLink(c) \/ SendPasswordResetEmail(c) \/ ResetPasswordTx(c)
             \/ ChangePasswordTx(c)
    <3>1. call[c] \in CallRecords
      BY <2>3 DEF WriteLink, SendPasswordResetEmail, ResetPasswordTx, ChangePasswordTx, TypeOK,
         Idle
    <3>2. /\ call'[c].op \in {"idle", "mail"} /\ call[c].op # "stand"
          /\ \A d \in Calls \ {c} : call'[d] = call[d]
      <4>1. CASE WriteLink(c)
        BY <3>1, <4>1 DEF WriteLink, TypeOK, CallRecords
      <4>2. CASE SendPasswordResetEmail(c) \/ ResetPasswordTx(c) \/ ChangePasswordTx(c)
        <5>1. Finish(c) /\ call[c].op # "stand"
          BY <4>2 DEF SendPasswordResetEmail, ResetPasswordTx, ChangePasswordTx
        <5> QED BY <5>1 DEF Finish, TypeOK, Idle
      <4> QED BY <2>3, <4>1, <4>2
    <3>3. Quiet
      BY <2>3, <3>2 DEF WriteLink, SendPasswordResetEmail, ResetPasswordTx, ChangePasswordTx
    <3> QED BY <1>0, <3>3
  <2>4. CASE CreateVerificationTx(c)
    <3>1. call[c].op = "verify" /\ GoOn(c, "stand") /\ call[c].says = "PENDING"
      BY <2>4 DEF CreateVerificationTx, CallsSound, CallSound
    <3>2. /\ Len(verifications) + 1 \in DOMAIN verifications'
          /\ verifications'[Len(verifications) + 1] = "PENDING"
      BY <2>4 DEF CreateVerificationTx, TypeOK
    <3> QED BY <2>4, <3>1, <3>2, StandingFirstWrite DEF CreateVerificationTx
  <2>5. CASE ReviewVerificationTx(c)
    <3>1. /\ call[c].op = "review" /\ GoOn(c, "stand")
          /\ call[c].says # "PENDING" /\ call[c].row \in DOMAIN verifications
      BY <2>5 DEF ReviewVerificationTx, CallsSound, CallSound, Reviews
    <3>2. /\ call[c].row \in DOMAIN verifications'
          /\ verifications'[call[c].row] = call[c].says
      BY <2>5, <3>1 DEF ReviewVerificationTx, TypeOK
    <3> QED BY <2>5, <3>1, <3>2, StandingFirstWrite DEF ReviewVerificationTx
  <2>6. CASE WriteStanding(c)
    BY <2>6, StandingSecondWrite
  <2> QED BY <1>2, <2>1, <2>2, <2>3, <2>4, <2>5, <2>6 DEF Serve
<1>3. ASSUME NEW lost \in SUBSET Calls, Lose(lost)
      PROVE  Standing'
  <2>1. \A d \in Calls : call'[d] = IF d \in lost THEN Idle ELSE call[d]
    BY <1>3 DEF Lose
  <2>2. muddled' = (muddled \/ \E d \in lost : call[d].op = "stand")
    BY <1>3 DEF Lose
  <2>3. Quiet
    BY <1>3, <2>1, <2>2 DEF Lose, Idle
  <2> QED BY <1>0, <2>3
<1>4. ASSUME NEW c \in Calls, Die(c)
      PROVE  Standing'
  <2>1. {c} \in SUBSET Calls /\ Lose({c})
    BY <1>4 DEF Die
  <2> QED BY <1>3, <2>1
<1>5. ASSUME NEW t \in DOMAIN links, LinkExpires(t)
      PROVE  Standing'
  <2>1. Quiet
    BY <1>5 DEF LinkExpires
  <2> QED BY <1>0, <2>1
<1>6. CASE LogOut \/ WindowPasses \/ UpdateStatus \/ UNCHANGED vars
  <2>1. Quiet
    BY <1>6 DEF LogOut, WindowPasses, UpdateStatus, vars
  <2> QED BY <1>0, <2>1
<1> QED BY <1>1, <1>2, <1>3, <1>4, <1>5, <1>6 DEF Next, Restart

LEMMA StandingHolds == Spec => []Standing
<1>1. Init => Standing
  BY DEF Init, Standing, MarksRight, NotYetApproved, WritesMatch, RowsAgree, IdentityCalls, Idle
<1>2. TypeOK /\ CallsSound /\ NobodyYet /\ Standing /\ [Next]_vars => Standing'
  BY StandingKept
<1> QED BY <1>1, <1>2, MembersSound, NobodyYetHolds, PTL DEF Spec

\* Nobody stands as approved whom no verification approves, once requests are over, unless
\* the last ones overlapped or one of them died half way.
THEOREM StandingAgreesAlways == Spec => []StandingAgrees
<1>1. Standing => StandingAgrees
  BY DEF Standing, RowsAgree, StandingAgrees, IdentityCalls
<1> QED BY <1>1, StandingHolds, PTL

\* Only documents from an old page, or sent during the review, undo an approval unasked.
THEOREM ApprovalStandsAlways == Spec => ApprovalStands
<1> DEFINE Undone == kycStatus = "APPROVED" /\ kycStatus' = "PENDING"
           Late == \E c \in Calls : WriteStanding(c) /\ ~(call[c].fresh /\ call[c].alone)
<1>1. TypeOK /\ NobodyYet /\ Standing /\ [Next]_vars => [Undone => Late]_vars
  <2> SUFFICES ASSUME TypeOK, Standing, [Next]_vars, Undone
               PROVE  Late
    OBVIOUS
  <2>1. PICK c \in Calls : WriteStanding(c)
    <3> USE DEF account, identity, lockout, history
    <3>1. kycStatus' # kycStatus
      OBVIOUS
    <3>2. ASSUME NEW c \in Calls, Request(c)
          PROVE  FALSE
      BY <3>1, <3>2 DEF Request, Register, Login, RequestPasswordReset, MayReset, ChangePassword,
         CreateVerification, ResetPassword, LinkWorks, ReviewVerification, BeginIdentity
    <3>3. ASSUME NEW c \in Calls, Serve(c)
          PROVE  WriteStanding(c)
      BY <3>1, <3>3 DEF Serve, RegisterTx, NobodyThere, FindByEmail, Refuse, Accept, Enter,
         WriteLink, SendPasswordResetEmail, ResetPasswordTx, ChangePasswordTx,
         CreateVerificationTx, ReviewVerificationTx
    <3>4. ~(\E c \in Calls : Die(c)) /\ ~Restart
      BY <3>1 DEF Die, Restart, Lose
    <3>5. ~(\E t \in DOMAIN links : LinkExpires(t))
      BY <3>1 DEF LinkExpires
    <3>6. ~LogOut /\ ~WindowPasses /\ ~UpdateStatus /\ ~UNCHANGED vars
      BY <3>1 DEF LogOut, WindowPasses, UpdateStatus, vars
    <3> QED BY <3>2, <3>3, <3>4, <3>5, <3>6 DEF Next
  <2>2. call[c].op = "stand" /\ call[c].says = "PENDING"
    BY <2>1 DEF WriteStanding
  <2>3. ~(call[c].fresh /\ call[c].alone)
    BY <2>2 DEF Standing, NotYetApproved
  <2> QED BY <2>1, <2>3
<1> QED BY <1>1, MembersSound, NobodyYetHolds, StandingHolds, PTL DEF Spec, ApprovalStands

=============================================================================

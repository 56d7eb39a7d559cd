-------------------------- MODULE InsuranceClaims ---------------------------
(***************************************************************************)
(* InsuranceService: the claim of an insured buyer, its resolution by the  *)
(* staff, the staff's edit of the policy and the insurer's webhook.  All   *)
(* four write the same row, two of its columns: the status, and the        *)
(* payload that holds the claim.                                           *)
(***************************************************************************)
EXTENDS AftersaleTables

Decided == {"APPROVED", "REJECTED"}

\* Fault: the panel of the account page asks for the status of the policy only.
ClaimFormByStatus == policyStatus = "ACTIVE"

\* InsuranceClaimPanel: the form is hidden while there is a claim, decided or not.
ClaimForm == policyStatus = "ACTIVE" /\ claim = "NONE"

\* The console shows the resolution until the claim has one.
ResolveForm == claim = "OPEN"

\* The policy was active when it was issued, so some page has shown the form.
SubmitClaim(c) ==
  /\ policyStatus \in {"ACTIVE", "CLAIMED"}
  /\ Begin(c, "submit", "claim", "OPEN", ClaimForm)

\* The whole claim is written from what the handler read: a resolution is not kept.
SubmitClaimTx(c) ==
  /\ call[c].op = "submit"
  /\ policyStatus' = "CLAIMED"
  /\ claim' = "OPEN"
  /\ edited' = FALSE
  /\ ThenNotify(c)
  /\ UNCHANGED <<paid, meetings, slots, messages, answers>>

\* The API asks for a claim only; whether it is decided already is for the page to see.
ResolveClaim(c) ==
  /\ claim # "NONE"
  /\ \E outcome \in Decided : Begin(c, "resolve", "claim", outcome, ResolveForm)

\* Fault: a rejected claim leaves the policy claimed.
ResolveClaimTxClaimed(c) ==
  /\ call[c].op = "resolve"
  /\ policyStatus' = "CLAIMED"
  /\ claim' = call[c].says
  /\ edited' = FALSE
  /\ ThenNotify(c)
  /\ UNCHANGED <<paid, meetings, slots, messages, answers>>

ResolveClaimTx(c) ==
  /\ call[c].op = "resolve"
  /\ policyStatus' = IF call[c].says = "REJECTED" THEN "ACTIVE" ELSE "CLAIMED"
  /\ claim' = call[c].says
  /\ edited' = FALSE
  /\ ThenNotify(c)
  /\ UNCHANGED <<paid, meetings, slots, messages, answers>>

\* The form comes with the status the console showed when it was rendered, so saving a
\* new URL writes an old status back.
UpdatePolicyStatus(c) ==
  \E status \in InsurancePolicyStatus : Begin(c, "edit", "policy", status, TRUE)

\* It writes the status and not the claim, and notifies nobody.
UpdatePolicyStatusTx(c) ==
  /\ call[c].op = "edit"
  /\ policyStatus' = call[c].says
  /\ edited' = TRUE
  /\ call' = [call EXCEPT ![c] = Idle]
  /\ UNCHANGED <<paid, meetings, slots, messages, claim, notices, sent, answers, disturbed>>

\* What an insurer may write as the status of a policy: ours, or a word of its own.  The
\* status beside the payload is checked, and the one inside it is read.
InsurerWords == InsurancePolicyStatus \cup {"EXPIRED"}

\* Fault: the word is stored as it came.
NormalizeWebhookRaw(word) == word

\* A word that is not one of ours, or none at all, is a policy not issued yet.
NormalizeWebhook(word) == IF word \in InsurancePolicyStatus THEN word ELSE "PENDING"

\* The insurer reports on the policy.  Its payload replaces the stored one, claim included,
\* and nobody is notified.  Nothing is read that the write depends on.
ProcessPolicyWebhook ==
  /\ sent < MaxCalls
  /\ sent' = sent + 1
  /\ \E word \in InsurerWords : policyStatus' = NormalizeWebhook(word)
  /\ claim' = "NONE"
  /\ edited' = TRUE
  /\ disturbed' = disturbed \cup {"claim"}
  /\ UNCHANGED <<paid, meetings, slots, messages, notices, call, answers>>
=============================================================================

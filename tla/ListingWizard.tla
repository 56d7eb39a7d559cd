---------------------------- MODULE ListingWizard ---------------------------
(***************************************************************************)
(* The page on which a seller writes and publishes a listing               *)
(* (listing-publish-wizard.tsx), in one or more tabs, over the handlers of *)
(* ListingDrafts.  The page holds a copy of the draft, the fields typed on *)
(* the form of each step and the step that is shown.  Its requests overlap:*)
(* only the publish button waits for an answer.  Answers are applied in    *)
(* the order they arrive, and each one refills every form from the copy.   *)
(***************************************************************************)
EXTENDS ListingDrafts

CONSTANTS
  FormProof,     \* the condition the form starts with, VERY_GOOD
  MaxEdits,      \* bound: fields typed and photos added or removed
  MaxSends       \* bound: requests sent

ASSUME FormProofType == FormProof \in Values
ASSUME WizardBounds == MaxEdits \in Nat /\ MaxSends \in Nat

VARIABLES
  page,       \* page[p]: what tab p holds
  disturbed,  \* history: drafts that ever had two requests or two tabs at
              \* once, or a request whose answer never reached its tab
  publishingAtOnce,  \* history: the most requests past the checks of publishDraft
  creatingAtOnce,    \* history: the most that were about to create a draft
  edits, sends

historyVars == <<publishingAtOnce, creatingAtOnce>>
vars == <<draft, newer, listings, call, page, disturbed, historyVars, edits, sends>>

Form == [sheet : Entries, proof : Entries, terms : Entries]

FormOf(row) ==
  [sheet |-> row.sheet, terms |-> row.terms,
   proof |-> IF row.proof = Blank THEN FormProof ELSE row.proof]

\* upload is the list of photos an upload under way will save, 0 for none.
PageRecord ==
  [at : 0 .. MaxDrafts, copy : DraftRow, form : Form, active : Steps, publishing : BOOLEAN,
   upload : Photos]

ClosedPage ==
  [at |-> 0, copy |-> FreeRow, form |-> FormOf(FreeRow), active |-> "PRODUCT_MATCH",
   publishing |-> FALSE, upload |-> 0]

\* The rows keep to their columns, the tabs to their fields.  Code:
\* schema.prisma, models ListingDraft, Product and ProductMedia.
TypeOK ==
  /\ DraftsTypeOK
  /\ page \in [Pages -> PageRecord]
  /\ disturbed \in SUBSET DraftIds
  /\ publishingAtOnce \in [DraftIds -> Nat]
  /\ creatingAtOnce \in Nat
  /\ edits \in 0 .. MaxEdits
  /\ sends \in 0 .. MaxSends

Init ==
  /\ TablesInit
  /\ page = [p \in Pages |-> ClosedPage]
  /\ disturbed = {}
  /\ publishingAtOnce = [d \in DraftIds |-> 1] /\ creatingAtOnce = 1
  /\ edits = 0 /\ sends = 0

\* Requests past the checks of publishDraft, and past findFirst answering null.
Publishing(d) ==
  {c \in Calls : call[c].kind = "publish" /\ call[c].phase = "read" /\ call[c].at = d}

Creating == {c \in Calls : call[c].kind = "open" /\ call[c].phase = "read"}

InFlightOn(d) == {c \in Calls : call[c] # NoCall /\ call[c].at = d}

\* Tab p sends a request about draft d, 0 when it asks which one.
Send(p, kind, d, dto, next) ==
  /\ sends < MaxSends
  /\ sends' = sends + 1
  /\ \E c \in Calls :
       /\ call[c] = NoCall
       /\ call' = [call EXCEPT ![c] =
            [kind |-> kind, page |-> p, at |-> d, dto |-> dto, seen |-> FreeRow,
             phase |-> "sent", heard |-> TRUE, next |-> next]]
  /\ disturbed' = IF d # 0 /\ InFlightOn(d) # {} THEN disturbed \cup {d} ELSE disturbed
  /\ UNCHANGED tableVars

Edit == edits < MaxEdits /\ edits' = edits + 1

IsPublishedDraft(p) == page[p].copy.status = "PUBLISHED"

------------------------------------------------------------------------------
(* What the seller does *)

\* listings/new/page.tsx asks for the active draft.
OpenPage(p) ==
  /\ page[p].at = 0
  /\ \A c \in Calls : call[c].heard => call[c].page # p
  /\ Send(p, "open", 0, Nothing, "stay")
  /\ UNCHANGED <<page, edits>>

\* A field of the form of the step that is shown.
Fill(p, field, v) ==
  /\ page[p].at # 0 /\ Edit
  /\ page' = [page EXCEPT ![p].form[field] = v]
  /\ UNCHANGED <<draft, newer, listings, call, disturbed, sends>>

TypeSheet(p, v) == page[p].active = "PRODUCT_MATCH" /\ Fill(p, "sheet", v)

\* The condition is a list without an empty choice.
TypeProof(p, v) == page[p].active = "SECURITY" /\ v # Blank /\ Fill(p, "proof", v)

TypeTerms(p, v) == page[p].active = "LOGISTICS" /\ Fill(p, "terms", v)

\* Fault: the logistics form does not send the price that goes with the terms.
StepBodyWithoutPrice(p) ==
  LET form == page[p].form
  IN CASE page[p].active = "PRODUCT_MATCH" ->
            [Nothing EXCEPT !.sheet = IF form.sheet = Blank THEN Keep ELSE form.sheet]
       [] page[p].active = "SECURITY" -> [Nothing EXCEPT !.proof = form.proof]
       [] page[p].active = "LOGISTICS" -> [Nothing EXCEPT !.terms = form.terms]
       [] OTHER -> Nothing

\* The body persistStep sends: a field left empty is left out, except the
\* delivery methods of the terms.
StepBody(p) ==
  LET form == page[p].form
  IN CASE page[p].active = "PRODUCT_MATCH" ->
            [Nothing EXCEPT !.sheet = IF form.sheet = Blank THEN Keep ELSE form.sheet]
       [] page[p].active = "SECURITY" -> [Nothing EXCEPT !.proof = form.proof]
       [] page[p].active = "LOGISTICS" ->
            [Nothing EXCEPT !.terms = form.terms,
                            !.price = IF form.terms = Blank THEN Keep ELSE form.terms]
       [] OTHER -> Nothing

\* The buttons of the steps and "Guardar y continuar": persistStep, and once
\* it is answered the next step.  Gallery and review have nothing to save.
SaveStep(p, next) ==
  /\ page[p].at # 0
  /\ page[p].active \in {"GALLERY", "REVIEW"} => next # page[p].active
  /\ Send(p, "save", page[p].at, StepBody(p), next)
  /\ UNCHANGED <<page, edits>>

\* "Paso anterior": nothing is saved.  When the copy says another step, the effect
\* on activeStep makes a new draft object, and the forms are filled from it.
StepBack(p) ==
  /\ page[p].at # 0
  /\ \E i \in 2 .. Len(StepOrder) :
       /\ page[p].active = StepOrder[i]
       /\ \E form \in {page[p].form, FormOf(page[p].copy)} :
            page' = [page EXCEPT ![p].active = StepOrder[i - 1], ![p].form = form]
  /\ UNCHANGED <<draft, newer, listings, call, disturbed, edits, sends>>

\* "Usar esta ficha": a sheet of the catalogue is saved.
UseCatalogSheet(p, v) ==
  /\ page[p].at # 0 /\ page[p].active = "PRODUCT_MATCH"
  /\ Edit
  /\ Send(p, "save", page[p].at, [Nothing EXCEPT !.sheet = v], "stay")
  /\ UNCHANGED page

\* "Cargar manualmente": a body without any of the columns.
EnterManually(p) ==
  /\ page[p].at # 0 /\ page[p].active = "PRODUCT_MATCH"
  /\ Send(p, "save", page[p].at, Nothing, "stay")
  /\ UNCHANGED <<page, edits>>

\* uploadFiles: the list to save is made of the photos shown now.
StartUpload(p, n) ==
  /\ page[p].at # 0 /\ page[p].active = "GALLERY"
  /\ page[p].upload = 0
  /\ page[p].copy.photos + n \in Photos
  /\ Edit
  /\ page' = [page EXCEPT ![p].upload = page[p].copy.photos + n]
  /\ UNCHANGED <<draft, newer, listings, call, disturbed, sends>>

\* The files are stored: onChange saves the list.
FinishUpload(p) ==
  /\ page[p].upload # 0
  /\ Send(p, "save", page[p].at,
          [Nothing EXCEPT !.photos = page[p].upload], "stay")
  /\ page' = [page EXCEPT ![p].upload = 0]
  /\ UNCHANGED edits

UploadFails(p) ==
  /\ page[p].upload # 0
  /\ page' = [page EXCEPT ![p].upload = 0]
  /\ UNCHANGED <<draft, newer, listings, call, disturbed, edits, sends>>

\* "Quitar".
RemovePhoto(p) ==
  /\ page[p].at # 0 /\ page[p].active = "GALLERY" /\ page[p].copy.photos > 0
  /\ Edit
  /\ Send(p, "save", page[p].at,
          [Nothing EXCEPT !.photos = page[p].copy.photos - 1], "stay")
  /\ UNCHANGED page

\* "Publicar ahora": the location in the body is the one of the page's copy.
ClickPublish(p) ==
  /\ page[p].at # 0 /\ page[p].active = "REVIEW"
  /\ ~page[p].publishing /\ ~IsPublishedDraft(p)
  /\ Send(p, "publish", page[p].at,
          [Nothing EXCEPT !.terms = IF page[p].copy.terms = Blank THEN Keep
                                    ELSE page[p].copy.terms], "stay")
  /\ page' = [page EXCEPT ![p].publishing = TRUE]
  /\ UNCHANGED edits

\* The tab is closed or loaded again; the server works on.
LeavePage(p) ==
  /\ page[p].at # 0
  /\ page' = [page EXCEPT ![p] = ClosedPage]
  /\ call' = [c \in Calls |->
        IF call[c] # NoCall /\ call[c].page = p THEN [call[c] EXCEPT !.heard = FALSE] ELSE call[c]]
  /\ disturbed' = disturbed \cup {d \in {page[p].at} : InFlightOn(d) # {}}
  /\ UNCHANGED <<draft, newer, listings, edits, sends>>

------------------------------------------------------------------------------
(* What the page does with answers *)

Answered(c, kind) ==
  /\ call[c].kind = kind /\ call[c].heard
  /\ call[c].phase \in {"done", "failed"}

Forget(c) == call' = [call EXCEPT ![c] = NoCall]

\* The wizard is mounted on the draft answered; if the API refuses, the page
\* goes to the login form.
ShowPage(c) ==
  /\ Answered(c, "open")
  /\ LET p == call[c].page
         d == call[c].at
         row == call[c].seen
     IN IF call[c].phase = "failed"
        THEN UNCHANGED <<page, disturbed>>
        ELSE /\ \E step \in Steps :
                  page' = [page EXCEPT ![p] =
                    [ClosedPage EXCEPT !.at = d, !.copy = row, !.form = FormOf(row),
                                       !.active = step]]
             /\ disturbed' = IF (\E q \in Pages \ {p} : page[q].at = d)
                                \/ draft[d] # row \/ InFlightOn(d) # {c}
                             THEN disturbed \cup {d} ELSE disturbed
  /\ Forget(c)
  /\ UNCHANGED <<draft, newer, listings, edits, sends>>

\* setActiveStep, once persistStep has ended without an error.
NextStep(c) == IF call[c].next = "stay" THEN page[call[c].page].active ELSE call[c].next

\* Fault: what is answered is not put in the copy.
SaveAnsweredUnused(c) ==
  /\ Answered(c, "save")
  /\ page' = IF call[c].phase = "failed" THEN page
             ELSE [page EXCEPT ![call[c].page].active = NextStep(c)]
  /\ Forget(c)
  /\ UNCHANGED <<draft, newer, listings, disturbed, edits, sends>>

\* saveDraft answered: setDraft, the forms from the new copy, and the step.  An
\* error leaves the page as it is.
SaveAnswered(c) ==
  /\ Answered(c, "save")
  /\ LET p == call[c].page
     IN page' = IF call[c].phase = "failed" THEN page
                ELSE [page EXCEPT ![p].copy = call[c].seen,
                                  ![p].form = FormOf(call[c].seen),
                                  ![p].active = NextStep(c)]
  /\ Forget(c)
  /\ UNCHANGED <<draft, newer, listings, disturbed, edits, sends>>

\* Fault: the error path does not end the transition.
PublishAnsweredStuck(c) ==
  /\ Answered(c, "publish")
  /\ LET p == call[c].page
     IN page' = IF call[c].phase = "failed" THEN page
                ELSE [page EXCEPT ![p].publishing = FALSE, ![p].copy = call[c].seen,
                                  ![p].form = FormOf(call[c].seen)]
  /\ Forget(c)
  /\ UNCHANGED <<draft, newer, listings, disturbed, edits, sends>>

PublishAnswered(c) ==
  /\ Answered(c, "publish")
  /\ LET p == call[c].page
     IN page' = IF call[c].phase = "failed" THEN [page EXCEPT ![p].publishing = FALSE]
                ELSE [page EXCEPT ![p].publishing = FALSE, ![p].copy = call[c].seen,
                                  ![p].form = FormOf(call[c].seen)]
  /\ Forget(c)
  /\ UNCHANGED <<draft, newer, listings, disturbed, edits, sends>>

\* The connection breaks while the server works: the page sees an error.
AnswerLost(c) ==
  /\ call[c].heard
  /\ call' = [call EXCEPT ![c].heard = FALSE]
  /\ page' = IF call[c].kind = "publish" THEN [page EXCEPT ![call[c].page].publishing = FALSE]
             ELSE page
  /\ disturbed' = disturbed \cup ({call[c].at} \ {0})
  /\ UNCHANGED <<draft, newer, listings, edits, sends>>

\* A request nobody waits for ends at the server.
Unheard(c) ==
  /\ call[c].phase \in {"done", "failed"} /\ ~call[c].heard
  /\ Forget(c)
  /\ UNCHANGED <<draft, newer, listings, page, disturbed, edits, sends>>

UserStep ==
  /\ \E p \in Pages :
       \/ OpenPage(p) \/ StepBack(p) \/ LeavePage(p)
       \/ \E v \in Entries : TypeSheet(p, v) \/ TypeProof(p, v) \/ TypeTerms(p, v)
       \/ \E next \in Steps : SaveStep(p, next)
       \/ \E v \in Values : UseCatalogSheet(p, v)
       \/ EnterManually(p)
       \/ \E n \in 1 .. MaxPhotos : StartUpload(p, n)
       \/ FinishUpload(p) \/ UploadFails(p) \/ RemovePhoto(p)
       \/ ClickPublish(p)
  /\ UNCHANGED historyVars

Answering(c) ==
  /\ ShowPage(c) \/ SaveAnswered(c) \/ PublishAnswered(c) \/ AnswerLost(c) \/ Unheard(c)
  /\ UNCHANGED historyVars

AtLeast(n, set) == IF Cardinality(set) > n THEN Cardinality(set) ELSE n

Serving(c) ==
  /\ ServerStep(c)
  /\ publishingAtOnce' = [d \in DraftIds |-> AtLeast(publishingAtOnce[d], Publishing(d)')]
  /\ creatingAtOnce' = AtLeast(creatingAtOnce, Creating')
  /\ UNCHANGED <<page, disturbed, edits, sends>>

Next == UserStep \/ \E c \in Calls : Serving(c) \/ Answering(c)

Spec == Init /\ [][Next]_vars

------------------------------------------------------------------------------
(* Properties *)

\* However many tabs and requests there are, a draft becomes at most as many
\* listings as requests the server has published it with at once: one when they
\* do not overlap, whatever answers are lost and clicks repeated.  Code:
\* publishDraft checks the status in its snapshot and not in its transaction.
ListingsBounded ==
  \A d \in DraftIds :
    Len(listings[d]) + Cardinality(Publishing(d)) <= publishingAtOnce[d]

\* The seller has at most as many open drafts as requests have created at once.
\* Code: getOrCreateActiveDraft looks for one, and creates one later.
OpenDraftsBounded == Cardinality(OpenDrafts) + Cardinality(Creating) <= creatingAtOnce

\* A listing exists exactly for the drafts that say so.  Code: one transaction of
\* publishDraft creates the listing and closes the draft; updateDraft may still
\* write a published one.
PublishedIffListed ==
  \A d \in DraftIds : draft[d].status = "PUBLISHED" <=> listings[d] # <<>>

\* Every listing shows a complete draft, even when the draft is edited between
\* the checks of publishDraft and its transaction.
ListingsComplete ==
  \A d \in DraftIds : \A i \in DOMAIN listings[d] :
    LET l == listings[d][i]
    IN Blank \notin {l.sheet, l.proof, l.price, l.place} /\ l.photos >= MinPhotos

\* What the page knows of the draft and shows beside the steps.
Summary(p) ==
  LET row == page[p].copy
  IN [sheet |-> row.sheet, proof |-> row.proof, price |-> row.price, place |-> row.terms,
      photos |-> row.photos]

\* A seller with one tab whose requests were all answered one by one publishes
\* a draft once, and the listing shows what the review step of the page showed.
\* Code: saveDraft puts every answer in the copy; publishDraft reads the rows.
PublishedAsReviewed ==
  [][\A d \in DraftIds :
       listings'[d] # listings[d] /\ d \notin disturbed =>
         \E p \in Pages :
           page[p].at = d /\ listings'[d] = <<Summary(p)>>]_vars

\* The copy of a page at rest is the draft as stored, unless requests overlapped,
\* an answer was lost or another tab had the draft open.  Code: updateDraft
\* answers with the rows it wrote, saveDraft keeps them.
PageAgrees ==
  \A p \in Pages :
    LET d == page[p].at
    IN d # 0 /\ d \notin disturbed /\ InFlightOn(d) = {} => page[p].copy = draft[d]

\* The asking price is the one of the terms, unless requests overlapped: a save
\* of another step rewrites the price it had read.  Code: updateDraft,
\* askingPrice.
PriceFollowsTerms ==
  \A d \in DraftIds \ disturbed :
    draft[d].status = "OPEN" /\ draft[d].terms # Blank => draft[d].price = draft[d].terms

\* While the publish button waits, the request it waits for exists and its answer
\* or its loss will give the button back.  Code: startPublishTransition.
PublishingWaits ==
  \A p \in Pages : page[p].publishing =>
    \E c \in Calls : call[c].kind = "publish" /\ call[c].page = p /\ call[c].heard
=============================================================================

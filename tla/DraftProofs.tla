---------------------------- MODULE DraftProofs -----------------------------
(***************************************************************************)
(* What holds of a seller's drafts and listings however many tabs, clicks  *)
(* and requests there are, and however complete the rows are that the      *)
(* first visit finds: listings are complete, drafts say whether they were  *)
(* published, and only requests that overlap make more than one.           *)
(***************************************************************************)
EXTENDS ListingWizard, FiniteSetTheorems, TLAPS

Records == CallRecord \cup {NoCall}

\* An upload belongs to an open page.
PagesTyped ==
  /\ page \in [Pages -> PageRecord]
  /\ \A p \in Pages : page[p].upload # 0 => page[p].at # 0

Sound ==
  /\ draft \in [DraftIds -> DraftRow]
  /\ listings \in [DraftIds -> Seq(Listing)]
  /\ call \in [Calls -> Records]
  /\ PagesTyped
  /\ \A c \in Calls : call[c].kind \in {"save", "publish"} => call[c].at \in DraftIds
  /\ \A c \in Calls : call[c].phase = "done" => call[c].at \in DraftIds

\* The steps of the wizard, said without the sequence.
LEMMA StepsAre ==
  /\ Steps = {"PRODUCT_MATCH", "GALLERY", "SECURITY", "LOGISTICS", "REVIEW"}
  /\ \A i \in 1 .. Len(StepOrder) : StepOrder[i] \in Steps
<1>1. DOMAIN StepOrder = 1 .. 5 /\ Len(StepOrder) = 5
  BY DEF StepOrder
<1>2. \A i \in 1 .. 5 : i = 1 \/ i = 2 \/ i = 3 \/ i = 4 \/ i = 5
  OBVIOUS
<1>3. /\ StepOrder[1] = "PRODUCT_MATCH" /\ StepOrder[2] = "GALLERY"
      /\ StepOrder[3] = "SECURITY" /\ StepOrder[4] = "LOGISTICS" /\ StepOrder[5] = "REVIEW"
  BY DEF StepOrder
<1> QED BY <1>1, <1>2, <1>3 DEF Steps

\* A row written by updateDraft is a row, whatever its snapshot and its body.
LEMMA UpdatedRowType ==
  ASSUME NEW row \in DraftRow, NEW seen \in DraftRow, NEW dto \in UpdateDto
  PROVE  /\ UpdatedRow(row, seen, dto) \in DraftRow
         /\ UpdatedRow(row, seen, dto).status = row.status
<1>1. /\ Or(dto.sheet, seen.sheet) \in Entries
      /\ Or(dto.proof, IF seen.proof = Blank THEN DefaultProof ELSE seen.proof) \in Entries
      /\ Or(dto.price, IF seen.price = Blank THEN row.price ELSE seen.price) \in Entries
      /\ Or(dto.terms, row.terms) \in Entries
      /\ Or(dto.photos, row.photos) \in Photos
  BY DefaultIsValue DEF Or, DraftRow, UpdateDto, Entries
<1> QED BY <1>1 DEF UpdatedRow, DraftRow

\* The forms of a page are filled from a row with what may be typed in them.
LEMMA FormType ==
  ASSUME NEW row \in DraftRow
  PROVE  FormOf(row) \in Form
BY FormProofType DEF FormOf, Form, DraftRow, Entries

\* The rows and tabs nothing has been done with.
LEMMA EmptyTypes ==
  /\ FreeRow \in DraftRow
  /\ ClosedPage \in PageRecord
  /\ Nothing \in UpdateDto
<1>1. FreeRow \in DraftRow
  BY PhotoBounds DEF FreeRow, DraftRow, Entries, Photos
<1> QED BY <1>1, FormType, StepsAre, MaxDraftsType, PhotoBounds
        DEF ClosedPage, PageRecord, Nothing, UpdateDto, Photos

\* An answer leaves the request typed and about a draft.
LEMMA AnswerType ==
  ASSUME Sound, NEW c \in Calls, call[c] \in CallRecord, NEW d \in DraftIds,
         NEW row \in DraftRow, AnswerWith(c, d, row)
  PROVE  /\ call' \in [Calls -> Records]
         /\ \A b \in Calls : call'[b].kind = call[b].kind
         /\ \A b \in Calls : call'[b].kind \in {"save", "publish"} => call'[b].at \in DraftIds
         /\ \A b \in Calls : call'[b].phase = "done" => call'[b].at \in DraftIds
<1>1. call'[c] = [call[c] EXCEPT !.at = d, !.seen = row, !.phase = "done"]
  BY DEF AnswerWith, Sound
<1>0. d \in 0 .. MaxDrafts
  BY MaxDraftsType DEF DraftIds
<1>2. [call[c] EXCEPT !.at = d, !.seen = row, !.phase = "done"] \in CallRecord
  BY <1>0 DEF CallRecord
<1>3. \A b \in Calls \ {c} : call'[b] = call[b]
  BY DEF AnswerWith, Sound
<1>4. call' \in [Calls -> Records]
  BY <1>1, <1>2 DEF AnswerWith, Sound, Records
<1>5. call'[c].at = d /\ call'[c].kind = call[c].kind
  BY <1>1 DEF CallRecord
<1>6. ASSUME NEW b \in Calls
      PROVE  /\ call'[b].kind = call[b].kind
             /\ call'[b].kind \in {"save", "publish"} => call'[b].at \in DraftIds
             /\ call'[b].phase = "done" => call'[b].at \in DraftIds
  BY <1>3, <1>5 DEF Sound
<1> QED BY <1>4, <1>6

\* A request that goes on stays typed.
LEMMA PhaseType ==
  ASSUME Sound, NEW c \in Calls, call[c] \in CallRecord, NEW p \in {"read", "failed"},
         SetPhase(c, p)
  PROVE  /\ call' \in [Calls -> Records]
         /\ \A b \in Calls : call'[b].kind = call[b].kind
         /\ \A b \in Calls : call'[b].kind \in {"save", "publish"} => call'[b].at \in DraftIds
         /\ \A b \in Calls : call'[b].phase = "done" => call'[b].at \in DraftIds
<1>1. call'[c] = [call[c] EXCEPT !.phase = p]
  BY DEF SetPhase, Sound
<1>2. [call[c] EXCEPT !.phase = p] \in CallRecord
  BY DEF CallRecord
<1>3. \A b \in Calls \ {c} : call'[b] = call[b]
  BY DEF SetPhase, Sound
<1>4. call' \in [Calls -> Records]
  BY <1>1, <1>2 DEF SetPhase, Sound, Records
<1>5. call'[c].at = call[c].at /\ call'[c].kind = call[c].kind /\ call'[c].phase # "done"
  BY <1>1 DEF CallRecord
<1> QED BY <1>3, <1>4, <1>5 DEF Sound

\* A request is idle or typed, and idle ones are none of the wizard's.
LEMMA KindsOfCalls ==
  ASSUME Sound, NEW c \in Calls, call[c].kind # "none"
  PROVE  call[c] \in CallRecord
BY DEF Sound, Records, NoCall

-----------------------------------------------------------------------------
(* Types                                                                     *)

\* What a step of the server leaves as it was, and what it keeps typed.
ServerKeeps ==
  /\ draft' \in [DraftIds -> DraftRow]
  /\ listings' \in [DraftIds -> Seq(Listing)]
  /\ call' \in [Calls -> Records]
  /\ \A b \in Calls : call'[b].kind = call[b].kind
  /\ \A b \in Calls : call'[b].kind \in {"save", "publish"} => call'[b].at \in DraftIds
  /\ \A b \in Calls : call'[b].phase = "done" => call'[b].at \in DraftIds

\* A listing made of a complete snapshot is a listing.
LEMMA ListingType ==
  ASSUME NEW seen \in DraftRow, NEW dto \in UpdateDto
  PROVE  [sheet |-> seen.sheet, proof |-> seen.proof, price |-> seen.price,
          place |-> PlaceOf(seen, dto), photos |-> seen.photos] \in Listing
BY DEF DraftRow, UpdateDto, Listing, PlaceOf, Or, Entries

\* Every handler writes rows that are typed and answers with one.
LEMMA ServerSound ==
  ASSUME Sound, NEW c \in Calls, ServerStep(c)
  PROVE  ServerKeeps
<1>0. call[c] \in CallRecord
  <2>1. call[c].kind # "none" \/ call[c].phase # "idle"
    BY DEF ServerStep, ActiveDraftFound, NoActiveDraft, CreateDraft, ReadDraft,
       UpdateDraft, PublishRead, PublishDraft, CallFails
  <2> QED BY <2>1 DEF NoCall, Sound, Records
<1>a. /\ call[c].at \in 0 .. MaxDrafts /\ call[c].seen \in DraftRow
      /\ call[c].dto \in UpdateDto
  BY <1>0 DEF CallRecord
<1>1. CASE ActiveDraftFound(c)
  <2>1. PICK d \in DraftIds : AnswerWith(c, d, draft[d])
    BY <1>1 DEF ActiveDraftFound, OpenDrafts
  <2>2. draft[d] \in DraftRow
    BY DEF Sound
  <2> QED BY <1>0, <1>1, <2>1, <2>2, AnswerType
          DEF ActiveDraftFound, ServerKeeps, Sound, tableVars
<1>2. CASE NoActiveDraft(c)
  BY <1>0, <1>2, PhaseType DEF NoActiveDraft, ServerKeeps, Sound, tableVars
<1>3. CASE CreateDraft(c)
  <2>1. PICK d \in DraftIds :
          /\ draft' = [draft EXCEPT ![d].status = "OPEN"]
          /\ AnswerWith(c, d, [FreeRow EXCEPT !.status = "OPEN"])
    BY <1>3 DEF CreateDraft
  <2>2. [FreeRow EXCEPT !.status = "OPEN"] \in DraftRow
    BY EmptyTypes DEF DraftRow
  <2>3. draft' \in [DraftIds -> DraftRow]
    BY <2>1 DEF Sound, DraftRow
  <2> QED BY <1>0, <1>3, <2>1, <2>2, <2>3, AnswerType DEF CreateDraft, ServerKeeps, Sound
<1>4. CASE ReadDraft(c)
  <2>1. call[c].at \in DraftIds
    BY <1>4 DEF ReadDraft, Sound
  <2>2. draft[call[c].at] \in DraftRow
    BY <2>1 DEF Sound
  <2>3. [call[c] EXCEPT !.phase = "read", !.seen = draft[call[c].at]] \in CallRecord
    BY <1>0, <2>2 DEF CallRecord
  <2>4. call' = [call EXCEPT ![c] = [call[c] EXCEPT !.phase = "read",
                                                    !.seen = draft[call[c].at]]]
    BY <1>4 DEF ReadDraft
  <2>5. call' \in [Calls -> Records]
    BY <2>3, <2>4 DEF Sound, Records
  <2>6. /\ call'[c].kind = call[c].kind /\ call'[c].at = call[c].at
        /\ call'[c].phase # "done"
        /\ \A b \in Calls \ {c} : call'[b] = call[b]
    BY <1>0, <2>4 DEF Sound, CallRecord
  <2>7. ASSUME NEW b \in Calls
        PROVE  /\ call'[b].kind = call[b].kind
               /\ call'[b].kind \in {"save", "publish"} => call'[b].at \in DraftIds
               /\ call'[b].phase = "done" => call'[b].at \in DraftIds
    BY <2>6 DEF Sound
  <2> QED BY <1>4, <2>5, <2>7 DEF ReadDraft, ServerKeeps, Sound, tableVars
<1>5. CASE UpdateDraft(c)
  <2> DEFINE d == call[c].at
             row == UpdatedRow(draft[d], call[c].seen, call[c].dto)
  <2>1. d \in DraftIds
    BY <1>5 DEF UpdateDraft, Sound
  <2>2. draft[d] \in DraftRow
    BY <2>1 DEF Sound
  <2>3. row \in DraftRow
    BY <1>a, <2>2, UpdatedRowType
  <2>4. draft' = [draft EXCEPT ![d] = row] /\ AnswerWith(c, d, row)
    BY <1>5 DEF UpdateDraft
  <2>5. draft' \in [DraftIds -> DraftRow]
    BY <2>1, <2>3, <2>4 DEF Sound
  <2> HIDE DEF d, row
  <2> QED BY <1>0, <1>5, <2>1, <2>3, <2>4, <2>5, AnswerType
          DEF UpdateDraft, ServerKeeps, Sound
<1>6. CASE PublishRead(c)
  <2>1. call[c].at \in DraftIds
    BY <1>6 DEF PublishRead, Sound
  <2>2. CASE SetPhase(c, "failed")
    BY <1>0, <1>6, <2>2, PhaseType DEF PublishRead, ServerKeeps, Sound, tableVars
  <2>3. CASE call' = [call EXCEPT ![c].phase = "read", ![c].seen = draft[call[c].at]]
    <3>2. draft[call[c].at] \in DraftRow
      BY <2>1 DEF Sound
    <3>3. [call[c] EXCEPT !.phase = "read", !.seen = draft[call[c].at]] \in CallRecord
      BY <1>0, <3>2 DEF CallRecord
    <3>5. call' \in [Calls -> Records]
      BY <2>3, <3>3 DEF Sound, Records
    <3>6. /\ call'[c].kind = call[c].kind /\ call'[c].at = call[c].at
          /\ call'[c].phase # "done"
          /\ \A b \in Calls \ {c} : call'[b] = call[b]
      BY <1>0, <2>3 DEF Sound, CallRecord
    <3>7. ASSUME NEW b \in Calls
          PROVE  /\ call'[b].kind = call[b].kind
                 /\ call'[b].kind \in {"save", "publish"} => call'[b].at \in DraftIds
                 /\ call'[b].phase = "done" => call'[b].at \in DraftIds
      BY <3>6 DEF Sound
    <3> QED BY <1>6, <3>5, <3>7 DEF PublishRead, ServerKeeps, Sound, tableVars
  <2> QED BY <1>6, <2>2, <2>3 DEF PublishRead
<1>7. CASE PublishDraft(c)
  <2> DEFINE d == call[c].at
             row == [draft[d] EXCEPT !.status = "PUBLISHED"]
             made == [sheet |-> call[c].seen.sheet, proof |-> call[c].seen.proof,
                      price |-> call[c].seen.price,
                      place |-> PlaceOf(call[c].seen, call[c].dto),
                      photos |-> call[c].seen.photos]
  <2>1. d \in DraftIds
    BY <1>7 DEF PublishDraft, Sound
  <2>2. row \in DraftRow
    BY <2>1 DEF Sound, DraftRow
  <2>3. made \in Listing
    BY <1>a, ListingType
  <2>4. /\ draft' = [draft EXCEPT ![d] = row] /\ AnswerWith(c, d, row)
        /\ listings' = [listings EXCEPT ![d] = Append(@, made)]
    BY <1>7 DEF PublishDraft
  <2>5. draft' \in [DraftIds -> DraftRow]
    BY <2>1, <2>2, <2>4 DEF Sound
  <2> HIDE DEF d, row, made
  <2>6. listings[d] \in Seq(Listing)
    BY <2>1 DEF Sound
  <2>7. Append(listings[d], made) \in Seq(Listing)
    BY <2>3, <2>6
  <2>8. listings' \in [DraftIds -> Seq(Listing)]
    BY <2>1, <2>4, <2>7 DEF Sound
  <2> QED BY <1>0, <2>1, <2>2, <2>4, <2>5, <2>8, AnswerType DEF ServerKeeps
<1>8. CASE CallFails(c)
  BY <1>0, <1>8, PhaseType DEF CallFails, ServerKeeps, Sound, tableVars
<1> QED BY <1>1, <1>2, <1>3, <1>4, <1>5, <1>6, <1>7, <1>8 DEF ServerStep

\* Requests the server is working on go on with what they have read.
ReadsKept ==
  \A b \in Calls : call[b].phase = "read" \/ call'[b].phase = "read" =>
    /\ call'[b].kind = call[b].kind /\ call'[b].phase = call[b].phase
    /\ call'[b].at = call[b].at /\ call'[b].seen = call[b].seen
    /\ call'[b].dto = call[b].dto

\* What a step of the seller or of a page leaves as it was, and what it keeps typed.
PageKeeps ==
  /\ PagesTyped'
  /\ call' \in [Calls -> Records]
  /\ \A b \in Calls : call'[b].kind \in {"save", "publish"} => call'[b].at \in DraftIds
  /\ \A b \in Calls : call'[b].phase = "done" => call'[b].at \in DraftIds
  /\ ReadsKept
  /\ UNCHANGED tableVars

\* A page sends requests that are typed.
LEMMA SendType ==
  ASSUME Sound, NEW p \in Pages, NEW kind \in {"open", "save", "publish"},
         NEW d \in 0 .. MaxDrafts, kind # "open" => d \in DraftIds, NEW dto \in UpdateDto,
         NEW next \in Steps \cup {"stay"}, Send(p, kind, d, dto, next)
  PROVE  /\ call' \in [Calls -> Records]
         /\ \A b \in Calls : call'[b].kind \in {"save", "publish"} => call'[b].at \in DraftIds
         /\ \A b \in Calls : call'[b].phase = "done" => call'[b].at \in DraftIds
         /\ ReadsKept
         /\ UNCHANGED tableVars
<1> DEFINE fresh == [kind |-> kind, page |-> p, at |-> d, dto |-> dto, seen |-> FreeRow,
                     phase |-> "sent", heard |-> TRUE, next |-> next]
<1>1. PICK c \in Calls : call[c] = NoCall /\ call' = [call EXCEPT ![c] = fresh]
  BY DEF Send
<1>2. fresh \in CallRecord
  BY EmptyTypes DEF CallRecord
<1>3. /\ fresh.kind = kind /\ fresh.page = p /\ fresh.at = d
      /\ fresh.phase = "sent" /\ fresh.heard
  OBVIOUS
<1> HIDE DEF fresh
<1>4. call' \in [Calls -> Records]
  BY <1>1, <1>2 DEF Sound, Records
<1>5. call'[c] = fresh /\ \A b \in Calls \ {c} : call'[b] = call[b]
  BY <1>1 DEF Sound
<1>6. ASSUME NEW b \in Calls
      PROVE  /\ call'[b].kind \in {"save", "publish"} => call'[b].at \in DraftIds
             /\ call'[b].phase = "done" => call'[b].at \in DraftIds
  BY <1>3, <1>5 DEF Sound
<1>8. ReadsKept
  BY <1>1, <1>3, <1>5 DEF ReadsKept, NoCall
<1> QED BY <1>4, <1>6, <1>8 DEF Send

\* The draft of an open page.
LEMMA PageFields ==
  ASSUME Sound, NEW p \in Pages
  PROVE  /\ page[p].at \in 0 .. MaxDrafts
         /\ page[p].at # 0 => page[p].at \in DraftIds
         /\ page[p].copy \in DraftRow /\ page[p].form \in Form
         /\ page[p].active \in Steps /\ page[p].upload \in Photos
         /\ page[p].publishing \in BOOLEAN
         /\ page[p].upload # 0 => page[p].at # 0
BY MaxDraftsType DEF Sound, PagesTyped, PageRecord, DraftIds

\* A page sends requests about its own draft.
LEMMA SaveType ==
  ASSUME Sound, NEW p \in Pages, page[p].at # 0, NEW kind \in {"save", "publish"},
         NEW dto \in UpdateDto, NEW next \in Steps \cup {"stay"},
         Send(p, kind, page[p].at, dto, next), PagesTyped'
  PROVE  PageKeeps
<1> DEFINE d == page[p].at
<1>1. d \in 0 .. MaxDrafts /\ d \in DraftIds
  BY PageFields
<1>2. Send(p, kind, d, dto, next) /\ kind \in {"open", "save", "publish"}
  OBVIOUS
<1> HIDE DEF d
<1> QED BY <1>1, <1>2, SendType DEF PageKeeps

\* A page that is written with a typed row.
LEMMA PageWritten ==
  ASSUME Sound, NEW p \in Pages, NEW row \in PageRecord, row.upload # 0 => row.at # 0,
         page' = [page EXCEPT ![p] = row]
  PROVE  PagesTyped'
BY DEF Sound, PagesTyped

\* And one that is not written.
LEMMA PagesSame ==
  ASSUME Sound, page' = page
  PROVE  PagesTyped'
BY DEF Sound, PagesTyped

\* persistStep sends what the form of the step may hold.
LEMMA StepBodyType ==
  ASSUME Sound, NEW p \in Pages
  PROVE  StepBody(p) \in UpdateDto
<1>1. page[p].form \in Form
  BY PageFields
<1>2. /\ page[p].form.sheet \in Entries /\ page[p].form.proof \in Entries
      /\ page[p].form.terms \in Entries
  BY <1>1 DEF Form
<1>3. /\ [Nothing EXCEPT !.sheet = IF page[p].form.sheet = Blank THEN Keep
                                   ELSE page[p].form.sheet] \in UpdateDto
      /\ [Nothing EXCEPT !.proof = page[p].form.proof] \in UpdateDto
      /\ [Nothing EXCEPT !.terms = page[p].form.terms,
                         !.price = IF page[p].form.terms = Blank THEN Keep
                                   ELSE page[p].form.terms] \in UpdateDto
      /\ Nothing \in UpdateDto
  BY <1>2 DEF Nothing, UpdateDto
<1> QED BY <1>3 DEF StepBody

\* Whatever the seller does, pages and requests stay typed.
LEMMA UserSound ==
  ASSUME Sound, UserStep
  PROVE  PageKeeps
<1>a. PICK p \in Pages :
        \/ OpenPage(p) \/ StepBack(p) \/ LeavePage(p)
        \/ \E v \in Entries : TypeSheet(p, v) \/ TypeProof(p, v) \/ TypeTerms(p, v)
        \/ \E next \in Steps : SaveStep(p, next)
        \/ \E v \in Values : UseCatalogSheet(p, v)
        \/ EnterManually(p)
        \/ \E n \in 1 .. MaxPhotos : StartUpload(p, n)
        \/ FinishUpload(p) \/ UploadFails(p) \/ RemovePhoto(p)
        \/ ClickPublish(p)
  BY DEF UserStep
<1>b. /\ page[p] \in PageRecord /\ page[p].copy \in DraftRow /\ page[p].form \in Form
      /\ page[p].at \in 0 .. MaxDrafts /\ page[p].upload \in Photos
      /\ page[p].at # 0 => page[p].at \in DraftIds
      /\ page[p].upload # 0 => page[p].at # 0
  BY PageFields DEF Sound, PagesTyped
<1>1. CASE OpenPage(p)
  <2>1. Send(p, "open", 0, Nothing, "stay") /\ page' = page
    BY <1>1 DEF OpenPage
  <2>2. 0 \in 0 .. MaxDrafts
    BY MaxDraftsType
  <2> QED BY <2>1, <2>2, SendType, EmptyTypes, PagesSame DEF PageKeeps
<1>2. CASE StepBack(p)
  <2>1. PICK i \in 2 .. Len(StepOrder), form \in {page[p].form, FormOf(page[p].copy)} :
          page' = [page EXCEPT ![p].active = StepOrder[i - 1], ![p].form = form]
    BY <1>2 DEF StepBack
  <2>2. form \in Form
    BY <1>b, <2>1, FormType
  <2>3. StepOrder[i - 1] \in Steps
    <3>1. Len(StepOrder) \in Nat /\ i - 1 \in 1 .. Len(StepOrder)
      BY DEF StepOrder
    <3> QED BY <3>1, StepsAre
  <2>4. [page[p] EXCEPT !.active = StepOrder[i - 1], !.form = form] \in PageRecord
    BY <1>b, <2>2, <2>3 DEF PageRecord
  <2>5. page' = [page EXCEPT ![p] =
                   [page[p] EXCEPT !.active = StepOrder[i - 1], !.form = form]]
    BY <2>1
  <2>6. PagesTyped'
    <3>1. page[p].upload # 0 => page[p].at # 0
      BY PageFields
    <3>2. [page[p] EXCEPT !.active = StepOrder[i - 1], !.form = form].upload = page[p].upload
          /\ [page[p] EXCEPT !.active = StepOrder[i - 1], !.form = form].at = page[p].at
      BY <1>b DEF PageRecord
    <3> QED BY <2>4, <2>5, <3>1, <3>2, PageWritten
  <2> QED BY <1>2, <2>6 DEF StepBack, PageKeeps, Sound, tableVars, ReadsKept
<1>3. CASE LeavePage(p)
  <2>1. PagesTyped'
    BY <1>3, EmptyTypes, PageWritten DEF LeavePage, ClosedPage
  <2>2. ASSUME NEW c \in Calls
        PROVE  /\ call'[c] \in Records
               /\ call'[c].kind = call[c].kind /\ call'[c].at = call[c].at
               /\ call'[c].phase = call[c].phase
               /\ call'[c].seen = call[c].seen /\ call'[c].dto = call[c].dto
    <3>1. CASE call[c] # NoCall /\ call[c].page = p
      <4>1. call'[c] = [call[c] EXCEPT !.heard = FALSE]
        BY <1>3, <3>1 DEF LeavePage
      <4>2. call[c] \in CallRecord
        BY <3>1 DEF Sound, Records
      <4> QED BY <4>1, <4>2 DEF CallRecord, Records
    <3>2. CASE ~(call[c] # NoCall /\ call[c].page = p)
      BY <1>3, <3>2 DEF LeavePage, Sound
    <3> QED BY <3>1, <3>2
  <2>3. call' \in [Calls -> Records]
    BY <1>3, <2>2 DEF LeavePage
  <2> QED BY <1>3, <2>1, <2>2, <2>3 DEF LeavePage, PageKeeps, Sound, tableVars, ReadsKept
<1>4. ASSUME NEW v \in Entries, TypeSheet(p, v) \/ TypeProof(p, v) \/ TypeTerms(p, v)
      PROVE  PageKeeps
  <2>1. PICK field \in {"sheet", "proof", "terms"} : Fill(p, field, v)
    BY <1>4 DEF TypeSheet, TypeProof, TypeTerms
  <2>2. [page[p].form EXCEPT ![field] = v] \in Form
    BY <1>b DEF Form
  <2>3. [page[p] EXCEPT !.form = [page[p].form EXCEPT ![field] = v]] \in PageRecord
    BY <1>b, <2>2 DEF PageRecord
  <2>4. page' = [page EXCEPT ![p] = [page[p] EXCEPT !.form = [page[p].form EXCEPT ![field] = v]]]
    BY <2>1 DEF Fill
  <2>5. PagesTyped'
    BY <1>b, <2>3, <2>4, PageWritten DEF PageRecord
  <2> QED BY <2>1, <2>5 DEF Fill, PageKeeps, Sound, tableVars, ReadsKept
<1>5. ASSUME NEW next \in Steps, SaveStep(p, next)
      PROVE  PageKeeps
  <2>1. /\ Send(p, "save", page[p].at, StepBody(p), next)
        /\ page[p].at # 0 /\ page' = page /\ StepBody(p) \in UpdateDto
    BY <1>5, StepBodyType DEF SaveStep
  <2> QED BY <2>1, SaveType, PagesSame
<1>6. ASSUME NEW v \in Values, UseCatalogSheet(p, v)
      PROVE  PageKeeps
  <2>1. [Nothing EXCEPT !.sheet = v] \in UpdateDto
    BY DEF Nothing, UpdateDto, Entries
  <2>2. /\ Send(p, "save", page[p].at, [Nothing EXCEPT !.sheet = v], "stay")
        /\ page[p].at # 0 /\ page' = page
    BY <1>6 DEF UseCatalogSheet
  <2> QED BY <2>1, <2>2, SaveType, PagesSame
<1>7. CASE EnterManually(p)
  <2>1. /\ Send(p, "save", page[p].at, Nothing, "stay")
        /\ page[p].at # 0 /\ page' = page
    BY <1>7 DEF EnterManually
  <2> QED BY <2>1, EmptyTypes, SaveType, PagesSame
<1>8. ASSUME NEW n \in 1 .. MaxPhotos, StartUpload(p, n)
      PROVE  PageKeeps
  <2>1. [page[p] EXCEPT !.upload = page[p].copy.photos + n] \in PageRecord
    BY <1>b, <1>8 DEF StartUpload, PageRecord
  <2>2. PagesTyped'
    BY <1>b, <1>8, <2>1, PageWritten DEF StartUpload, PageRecord
  <2> QED BY <1>8, <2>2 DEF StartUpload, PageKeeps, Sound, tableVars, ReadsKept
<1>9. CASE FinishUpload(p) \/ UploadFails(p)
  <2>0. 0 \in Photos
    BY PhotoBounds DEF Photos
  <2>1. [page[p] EXCEPT !.upload = 0] \in PageRecord
    BY <1>b, <2>0 DEF PageRecord
  <2>2. PagesTyped'
    BY <1>b, <1>9, <2>1, PageWritten DEF FinishUpload, UploadFails, PageRecord
  <2>3. CASE UploadFails(p)
    BY <2>2, <2>3 DEF UploadFails, PageKeeps, Sound, tableVars, ReadsKept
  <2>4. CASE FinishUpload(p)
    <3>1. [Nothing EXCEPT !.photos = page[p].upload] \in UpdateDto
      BY <1>b DEF Nothing, UpdateDto
    <3>2. Send(p, "save", page[p].at, [Nothing EXCEPT !.photos = page[p].upload], "stay")
      BY <2>4 DEF FinishUpload
    <3>3. page[p].at # 0
      BY <1>b, <2>4 DEF FinishUpload
    <3> QED BY <2>2, <3>1, <3>2, <3>3, SaveType
  <2> QED BY <1>9, <2>3, <2>4
<1>10. CASE RemovePhoto(p)
  <2>1. page[p].copy.photos - 1 \in Photos
    BY <1>b, <1>10, PhotoBounds DEF RemovePhoto, DraftRow, Photos
  <2>2. [Nothing EXCEPT !.photos = page[p].copy.photos - 1] \in UpdateDto
    BY <2>1 DEF Nothing, UpdateDto
  <2>3. /\ Send(p, "save", page[p].at,
                [Nothing EXCEPT !.photos = page[p].copy.photos - 1], "stay")
        /\ page[p].at # 0 /\ page' = page
    BY <1>10 DEF RemovePhoto
  <2> QED BY <2>2, <2>3, SaveType, PagesSame
<1>11. CASE ClickPublish(p)
  <2>1. [page[p] EXCEPT !.publishing = TRUE] \in PageRecord
    BY <1>b DEF PageRecord
  <2>2. PagesTyped'
    BY <1>b, <1>11, <2>1, PageWritten DEF ClickPublish, PageRecord
  <2>3. page[p].copy.terms \in Entries
    BY <1>b DEF DraftRow
  <2>4. [Nothing EXCEPT !.terms = IF page[p].copy.terms = Blank THEN Keep
                                  ELSE page[p].copy.terms] \in UpdateDto
    BY <2>3 DEF Nothing, UpdateDto
  <2>5. /\ Send(p, "publish", page[p].at,
                [Nothing EXCEPT !.terms = IF page[p].copy.terms = Blank THEN Keep
                                          ELSE page[p].copy.terms], "stay")
        /\ page[p].at # 0
    BY <1>11 DEF ClickPublish
  <2> QED BY <2>2, <2>4, <2>5, SaveType
<1> QED BY <1>a, <1>1, <1>2, <1>3, <1>4, <1>5, <1>6, <1>7, <1>8, <1>9, <1>10, <1>11

\* A request forgotten is idle, and the others go on.
LEMMA ForgetType ==
  ASSUME Sound, NEW c \in Calls, call[c].phase # "read", Forget(c)
  PROVE  /\ call' \in [Calls -> Records]
         /\ \A b \in Calls : call'[b].kind \in {"save", "publish"} => call'[b].at \in DraftIds
         /\ \A b \in Calls : call'[b].phase = "done" => call'[b].at \in DraftIds
         /\ ReadsKept
         /\ call'[c] = NoCall
         /\ \A b \in Calls \ {c} : call'[b] = call[b]
<1>1. call'[c] = NoCall /\ \A b \in Calls \ {c} : call'[b] = call[b]
  BY DEF Forget, Sound
<1>2. call' \in [Calls -> Records]
  BY DEF Forget, Sound, Records
<1>3. NoCall.kind = "none" /\ NoCall.phase = "idle"
  BY DEF NoCall
<1>4. ASSUME NEW b \in Calls
      PROVE  /\ call'[b].kind \in {"save", "publish"} => call'[b].at \in DraftIds
             /\ call'[b].phase = "done" => call'[b].at \in DraftIds
  BY <1>1, <1>3 DEF Sound
<1>5. ReadsKept
  BY <1>1, <1>3 DEF ReadsKept
<1> QED BY <1>1, <1>2, <1>4, <1>5

\* What a page does with an answer.
LEMMA AnsweringSound ==
  ASSUME Sound, NEW c \in Calls, Answering(c)
  PROVE  PageKeeps
<1>0. call[c] \in CallRecord
  <2>1. call[c].kind # "none" \/ call[c].phase # "idle" \/ call[c].heard
    BY DEF Answering, Answered, ShowPage, SaveAnswered, PublishAnswered, AnswerLost, Unheard
  <2> QED BY <2>1 DEF NoCall, Sound, Records
<1>a. call[c].page \in Pages /\ call[c].seen \in DraftRow /\ call[c].at \in 0 .. MaxDrafts
  BY <1>0 DEF CallRecord
<1>b. /\ page[call[c].page] \in PageRecord
      /\ page[call[c].page].upload # 0 => page[call[c].page].at # 0
      /\ page[call[c].page].active \in Steps
  BY <1>a, PageFields DEF Sound, PagesTyped
<1>1. CASE ShowPage(c)
  <2>1. CASE page' = page
    BY <1>1, <2>1, ForgetType, PagesSame DEF ShowPage, Answered, PageKeeps, tableVars
  <2>2. CASE page' # page
    <3>1. call[c].phase = "done" /\ call[c].at \in DraftIds
      BY <1>1, <2>2 DEF ShowPage, Answered, Sound
    <3>2. PICK step \in Steps :
            page' = [page EXCEPT ![call[c].page] =
              [ClosedPage EXCEPT !.at = call[c].at, !.copy = call[c].seen,
                                 !.form = FormOf(call[c].seen), !.active = step]]
      BY <1>1, <2>2 DEF ShowPage
    <3>3. FormOf(call[c].seen) \in Form
      BY <1>a, FormType
    <3> DEFINE row == [ClosedPage EXCEPT !.at = call[c].at, !.copy = call[c].seen,
                                         !.form = FormOf(call[c].seen), !.active = step]
    <3>4. row \in PageRecord /\ row.upload = 0
      BY <1>a, <3>3, EmptyTypes DEF PageRecord, ClosedPage
    <3>5. page' = [page EXCEPT ![call[c].page] = row]
      BY <3>2
    <3> HIDE DEF row
    <3>6. PagesTyped'
      BY <1>a, <3>4, <3>5, PageWritten
    <3> QED BY <1>1, <3>6, ForgetType DEF ShowPage, Answered, PageKeeps, tableVars
  <2> QED BY <2>1, <2>2
<1>2. CASE SaveAnswered(c)
  <2>1. CASE page' = page
    BY <1>2, <2>1, ForgetType, PagesSame DEF SaveAnswered, Answered, PageKeeps, tableVars
  <2>2. CASE page' # page
    <3>1. page' = [page EXCEPT ![call[c].page].copy = call[c].seen,
                               ![call[c].page].form = FormOf(call[c].seen),
                               ![call[c].page].active = NextStep(c)]
      BY <1>2, <2>2 DEF SaveAnswered
    <3>2. NextStep(c) \in Steps
      BY <1>0, <1>b DEF NextStep, CallRecord
    <3>3. FormOf(call[c].seen) \in Form
      BY <1>a, FormType
    <3> DEFINE row == [page[call[c].page] EXCEPT !.copy = call[c].seen,
                         !.form = FormOf(call[c].seen), !.active = NextStep(c)]
    <3>4. row \in PageRecord /\ (row.upload # 0 => row.at # 0)
      BY <1>a, <1>b, <3>2, <3>3 DEF PageRecord
    <3>5. page' = [page EXCEPT ![call[c].page] = row]
      BY <1>a, <3>1 DEF Sound, PagesTyped
    <3> HIDE DEF row
    <3>6. PagesTyped'
      BY <1>a, <3>4, <3>5, PageWritten
    <3> QED BY <1>2, <3>6, ForgetType DEF SaveAnswered, Answered, PageKeeps, tableVars
  <2> QED BY <2>1, <2>2
<1>3. CASE PublishAnswered(c)
  <2>1. CASE page' = [page EXCEPT ![call[c].page].publishing = FALSE]
    <3> DEFINE row == [page[call[c].page] EXCEPT !.publishing = FALSE]
    <3>1. row \in PageRecord /\ (row.upload # 0 => row.at # 0)
      BY <1>b DEF PageRecord
    <3>2. page' = [page EXCEPT ![call[c].page] = row]
      BY <2>1
    <3> HIDE DEF row
    <3> QED BY <1>3, <1>a, <3>1, <3>2, PageWritten, ForgetType
            DEF PublishAnswered, Answered, PageKeeps, tableVars
  <2>2. CASE page' = [page EXCEPT ![call[c].page].publishing = FALSE,
                                  ![call[c].page].copy = call[c].seen,
                                  ![call[c].page].form = FormOf(call[c].seen)]
    <3>1. FormOf(call[c].seen) \in Form
      BY <1>a, FormType
    <3> DEFINE row == [page[call[c].page] EXCEPT !.publishing = FALSE,
                         !.copy = call[c].seen, !.form = FormOf(call[c].seen)]
    <3>2. row \in PageRecord /\ (row.upload # 0 => row.at # 0)
      BY <1>a, <1>b, <3>1 DEF PageRecord
    <3>3. page' = [page EXCEPT ![call[c].page] = row]
      BY <1>a, <2>2 DEF Sound, PagesTyped
    <3> HIDE DEF row
    <3> QED BY <1>3, <1>a, <3>2, <3>3, PageWritten, ForgetType
            DEF PublishAnswered, Answered, PageKeeps, tableVars
  <2> QED BY <1>3, <2>1, <2>2 DEF PublishAnswered
<1>4. CASE AnswerLost(c)
  <2>1. PagesTyped'
    <3>1. CASE call[c].kind = "publish"
      <4> DEFINE row == [page[call[c].page] EXCEPT !.publishing = FALSE]
      <4>1. row \in PageRecord /\ (row.upload # 0 => row.at # 0)
        BY <1>b DEF PageRecord
      <4>2. page' = [page EXCEPT ![call[c].page] = row]
        BY <1>4, <3>1 DEF AnswerLost
      <4> HIDE DEF row
      <4> QED BY <1>a, <4>1, <4>2, PageWritten
    <3> QED BY <1>4, <3>1, PagesSame DEF AnswerLost
  <2>2. call' = [call EXCEPT ![c] = [call[c] EXCEPT !.heard = FALSE]]
    BY <1>4 DEF AnswerLost
  <2>3. [call[c] EXCEPT !.heard = FALSE] \in CallRecord
    BY <1>0 DEF CallRecord
  <2>4. call' \in [Calls -> Records]
    BY <2>2, <2>3 DEF Sound, Records
  <2>5. /\ call'[c].kind = call[c].kind /\ call'[c].at = call[c].at
        /\ call'[c].phase = call[c].phase
        /\ call'[c].seen = call[c].seen /\ call'[c].dto = call[c].dto
        /\ \A b \in Calls \ {c} : call'[b] = call[b]
    BY <1>0, <2>2 DEF Sound, CallRecord
  <2>6. ASSUME NEW b \in Calls
        PROVE  /\ call'[b].kind \in {"save", "publish"} => call'[b].at \in DraftIds
               /\ call'[b].phase = "done" => call'[b].at \in DraftIds
    BY <2>5 DEF Sound
  <2> QED BY <1>4, <2>1, <2>4, <2>5, <2>6 DEF AnswerLost, PageKeeps, tableVars, ReadsKept
<1>5. CASE Unheard(c)
  BY <1>5, ForgetType, PagesSame DEF Unheard, PageKeeps, tableVars
<1> QED BY <1>1, <1>2, <1>3, <1>4, <1>5 DEF Answering

\* The first visit finds typed rows.
LEMMA SoundInit ==
  ASSUME Init
  PROVE  Sound
<1>1. draft \in [DraftIds -> DraftRow]
  BY EmptyTypes, FirstDraftsType DEF Init, TablesInit
<1>2. listings \in [DraftIds -> Seq(Listing)]
  BY DEF Init, TablesInit
<1>3. PagesTyped
  BY EmptyTypes DEF Init, PagesTyped, ClosedPage
<1>4. NoCall.kind = "none" /\ NoCall.phase = "idle"
  BY DEF NoCall
<1> QED BY <1>1, <1>2, <1>3, <1>4 DEF Init, TablesInit, Sound, Records

\* Rows, requests and tabs keep to their types.
LEMMA SoundStep ==
  ASSUME Sound, [Next]_vars
  PROVE  Sound'
<1>1. CASE UserStep
  BY <1>1, UserSound DEF PageKeeps, tableVars, Sound
<1>2. ASSUME NEW c \in Calls, Serving(c)
      PROVE  Sound'
  BY <1>2, ServerSound, PagesSame DEF Serving, ServerKeeps, Sound
<1>3. ASSUME NEW c \in Calls, Answering(c)
      PROVE  Sound'
  BY <1>3, AnsweringSound DEF PageKeeps, tableVars, Sound
<1>4. CASE UNCHANGED vars
  BY <1>4 DEF vars, Sound, PagesTyped
<1> QED BY <1>1, <1>2, <1>3, <1>4 DEF Next

-----------------------------------------------------------------------------
(* Listings                                                                  *)

\* What each transaction does to the status of drafts and to listings: create a draft,
\* publish one, or neither.
LEMMA ServerWrites ==
  ASSUME Sound, NEW c \in Calls, ServerStep(c)
  PROVE  \/ /\ listings' = listings
            /\ \A d \in DraftIds : draft'[d].status = draft[d].status
         \/ /\ CreateDraft(c)
            /\ listings' = listings
            /\ \E d \in DraftIds :
                 /\ draft[d].status = "FREE" /\ draft'[d].status = "OPEN"
                 /\ \A e \in DraftIds \ {d} : draft'[e] = draft[e]
         \/ /\ PublishDraft(c)
            /\ LET d == call[c].at
                   seen == call[c].seen
                   made == [sheet |-> seen.sheet, proof |-> seen.proof, price |-> seen.price,
                            place |-> PlaceOf(seen, call[c].dto), photos |-> seen.photos]
               IN /\ d \in DraftIds /\ made \in Listing
                  /\ draft'[d].status = "PUBLISHED"
                  /\ \A e \in DraftIds \ {d} : draft'[e] = draft[e]
                  /\ listings' = [listings EXCEPT ![d] = Append(@, made)]
<1>1. CASE ActiveDraftFound(c) \/ NoActiveDraft(c) \/ ReadDraft(c) \/ PublishRead(c)
             \/ CallFails(c)
  BY <1>1 DEF ActiveDraftFound, NoActiveDraft, ReadDraft, PublishRead, CallFails, tableVars
<1>2. CASE CreateDraft(c)
  <2>1. PICK d \in DraftIds :
          draft[d].status = "FREE" /\ draft' = [draft EXCEPT ![d].status = "OPEN"]
    BY <1>2 DEF CreateDraft
  <2>2. draft'[d].status = "OPEN" /\ \A e \in DraftIds \ {d} : draft'[e] = draft[e]
    BY <2>1 DEF Sound, DraftRow
  <2> QED BY <1>2, <2>1, <2>2 DEF CreateDraft
<1>3. CASE UpdateDraft(c)
  <2> DEFINE d == call[c].at
             row == UpdatedRow(draft[d], call[c].seen, call[c].dto)
  <2>1. d \in DraftIds /\ call[c] \in CallRecord
    BY <1>3, KindsOfCalls DEF UpdateDraft, Sound
  <2>2. draft[d] \in DraftRow /\ call[c].seen \in DraftRow /\ call[c].dto \in UpdateDto
    BY <2>1 DEF Sound, CallRecord
  <2>3. row.status = draft[d].status
    BY <2>2, UpdatedRowType
  <2>4. draft' = [draft EXCEPT ![d] = row]
    BY <1>3 DEF UpdateDraft
  <2> HIDE DEF d, row
  <2>5. \A e \in DraftIds : draft'[e].status = draft[e].status
    BY <2>1, <2>3, <2>4 DEF Sound
  <2> QED BY <1>3, <2>5 DEF UpdateDraft
<1>4. CASE PublishDraft(c)
  <2> DEFINE d == call[c].at
             row == [draft[d] EXCEPT !.status = "PUBLISHED"]
             made == [sheet |-> call[c].seen.sheet, proof |-> call[c].seen.proof,
                      price |-> call[c].seen.price,
                      place |-> PlaceOf(call[c].seen, call[c].dto),
                      photos |-> call[c].seen.photos]
  <2>1. d \in DraftIds /\ call[c] \in CallRecord
    BY <1>4, KindsOfCalls DEF PublishDraft, Sound
  <2>2. made \in Listing
    BY <2>1, ListingType DEF CallRecord
  <2>3. row.status = "PUBLISHED"
    BY <2>1 DEF Sound, DraftRow
  <2>4. /\ draft' = [draft EXCEPT ![d] = row]
        /\ listings' = [listings EXCEPT ![d] = Append(@, made)]
    BY <1>4 DEF PublishDraft
  <2> HIDE DEF row
  <2>5. draft'[d].status = "PUBLISHED" /\ \A e \in DraftIds \ {d} : draft'[e] = draft[e]
    BY <2>1, <2>3, <2>4 DEF Sound
  <2> QED BY <1>4, <2>1, <2>2, <2>4, <2>5
<1> QED BY <1>1, <1>2, <1>3, <1>4 DEF ServerStep

\* The rows are written by the server alone.
LEMMA PagesWriteNothing ==
  ASSUME Sound, [Next]_vars, \A c \in Calls : ~Serving(c)
  PROVE  UNCHANGED tableVars /\ ReadsKept
<1>1. CASE UserStep
  BY <1>1, UserSound DEF PageKeeps
<1>2. ASSUME NEW c \in Calls, Answering(c)
      PROVE  UNCHANGED tableVars /\ ReadsKept
  BY <1>2, AnsweringSound DEF PageKeeps
<1>3. CASE UNCHANGED vars
  BY <1>3 DEF vars, tableVars, ReadsKept
<1> QED BY <1>1, <1>2, <1>3 DEF Next

\* Appending to a draft's listings.
LEMMA OneMore ==
  ASSUME Sound, NEW d \in DraftIds, NEW made \in Listing,
         listings' = [listings EXCEPT ![d] = Append(@, made)]
  PROVE  /\ listings'[d] = Append(listings[d], made)
         /\ listings'[d] # <<>>
         /\ Len(listings'[d]) = Len(listings[d]) + 1
         /\ \A i \in DOMAIN listings'[d] :
              \/ i \in DOMAIN listings[d] /\ listings'[d][i] = listings[d][i]
              \/ listings'[d][i] = made
         /\ \A e \in DraftIds \ {d} : listings'[e] = listings[e]
<1>1. listings[d] \in Seq(Listing)
  BY DEF Sound
<1>2. listings'[d] = Append(listings[d], made)
  BY DEF Sound
<1>3. \A e \in DraftIds \ {d} : listings'[e] = listings[e]
  BY DEF Sound
<1> DEFINE s == listings[d]
<1>4. /\ Append(s, made) # <<>> /\ Len(Append(s, made)) = Len(s) + 1
      /\ DOMAIN Append(s, made) = 1 .. Len(s) + 1 /\ DOMAIN s = 1 .. Len(s)
      /\ Len(s) \in Nat
      /\ \A i \in 1 .. Len(s) + 1 :
           Append(s, made)[i] = IF i = Len(s) + 1 THEN made ELSE s[i]
  BY <1>1
<1> HIDE DEF s
<1>5. \A i \in DOMAIN Append(s, made) :
        \/ i \in DOMAIN s /\ Append(s, made)[i] = s[i]
        \/ Append(s, made)[i] = made
  BY <1>4
<1> QED BY <1>2, <1>3, <1>4, <1>5 DEF s

\* Listings and published drafts come in one transaction.
LEMMA IffStep ==
  ASSUME Sound, PublishedIffListed, [Next]_vars
  PROVE  PublishedIffListed'
<1>1. CASE \A c \in Calls : ~Serving(c)
  BY <1>1, PagesWriteNothing DEF tableVars, PublishedIffListed
<1>2. ASSUME NEW c \in Calls, Serving(c)
      PROVE  PublishedIffListed'
  <2>1. CASE /\ listings' = listings
             /\ \A d \in DraftIds : draft'[d].status = draft[d].status
    BY <2>1 DEF PublishedIffListed
  <2>2. CASE /\ listings' = listings
             /\ \E d \in DraftIds :
                  /\ draft[d].status = "FREE" /\ draft'[d].status = "OPEN"
                  /\ \A e \in DraftIds \ {d} : draft'[e] = draft[e]
    BY <2>2 DEF PublishedIffListed
  <2>3. ASSUME NEW d \in DraftIds, NEW made \in Listing, draft'[d].status = "PUBLISHED",
               \A e \in DraftIds \ {d} : draft'[e] = draft[e],
               listings' = [listings EXCEPT ![d] = Append(@, made)]
        PROVE  PublishedIffListed'
    BY <2>3, OneMore DEF PublishedIffListed
  <2>4. ServerStep(c)
    BY <1>2 DEF Serving
  <2> QED BY <2>1, <2>2, <2>3, <2>4, ServerWrites
<1> QED BY <1>1, <1>2

\* A listing exists exactly for the drafts that say so, whatever overlaps.
THEOREM PublishedIffListedAlways == Spec => []PublishedIffListed
<1>1. Init => Sound /\ PublishedIffListed
  <2> SUFFICES ASSUME Init PROVE PublishedIffListed
    BY SoundInit
  <2>1. \A row \in FirstDrafts : row.status = "OPEN"
    BY FirstDraftsType
  <2>2. FreeRow.status = "FREE"
    BY DEF FreeRow
  <2>3. \A d \in DraftIds : draft[d].status # "PUBLISHED" /\ listings[d] = <<>>
    BY <2>1, <2>2 DEF Init, TablesInit
  <2> QED BY <2>3 DEF PublishedIffListed
<1>2. Sound /\ PublishedIffListed /\ [Next]_vars => (Sound /\ PublishedIffListed)'
  BY SoundStep, IffStep
<1> QED BY <1>1, <1>2, PTL DEF Spec
-----------------------------------------------------------------------------
(* What a request carries from its reads to its transaction                  *)

\* A step of the server moves one request; it holds a snapshot to publish only after
\* the checks, is about to create a draft only when there is none open, and has neither
\* left once its transaction is done.
LEMMA ServerMoves ==
  ASSUME Sound, NEW c \in Calls, ServerStep(c)
  PROVE  /\ \A b \in Calls \ {c} : call'[b] = call[b]
         /\ call'[c].kind = call[c].kind
         /\ call'[c].kind = "publish" /\ call'[c].phase = "read" =>
              /\ Complete(call'[c].seen, call'[c].dto)
              /\ call'[c].at = call[c].at /\ call[c].at \in DraftIds
              /\ draft[call[c].at].status = "OPEN"
              /\ UNCHANGED tableVars
         /\ call'[c].kind = "open" /\ call'[c].phase = "read" =>
              OpenDrafts = {} /\ UNCHANGED tableVars
         /\ PublishDraft(c) =>
              /\ call[c].kind = "publish" /\ call[c].phase = "read"
              /\ call'[c].phase = "done"
         /\ CreateDraft(c) =>
              /\ call[c].kind = "open" /\ call[c].phase = "read"
              /\ call'[c].phase = "done"
<1>0. call[c] \in CallRecord
  <2>1. call[c].kind # "none" \/ call[c].phase # "idle"
    BY DEF ServerStep, ActiveDraftFound, NoActiveDraft, CreateDraft, ReadDraft,
       UpdateDraft, PublishRead, PublishDraft, CallFails
  <2> QED BY <2>1 DEF NoCall, Sound, Records
<1>a. call \in [Calls -> Records]
  BY DEF Sound
<1>b. call'[c].kind = call[c].kind
  BY ServerSound DEF ServerKeeps
<1>c. ASSUME NEW d \in DraftIds, NEW row, AnswerWith(c, d, row)
      PROVE  /\ \A b \in Calls \ {c} : call'[b] = call[b]
             /\ call'[c].phase = "done"
  BY <1>0, <1>a, <1>c DEF AnswerWith, CallRecord
<1>d. ASSUME NEW p \in {"read", "failed"}, SetPhase(c, p)
      PROVE  /\ \A b \in Calls \ {c} : call'[b] = call[b]
             /\ call'[c].phase = p
  BY <1>0, <1>a, <1>d DEF SetPhase, CallRecord
<1>e. PublishDraft(c) =>
        /\ call[c].kind = "publish" /\ call[c].phase = "read"
        /\ call'[c].phase = "done" /\ \A b \in Calls \ {c} : call'[b] = call[b]
  <2> SUFFICES ASSUME PublishDraft(c)
               PROVE  call'[c].phase = "done" /\ \A b \in Calls \ {c} : call'[b] = call[b]
    BY DEF PublishDraft
  <2> DEFINE row == [draft[call[c].at] EXCEPT !.status = "PUBLISHED"]
  <2>1. call[c].at \in DraftIds /\ AnswerWith(c, call[c].at, row)
    BY DEF PublishDraft, Sound
  <2> HIDE DEF row
  <2> QED BY <1>c, <2>1
<1>f. CreateDraft(c) =>
        /\ call[c].kind = "open" /\ call[c].phase = "read"
        /\ call'[c].phase = "done" /\ \A b \in Calls \ {c} : call'[b] = call[b]
  <2> SUFFICES ASSUME CreateDraft(c)
               PROVE  call'[c].phase = "done" /\ \A b \in Calls \ {c} : call'[b] = call[b]
    BY DEF CreateDraft
  <2>1. PICK d \in DraftIds : AnswerWith(c, d, [FreeRow EXCEPT !.status = "OPEN"])
    BY DEF CreateDraft
  <2> QED BY <1>c, <2>1
<1>1. CASE ActiveDraftFound(c)
  <2>1. PICK d \in DraftIds : AnswerWith(c, d, draft[d])
    BY <1>1 DEF ActiveDraftFound, OpenDrafts
  <2> QED BY <1>1, <1>b, <1>e, <1>f, <1>c, <2>1 DEF ActiveDraftFound
<1>2. CASE NoActiveDraft(c)
  BY <1>2, <1>b, <1>e, <1>f, <1>d DEF NoActiveDraft
<1>3. CASE CreateDraft(c)
  BY <1>3, <1>b, <1>e, <1>f
<1>4. CASE ReadDraft(c)
  <2>1. \A b \in Calls \ {c} : call'[b] = call[b]
    BY <1>4, <1>a DEF ReadDraft
  <2> QED BY <1>4, <1>b, <1>e, <1>f, <2>1 DEF ReadDraft
<1>5. CASE UpdateDraft(c)
  <2> DEFINE row == UpdatedRow(draft[call[c].at], call[c].seen, call[c].dto)
  <2>1. call[c].at \in DraftIds /\ AnswerWith(c, call[c].at, row)
    BY <1>5 DEF UpdateDraft, Sound
  <2> HIDE DEF row
  <2> QED BY <1>5, <1>b, <1>e, <1>f, <1>c, <2>1 DEF UpdateDraft
<1>6. CASE PublishRead(c)
  <2> DEFINE row == draft[call[c].at]
  <2>0. call[c].at \in DraftIds
    BY <1>6 DEF PublishRead, Sound
  <2>1. CASE SetPhase(c, "failed")
    BY <1>6, <2>1, <1>b, <1>e, <1>f, <1>d DEF PublishRead
  <2>2. CASE /\ row.status = "OPEN" /\ Complete(row, call[c].dto)
             /\ call' = [call EXCEPT ![c].phase = "read", ![c].seen = row]
    <3>1. /\ call'[c].seen = row /\ call'[c].dto = call[c].dto
          /\ call'[c].at = call[c].at
          /\ \A b \in Calls \ {c} : call'[b] = call[b]
      BY <2>2, <1>0, <1>a DEF CallRecord
    <3>2. Complete(call'[c].seen, call'[c].dto)
      BY <2>2, <3>1
    <3> QED BY <1>6, <1>b, <1>e, <1>f, <2>0, <2>2, <3>1, <3>2 DEF PublishRead
  <2> QED BY <1>6, <2>1, <2>2 DEF PublishRead
<1>7. CASE PublishDraft(c)
  BY <1>7, <1>b, <1>e, <1>f
<1>8. CASE CallFails(c)
  BY <1>8, <1>b, <1>e, <1>f, <1>d DEF CallFails
<1> QED BY <1>1, <1>2, <1>3, <1>4, <1>5, <1>6, <1>7, <1>8 DEF ServerStep

-----------------------------------------------------------------------------
(* Listings are complete                                                     *)

\* What a request is about to publish has passed the checks.
ReadsComplete ==
  \A c \in Calls : call[c].kind = "publish" /\ call[c].phase = "read" =>
    Complete(call[c].seen, call[c].dto)

ListingComplete(l) ==
  Blank \notin {l.sheet, l.proof, l.price, l.place} /\ l.photos >= MinPhotos

\* Every step keeps snapshots and listings complete.
LEMMA CompleteStep ==
  ASSUME Sound, ReadsComplete, ListingsComplete, [Next]_vars
  PROVE  ReadsComplete' /\ ListingsComplete'
<1>1. CASE \A c \in Calls : ~Serving(c)
  <2>1. UNCHANGED tableVars /\ ReadsKept
    BY <1>1, PagesWriteNothing
  <2>2. ListingsComplete'
    BY <2>1 DEF tableVars, ListingsComplete
  <2>3. ReadsComplete'
    BY <2>1 DEF ReadsKept, ReadsComplete
  <2> QED BY <2>2, <2>3
<1>2. ASSUME NEW c \in Calls, Serving(c)
      PROVE  ReadsComplete' /\ ListingsComplete'
  <2>0. ServerStep(c)
    BY <1>2 DEF Serving
  <2>1. ReadsComplete'
    BY <2>0, ServerMoves DEF ReadsComplete
  <2>2. CASE listings' = listings
    BY <2>1, <2>2 DEF ListingsComplete
  <2>3. CASE PublishDraft(c)
    <3> DEFINE d == call[c].at
               seen == call[c].seen
               made == [sheet |-> seen.sheet, proof |-> seen.proof, price |-> seen.price,
                        place |-> PlaceOf(seen, call[c].dto), photos |-> seen.photos]
    <3>1. /\ d \in DraftIds /\ made \in Listing
          /\ listings' = [listings EXCEPT ![d] = Append(@, made)]
      <4>1. d \in DraftIds /\ call[c] \in CallRecord
        BY <2>3, KindsOfCalls DEF PublishDraft, Sound
      <4> QED BY <2>3, <4>1, ListingType DEF PublishDraft, CallRecord
    <3>2. Complete(seen, call[c].dto)
      BY <2>0, <2>3, ServerMoves DEF ReadsComplete
    <3>3. ListingComplete(made)
      BY <3>2 DEF Complete, ListingComplete
    <3> HIDE DEF d, seen, made
    <3>4. ASSUME NEW e \in DraftIds, NEW i \in DOMAIN listings'[e]
          PROVE  ListingComplete(listings'[e][i])
      <4>1. CASE e = d
        <5>1. \/ i \in DOMAIN listings[d] /\ listings'[d][i] = listings[d][i]
              \/ listings'[d][i] = made
          BY <3>1, <3>4, <4>1, OneMore
        <5> QED BY <3>1, <3>3, <4>1, <5>1 DEF ListingsComplete, ListingComplete
      <4>2. CASE e # d
        <5>1. listings'[e] = listings[e]
          BY <3>1, <4>2, OneMore
        <5> QED BY <3>4, <5>1 DEF ListingsComplete, ListingComplete
      <4> QED BY <4>1, <4>2
    <3>5. ListingsComplete'
      BY <3>4 DEF ListingsComplete, ListingComplete
    <3> QED BY <2>1, <3>5
  <2> QED BY <2>0, <2>1, <2>2, <2>3, ServerWrites
<1> QED BY <1>1, <1>2

\* Every listing shows a complete draft, whatever is edited or published meanwhile.
THEOREM ListingsCompleteAlways == Spec => []ListingsComplete
<1>1. Init => Sound /\ ReadsComplete /\ ListingsComplete
  <2> SUFFICES ASSUME Init PROVE ReadsComplete /\ ListingsComplete
    BY SoundInit
  <2>1. NoCall.kind = "none"
    BY DEF NoCall
  <2>2. ReadsComplete
    BY <2>1 DEF Init, TablesInit, ReadsComplete
  <2>3. ListingsComplete
    BY DEF Init, TablesInit, ListingsComplete
  <2> QED BY <2>2, <2>3
<1>2. Sound /\ ReadsComplete /\ ListingsComplete /\ [Next]_vars
        => (Sound /\ ReadsComplete /\ ListingsComplete)'
  BY SoundStep, CompleteStep
<1> QED BY <1>1, <1>2, PTL DEF Spec
-----------------------------------------------------------------------------
(* Only requests that overlap make more than one                             *)

\* Sets of requests and of drafts are finite.
LEMMA FewOf ==
  /\ \A S \in SUBSET Calls : IsFiniteSet(S) /\ Cardinality(S) \in Nat
  /\ \A S \in SUBSET DraftIds : IsFiniteSet(S) /\ Cardinality(S) \in Nat
<1>1. IsFiniteSet(DraftIds)
  BY MaxDraftsType, FS_Interval DEF DraftIds
<1> QED BY <1>1, CallsFinite, FS_Subset, FS_CardinalityType

\* A maximum is at least what it was and what it takes in.
LEMMA AtLeastIs ==
  ASSUME NEW n \in Nat, NEW S, Cardinality(S) \in Nat
  PROVE  AtLeast(n, S) \in Nat /\ AtLeast(n, S) >= n /\ AtLeast(n, S) >= Cardinality(S)
BY DEF AtLeast

\* The pages do not make history of what the server does.
LEMMA HistoryKept ==
  ASSUME [Next]_vars, \A c \in Calls : ~Serving(c)
  PROVE  UNCHANGED historyVars
BY DEF Next, UserStep, Answering, vars

PublishingBounded ==
  /\ publishingAtOnce \in [DraftIds -> Nat]
  /\ ListingsBounded

\* Every step keeps the listings of a draft within the requests that overlapped.
LEMMA BoundedStep ==
  ASSUME Sound, PublishedIffListed, PublishingBounded, [Next]_vars
  PROVE  PublishingBounded'
<1>0. \A d \in DraftIds : /\ IsFiniteSet(Publishing(d)) /\ Cardinality(Publishing(d)) \in Nat
                          /\ IsFiniteSet(Publishing(d)') /\ Cardinality(Publishing(d)') \in Nat
  BY FewOf DEF Publishing
<1>l. \A d \in DraftIds : Len(listings[d]) \in Nat
  BY DEF Sound
<1>1. CASE \A c \in Calls : ~Serving(c)
  <2>1. UNCHANGED tableVars /\ ReadsKept /\ UNCHANGED historyVars
    BY <1>1, PagesWriteNothing, HistoryKept
  <2>2. \A d \in DraftIds : Publishing(d)' = Publishing(d)
    BY <2>1 DEF ReadsKept, Publishing
  <2> QED BY <2>1, <2>2 DEF PublishingBounded, ListingsBounded, tableVars, historyVars
<1>2. ASSUME NEW c \in Calls, Serving(c)
      PROVE  PublishingBounded'
  <2>0. ServerStep(c)
    BY <1>2 DEF Serving
  <2>1. publishingAtOnce' = [d \in DraftIds |-> AtLeast(publishingAtOnce[d], Publishing(d)')]
    BY <1>2 DEF Serving
  <2>2. \A d \in DraftIds :
          /\ publishingAtOnce[d] \in Nat /\ publishingAtOnce'[d] \in Nat
          /\ publishingAtOnce'[d] >= publishingAtOnce[d]
          /\ publishingAtOnce'[d] >= Cardinality(Publishing(d)')
    BY <1>0, <2>1, AtLeastIs DEF PublishingBounded
  <2>3. publishingAtOnce' \in [DraftIds -> Nat]
    BY <2>1, <2>2
  <2>4. \A b \in Calls \ {c} : call'[b] = call[b]
    BY <2>0, ServerMoves
  <2>5. SUFFICES ASSUME NEW d \in DraftIds
                 PROVE  Len(listings'[d]) + Cardinality(Publishing(d)') <= publishingAtOnce'[d]
    BY <2>3 DEF PublishingBounded, ListingsBounded
  <2>6. Len(listings[d]) + Cardinality(Publishing(d)) <= publishingAtOnce[d]
    BY DEF PublishingBounded, ListingsBounded
  <2>7. CASE listings'[d] = listings[d] /\ c \notin Publishing(d)'
    <3>1. Publishing(d)' \subseteq Publishing(d)
      BY <2>4, <2>7 DEF Publishing
    <3>2. Cardinality(Publishing(d)') <= Cardinality(Publishing(d))
      BY <1>0, <3>1, FS_Subset
    <3> QED BY <1>0, <1>l, <2>2, <2>6, <2>7, <3>2
  <2>8. CASE listings'[d] = listings[d] /\ c \in Publishing(d)'
    <3>1. draft[d].status = "OPEN"
      BY <2>0, <2>8, ServerMoves DEF Publishing
    <3>2. listings[d] = <<>>
      BY <3>1 DEF PublishedIffListed
    <3>3. Len(listings'[d]) = 0
      BY <2>8, <3>2
    <3> QED BY <1>0, <2>2, <3>3
  <2>9. CASE listings'[d] # listings[d]
    <3>1. /\ PublishDraft(c) /\ call[c].at = d
          /\ Len(listings'[d]) = Len(listings[d]) + 1
      <4>1. PublishDraft(c)
        BY <2>0, <2>9, ServerWrites
      <4> DEFINE made == [sheet |-> call[c].seen.sheet, proof |-> call[c].seen.proof,
                          price |-> call[c].seen.price,
                          place |-> PlaceOf(call[c].seen, call[c].dto),
                          photos |-> call[c].seen.photos]
      <4>2. /\ call[c].at \in DraftIds
            /\ listings' = [listings EXCEPT ![call[c].at] = Append(@, made)]
        BY <4>1 DEF PublishDraft, Sound
      <4>3. made \in Listing
        BY <4>1, KindsOfCalls, ListingType DEF PublishDraft, CallRecord
      <4> HIDE DEF made
      <4>4. call[c].at = d
        BY <2>9, <4>2 DEF Sound
      <4> QED BY <4>1, <4>2, <4>3, <4>4, OneMore
    <3>2. c \in Publishing(d) /\ c \notin Publishing(d)'
      BY <2>0, <3>1, ServerMoves DEF Publishing
    <3>3. Publishing(d)' \subseteq Publishing(d) \ {c}
      BY <2>4, <3>2 DEF Publishing
    <3>4. /\ IsFiniteSet(Publishing(d) \ {c})
          /\ Cardinality(Publishing(d) \ {c}) = Cardinality(Publishing(d)) - 1
      BY <1>0, <3>2, FS_RemoveElement
    <3>5. Cardinality(Publishing(d)') <= Cardinality(Publishing(d)) - 1
      BY <3>3, <3>4, FS_Subset
    <3> QED BY <1>0, <1>l, <2>2, <2>6, <3>1, <3>5
  <2> QED BY <2>7, <2>8, <2>9
<1> QED BY <1>1, <1>2

\* Listings stay within the requests that overlapped, from the first visit on.
LEMMA PublishingBoundedAlways == Spec => []PublishingBounded
<1>1. Init => Sound /\ PublishedIffListed /\ PublishingBounded
  <2> SUFFICES ASSUME Init PROVE PublishedIffListed /\ PublishingBounded
    BY SoundInit
  <2>1. \A row \in FirstDrafts : row.status = "OPEN"
    BY FirstDraftsType
  <2>2. FreeRow.status = "FREE" /\ NoCall.kind = "none"
    BY DEF FreeRow, NoCall
  <2>3. \A d \in DraftIds : draft[d].status # "PUBLISHED" /\ listings[d] = <<>>
    BY <2>1, <2>2 DEF Init, TablesInit
  <2>4. \A d \in DraftIds : Publishing(d) = {}
    BY <2>2 DEF Init, TablesInit, Publishing
  <2>5. \A d \in DraftIds : Len(listings[d]) + Cardinality(Publishing(d)) <= 1
    <3>1. \A d \in DraftIds : Cardinality(Publishing(d)) = 0
      BY <2>4, FS_EmptySet
    <3>2. \A d \in DraftIds : Len(listings[d]) = 0
      BY <2>3
    <3> QED BY <3>1, <3>2
  <2>6. publishingAtOnce = [d \in DraftIds |-> 1]
    BY DEF Init
  <2> QED BY <2>3, <2>5, <2>6 DEF PublishedIffListed, PublishingBounded, ListingsBounded
<1>2. Sound /\ PublishedIffListed /\ PublishingBounded /\ [Next]_vars
        => (Sound /\ PublishedIffListed /\ PublishingBounded)'
  BY SoundStep, IffStep, BoundedStep
<1> QED BY <1>1, <1>2, PTL DEF Spec

\* A draft becomes at most as many listings as requests published it at once.
THEOREM ListingsBoundedAlways == Spec => []ListingsBounded
<1>1. PublishingBounded => ListingsBounded
  BY DEF PublishingBounded
<1> QED BY <1>1, PublishingBoundedAlways, PTL

CreatingBounded == creatingAtOnce \in Nat /\ OpenDraftsBounded

\* Every step keeps the open drafts within the requests that overlapped.
LEMMA CreatingStep ==
  ASSUME Sound, CreatingBounded, [Next]_vars
  PROVE  CreatingBounded'
<1>0. /\ IsFiniteSet(Creating) /\ Cardinality(Creating) \in Nat
      /\ IsFiniteSet(Creating') /\ Cardinality(Creating') \in Nat
      /\ IsFiniteSet(OpenDrafts) /\ Cardinality(OpenDrafts) \in Nat
      /\ IsFiniteSet(OpenDrafts') /\ Cardinality(OpenDrafts') \in Nat
  BY FewOf DEF Creating, OpenDrafts
<1>1. CASE \A c \in Calls : ~Serving(c)
  <2>1. UNCHANGED tableVars /\ ReadsKept /\ UNCHANGED historyVars
    BY <1>1, PagesWriteNothing, HistoryKept
  <2>2. Creating' = Creating
    BY <2>1 DEF ReadsKept, Creating
  <2>3. OpenDrafts' = OpenDrafts
    BY <2>1 DEF tableVars, OpenDrafts
  <2> QED BY <2>1, <2>2, <2>3 DEF CreatingBounded, OpenDraftsBounded, historyVars
<1>2. ASSUME NEW c \in Calls, Serving(c)
      PROVE  CreatingBounded'
  <2>0. ServerStep(c)
    BY <1>2 DEF Serving
  <2>1. creatingAtOnce' = AtLeast(creatingAtOnce, Creating')
    BY <1>2 DEF Serving
  <2>2. /\ creatingAtOnce \in Nat /\ creatingAtOnce' \in Nat
        /\ creatingAtOnce' >= creatingAtOnce /\ creatingAtOnce' >= Cardinality(Creating')
    BY <1>0, <2>1, AtLeastIs DEF CreatingBounded
  <2>3. \A b \in Calls \ {c} : call'[b] = call[b]
    BY <2>0, ServerMoves
  <2>4. Cardinality(OpenDrafts) + Cardinality(Creating) <= creatingAtOnce
    BY DEF CreatingBounded, OpenDraftsBounded
  <2>5. SUFFICES Cardinality(OpenDrafts') + Cardinality(Creating') <= creatingAtOnce'
    BY <2>2 DEF CreatingBounded, OpenDraftsBounded
  <2>6. CASE c \in Creating'
    <3>1. OpenDrafts = {} /\ UNCHANGED tableVars
      BY <2>0, <2>6, ServerMoves DEF Creating
    <3>2. OpenDrafts' = {}
      BY <3>1 DEF OpenDrafts, tableVars
    <3>3. Cardinality(OpenDrafts') = 0
      BY <3>2, FS_EmptySet
    <3> QED BY <1>0, <2>2, <3>3
  <2>7. CASE c \notin Creating'
    <3>1. Creating' \subseteq Creating
      BY <2>3, <2>7 DEF Creating
    <3>2. Cardinality(Creating') <= Cardinality(Creating)
      BY <1>0, <3>1, FS_Subset
    <3>3. CASE CreateDraft(c)
      <4>1. c \in Creating
        BY <2>0, <3>3, ServerMoves DEF Creating
      <4>2. Creating' \subseteq Creating \ {c}
        BY <2>7, <3>1
      <4>3. /\ IsFiniteSet(Creating \ {c})
            /\ Cardinality(Creating \ {c}) = Cardinality(Creating) - 1
        BY <1>0, <4>1, FS_RemoveElement
      <4>4. Cardinality(Creating') <= Cardinality(Creating) - 1
        BY <4>2, <4>3, FS_Subset
      <4>5. PICK d \in DraftIds : \A e \in DraftIds \ {d} : draft'[e] = draft[e]
        <5>1. PICK d \in DraftIds : draft' = [draft EXCEPT ![d].status = "OPEN"]
          BY <3>3 DEF CreateDraft
        <5>2. \A e \in DraftIds \ {d} : draft'[e] = draft[e]
          BY <5>1 DEF Sound
        <5> QED BY <5>2
      <4>6. OpenDrafts' \subseteq OpenDrafts \cup {d}
        BY <4>5 DEF OpenDrafts
      <4>7. /\ IsFiniteSet(OpenDrafts \cup {d})
            /\ Cardinality(OpenDrafts \cup {d}) <= Cardinality(OpenDrafts) + 1
        <5>1. /\ IsFiniteSet(OpenDrafts \cup {d})
              /\ Cardinality(OpenDrafts \cup {d}) =
                   IF d \in OpenDrafts THEN Cardinality(OpenDrafts)
                   ELSE Cardinality(OpenDrafts) + 1
          BY <1>0, FS_AddElement
        <5> QED BY <1>0, <5>1
      <4>8. Cardinality(OpenDrafts') <= Cardinality(OpenDrafts \cup {d})
        BY <4>6, <4>7, FS_Subset
      <4>9. Cardinality(OpenDrafts \cup {d}) \in Nat
        BY <4>7, FS_CardinalityType
      <4> QED BY <1>0, <2>2, <2>4, <4>4, <4>7, <4>8, <4>9
    <3>4. CASE ~CreateDraft(c)
      <4>1. \A d \in DraftIds : draft'[d].status = "OPEN" => draft[d].status = "OPEN"
        BY <2>0, <3>4, ServerWrites
      <4>2. OpenDrafts' \subseteq OpenDrafts
        BY <4>1 DEF OpenDrafts
      <4>3. Cardinality(OpenDrafts') <= Cardinality(OpenDrafts)
        BY <1>0, <4>2, FS_Subset
      <4> QED BY <1>0, <2>2, <2>4, <3>2, <4>3
    <3> QED BY <3>3, <3>4
  <2> QED BY <2>6, <2>7
<1> QED BY <1>1, <1>2

\* Open drafts stay within the requests that overlapped, from the first visit on.
LEMMA CreatingBoundedAlways == Spec => []CreatingBounded
<1>1. Init => Sound /\ CreatingBounded
  <2> SUFFICES ASSUME Init PROVE CreatingBounded
    BY SoundInit
  <2>1. NoCall.kind = "none" /\ FreeRow.status = "FREE"
    BY DEF NoCall, FreeRow
  <2>2. Creating = {}
    BY <2>1 DEF Init, TablesInit, Creating
  <2>3. Cardinality(Creating) = 0
    BY <2>2, FS_EmptySet
  <2>4. OpenDrafts \subseteq {1}
    BY <2>1 DEF Init, TablesInit, OpenDrafts
  <2>5. IsFiniteSet({1}) /\ Cardinality({1}) = 1
    BY FS_Singleton
  <2>6. Cardinality(OpenDrafts) <= 1
    BY <2>4, <2>5, FS_Subset
  <2>7. Cardinality(OpenDrafts) \in Nat
    BY FewOf DEF OpenDrafts
  <2>8. creatingAtOnce = 1
    BY DEF Init
  <2> QED BY <2>3, <2>6, <2>7, <2>8 DEF CreatingBounded, OpenDraftsBounded
<1>2. Sound /\ CreatingBounded /\ [Next]_vars => (Sound /\ CreatingBounded)'
  BY SoundStep, CreatingStep
<1> QED BY <1>1, <1>2, PTL DEF Spec

\* The seller has at most as many open drafts as requests created at once.
THEOREM OpenDraftsBoundedAlways == Spec => []OpenDraftsBounded
<1>1. CreatingBounded => OpenDraftsBounded
  BY DEF CreatingBounded
<1> QED BY <1>1, CreatingBoundedAlways, PTL

-----------------------------------------------------------------------------
(* The publish button                                                        *)

\* A new request takes the place of none, and the others go on.
IsSent(c, p, kind) ==
  /\ call[c] = NoCall
  /\ call'[c].kind = kind /\ call'[c].page = p
  /\ call'[c].phase = "sent" /\ call'[c].heard
  /\ \A b \in Calls \ {c} : call'[b] = call[b]

\* Requests are sent so, whatever is in them.
LEMMA SendIs ==
  ASSUME Sound, NEW p, NEW kind, NEW d, NEW dto, NEW next, Send(p, kind, d, dto, next)
  PROVE  \E c \in Calls : IsSent(c, p, kind)
<1> DEFINE fresh == [kind |-> kind, page |-> p, at |-> d, dto |-> dto, seen |-> FreeRow,
                     phase |-> "sent", heard |-> TRUE, next |-> next]
<1>1. PICK c \in Calls : call[c] = NoCall /\ call' = [call EXCEPT ![c] = fresh]
  BY DEF Send
<1>2. call'[c] = fresh /\ \A b \in Calls \ {c} : call'[b] = call[b]
  BY <1>1 DEF Sound
<1>3. fresh.kind = kind /\ fresh.page = p /\ fresh.phase = "sent" /\ fresh.heard
  OBVIOUS
<1> HIDE DEF fresh
<1> QED BY <1>1, <1>2, <1>3 DEF IsSent

\* Request c is what the publish button of tab p waits for.
WaitedFor(c, p) == call[c].kind = "publish" /\ call[c].page = p /\ call[c].heard

\* Sending something else takes no request away from a button that waits.
LEMMA SentWaits ==
  ASSUME Sound, PublishingWaits, NEW p, NEW kind, \E c \in Calls : IsSent(c, p, kind),
         \A q \in Pages : page'[q].publishing =>
           page[q].publishing \/ (q = p /\ kind = "publish")
  PROVE  PublishingWaits'
<1>1. PICK c \in Calls : IsSent(c, p, kind)
  OBVIOUS
<1>2. call[c].kind = "none"
  BY <1>1 DEF IsSent, NoCall
<1>3. ASSUME NEW q \in Pages, page'[q].publishing
      PROVE  \E b \in Calls : WaitedFor(b, q)'
  <2>1. CASE page[q].publishing
    <3>1. PICK b \in Calls : WaitedFor(b, q)
      BY <2>1 DEF PublishingWaits, WaitedFor
    <3>2. call'[b] = call[b]
      BY <1>1, <1>2, <3>1 DEF IsSent, WaitedFor
    <3> QED BY <3>1, <3>2 DEF WaitedFor
  <2>2. CASE q = p /\ kind = "publish"
    BY <1>1, <2>2 DEF IsSent, WaitedFor
  <2> QED BY <1>3, <2>1, <2>2
<1> QED BY <1>3 DEF PublishingWaits, WaitedFor

\* Nor does what leaves the requests of waiting buttons as they were.
LEMMA KeptWaits ==
  ASSUME PublishingWaits,
         \A q \in Pages : page'[q].publishing =>
           /\ page[q].publishing
           /\ \A b \in Calls : WaitedFor(b, q) => WaitedFor(b, q)'
  PROVE  PublishingWaits'
BY DEF PublishingWaits, WaitedFor

\* What the seller does keeps the buttons waiting for something.
LEMMA UserWaits ==
  ASSUME Sound, PublishingWaits, UserStep
  PROVE  PublishingWaits'
<1>a. PICK p \in Pages :
        \/ OpenPage(p) \/ StepBack(p) \/ LeavePage(p)
        \/ \E v \in Entries : TypeSheet(p, v) \/ TypeProof(p, v) \/ TypeTerms(p, v)
        \/ \E next \in Steps : SaveStep(p, next)
        \/ \E v \in Values : UseCatalogSheet(p, v)
        \/ EnterManually(p)
        \/ \E n \in 1 .. MaxPhotos : StartUpload(p, n)
        \/ FinishUpload(p) \/ UploadFails(p) \/ RemovePhoto(p)
        \/ ClickPublish(p)
  BY DEF UserStep
<1>b. page \in [Pages -> PageRecord]
  BY DEF Sound, PagesTyped
<1>1. CASE \/ OpenPage(p) \/ EnterManually(p) \/ RemovePhoto(p)
           \/ \E next \in Steps : SaveStep(p, next)
           \/ \E v \in Values : UseCatalogSheet(p, v)
  <2>1. page' = page
    BY <1>1 DEF OpenPage, EnterManually, RemovePhoto, SaveStep, UseCatalogSheet
  <2>2. \E kind \in {"open", "save"}, c \in Calls : IsSent(c, p, kind)
    BY <1>1, SendIs DEF OpenPage, EnterManually, RemovePhoto, SaveStep, UseCatalogSheet
  <2> QED BY <2>1, <2>2, SentWaits
<1>2. CASE FinishUpload(p)
  <2>1. \A q \in Pages : page'[q].publishing = page[q].publishing
    BY <1>2, <1>b DEF FinishUpload, PageRecord
  <2>2. \E c \in Calls : IsSent(c, p, "save")
    BY <1>2, SendIs DEF FinishUpload
  <2> QED BY <2>1, <2>2, SentWaits
<1>3. CASE ClickPublish(p)
  <2>1. \A q \in Pages \ {p} : page'[q].publishing = page[q].publishing
    BY <1>3, <1>b DEF ClickPublish, PageRecord
  <2>2. \E c \in Calls : IsSent(c, p, "publish")
    BY <1>3, SendIs DEF ClickPublish
  <2> QED BY <2>1, <2>2, SentWaits
<1>4. CASE \/ StepBack(p) \/ UploadFails(p) \/ (\E n \in 1 .. MaxPhotos : StartUpload(p, n))
           \/ \E v \in Entries : TypeSheet(p, v) \/ TypeProof(p, v) \/ TypeTerms(p, v)
  <2>1. call' = call
    BY <1>4 DEF StepBack, UploadFails, StartUpload, TypeSheet, TypeProof, TypeTerms, Fill
  <2>2. \A q \in Pages : page'[q].publishing = page[q].publishing
    <3>1. CASE StepBack(p)
      BY <1>b, <3>1 DEF StepBack, PageRecord
    <3>2. CASE UploadFails(p) \/ \E n \in 1 .. MaxPhotos : StartUpload(p, n)
      BY <1>b, <3>2 DEF UploadFails, StartUpload, PageRecord
    <3>3. CASE \E v \in Entries : TypeSheet(p, v) \/ TypeProof(p, v) \/ TypeTerms(p, v)
      <4>1. PICK v \in Entries, field \in {"sheet", "proof", "terms"} : Fill(p, field, v)
        BY <3>3 DEF TypeSheet, TypeProof, TypeTerms
      <4> QED BY <1>b, <4>1 DEF Fill, PageRecord
    <3> QED BY <1>4, <3>1, <3>2, <3>3
  <2> QED BY <2>1, <2>2, KeptWaits DEF WaitedFor
<1>5. CASE LeavePage(p)
  <2>1. page'[p].publishing = FALSE /\ \A q \in Pages \ {p} : page'[q] = page[q]
    BY <1>5, <1>b DEF LeavePage, ClosedPage
  <2>2. ASSUME NEW q \in Pages \ {p}, NEW b \in Calls, WaitedFor(b, q)
        PROVE  WaitedFor(b, q)'
    <3>1. call'[b] = call[b]
      BY <1>5, <2>2 DEF LeavePage, WaitedFor
    <3> QED BY <2>2, <3>1 DEF WaitedFor
  <2> QED BY <2>1, <2>2, KeptWaits
<1> QED BY <1>a, <1>1, <1>2, <1>3, <1>4, <1>5

\* A request that is forgotten or no longer heard is one no button waits for any more.
LEMMA AnsweringWaits ==
  ASSUME Sound, PublishingWaits, NEW c \in Calls, Answering(c)
  PROVE  PublishingWaits'
<1>b. page \in [Pages -> PageRecord]
  BY DEF Sound, PagesTyped
<1>c. \A b \in Calls \ {c} : call'[b] = call[b]
  BY DEF Answering, ShowPage, SaveAnswered, PublishAnswered, AnswerLost, Unheard, Forget, Sound
<1>d. \A b \in Calls \ {c} : \A q \in Pages : WaitedFor(b, q) => WaitedFor(b, q)'
  BY <1>c DEF WaitedFor
<1>f. ASSUME \A q \in Pages : ~WaitedFor(c, q),
             \A q \in Pages : page'[q].publishing => page[q].publishing
      PROVE  PublishingWaits'
  BY <1>d, <1>f, KeptWaits
<1>g. call[c].kind # "publish" \/ ~call[c].heard => \A q \in Pages : ~WaitedFor(c, q)
  BY DEF WaitedFor
<1>1. CASE ShowPage(c)
  <2>1. \A q \in Pages : page'[q].publishing => page[q].publishing
    <3>1. CASE page' = page
      BY <3>1
    <3>2. CASE page' # page
      <4>1. PICK step \in Steps :
              page' = [page EXCEPT ![call[c].page] =
                [ClosedPage EXCEPT !.at = call[c].at, !.copy = call[c].seen,
                                   !.form = FormOf(call[c].seen), !.active = step]]
        BY <1>1, <3>2 DEF ShowPage
      <4> QED BY <1>b, <4>1 DEF ClosedPage
    <3> QED BY <3>1, <3>2
  <2> QED BY <1>1, <1>f, <1>g, <2>1 DEF ShowPage, Answered
<1>2. CASE SaveAnswered(c)
  <2>1. \A q \in Pages : page'[q].publishing => page[q].publishing
    BY <1>2, <1>b DEF SaveAnswered, PageRecord
  <2> QED BY <1>2, <1>f, <1>g, <2>1 DEF SaveAnswered, Answered
<1>3. CASE PublishAnswered(c) \/ (AnswerLost(c) /\ call[c].kind = "publish")
  <2>1. \A q \in Pages : page'[q].publishing => q # call[c].page /\ page[q].publishing
    BY <1>3, <1>b DEF PublishAnswered, AnswerLost, PageRecord
  <2> QED BY <1>d, <2>1, KeptWaits DEF WaitedFor
<1>4. CASE Unheard(c) \/ (AnswerLost(c) /\ call[c].kind # "publish")
  <2>1. page' = page
    BY <1>4 DEF Unheard, AnswerLost
  <2> QED BY <1>4, <1>f, <1>g, <2>1 DEF Unheard
<1> QED BY <1>1, <1>2, <1>3, <1>4 DEF Answering

\* The server neither loses a request nor stops the tab from hearing its answer.
LEMMA ServerWaits ==
  ASSUME Sound, PublishingWaits, NEW c \in Calls, Serving(c)
  PROVE  PublishingWaits'
<1>0. ServerStep(c) /\ page' = page
  BY DEF Serving
<1>1. \A b \in Calls \ {c} : call'[b] = call[b]
  BY <1>0, ServerMoves
<1>2. call[c] \in CallRecord
  <2>1. call[c].kind # "none" \/ call[c].phase # "idle"
    BY <1>0 DEF ServerStep, ActiveDraftFound, NoActiveDraft, CreateDraft, ReadDraft,
       UpdateDraft, PublishRead, PublishDraft, CallFails
  <2> QED BY <2>1 DEF NoCall, Sound, Records
<1>3. /\ call'[c].kind = call[c].kind /\ call'[c].page = call[c].page
      /\ call'[c].heard = call[c].heard
  <2>1. ASSUME NEW d, NEW row, AnswerWith(c, d, row)
        PROVE  /\ call'[c].kind = call[c].kind /\ call'[c].page = call[c].page
               /\ call'[c].heard = call[c].heard
    BY <1>2, <2>1 DEF AnswerWith, Sound, CallRecord
  <2>2. ASSUME NEW p, SetPhase(c, p)
        PROVE  /\ call'[c].kind = call[c].kind /\ call'[c].page = call[c].page
               /\ call'[c].heard = call[c].heard
    BY <1>2, <2>2 DEF SetPhase, Sound, CallRecord
  <2>3. ASSUME NEW row, call' = [call EXCEPT ![c].phase = "read", ![c].seen = row]
        PROVE  /\ call'[c].kind = call[c].kind /\ call'[c].page = call[c].page
               /\ call'[c].heard = call[c].heard
    BY <1>2, <2>3 DEF Sound, CallRecord
  <2>4. CASE ActiveDraftFound(c) \/ CreateDraft(c) \/ UpdateDraft(c) \/ PublishDraft(c)
    BY <2>1, <2>4 DEF ActiveDraftFound, CreateDraft, UpdateDraft, PublishDraft
  <2>5. CASE NoActiveDraft(c) \/ CallFails(c)
    BY <2>2, <2>5 DEF NoActiveDraft, CallFails
  <2>6. CASE ReadDraft(c) \/ PublishRead(c)
    BY <2>2, <2>3, <2>6 DEF ReadDraft, PublishRead
  <2> QED BY <1>0, <2>4, <2>5, <2>6 DEF ServerStep
<1>4. \A b \in Calls : \A q \in Pages : WaitedFor(b, q) => WaitedFor(b, q)'
  BY <1>1, <1>3 DEF WaitedFor
<1> QED BY <1>0, <1>4, KeptWaits

\* While the publish button waits, a request exists whose answer or loss ends it.
THEOREM PublishingWaitsAlways == Spec => []PublishingWaits
<1>1. Init => Sound /\ PublishingWaits
  BY SoundInit DEF Init, PublishingWaits, ClosedPage
<1>2. Sound /\ PublishingWaits /\ [Next]_vars => (Sound /\ PublishingWaits)'
  <2> SUFFICES ASSUME Sound, PublishingWaits, [Next]_vars
               PROVE  PublishingWaits'
    BY SoundStep
  <2>1. CASE UNCHANGED vars
    BY <2>1 DEF vars, PublishingWaits
  <2> QED BY <2>1, UserWaits, ServerWaits, AnsweringWaits DEF Next
<1> QED BY <1>1, <1>2, PTL DEF Spec
-----------------------------------------------------------------------------
(* The rest of the types                                                     *)

RestTyped ==
  /\ newer \subseteq DraftIds \X DraftIds
  /\ disturbed \subseteq DraftIds
  /\ edits \in 0 .. MaxEdits
  /\ sends \in 0 .. MaxSends

\* Whatever the seller does, the counts stay within their bounds.
LEMMA UserRest ==
  ASSUME Sound, RestTyped, NEW p \in Pages,
         \/ OpenPage(p) \/ StepBack(p) \/ LeavePage(p)
         \/ \E v \in Entries : TypeSheet(p, v) \/ TypeProof(p, v) \/ TypeTerms(p, v)
         \/ \E next \in Steps : SaveStep(p, next)
         \/ \E v \in Values : UseCatalogSheet(p, v)
         \/ EnterManually(p)
         \/ \E n \in 1 .. MaxPhotos : StartUpload(p, n)
         \/ FinishUpload(p) \/ UploadFails(p) \/ RemovePhoto(p)
         \/ ClickPublish(p)
  PROVE  RestTyped'
<1>1. page[p].at # 0 => page[p].at \in DraftIds
  BY PageFields
<1>2. /\ Edit => edits' \in 0 .. MaxEdits
      /\ \A kind, dto, next : Send(p, kind, page[p].at, dto, next) /\ page[p].at # 0 =>
           /\ sends' \in 0 .. MaxSends /\ disturbed' \subseteq DraftIds
           /\ newer' = newer
      /\ \A kind, dto, next : Send(p, kind, 0, dto, next) =>
           /\ sends' \in 0 .. MaxSends /\ disturbed' \subseteq DraftIds
           /\ newer' = newer
  BY <1>1, WizardBounds DEF Edit, Send, RestTyped, tableVars
<1>3. CASE OpenPage(p)
  BY <1>2, <1>3 DEF OpenPage, RestTyped
<1>4. CASE StepBack(p) \/ UploadFails(p)
  BY <1>4 DEF StepBack, UploadFails, RestTyped
<1>5. CASE LeavePage(p)
  BY <1>1, <1>5 DEF LeavePage, RestTyped
<1>6. CASE \E v \in Entries : TypeSheet(p, v) \/ TypeProof(p, v) \/ TypeTerms(p, v)
  BY <1>2, <1>6 DEF TypeSheet, TypeProof, TypeTerms, Fill, RestTyped
<1>7. CASE \E next \in Steps : SaveStep(p, next)
  BY <1>2, <1>7 DEF SaveStep, RestTyped
<1>8. CASE (\E v \in Values : UseCatalogSheet(p, v)) \/ RemovePhoto(p)
  BY <1>2, <1>8 DEF UseCatalogSheet, RemovePhoto, RestTyped
<1>9. CASE EnterManually(p)
  BY <1>2, <1>9 DEF EnterManually, RestTyped
<1>10. CASE \E n \in 1 .. MaxPhotos : StartUpload(p, n)
  BY <1>2, <1>10 DEF StartUpload, RestTyped
<1>11. CASE FinishUpload(p)
  BY <1>2, <1>11, PageFields DEF FinishUpload, RestTyped
<1>12. CASE ClickPublish(p)
  BY <1>2, <1>12 DEF ClickPublish, RestTyped
<1> QED BY <1>3, <1>4, <1>5, <1>6, <1>7, <1>8, <1>9, <1>10, <1>11, <1>12

\* And whatever the server and the pages answer.
LEMMA CallsRest ==
  ASSUME Sound, RestTyped, NEW c \in Calls, Serving(c) \/ Answering(c)
  PROVE  RestTyped'
<1>1. CASE Serving(c)
  <2>1. newer' \subseteq DraftIds \X DraftIds
    <3>1. ASSUME NEW d \in DraftIds, Touch(d)
          PROVE  newer' \subseteq DraftIds \X DraftIds
      BY <3>1 DEF Touch, RestTyped
    <3>2. CASE CreateDraft(c)
      BY <3>1, <3>2 DEF CreateDraft
    <3>3. CASE UpdateDraft(c) \/ PublishDraft(c)
      BY <3>1, <3>3 DEF UpdateDraft, PublishDraft, Sound
    <3>4. CASE \/ ActiveDraftFound(c) \/ NoActiveDraft(c) \/ ReadDraft(c) \/ PublishRead(c)
               \/ CallFails(c)
      BY <3>4 DEF ActiveDraftFound, NoActiveDraft, ReadDraft, PublishRead, CallFails,
         tableVars, RestTyped
    <3> QED BY <1>1, <3>2, <3>3, <3>4 DEF Serving, ServerStep
  <2> QED BY <1>1, <2>1 DEF Serving, RestTyped
<1>2. CASE ShowPage(c)
  BY <1>2 DEF ShowPage, Answered, Sound, RestTyped
<1>3. CASE SaveAnswered(c) \/ PublishAnswered(c) \/ Unheard(c)
  BY <1>3 DEF SaveAnswered, PublishAnswered, Unheard, RestTyped
<1>4. CASE AnswerLost(c)
  <2>1. call[c].at \in 0 .. MaxDrafts
    <3>1. call[c] \in Records
      BY DEF Sound
    <3>2. NoCall.at \in 0 .. MaxDrafts
      BY MaxDraftsType DEF NoCall
    <3> QED BY <3>1, <3>2 DEF Records, CallRecord
  <2>2. {call[c].at} \ {0} \subseteq DraftIds
    BY <2>1, MaxDraftsType DEF DraftIds
  <2> QED BY <1>4, <2>2 DEF AnswerLost, RestTyped
<1> QED BY <1>1, <1>2, <1>3, <1>4 DEF Answering

\* The drafts, listings, requests and tabs of a seller keep to their columns and fields
\* whatever overlaps.
THEOREM WizardTyped == Spec => []TypeOK
<1>1. Init => RestTyped
  BY MaxDraftsType, WizardBounds DEF Init, TablesInit, RestTyped, DraftIds
<1>2. Sound /\ RestTyped /\ [Next]_vars => RestTyped'
  <2> SUFFICES ASSUME Sound, RestTyped, [Next]_vars PROVE RestTyped'
    OBVIOUS
  <2>1. CASE UserStep
    BY <2>1, UserRest DEF UserStep
  <2>2. CASE UNCHANGED vars
    BY <2>2 DEF vars, RestTyped
  <2> QED BY <2>1, <2>2, CallsRest DEF Next
<1>3. Spec => [](Sound /\ RestTyped)
  BY <1>1, <1>2, SoundInit, SoundStep, PTL DEF Spec
<1>4. Sound /\ RestTyped /\ PublishingBounded /\ CreatingBounded => TypeOK
  BY DEF Sound, PagesTyped, RestTyped, PublishingBounded, CreatingBounded, TypeOK,
     DraftsTypeOK, Records
<1> QED BY <1>3, <1>4, PublishingBoundedAlways, CreatingBoundedAlways, PTL
=============================================================================

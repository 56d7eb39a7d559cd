---------------------------- MODULE WizardProofs ----------------------------
(***************************************************************************)
(* What a seller who is left alone can rely on: as long as no two requests *)
(* about a draft overlap, no answer is lost and no second tab shows it,    *)
(* the page shows the draft as stored, the listing shows what was reviewed *)
(* and the price is the one of the terms.  Other drafts may be disturbed   *)
(* meanwhile as much as they like.                                         *)
(***************************************************************************)
EXTENDS DraftProofs

-----------------------------------------------------------------------------
(* The inductive invariant                                                   *)

\* Requests that write draft d, until the page knows their answer.
Writers(d) == {c \in Calls : call[c].kind \in {"save", "publish"} /\ call[c].at = d}

\* A draft that a page or a request knows of has been created, and one that has not been
\* is empty.
KnownAreCreated ==
  /\ \A p \in Pages : page[p].at # 0 => draft[page[p].at].status # "FREE"
  /\ \A c \in Calls : call[c].at # 0 => draft[call[c].at].status # "FREE"
  /\ \A d \in DraftIds : draft[d].status = "FREE" => draft[d] = FreeRow

\* A tab that asks for its draft shows none yet and waits for nothing else; every other
\* answer a tab waits for is about the draft it shows.
AnswersFindTheirPage ==
  \A c \in Calls : call[c].heard =>
    IF call[c].kind = "open"
    THEN /\ page[call[c].page].at = 0
         /\ \A b \in Calls : call[b].heard /\ call[b].page = call[c].page => b = c
    ELSE call[c].at = page[call[c].page].at

\* The body of a save brings a price exactly when it brings terms, and the same one.
PriceSuits(dto) ==
  IF dto.terms = Keep THEN dto.price = Keep ELSE dto.terms = Blank \/ dto.price = dto.terms

BodiesPriceTerms == \A c \in Calls : call[c].kind = "save" => PriceSuits(call[c].dto)

\* publishDraft got past its checks with an open draft.
ChecksSawOpen ==
  \A c \in Calls :
    call[c].kind = "publish" /\ call[c].phase = "read" => call[c].seen.status = "OPEN"

\* A request about draft d works on the row as it is, and publishes what its page shows.
UpToDate(c, d) ==
  /\ call[c].heard
  /\ call[c].phase \in {"read", "done"} => call[c].seen = draft[d]
  /\ call[c].kind = "publish" /\ call[c].phase \in {"sent", "read"} =>
       call[c].dto.terms \in {Keep, page[call[c].page].copy.terms}

\* The page of draft d shows the row, but for an answer on its way.
ShowsRow(p, d) ==
  (\A c \in Writers(d) : call[c].phase # "done") => page[p].copy = draft[d]

\* What is so of a draft nobody disturbs.
Quiet(d) ==
  /\ \A b, c \in Writers(d) : b = c
  /\ \A c \in Writers(d) : UpToDate(c, d)
  /\ \A p, q \in Pages : page[p].at = d /\ page[q].at = d => p = q
  /\ \A p \in Pages : page[p].at = d => ShowsRow(p, d)

WInv ==
  /\ KnownAreCreated
  /\ AnswersFindTheirPage
  /\ BodiesPriceTerms
  /\ ChecksSawOpen
  /\ \A d \in DraftIds \ disturbed : Quiet(d)

-----------------------------------------------------------------------------
(* What the server does to one request and one row                           *)

SameElse(c) == \A b \in Calls \ {c} : call'[b] = call[b]

SameQuestion(c) ==
  /\ call'[c].kind = call[c].kind /\ call'[c].page = call[c].page
  /\ call'[c].dto = call[c].dto /\ call'[c].heard = call[c].heard

\* The request is refused or dies, or finds no open draft.
GoesOn(c) ==
  /\ call'[c].at = call[c].at /\ call[c].phase \in {"sent", "read"}
  /\ \/ call'[c].phase = "failed"
     \/ call[c].kind = "open" /\ call'[c].phase = "read"
  /\ draft' = draft /\ listings' = listings

\* It finds an open draft.
Finds(c) ==
  /\ call[c].kind = "open"
  /\ call'[c].at \in DraftIds /\ draft[call'[c].at].status = "OPEN"
  /\ draft' = draft /\ listings' = listings

\* It creates one.
Creates(c) ==
  /\ call[c].kind = "open"
  /\ call'[c].at \in DraftIds /\ draft[call'[c].at].status = "FREE"
  /\ draft' = [draft EXCEPT ![call'[c].at].status = "OPEN"]
  /\ listings' = listings

\* It takes its snapshot.
Reads(c) ==
  /\ call[c].kind \in {"save", "publish"}
  /\ call'[c].at = call[c].at /\ call[c].at \in DraftIds
  /\ call'[c].phase = "read" /\ call[c].phase = "sent"
  /\ call'[c].seen = draft[call[c].at]
  /\ call[c].kind = "publish" => draft[call[c].at].status = "OPEN"
  /\ draft' = draft /\ listings' = listings

\* It writes a row and answers with it.
Writes(c, row) ==
  /\ call[c].kind \in {"save", "publish"}
  /\ call'[c].at = call[c].at /\ call[c].at \in DraftIds
  /\ call'[c].phase = "done" /\ call[c].phase = "read"
  /\ call'[c].seen = row
  /\ draft' = [draft EXCEPT ![call[c].at] = row]

WrittenRow(c) ==
  IF call[c].kind = "save" THEN UpdatedRow(draft[call[c].at], call[c].seen, call[c].dto)
  ELSE [draft[call[c].at] EXCEPT !.status = "PUBLISHED"]

\* A request the server works on is typed.
LEMMA ServedCall ==
  ASSUME Sound, NEW c \in Calls, ServerStep(c)
  PROVE  call[c] \in CallRecord /\ call \in [Calls -> Records]
<1>1. call[c].kind # "none" \/ call[c].phase # "idle"
  BY DEF ServerStep, ActiveDraftFound, NoActiveDraft, CreateDraft, ReadDraft,
     UpdateDraft, PublishRead, PublishDraft, CallFails
<1> QED BY <1>1 DEF NoCall, Sound, Records

\* Every step of the server is one of the five, about one request.
LEMMA ServerOutcome ==
  ASSUME Sound, NEW c \in Calls, ServerStep(c)
  PROVE  /\ SameElse(c) /\ SameQuestion(c)
         /\ \/ GoesOn(c) \/ Finds(c) \/ Creates(c) \/ Reads(c)
            \/ Writes(c, WrittenRow(c))
<1>0. call[c] \in CallRecord /\ call \in [Calls -> Records]
  BY ServedCall
<1>c. ASSUME NEW d, NEW row, AnswerWith(c, d, row)
      PROVE  /\ SameElse(c) /\ SameQuestion(c)
             /\ call'[c].at = d /\ call'[c].seen = row /\ call'[c].phase = "done"
  BY <1>0, <1>c DEF AnswerWith, CallRecord, SameElse, SameQuestion
<1>d. ASSUME NEW p, SetPhase(c, p)
      PROVE  /\ SameElse(c) /\ SameQuestion(c)
             /\ call'[c].at = call[c].at /\ call'[c].phase = p
  BY <1>0, <1>d DEF SetPhase, CallRecord, SameElse, SameQuestion
<1>e. ASSUME NEW row, call' = [call EXCEPT ![c].phase = "read", ![c].seen = row]
      PROVE  /\ SameElse(c) /\ SameQuestion(c) /\ call'[c].at = call[c].at
             /\ call'[c].seen = row /\ call'[c].phase = "read"
  BY <1>0, <1>e DEF CallRecord, SameElse, SameQuestion
<1>f. call[c].kind \in {"save", "publish"} => call[c].at \in DraftIds
  BY DEF Sound
<1>1. CASE ActiveDraftFound(c)
  <2>1. PICK d \in OpenDrafts : AnswerWith(c, d, draft[d])
    BY <1>1 DEF ActiveDraftFound
  <2> QED BY <1>1, <1>c, <2>1 DEF ActiveDraftFound, Finds, OpenDrafts, tableVars
<1>2. CASE NoActiveDraft(c)
  BY <1>2, <1>d DEF NoActiveDraft, GoesOn, tableVars
<1>3. CASE CreateDraft(c)
  <2>1. PICK d \in DraftIds : /\ draft[d].status = "FREE"
                              /\ draft' = [draft EXCEPT ![d].status = "OPEN"]
                              /\ AnswerWith(c, d, [FreeRow EXCEPT !.status = "OPEN"])
    BY <1>3 DEF CreateDraft
  <2>2. /\ SameElse(c) /\ SameQuestion(c) /\ call'[c].at = d
    BY <1>c, <2>1
  <2> QED BY <1>3, <2>1, <2>2 DEF CreateDraft, Creates
<1>4. CASE ReadDraft(c)
  BY <1>4, <1>e, <1>f DEF ReadDraft, Reads, tableVars
<1>5. CASE UpdateDraft(c)
  <2>1. /\ call[c].kind = "save" /\ call[c].phase = "read"
        /\ draft' = [draft EXCEPT ![call[c].at] = WrittenRow(c)]
        /\ AnswerWith(c, call[c].at, WrittenRow(c))
    BY <1>5 DEF UpdateDraft, WrittenRow
  <2> QED BY <1>c, <1>f, <2>1 DEF Writes
<1>6. CASE PublishRead(c)
  <2>1. CASE SetPhase(c, "failed")
    BY <1>6, <1>d, <2>1 DEF PublishRead, GoesOn, tableVars
  <2>2. CASE /\ draft[call[c].at].status = "OPEN"
             /\ call' = [call EXCEPT ![c].phase = "read", ![c].seen = draft[call[c].at]]
    BY <1>6, <1>e, <1>f, <2>2 DEF PublishRead, Reads, tableVars
  <2> QED BY <1>6, <2>1, <2>2 DEF PublishRead
<1>7. CASE PublishDraft(c)
  <2>1. /\ call[c].kind = "publish" /\ call[c].phase = "read"
        /\ draft' = [draft EXCEPT ![call[c].at] = WrittenRow(c)]
        /\ AnswerWith(c, call[c].at, WrittenRow(c))
    BY <1>7 DEF PublishDraft, WrittenRow
  <2> QED BY <1>c, <1>f, <2>1 DEF Writes
<1>8. CASE CallFails(c)
  BY <1>8, <1>d DEF CallFails, GoesOn, tableVars
<1> QED BY <1>1, <1>2, <1>3, <1>4, <1>5, <1>6, <1>7, <1>8 DEF ServerStep

\* A writer writes a row, and one that stays created.
LEMMA WrittenRowType ==
  ASSUME Sound, KnownAreCreated, NEW c \in Calls, call[c].kind \in {"save", "publish"}
  PROVE  /\ WrittenRow(c) \in DraftRow /\ WrittenRow(c).status # "FREE"
<1>1. call[c].at \in DraftIds /\ call[c] \in CallRecord /\ call[c].at # 0
  BY KindsOfCalls, MaxDraftsType DEF Sound, DraftIds
<1>2. draft[call[c].at] \in DraftRow /\ draft[call[c].at].status # "FREE"
  BY <1>1 DEF Sound, KnownAreCreated
<1>3. call[c].seen \in DraftRow /\ call[c].dto \in UpdateDto
  BY <1>1 DEF CallRecord
<1>4. CASE call[c].kind = "save"
  <2> DEFINE row == draft[call[c].at]
             seen == call[c].seen
             dto == call[c].dto
  <2>1. row \in DraftRow /\ row.status # "FREE" /\ seen \in DraftRow /\ dto \in UpdateDto
    BY <1>2, <1>3
  <2>2. WrittenRow(c) = UpdatedRow(row, seen, dto)
    BY <1>4 DEF WrittenRow
  <2> HIDE DEF row, seen, dto
  <2>3. /\ UpdatedRow(row, seen, dto) \in DraftRow
        /\ UpdatedRow(row, seen, dto).status = row.status
    BY <2>1, UpdatedRowType
  <2> QED BY <2>1, <2>2, <2>3
<1>5. CASE call[c].kind # "save"
  BY <1>2, <1>5 DEF WrittenRow, DraftRow
<1> QED BY <1>4, <1>5

\* How a step of the server changes a row: not at all, or from nothing to an empty open
\* draft, or by the request that writes it.
LEMMA RowsWritten ==
  ASSUME Sound, KnownAreCreated, NEW c \in Calls, ServerStep(c), NEW d \in DraftIds
  PROVE  \/ draft'[d] = draft[d]
         \/ /\ Creates(c) /\ d = call'[c].at
            /\ draft[d] = FreeRow /\ draft'[d] = [FreeRow EXCEPT !.status = "OPEN"]
         \/ /\ Writes(c, WrittenRow(c)) /\ d = call[c].at /\ draft'[d] = WrittenRow(c)
<1>1. CASE GoesOn(c) \/ Finds(c) \/ Reads(c)
  BY <1>1 DEF GoesOn, Finds, Reads
<1>2. CASE Creates(c)
  BY <1>2, EmptyTypes DEF Creates, Sound, KnownAreCreated, DraftRow
<1>3. CASE Writes(c, WrittenRow(c))
  BY <1>3 DEF Writes, Sound
<1> QED BY <1>1, <1>2, <1>3, ServerOutcome

\* The server forgets no draft that was created.
LEMMA ServerKnown ==
  ASSUME Sound, KnownAreCreated, NEW c \in Calls, Serving(c)
  PROVE  KnownAreCreated'
<1>0. ServerStep(c) /\ page' = page
  BY DEF Serving
<1>1. ASSUME NEW d \in DraftIds
      PROVE  /\ draft[d].status # "FREE" => draft'[d].status # "FREE"
             /\ draft'[d].status = "FREE" => draft'[d] = draft[d]
  <2>1. [FreeRow EXCEPT !.status = "OPEN"].status = "OPEN"
    BY DEF FreeRow
  <2>2. CASE Writes(c, WrittenRow(c)) /\ d = call[c].at /\ draft'[d] = WrittenRow(c)
    BY <2>2, WrittenRowType DEF Writes
  <2> QED BY <1>0, <2>1, <2>2, RowsWritten
<1>2. ASSUME NEW p \in Pages, page'[p].at # 0
      PROVE  draft'[page'[p].at].status # "FREE"
  BY <1>0, <1>1, <1>2, PageFields DEF KnownAreCreated
<1>3. ASSUME NEW b \in Calls, call'[b].at # 0
      PROVE  draft'[call'[b].at].status # "FREE"
  <2>0. \A a \in Calls : call[a].at # 0 =>
          call[a].at \in DraftIds /\ draft[call[a].at].status # "FREE"
    <3>1. \A a \in Calls : call[a].at \in 0 .. MaxDrafts
      BY MaxDraftsType DEF Sound, Records, CallRecord, NoCall
    <3> QED BY <3>1, MaxDraftsType DEF KnownAreCreated, DraftIds
  <2>1. CASE call'[b].at = call[b].at
    BY <1>1, <1>3, <2>0, <2>1
  <2>2. CASE call'[b].at # call[b].at
    <3>1. b = c /\ (Finds(c) \/ Creates(c))
      BY <1>0, <2>2, ServerOutcome DEF SameElse, GoesOn, Reads, Writes
    <3>2. CASE Finds(c)
      BY <3>1, <3>2, <1>1 DEF Finds
    <3>3. CASE Creates(c)
      BY <3>1, <3>3 DEF Creates, Sound, DraftRow
    <3> QED BY <3>1, <3>2, <3>3
  <2> QED BY <2>1, <2>2
<1>4. ASSUME NEW d \in DraftIds, draft'[d].status = "FREE"
      PROVE  draft'[d] = FreeRow
  BY <1>1, <1>4 DEF KnownAreCreated
<1> QED BY <1>2, <1>3, <1>4 DEF KnownAreCreated

\* Nor does it change what is asked, or by whom, and it remembers what it has checked.
LEMMA ServerAsked ==
  ASSUME Sound, AnswersFindTheirPage, BodiesPriceTerms, ChecksSawOpen, NEW c \in Calls,
         Serving(c)
  PROVE  AnswersFindTheirPage' /\ BodiesPriceTerms' /\ ChecksSawOpen'
<1>0. /\ ServerStep(c) /\ page' = page /\ SameElse(c) /\ SameQuestion(c)
      /\ GoesOn(c) \/ Finds(c) \/ Creates(c) \/ Reads(c) \/ Writes(c, WrittenRow(c))
  BY ServerOutcome DEF Serving
<1>1. \A b \in Calls : /\ call'[b].kind = call[b].kind /\ call'[b].page = call[b].page
                       /\ call'[b].dto = call[b].dto /\ call'[b].heard = call[b].heard
                       /\ call'[b].kind # "open" => call'[b].at = call[b].at
  BY <1>0 DEF SameElse, SameQuestion, GoesOn, Finds, Creates, Reads, Writes
<1>2. AnswersFindTheirPage'
  BY <1>0, <1>1 DEF AnswersFindTheirPage
<1>3. BodiesPriceTerms'
  BY <1>1 DEF BodiesPriceTerms
<1>4. ChecksSawOpen'
  BY <1>0, <1>1 DEF ChecksSawOpen, SameElse, GoesOn, Finds, Creates, Reads, Writes
<1> QED BY <1>2, <1>3, <1>4

\* Steps that touch neither a draft, nor the requests that write it, nor the copy of a
\* page that shows it.
LEMMA QuietKept ==
  ASSUME Sound, AnswersFindTheirPage, NEW d \in DraftIds, Quiet(d),
         draft'[d] = draft[d], Writers(d)' = Writers(d),
         \A b \in Writers(d) : call'[b] = call[b],
         \A p \in Pages : page'[p].at = d => page[p].at = d,
         \A p \in Pages : page[p].at = d /\ (Writers(d) # {} \/ page'[p].at = d) =>
           page'[p].copy = page[p].copy
  PROVE  Quiet(d)'
<1>1. \A b \in Writers(d) : /\ call[b].heard /\ call[b].page \in Pages
                            /\ page[call[b].page].at = d
  BY KindsOfCalls DEF Quiet, UpToDate, Writers, AnswersFindTheirPage, CallRecord
<1>2. \A b \in Writers(d) : UpToDate(b, d)'
  BY <1>1 DEF Quiet, UpToDate
<1>3. \A p \in Pages : page'[p].at = d => ShowsRow(p, d)'
  BY DEF Quiet, ShowsRow
<1> QED BY <1>2, <1>3 DEF Quiet

\* The server keeps a draft that is left alone in step with its page.
LEMMA ServerQuiet ==
  ASSUME Sound, WInv, NEW c \in Calls, Serving(c), NEW d \in DraftIds \ disturbed
  PROVE  Quiet(d)'
<1>0. /\ ServerStep(c) /\ page' = page /\ SameElse(c) /\ SameQuestion(c)
      /\ GoesOn(c) \/ Finds(c) \/ Creates(c) \/ Reads(c) \/ Writes(c, WrittenRow(c))
  BY ServerOutcome DEF Serving
<1>a. Quiet(d) /\ AnswersFindTheirPage /\ KnownAreCreated
  BY DEF WInv
<1>b. d # 0
  BY MaxDraftsType DEF DraftIds
<1>1. Writers(d)' = Writers(d)
  BY <1>0 DEF Writers, SameElse, SameQuestion, GoesOn, Finds, Creates, Reads, Writes
<1>2. CASE c \notin Writers(d)
  <2>1. CASE draft'[d] = draft[d]
    BY <1>0, <1>1, <1>2, <1>a, <2>1, QuietKept DEF SameElse, Writers
  <2>2. CASE draft'[d] # draft[d]
    <3>1. draft[d] = FreeRow
      BY <1>0, <1>2, <1>a, <2>2, RowsWritten DEF Writers, Writes
    <3>2. draft[d].status = "FREE"
      BY <3>1 DEF FreeRow
    <3>3. Writers(d) = {} /\ \A p \in Pages : page[p].at # d
      BY <1>a, <1>b, <3>2 DEF KnownAreCreated, Writers
    <3> QED BY <1>0, <1>1, <3>3 DEF Quiet
  <2> QED BY <2>1, <2>2
<1>3. CASE c \in Writers(d)
  <2>1. /\ call[c].kind \in {"save", "publish"} /\ call[c].at = d /\ Writers(d) = {c}
        /\ UpToDate(c, d)
    BY <1>3, <1>a DEF Writers, Quiet
  <2>2. /\ UpToDate(c, d)'
        /\ \/ call'[c].phase = "done"
           \/ draft'[d] = draft[d] /\ call[c].phase # "done"
    <3>1. CASE GoesOn(c)
      BY <1>0, <2>1, <3>1 DEF GoesOn, UpToDate, SameQuestion
    <3>2. CASE Reads(c)
      BY <1>0, <2>1, <3>2 DEF Reads, UpToDate, SameQuestion
    <3>3. CASE Writes(c, WrittenRow(c))
      <4>1. draft'[d] = call'[c].seen /\ call'[c].phase = "done"
        BY <2>1, <3>3 DEF Writes, Sound
      <4> QED BY <1>0, <2>1, <4>1 DEF UpToDate, SameQuestion
    <3> QED BY <1>0, <2>1, <3>1, <3>2, <3>3 DEF Finds, Creates
  <2>3. \A p \in Pages : page'[p].at = d => ShowsRow(p, d)'
    BY <1>0, <1>1, <1>a, <2>1, <2>2 DEF Quiet, ShowsRow
  <2> QED BY <1>0, <1>1, <1>a, <2>1, <2>2, <2>3 DEF Quiet
<1> QED BY <1>2, <1>3

-----------------------------------------------------------------------------
(* What a page does with an answer                                           *)

Forgotten(c) == call'[c] = NoCall /\ SameElse(c)

SameView == \A p \in Pages : page'[p].at = page[p].at /\ page'[p].copy = page[p].copy

\* The answer is an error, or nobody waits for it.
Drops(c) ==
  /\ Forgotten(c) /\ SameView
  /\ call[c].phase = "failed" \/ ~call[c].heard
  /\ disturbed' = disturbed

\* The draft answered is shown.
Shows(c) ==
  /\ Forgotten(c)
  /\ call[c].heard /\ call[c].kind = "open" /\ call[c].at \in DraftIds
  /\ \A p \in Pages \ {call[c].page} : page'[p] = page[p]
  /\ page'[call[c].page].at = call[c].at /\ page'[call[c].page].copy = call[c].seen
  /\ \/ disturbed' = disturbed \cup {call[c].at}
     \/ /\ disturbed' = disturbed
        /\ \A q \in Pages \ {call[c].page} : page[q].at # call[c].at
        /\ draft[call[c].at] = call[c].seen
        /\ InFlightOn(call[c].at) = {c}

\* The row answered is put in the copy.
Applies(c) ==
  /\ Forgotten(c)
  /\ call[c].heard /\ call[c].kind \in {"save", "publish"} /\ call[c].phase = "done"
  /\ \A p \in Pages \ {call[c].page} : page'[p] = page[p]
  /\ page'[call[c].page].at = page[call[c].page].at
  /\ page'[call[c].page].copy = call[c].seen
  /\ disturbed' = disturbed

\* The answer will not arrive.
Loses(c) ==
  /\ SameElse(c) /\ SameView
  /\ call'[c].kind = call[c].kind /\ call'[c].at = call[c].at
  /\ call'[c].phase = call[c].phase /\ call'[c].seen = call[c].seen
  /\ call'[c].dto = call[c].dto /\ ~call'[c].heard
  /\ call[c].at # 0 => disturbed' = disturbed \cup {call[c].at}
  /\ call[c].at = 0 => disturbed' = disturbed

\* A request a page deals with is typed.
LEMMA AnsweredCall ==
  ASSUME Sound, NEW c \in Calls, Answering(c)
  PROVE  /\ call[c] \in CallRecord /\ call \in [Calls -> Records]
         /\ call[c].page \in Pages /\ page \in [Pages -> PageRecord]
<1>1. call[c].kind # "none" \/ call[c].phase # "idle" \/ call[c].heard
  BY DEF Answering, Answered, ShowPage, SaveAnswered, PublishAnswered, AnswerLost, Unheard
<1>2. call[c] \in CallRecord /\ call \in [Calls -> Records]
  BY <1>1 DEF NoCall, Sound, Records
<1> QED BY <1>2 DEF CallRecord, Sound, PagesTyped

\* A page does one of the four, and writes no row.
LEMMA AnswerOutcome ==
  ASSUME Sound, NEW c \in Calls, Answering(c)
  PROVE  /\ draft' = draft /\ listings' = listings
         /\ Drops(c) \/ Shows(c) \/ Applies(c) \/ Loses(c)
<1>0. /\ call[c] \in CallRecord /\ call \in [Calls -> Records]
      /\ call[c].page \in Pages /\ page \in [Pages -> PageRecord]
  BY AnsweredCall
<1>a. draft' = draft /\ listings' = listings
  BY DEF Answering, ShowPage, SaveAnswered, PublishAnswered, AnswerLost, Unheard
<1>b. Forget(c) => Forgotten(c)
  BY <1>0 DEF Forget, Forgotten, SameElse
<1>c. page' = page => SameView
  BY DEF SameView
<1>d. page' = [page EXCEPT ![call[c].page].publishing = FALSE] => SameView
  BY <1>0 DEF SameView, PageRecord
<1>1. CASE ShowPage(c)
  <2>1. CASE call[c].phase = "failed"
    BY <1>1, <1>b, <1>c, <2>1 DEF ShowPage, Drops
  <2>2. CASE call[c].phase # "failed"
    <3>1. call[c].at \in DraftIds /\ call[c].heard /\ call[c].kind = "open"
      BY <1>1, <2>2 DEF ShowPage, Answered, Sound
    <3>2. PICK step \in Steps :
            page' = [page EXCEPT ![call[c].page] =
              [ClosedPage EXCEPT !.at = call[c].at, !.copy = call[c].seen,
                                 !.form = FormOf(call[c].seen), !.active = step]]
      BY <1>1, <2>2 DEF ShowPage
    <3> DEFINE shown == [ClosedPage EXCEPT !.at = call[c].at, !.copy = call[c].seen,
                                           !.form = FormOf(call[c].seen), !.active = step]
    <3>3. shown.at = call[c].at /\ shown.copy = call[c].seen
      BY DEF ClosedPage
    <3>4. page' = [page EXCEPT ![call[c].page] = shown]
      BY <3>2
    <3> HIDE DEF shown
    <3>5. /\ \A p \in Pages \ {call[c].page} : page'[p] = page[p]
          /\ page'[call[c].page].at = call[c].at
          /\ page'[call[c].page].copy = call[c].seen
      BY <1>0, <3>3, <3>4
    <3>6. disturbed' = IF (\E q \in Pages \ {call[c].page} : page[q].at = call[c].at)
                          \/ draft[call[c].at] # call[c].seen
                          \/ InFlightOn(call[c].at) # {c}
                       THEN disturbed \cup {call[c].at} ELSE disturbed
      BY <1>1, <2>2 DEF ShowPage
    <3>7. Forgotten(c)
      BY <1>1, <1>b DEF ShowPage
    <3>8. Shows(c)
      BY <3>1, <3>5, <3>6, <3>7 DEF Shows
    <3> QED BY <1>a, <3>8
  <2> QED BY <1>a, <2>1, <2>2
<1>2. CASE SaveAnswered(c)
  <2>1. CASE call[c].phase = "failed"
    BY <1>2, <1>b, <1>c, <2>1 DEF SaveAnswered, Drops
  <2>2. CASE call[c].phase # "failed"
    <3>1. page' = [page EXCEPT ![call[c].page].copy = call[c].seen,
                               ![call[c].page].form = FormOf(call[c].seen),
                               ![call[c].page].active = NextStep(c)]
      BY <1>2, <2>2 DEF SaveAnswered
    <3>2. /\ \A p \in Pages \ {call[c].page} : page'[p] = page[p]
          /\ page'[call[c].page].at = page[call[c].page].at
          /\ page'[call[c].page].copy = call[c].seen
      BY <1>0, <3>1 DEF PageRecord
    <3> QED BY <1>2, <1>a, <1>b, <2>2, <3>2 DEF SaveAnswered, Answered, Applies
  <2> QED BY <1>a, <2>1, <2>2
<1>3. CASE PublishAnswered(c)
  <2>1. CASE call[c].phase = "failed"
    BY <1>3, <1>b, <1>d, <2>1 DEF PublishAnswered, Drops
  <2>2. CASE call[c].phase # "failed"
    <3>1. page' = [page EXCEPT ![call[c].page].publishing = FALSE,
                               ![call[c].page].copy = call[c].seen,
                               ![call[c].page].form = FormOf(call[c].seen)]
      BY <1>3, <2>2 DEF PublishAnswered
    <3>2. /\ \A p \in Pages \ {call[c].page} : page'[p] = page[p]
          /\ page'[call[c].page].at = page[call[c].page].at
          /\ page'[call[c].page].copy = call[c].seen
      BY <1>0, <3>1 DEF PageRecord
    <3> QED BY <1>3, <1>a, <1>b, <2>2, <3>2 DEF PublishAnswered, Answered, Applies
  <2> QED BY <1>a, <2>1, <2>2
<1>4. CASE AnswerLost(c)
  <2>1. SameView
    BY <1>4, <1>c, <1>d DEF AnswerLost
  <2>2. /\ SameElse(c)
        /\ call'[c].kind = call[c].kind /\ call'[c].at = call[c].at
        /\ call'[c].phase = call[c].phase /\ call'[c].seen = call[c].seen
        /\ call'[c].dto = call[c].dto /\ ~call'[c].heard
    BY <1>0, <1>4 DEF AnswerLost, CallRecord, SameElse
  <2>3. disturbed' = disturbed \cup ({call[c].at} \ {0})
    BY <1>4 DEF AnswerLost
  <2>4. /\ call[c].at # 0 => disturbed' = disturbed \cup {call[c].at}
        /\ call[c].at = 0 => disturbed' = disturbed
    BY <2>3
  <2> QED BY <1>a, <2>1, <2>2, <2>4 DEF Loses
<1>5. CASE Unheard(c)
  BY <1>5, <1>a, <1>b, <1>c DEF Unheard, Drops
<1> QED BY <1>1, <1>2, <1>3, <1>4, <1>5 DEF Answering

\* Answers keep what is known, asked and checked.
LEMMA AnswersKeep ==
  ASSUME Sound, KnownAreCreated, AnswersFindTheirPage, BodiesPriceTerms, ChecksSawOpen,
         NEW c \in Calls, Answering(c)
  PROVE  KnownAreCreated' /\ AnswersFindTheirPage' /\ BodiesPriceTerms' /\ ChecksSawOpen'
<1>0. /\ draft' = draft
      /\ Drops(c) \/ Shows(c) \/ Applies(c) \/ Loses(c)
      /\ call[c].page \in Pages
      /\ NoCall.at = 0 /\ ~NoCall.heard /\ NoCall.kind = "none"
  BY AnswerOutcome, AnsweredCall DEF NoCall
<1>1. SameElse(c) /\ ~call'[c].heard
  BY <1>0 DEF Drops, Shows, Applies, Loses, Forgotten
<1>2. \/ call'[c].at = 0 /\ call'[c].kind = "none"
      \/ /\ call'[c].at = call[c].at /\ call'[c].kind = call[c].kind
         /\ call'[c].phase = call[c].phase /\ call'[c].seen = call[c].seen
         /\ call'[c].dto = call[c].dto
  BY <1>0 DEF Drops, Shows, Applies, Loses, Forgotten
<1>3. \/ \A p \in Pages : page'[p].at = page[p].at
      \/ Shows(c)
  BY <1>0 DEF Drops, Applies, Loses, SameView
<1>4. KnownAreCreated'
  <2>1. \A b \in Calls : call'[b].at # 0 => draft[call'[b].at].status # "FREE"
    BY <1>1, <1>2 DEF KnownAreCreated, SameElse
  <2>2. \A p \in Pages : page'[p].at # 0 => draft[page'[p].at].status # "FREE"
    BY <1>3 DEF KnownAreCreated, Shows
  <2> QED BY <1>0, <2>1, <2>2 DEF KnownAreCreated
<1>5. AnswersFindTheirPage'
  <2>1. ASSUME NEW b \in Calls, call'[b].heard
        PROVE  b # c /\ call'[b] = call[b]
    BY <1>1, <2>1 DEF SameElse
  <2>2. ASSUME NEW b \in Calls, call'[b].heard
        PROVE  page'[call[b].page].at = page[call[b].page].at
    <3>1. b # c /\ call[b].heard /\ call[b].page \in Pages
      BY <2>1, <2>2 DEF Sound, Records, CallRecord, NoCall
    <3>2. Shows(c) => call[b].page # call[c].page
      BY <3>1 DEF Shows, AnswersFindTheirPage
    <3> QED BY <1>3, <3>1, <3>2 DEF Shows
  <2> QED BY <2>1, <2>2 DEF AnswersFindTheirPage
<1>6. BodiesPriceTerms' /\ ChecksSawOpen'
  BY <1>1, <1>2 DEF BodiesPriceTerms, ChecksSawOpen, SameElse
<1> QED BY <1>4, <1>5, <1>6

\* A page that hears every answer keeps in step with a draft that is left alone.
LEMMA AnswersQuiet ==
  ASSUME Sound, WInv, NEW c \in Calls, Answering(c), NEW d \in DraftIds \ disturbed'
  PROVE  Quiet(d)'
<1>0. /\ draft' = draft /\ call[c].page \in Pages
      /\ Drops(c) \/ Shows(c) \/ Applies(c) \/ Loses(c)
      /\ NoCall.at = 0 /\ NoCall.kind = "none"
  BY AnswerOutcome, AnsweredCall DEF NoCall
<1>a. d \notin disturbed /\ d # 0
  BY <1>0, MaxDraftsType DEF Drops, Shows, Applies, Loses, DraftIds
<1>b. Quiet(d) /\ AnswersFindTheirPage
  BY <1>a DEF WInv
<1>c. SameElse(c) /\ Writers(d)' = Writers(d) \ {c}
  BY <1>0, <1>a DEF Drops, Shows, Applies, Loses, Forgotten, SameElse, Writers
<1>1. CASE c \notin Writers(d)
  <2>1. \A b \in Writers(d) : call'[b] = call[b]
    BY <1>1, <1>c DEF SameElse, Writers
  <2>2. CASE Drops(c) \/ Loses(c)
    BY <1>0, <1>1, <1>b, <1>c, <2>1, <2>2, QuietKept DEF Drops, Loses, SameView
  <2>3. CASE Applies(c)
    <3>1. page[call[c].page].at # d
      BY <1>1, <1>b, <2>3 DEF Applies, AnswersFindTheirPage, Writers
    <3>2. \A p \in Pages : page'[p].at = d => page[p].at = d
      BY <2>3 DEF Applies
    <3>3. \A p \in Pages : page[p].at = d => page'[p].copy = page[p].copy
      BY <2>3, <3>1 DEF Applies
    <3> QED BY <1>0, <1>1, <1>b, <1>c, <2>1, <3>2, <3>3, QuietKept
  <2>4. CASE Shows(c) /\ call[c].at # d
    <3>1. page[call[c].page].at # d
      BY <1>a, <1>b, <2>4 DEF Shows, AnswersFindTheirPage
    <3>2. \A p \in Pages : page'[p].at = d => page[p].at = d
      BY <2>4 DEF Shows
    <3>3. \A p \in Pages : page[p].at = d => page'[p].copy = page[p].copy
      BY <2>4, <3>1 DEF Shows
    <3> QED BY <1>0, <1>1, <1>b, <1>c, <2>1, <3>2, <3>3, QuietKept
  <2>5. CASE Shows(c) /\ call[c].at = d
    <3>1. /\ \A q \in Pages \ {call[c].page} : page'[q].at # d
          /\ page'[call[c].page].copy = draft[d]
          /\ InFlightOn(d) = {c}
      BY <1>0, <2>5 DEF Shows
    <3>2. Writers(d) = {}
      BY <1>1, <3>1 DEF Writers, InFlightOn, NoCall
    <3> QED BY <1>0, <1>c, <3>1, <3>2 DEF Quiet, ShowsRow
  <2> QED BY <1>0, <2>2, <2>3, <2>4, <2>5
<1>2. CASE c \in Writers(d)
  <2>1. /\ Writers(d) = {c} /\ Writers(d)' = {} /\ UpToDate(c, d)
        /\ call[c].at = d /\ call[c].kind # "open" /\ page[call[c].page].at = d
    BY <1>2, <1>b, <1>c DEF Quiet, UpToDate, Writers, AnswersFindTheirPage
  <2>2. CASE Drops(c)
    <3>1. call[c].phase = "failed"
      BY <2>1, <2>2 DEF Drops, UpToDate
    <3>2. \A p \in Pages : page'[p].at = d => page'[p].copy = draft[d]
      BY <1>b, <2>1, <2>2, <3>1 DEF Drops, SameView, Quiet, ShowsRow
    <3> QED BY <1>0, <1>b, <2>1, <2>2, <3>2 DEF Quiet, ShowsRow, Drops, SameView
  <2>3. CASE Applies(c)
    <3>1. call[c].seen = draft[d]
      BY <2>1, <2>3 DEF Applies, UpToDate
    <3>2. \A p \in Pages : page'[p].at = page[p].at
      BY <2>3 DEF Applies
    <3>3. \A p \in Pages : page'[p].at = d => p = call[c].page
      BY <1>0, <1>b, <2>1, <3>2 DEF Quiet
    <3>4. \A p \in Pages : page'[p].at = d => page'[p].copy = draft[d]
      BY <2>3, <3>1, <3>3 DEF Applies
    <3> QED BY <1>0, <1>b, <2>1, <3>2, <3>4 DEF Quiet, ShowsRow
  <2>4. ~Loses(c) /\ ~Shows(c)
    BY <1>a, <2>1 DEF Loses, Shows
  <2> QED BY <1>0, <2>2, <2>3, <2>4
<1> QED BY <1>1, <1>2

-----------------------------------------------------------------------------
(* What the seller does                                                      *)

\* A request is sent, by a tab that knows what it asks about.
Sends(c, p, kind, d, dto) ==
  /\ call[c] = NoCall /\ SameElse(c)
  /\ call'[c].kind = kind /\ call'[c].page = p /\ call'[c].at = d /\ call'[c].dto = dto
  /\ call'[c].phase = "sent" /\ call'[c].heard
  /\ disturbed' = IF d # 0 /\ InFlightOn(d) # {} THEN disturbed \cup {d} ELSE disturbed
  /\ draft' = draft /\ listings' = listings

\* Send does that.
LEMMA SendSends ==
  ASSUME Sound, NEW p, NEW kind, NEW d, NEW dto, NEW next, Send(p, kind, d, dto, next)
  PROVE  \E c \in Calls : Sends(c, p, kind, d, dto)
<1> DEFINE fresh == [kind |-> kind, page |-> p, at |-> d, dto |-> dto, seen |-> FreeRow,
                     phase |-> "sent", heard |-> TRUE, next |-> next]
<1>1. PICK c \in Calls : call[c] = NoCall /\ call' = [call EXCEPT ![c] = fresh]
  BY DEF Send
<1>2. call'[c] = fresh /\ SameElse(c)
  BY <1>1 DEF Sound, SameElse
<1>3. /\ fresh.kind = kind /\ fresh.page = p /\ fresh.at = d /\ fresh.dto = dto
      /\ fresh.phase = "sent" /\ fresh.heard
  OBVIOUS
<1> HIDE DEF fresh
<1>4. disturbed' = IF d # 0 /\ InFlightOn(d) # {} THEN disturbed \cup {d} ELSE disturbed
  BY DEF Send
<1>5. draft' = draft /\ listings' = listings
  BY DEF Send, tableVars
<1>6. Sends(c, p, kind, d, dto)
  BY <1>1, <1>2, <1>3, <1>4, <1>5 DEF Sends
<1> QED BY <1>6

\* The first question of a tab.
AsksForDraft(p, kind, d) ==
  /\ kind = "open" /\ d = 0 /\ page[p].at = 0
  /\ \A c \in Calls : call[c].heard => call[c].page # p

\* A save or a publication of the draft the tab shows.
WritesItsDraft(p, kind, d, dto) ==
  /\ d = page[p].at /\ d \in DraftIds
  /\ \/ kind = "save" /\ PriceSuits(dto)
     \/ kind = "publish" /\ dto.terms \in {Keep, page[p].copy.terms}

\* Sending keeps the invariant.
LEMMA SendKeeps ==
  ASSUME Sound, WInv, NEW p \in Pages, NEW kind, NEW d, NEW dto, SameView,
         AsksForDraft(p, kind, d) \/ WritesItsDraft(p, kind, d, dto),
         NEW c \in Calls, Sends(c, p, kind, d, dto)
  PROVE  WInv'
<1>0. /\ SameElse(c) /\ draft' = draft
      /\ call[c].at = 0 /\ ~call[c].heard /\ call[c].kind = "none"
  BY DEF Sends, NoCall
<1>1. KnownAreCreated'
  <2>1. d # 0 => draft[d].status # "FREE"
    BY DEF AsksForDraft, WritesItsDraft, WInv, KnownAreCreated
  <2>2. \A b \in Calls : call'[b].at # 0 => draft[call'[b].at].status # "FREE"
    BY <2>1 DEF Sends, SameElse, WInv, KnownAreCreated
  <2> QED BY <1>0, <2>2 DEF SameView, WInv, KnownAreCreated
<1>2. AnswersFindTheirPage'
  <2>1. ASSUME NEW b \in Calls, call'[b].heard, b # c
        PROVE  /\ call'[b] = call[b] /\ call[b].heard /\ call[b].page \in Pages
               /\ call[b].kind = "open" => call[b].page # p
    <3>1. call'[b] = call[b] /\ call[b].page \in Pages
      BY <2>1, <1>0 DEF SameElse, Sound, Records, CallRecord, NoCall
    <3>2. CASE AsksForDraft(p, kind, d)
      BY <2>1, <3>1, <3>2 DEF AsksForDraft
    <3>3. CASE WritesItsDraft(p, kind, d, dto)
      <4>1. page[p].at # 0
        BY <3>3, MaxDraftsType DEF WritesItsDraft, DraftIds
      <4> QED BY <2>1, <3>1, <4>1 DEF WInv, AnswersFindTheirPage
    <3> QED BY <3>1, <3>2, <3>3
  <2>2. ASSUME NEW b \in Calls, call'[b].heard, b # c
        PROVE  IF call'[b].kind = "open"
               THEN /\ page'[call'[b].page].at = 0
                    /\ \A a \in Calls : call'[a].heard /\ call'[a].page = call'[b].page => a = b
               ELSE call'[b].at = page'[call'[b].page].at
    BY <2>1, <2>2 DEF Sends, SameView, WInv, AnswersFindTheirPage
  <2>3. IF call'[c].kind = "open"
        THEN /\ page'[call'[c].page].at = 0
             /\ \A a \in Calls : call'[a].heard /\ call'[a].page = call'[c].page => a = c
        ELSE call'[c].at = page'[call'[c].page].at
    <3>1. CASE AsksForDraft(p, kind, d)
      BY <2>1, <3>1 DEF Sends, SameView, AsksForDraft
    <3>2. CASE WritesItsDraft(p, kind, d, dto)
      BY <3>2 DEF Sends, SameView, WritesItsDraft
    <3> QED BY <3>1, <3>2
  <2> QED BY <2>2, <2>3 DEF AnswersFindTheirPage
<1>3. BodiesPriceTerms' /\ ChecksSawOpen'
  BY DEF Sends, SameElse, AsksForDraft, WritesItsDraft, WInv, BodiesPriceTerms,
     ChecksSawOpen
<1>4. ASSUME NEW e \in DraftIds \ disturbed'
      PROVE  Quiet(e)'
  <2>1. e \notin disturbed /\ e # 0 /\ (e = d => InFlightOn(d) = {})
    BY <1>4, MaxDraftsType DEF Sends, DraftIds
  <2>2. Quiet(e) /\ AnswersFindTheirPage
    BY <2>1 DEF WInv
  <2>3. CASE e # d
    <3>1. Writers(e)' = Writers(e) /\ c \notin Writers(e)
      BY <1>0, <2>3 DEF Writers, Sends, SameElse
    <3>2. \A b \in Writers(e) : call'[b] = call[b]
      BY <1>0, <3>1 DEF Writers, SameElse
    <3> QED BY <1>0, <2>2, <3>1, <3>2, QuietKept DEF SameView
  <2>4. CASE e = d
    <3>1. WritesItsDraft(p, kind, d, dto)
      BY <2>1, <2>4 DEF AsksForDraft
    <3>2. Writers(d) = {}
      BY <2>1, <2>4 DEF Writers, InFlightOn, NoCall
    <3>3. Writers(d)' = {c}
      BY <3>1, <3>2 DEF Writers, Sends, SameElse, WritesItsDraft
    <3>4. \A q \in Pages : page[q].at = d => page[q].copy = draft[d]
      BY <2>2, <2>4, <3>2 DEF Quiet, ShowsRow
    <3>5. UpToDate(c, d)'
      BY <3>1 DEF UpToDate, Sends, SameView, WritesItsDraft
    <3> QED BY <1>0, <2>2, <2>4, <3>3, <3>4, <3>5 DEF Quiet, ShowsRow, SameView
  <2> QED BY <2>3, <2>4
<1> QED BY <1>1, <1>2, <1>3, <1>4 DEF WInv

\* Typing, going back and choosing photos send nothing and change no copy.
LEMMA LookingKeeps ==
  ASSUME Sound, WInv, SameView, UNCHANGED <<draft, call, disturbed>>
  PROVE  WInv'
<1>1. KnownAreCreated'
  BY DEF WInv, KnownAreCreated, SameView
<1>2. AnswersFindTheirPage'
  <2>1. \A c \in Calls : call[c].heard => call[c].page \in Pages
    BY DEF Sound, Records, CallRecord, NoCall
  <2> QED BY <2>1 DEF WInv, AnswersFindTheirPage, SameView
<1>3. BodiesPriceTerms' /\ ChecksSawOpen'
  BY DEF WInv, BodiesPriceTerms, ChecksSawOpen
<1>4. ASSUME NEW d \in DraftIds \ disturbed
      PROVE  Quiet(d)'
  BY QuietKept DEF WInv, Writers, SameView
<1> QED BY <1>1, <1>2, <1>3, <1>4 DEF WInv

\* A tab that is closed hears nothing more; what it leaves running disturbs its draft.
LEMMA LeavingKeeps ==
  ASSUME Sound, WInv, NEW p \in Pages, LeavePage(p)
  PROVE  WInv'
<1>0. /\ draft' = draft /\ page[p].at # 0
      /\ page' = [page EXCEPT ![p] = ClosedPage] /\ ClosedPage.at = 0
      /\ disturbed' = disturbed \cup {d \in {page[p].at} : InFlightOn(d) # {}}
  BY DEF LeavePage, ClosedPage
<1>a. /\ page'[p].at = 0
      /\ \A q \in Pages \ {p} : page'[q] = page[q]
  BY <1>0 DEF Sound, PagesTyped
<1>b. ASSUME NEW b \in Calls
      PROVE  /\ call'[b].kind = call[b].kind /\ call'[b].at = call[b].at
             /\ call'[b].page = call[b].page /\ call'[b].phase = call[b].phase
             /\ call'[b].seen = call[b].seen /\ call'[b].dto = call[b].dto
             /\ call'[b].heard => call'[b] = call[b] /\ call[b].page # p
             /\ call[b].page # p => call'[b] = call[b]
  <2>1. CASE call[b] # NoCall /\ call[b].page = p
    <3>1. call'[b] = [call[b] EXCEPT !.heard = FALSE] /\ call[b] \in CallRecord
      BY <2>1 DEF LeavePage, Sound, Records
    <3> QED BY <2>1, <3>1 DEF CallRecord
  <2>2. CASE call[b] = NoCall
    BY <2>2 DEF LeavePage, NoCall
  <2>3. CASE call[b].page # p
    BY <2>3 DEF LeavePage
  <2> QED BY <2>1, <2>2, <2>3
<1>1. KnownAreCreated'
  BY <1>0, <1>a, <1>b DEF WInv, KnownAreCreated
<1>2. AnswersFindTheirPage'
  <2>1. ASSUME NEW b \in Calls, call'[b].heard
        PROVE  /\ call'[b] = call[b] /\ call[b].page \in Pages
               /\ page'[call[b].page].at = page[call[b].page].at
    BY <1>a, <1>b, <2>1 DEF Sound, Records, CallRecord, NoCall
  <2> QED BY <2>1 DEF WInv, AnswersFindTheirPage
<1>3. BodiesPriceTerms' /\ ChecksSawOpen'
  BY <1>b DEF WInv, BodiesPriceTerms, ChecksSawOpen
<1>4. ASSUME NEW d \in DraftIds \ disturbed'
      PROVE  Quiet(d)'
  <2>1. d \notin disturbed /\ d # 0 /\ (d = page[p].at => InFlightOn(d) = {})
    BY <1>0, <1>4, MaxDraftsType DEF DraftIds
  <2>2. Quiet(d) /\ AnswersFindTheirPage
    BY <2>1 DEF WInv
  <2>3. Writers(d)' = Writers(d)
    BY <1>b DEF Writers
  <2>4. ASSUME NEW b \in Writers(d)
        PROVE  call'[b] = call[b]
    <3>1. call[b].heard /\ call[b].at = page[call[b].page].at /\ call[b].at = d
      BY <2>2, <2>4 DEF Quiet, UpToDate, Writers, AnswersFindTheirPage
    <3>2. b \in InFlightOn(d)
      BY <2>4 DEF Writers, InFlightOn, NoCall
    <3> QED BY <1>b, <2>1, <2>4, <3>1, <3>2 DEF Writers
  <2>5. \A q \in Pages : page'[q].at = d => page[q].at = d /\ q # p
    BY <1>a, <2>1
  <2>6. \A q \in Pages : page[q].at = d /\ (Writers(d) # {} \/ page'[q].at = d) =>
          page'[q].copy = page[q].copy
    <3>1. page[p].at = d => Writers(d) = {}
      BY <2>1 DEF Writers, InFlightOn, NoCall
    <3> QED BY <1>a, <2>5, <3>1
  <2> QED BY <1>0, <2>2, <2>3, <2>4, <2>5, <2>6, QuietKept
<1> QED BY <1>1, <1>2, <1>3, <1>4 DEF WInv

\* The bodies of the wizard bring the price with the terms.
LEMMA BodySuits ==
  ASSUME Sound, NEW p \in Pages
  PROVE  PriceSuits(StepBody(p))
<1>1. page[p].form.terms \in Entries
  BY PageFields DEF Form
<1>2. /\ Nothing.terms = Keep /\ Nothing.price = Keep
      /\ \A v : /\ [Nothing EXCEPT !.sheet = v].terms = Keep
                /\ [Nothing EXCEPT !.sheet = v].price = Keep
                /\ [Nothing EXCEPT !.proof = v].terms = Keep
                /\ [Nothing EXCEPT !.proof = v].price = Keep
  BY DEF Nothing
<1>3. CASE page[p].active = "LOGISTICS"
  <2>1. /\ StepBody(p).terms = page[p].form.terms
        /\ page[p].form.terms # Blank => StepBody(p).price = page[p].form.terms
    BY <1>3 DEF StepBody, Nothing
  <2>2. page[p].form.terms # Keep
    BY <1>1, BlankIsNoValue DEF Entries
  <2> QED BY <2>1, <2>2 DEF PriceSuits
<1>4. CASE page[p].active \in Steps \ {"LOGISTICS"}
  <2>1. StepBody(p).terms = Keep /\ StepBody(p).price = Keep
    <3>1. CASE page[p].active = "PRODUCT_MATCH"
      BY <1>2, <3>1 DEF StepBody
    <3>2. CASE page[p].active = "SECURITY"
      BY <1>2, <3>2 DEF StepBody
    <3>3. CASE page[p].active \in {"GALLERY", "REVIEW"}
      BY <1>2, <3>3 DEF StepBody
    <3> QED BY <1>4, <3>1, <3>2, <3>3, StepsAre
  <2> QED BY <2>1 DEF PriceSuits
<1>5. page[p].active \in Steps
  BY PageFields
<1> QED BY <1>3, <1>4, <1>5

\* Whatever the seller does keeps the invariant.
LEMMA UserKeeps ==
  ASSUME Sound, WInv, UserStep
  PROVE  WInv'
<1>a. PICK p \in Pages :
        \/ OpenPage(p) \/ StepBack(p) \/ LeavePage(p)
        \/ \E v \in Entries : TypeSheet(p, v) \/ TypeProof(p, v) \/ TypeTerms(p, v)
        \/ \E next \in Steps : SaveStep(p, next)
        \/ \E v \in Values : UseCatalogSheet(p, v)
        \/ EnterManually(p)
        \/ \E n \in 1 .. MaxPhotos : StartUpload(p, n)
        \/ FinishUpload(p) \/ UploadFails(p) \/ RemovePhoto(p)
        \/ ClickPublish(p)
  BY DEF UserStep
<1>b. page \in [Pages -> PageRecord] /\ (page[p].at # 0 => page[p].at \in DraftIds)
      /\ (page[p].upload # 0 => page[p].at # 0)
  BY PageFields DEF Sound, PagesTyped
<1>c. page' = page => SameView
  BY DEF SameView
<1>d. \A dto : (dto.terms = Keep /\ dto.price = Keep) => PriceSuits(dto)
  BY DEF PriceSuits
<1>e. ASSUME NEW kind, NEW dto, NEW next, Send(p, kind, page[p].at, dto, next), SameView,
             page[p].at # 0,
             \/ kind = "save" /\ PriceSuits(dto)
             \/ kind = "publish" /\ dto.terms \in {Keep, page[p].copy.terms}
      PROVE  WInv'
  <2> DEFINE d == page[p].at
  <2>1. PICK c \in Calls : Sends(c, p, kind, d, dto)
    BY <1>e, SendSends
  <2>2. WritesItsDraft(p, kind, d, dto)
    BY <1>b, <1>e DEF WritesItsDraft
  <2> HIDE DEF d
  <2> QED BY <1>e, <2>1, <2>2, SendKeeps
<1>1. CASE OpenPage(p)
  <2>1. PICK c \in Calls : Sends(c, p, "open", 0, Nothing)
    BY <1>1, SendSends DEF OpenPage
  <2>2. AsksForDraft(p, "open", 0)
    BY <1>1 DEF OpenPage, AsksForDraft
  <2> QED BY <1>1, <1>c, <2>1, <2>2, SendKeeps DEF OpenPage
<1>2. CASE StepBack(p)
  <2>1. SameView
    <3>1. PICK i \in 2 .. Len(StepOrder), form \in {page[p].form, FormOf(page[p].copy)} :
            page' = [page EXCEPT ![p].active = StepOrder[i - 1], ![p].form = form]
      BY <1>2 DEF StepBack
    <3> QED BY <1>b, <3>1 DEF SameView, PageRecord
  <2> QED BY <1>2, <2>1, LookingKeeps DEF StepBack
<1>3. CASE LeavePage(p)
  BY <1>3, LeavingKeeps
<1>4. ASSUME NEW v \in Entries, TypeSheet(p, v) \/ TypeProof(p, v) \/ TypeTerms(p, v)
      PROVE  WInv'
  <2>1. PICK field \in {"sheet", "proof", "terms"} : Fill(p, field, v)
    BY <1>4 DEF TypeSheet, TypeProof, TypeTerms
  <2>2. SameView
    <3>1. page' = [page EXCEPT ![p] = [page[p] EXCEPT !.form =
                                         [page[p].form EXCEPT ![field] = v]]]
      BY <2>1 DEF Fill
    <3> QED BY <1>b, <3>1 DEF SameView, PageRecord
  <2> QED BY <2>1, <2>2, LookingKeeps DEF Fill
<1>5. ASSUME NEW next \in Steps, SaveStep(p, next)
      PROVE  WInv'
  BY <1>5, <1>c, <1>e, BodySuits DEF SaveStep
<1>6. ASSUME NEW v \in Values, UseCatalogSheet(p, v)
      PROVE  WInv'
  <2>1. PriceSuits([Nothing EXCEPT !.sheet = v])
    BY <1>d DEF Nothing
  <2> QED BY <1>6, <1>c, <1>e, <2>1 DEF UseCatalogSheet
<1>7. CASE EnterManually(p)
  <2>1. PriceSuits(Nothing)
    BY <1>d DEF Nothing
  <2> QED BY <1>7, <1>c, <1>e, <2>1 DEF EnterManually
<1>8. ASSUME NEW n \in 1 .. MaxPhotos, StartUpload(p, n)
      PROVE  WInv'
  <2>1. SameView
    BY <1>8, <1>b DEF StartUpload, SameView, PageRecord
  <2> QED BY <1>8, <2>1, LookingKeeps DEF StartUpload
<1>9. CASE FinishUpload(p)
  <2>1. SameView
    BY <1>9, <1>b DEF FinishUpload, SameView, PageRecord
  <2>2. PriceSuits([Nothing EXCEPT !.photos = page[p].upload])
    BY <1>d DEF Nothing
  <2>3. Send(p, "save", page[p].at, [Nothing EXCEPT !.photos = page[p].upload], "stay")
        /\ page[p].at # 0
    BY <1>9, <1>b DEF FinishUpload
  <2> QED BY <1>e, <2>1, <2>2, <2>3
<1>10. CASE UploadFails(p)
  <2>1. SameView
    BY <1>10, <1>b DEF UploadFails, SameView, PageRecord
  <2> QED BY <1>10, <2>1, LookingKeeps DEF UploadFails
<1>11. CASE RemovePhoto(p)
  <2>1. PriceSuits([Nothing EXCEPT !.photos = page[p].copy.photos - 1])
    BY <1>d DEF Nothing
  <2> QED BY <1>11, <1>c, <1>e, <2>1 DEF RemovePhoto
<1>12. CASE ClickPublish(p)
  <2> DEFINE terms == IF page[p].copy.terms = Blank THEN Keep ELSE page[p].copy.terms
  <2>1. SameView
    BY <1>12, <1>b DEF ClickPublish, SameView, PageRecord
  <2>2. [Nothing EXCEPT !.terms = terms].terms = terms
    BY DEF Nothing
  <2>3. terms \in {Keep, page[p].copy.terms}
    OBVIOUS
  <2>4. Send(p, "publish", page[p].at, [Nothing EXCEPT !.terms = terms], "stay")
        /\ page[p].at # 0
    BY <1>12 DEF ClickPublish
  <2> HIDE DEF terms
  <2> QED BY <1>e, <2>1, <2>2, <2>3, <2>4
<1> QED BY <1>a, <1>1, <1>2, <1>3, <1>4, <1>5, <1>6, <1>7, <1>8, <1>9, <1>10, <1>11, <1>12

\* The invariant holds when the seller first visits.
LEMMA WInvInit ==
  ASSUME Init
  PROVE  WInv
<1>1. /\ \A c \in Calls : call[c] = NoCall
      /\ \A p \in Pages : page[p].at = 0
  BY DEF Init, TablesInit, ClosedPage
<1>2. \A d \in DraftIds : draft[d].status = "FREE" => draft[d] = FreeRow
  BY FirstDraftsType DEF Init, TablesInit
<1>3. NoCall.at = 0 /\ NoCall.kind = "none" /\ ~NoCall.heard
  BY DEF NoCall
<1>4. \A d \in DraftIds : Writers(d) = {} /\ d # 0
  BY <1>1, <1>3, MaxDraftsType DEF Writers, DraftIds
<1> QED BY <1>1, <1>2, <1>3, <1>4 DEF WInv, KnownAreCreated, AnswersFindTheirPage,
        BodiesPriceTerms, ChecksSawOpen, Quiet

\* Every step keeps it.
LEMMA WInvStep ==
  ASSUME Sound, WInv, [Next]_vars
  PROVE  WInv'
<1>1. CASE UserStep
  BY <1>1, UserKeeps
<1>2. ASSUME NEW c \in Calls, Serving(c)
      PROVE  WInv'
  BY <1>2, ServerKnown, ServerAsked, ServerQuiet DEF Serving, WInv
<1>3. ASSUME NEW c \in Calls, Answering(c)
      PROVE  WInv'
  BY <1>3, AnswersKeep, AnswersQuiet DEF WInv
<1>4. CASE UNCHANGED vars
  BY <1>4, LookingKeeps DEF vars, SameView
<1> QED BY <1>1, <1>2, <1>3, <1>4 DEF Next

\* So it holds of every behaviour.
LEMMA WInvAlways == Spec => [](Sound /\ WInv)
<1>1. Init => Sound /\ WInv
  BY SoundInit, WInvInit
<1>2. Sound /\ WInv /\ [Next]_vars => (Sound /\ WInv)'
  BY SoundStep, WInvStep
<1> QED BY <1>1, <1>2, PTL DEF Spec

-----------------------------------------------------------------------------
(* Theorems                                                                  *)

\* The copy of a page at rest is the draft as stored, however other drafts are disturbed.
THEOREM PageAgreesAlways == Spec => []PageAgrees
<1>1. Sound /\ WInv => PageAgrees
  <2> SUFFICES ASSUME Sound, WInv, NEW p \in Pages, page[p].at # 0,
                      page[p].at \notin disturbed, InFlightOn(page[p].at) = {}
               PROVE  page[p].copy = draft[page[p].at]
    BY DEF PageAgrees
  <2>1. page[p].at \in DraftIds
    BY PageFields
  <2>2. Quiet(page[p].at)
    BY <2>1 DEF WInv
  <2>3. Writers(page[p].at) = {}
    BY DEF Writers, InFlightOn, NoCall
  <2> QED BY <2>2, <2>3 DEF Quiet, ShowsRow
<1> QED BY <1>1, WInvAlways, PTL

\* What is disturbed stays so: the history variable only grows.
LEMMA DisturbedStays ==
  ASSUME Sound, [Next]_vars
  PROVE  disturbed \subseteq disturbed'
<1>1. CASE UserStep
  BY <1>1 DEF UserStep, OpenPage, StepBack, LeavePage, TypeSheet, TypeProof, TypeTerms,
     Fill, SaveStep, UseCatalogSheet, EnterManually, StartUpload, FinishUpload, UploadFails,
     RemovePhoto, ClickPublish, Send
<1>2. ASSUME NEW c \in Calls, Serving(c)
      PROVE  disturbed \subseteq disturbed'
  BY <1>2 DEF Serving
<1>3. ASSUME NEW c \in Calls, Answering(c)
      PROVE  disturbed \subseteq disturbed'
  BY <1>3, AnswerOutcome DEF Drops, Shows, Applies, Loses
<1>4. CASE UNCHANGED vars
  BY <1>4 DEF vars
<1> QED BY <1>1, <1>2, <1>3, <1>4 DEF Next

\* Only the server writes rows.
LEMMA RowsKept ==
  ASSUME Sound, [Next]_vars, \A c \in Calls : ~Serving(c)
  PROVE  draft' = draft /\ listings' = listings
BY PagesWriteNothing DEF tableVars

\* A row whose price is the one of its terms stays so when it is saved from itself.
LEMMA SavedPrice ==
  ASSUME NEW row \in DraftRow, NEW dto \in UpdateDto, PriceSuits(dto),
         row.terms # Blank => row.price = row.terms,
         UpdatedRow(row, row, dto).terms # Blank
  PROVE  UpdatedRow(row, row, dto).price = UpdatedRow(row, row, dto).terms
<1>1. /\ UpdatedRow(row, row, dto).terms = Or(dto.terms, row.terms)
      /\ UpdatedRow(row, row, dto).price =
           Or(dto.price, IF row.price = Blank THEN row.price ELSE row.price)
  BY DEF UpdatedRow, DraftRow
<1>2. CASE dto.terms = Keep
  BY <1>1, <1>2 DEF Or, PriceSuits
<1>3. CASE dto.terms # Keep
  BY <1>1, <1>3 DEF Or, PriceSuits
<1> QED BY <1>2, <1>3

\* The asking price is the one of the terms for ever, if it is in the rows the first visit
\* finds: only requests that overlap can part them.
THEOREM PriceFollowsTermsAlways == Spec /\ PriceFollowsTerms => []PriceFollowsTerms
<1>1. Sound /\ WInv /\ PriceFollowsTerms /\ [Next]_vars => PriceFollowsTerms'
  <2> SUFFICES ASSUME Sound, WInv, PriceFollowsTerms, [Next]_vars,
                      NEW d \in DraftIds \ disturbed', draft'[d].status = "OPEN",
                      draft'[d].terms # Blank
               PROVE  draft'[d].price = draft'[d].terms
    BY DEF PriceFollowsTerms
  <2>0. d \notin disturbed
    BY DisturbedStays
  <2>1. CASE draft'[d] = draft[d]
    BY <2>0, <2>1 DEF PriceFollowsTerms
  <2>2. ASSUME NEW c \in Calls, Serving(c), draft'[d] # draft[d]
        PROVE  draft'[d].price = draft'[d].terms
    <3>0. ServerStep(c) /\ KnownAreCreated
      BY <2>2 DEF Serving, WInv
    <3>1. CASE draft'[d] = [FreeRow EXCEPT !.status = "OPEN"]
      BY <3>1 DEF FreeRow
    <3>2. CASE Writes(c, WrittenRow(c)) /\ d = call[c].at /\ draft'[d] = WrittenRow(c)
      <4>1. c \in Writers(d) /\ call[c] \in CallRecord /\ draft[d] \in DraftRow
        BY <3>2, KindsOfCalls DEF Writers, Writes, Sound
      <4>2. call[c].seen = draft[d]
        BY <2>0, <3>2, <4>1 DEF WInv, Quiet, UpToDate, Writes
      <4>3. call[c].kind = "save"
        <5>1. [draft[d] EXCEPT !.status = "PUBLISHED"].status = "PUBLISHED"
          BY <4>1 DEF DraftRow
        <5> QED BY <3>2, <5>1 DEF WrittenRow
      <4>4. draft'[d] = UpdatedRow(draft[d], draft[d], call[c].dto)
        BY <3>2, <4>2, <4>3 DEF WrittenRow
      <4>5. PriceSuits(call[c].dto) /\ call[c].dto \in UpdateDto
        BY <4>1, <4>3 DEF WInv, BodiesPriceTerms, CallRecord
      <4>6. draft[d].status = "OPEN"
        <5>1. UpdatedRow(draft[d], draft[d], call[c].dto).status = draft[d].status
          BY <4>1, <4>5, UpdatedRowType
        <5> QED BY <4>4, <5>1
      <4>7. draft[d].terms # Blank => draft[d].price = draft[d].terms
        BY <2>0, <4>6 DEF PriceFollowsTerms
      <4> QED BY <4>1, <4>4, <4>5, <4>7, SavedPrice
    <3> QED BY <2>2, <3>0, <3>1, <3>2, RowsWritten
  <2> QED BY <2>1, <2>2, RowsKept
<1> QED BY <1>1, WInvAlways, PTL DEF Spec

\* Who publishes an undisturbed draft publishes it once, with what the page shows.
LEMMA PublishesTheCopy ==
  ASSUME Sound, WInv, PublishedIffListed, NEW c \in Calls, PublishDraft(c),
         NEW d \in DraftIds \ disturbed, d = call[c].at
  PROVE  \E p \in Pages : page[p].at = d /\ listings'[d] = <<Summary(p)>>
<1> DEFINE seen == call[c].seen
           dto == call[c].dto
           p == call[c].page
           made == [sheet |-> seen.sheet, proof |-> seen.proof, price |-> seen.price,
                    place |-> PlaceOf(seen, dto), photos |-> seen.photos]
<1>1. /\ call[c].kind = "publish" /\ call[c].phase = "read"
      /\ call[c] \in CallRecord /\ c \in Writers(d) /\ p \in Pages
  BY KindsOfCalls DEF PublishDraft, Writers, CallRecord
<1>2. Quiet(d) /\ UpToDate(c, d)
  BY <1>1 DEF WInv, Quiet
<1>3. page[p].at = d
  BY <1>1, <1>2 DEF UpToDate, WInv, AnswersFindTheirPage
<1>4. seen = draft[d] /\ dto.terms \in {Keep, page[p].copy.terms}
  BY <1>1, <1>2 DEF UpToDate
<1>5. page[p].copy = draft[d]
  BY <1>1, <1>2, <1>3 DEF Quiet, ShowsRow
<1>6. listings[d] = <<>>
  <2>1. draft[d].status = "OPEN"
    BY <1>1, <1>4 DEF WInv, ChecksSawOpen
  <2> QED BY <2>1 DEF PublishedIffListed
<1>7. listings'[d] = Append(<<>>, made)
  BY <1>6 DEF PublishDraft, Sound
<1>8. PlaceOf(seen, dto) = page[p].copy.terms
  BY <1>4, <1>5 DEF PlaceOf, Or
<1>9. made = Summary(p)
  BY <1>4, <1>5, <1>8 DEF Summary
<1> HIDE DEF made, p
<1>10. listings'[d] = <<Summary(p)>>
  BY <1>7, <1>9
<1> QED BY <1>1, <1>3, <1>10

\* A seller with one tab whose requests were answered one by one publishes the draft once,
\* as the review step showed it.
THEOREM PublishedAsReviewedAlways == Spec => PublishedAsReviewed
<1> DEFINE Reviewed ==
      \A d \in DraftIds :
        listings'[d] # listings[d] /\ d \notin disturbed =>
          \E p \in Pages : page[p].at = d /\ listings'[d] = <<Summary(p)>>
<1>1. Sound /\ WInv /\ PublishedIffListed /\ [Next]_vars => Reviewed
  <2> SUFFICES ASSUME Sound, WInv, PublishedIffListed, [Next]_vars,
                      NEW d \in DraftIds, listings'[d] # listings[d], d \notin disturbed
               PROVE  \E p \in Pages : page[p].at = d /\ listings'[d] = <<Summary(p)>>
    OBVIOUS
  <2>1. PICK c \in Calls : Serving(c)
    BY RowsKept
  <2>2. PublishDraft(c) /\ call[c].at = d
    <3>1. /\ PublishDraft(c) /\ call[c].at \in DraftIds
          /\ listings' = [listings EXCEPT ![call[c].at] =
               Append(@, [sheet |-> call[c].seen.sheet, proof |-> call[c].seen.proof,
                          price |-> call[c].seen.price,
                          place |-> PlaceOf(call[c].seen, call[c].dto),
                          photos |-> call[c].seen.photos])]
      BY <2>1, ServerWrites DEF Serving
    <3> QED BY <3>1 DEF Sound
  <2> QED BY <2>2, PublishesTheCopy
<1>2. Reviewed => [Reviewed]_vars
  OBVIOUS
<1> QED BY <1>1, <1>2, WInvAlways, PublishedIffListedAlways, PTL
        DEF Spec, PublishedAsReviewed
=============================================================================

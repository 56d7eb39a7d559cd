---------------------------- MODULE ListingDrafts ---------------------------
(***************************************************************************)
(* The drafts of one seller in ListingsService: getOrCreateActiveDraft,    *)
(* updateDraft and publishDraft.  Each handler reads the draft with its    *)
(* product and media in one step and writes in a transaction later, from   *)
(* what it has read; other requests run in between.                        *)
(*                                                                         *)
(* A draft's columns are grouped by the step of the wizard that edits them *)
(* and by how updateDraft writes them:                                     *)
(*   sheet   title, category, description, specs (Product)                 *)
(*   proof   condition, serial number, invoice (Product)                   *)
(*   terms   net amount, location, delivery methods (ListingDraft)         *)
(*   price   the asking price that goes with the terms (ListingDraft)      *)
(*   photos  how many images (ProductMedia)                                *)
(* currentStep only says at which step the wizard opens and is left out.   *)
(***************************************************************************)
EXTENDS Naturals, FiniteSets, Sequences

CONSTANTS
  Calls,         \* requests in flight at once
  Pages,         \* open tabs of the seller
  Values,        \* what the seller may enter in a group of columns
  Blank,         \* nothing entered
  Keep,          \* a property the body of a request leaves out
  DefaultProof,  \* the condition updateDraft assumes, GOOD
  MinPhotos,     \* images a listing needs
  MaxPhotos,     \* bound: images of a draft
  MaxDrafts,     \* bound: drafts created
  FirstDrafts    \* rows an earlier visit of the seller may have left

ASSUME BlankIsNoValue == Blank \notin Values /\ Keep \notin Values \cup {Blank}
ASSUME DefaultIsValue == DefaultProof \in Values
ASSUME CallsFinite == IsFiniteSet(Calls)
ASSUME PhotoBounds == MinPhotos \in Nat \ {0} /\ MaxPhotos \in Nat
ASSUME MaxDraftsType == MaxDrafts \in Nat \ {0}

StepOrder == <<"PRODUCT_MATCH", "GALLERY", "SECURITY", "LOGISTICS", "REVIEW">>
Steps == {StepOrder[i] : i \in DOMAIN StepOrder}
DraftIds == 1 .. MaxDrafts
Entries == Values \cup {Blank}
Photos == 0 .. MaxPhotos

DraftRow ==
  [status : {"FREE", "OPEN", "PUBLISHED"}, sheet : Entries, proof : Entries,
   terms : Entries, price : Entries, photos : Photos]

UpdateDto ==
  [sheet : Entries \cup {Keep}, proof : Entries \cup {Keep}, terms : Entries \cup {Keep},
   price : Entries \cup {Keep}, photos : Photos \cup {Keep}]

Listing ==
  [sheet : Entries, proof : Entries, price : Entries, place : Entries, photos : Photos]

ASSUME FirstDraftsType == FirstDrafts \subseteq {row \in DraftRow : row.status = "OPEN"}

VARIABLES
  draft,      \* draft[d]: the row with its product and media
  newer,      \* <<d, e>>: the updatedAt of draft d is later than that of e, if e has any
  listings,   \* listings[d]: the rows published from draft d, the last one is
              \* its publishedListingId
  call        \* the requests of the pages, with what each has read or answers

FreeRow ==
  [status |-> "FREE", sheet |-> Blank, proof |-> Blank, terms |-> Blank, price |-> Blank,
   photos |-> 0]

Nothing ==
  [sheet |-> Keep, proof |-> Keep, terms |-> Keep, price |-> Keep, photos |-> Keep]

\* phase: sent, then read once the handler holds its snapshot, then done or
\* failed.  heard is FALSE when the browser no longer waits for the answer,
\* next the step the answer takes the page to.
NoCall ==
  [kind |-> "none", page |-> Blank, at |-> 0, dto |-> Nothing, seen |-> FreeRow,
   phase |-> "idle", heard |-> FALSE, next |-> "stay"]

CallRecord ==
  [kind : {"open", "save", "publish"}, page : Pages, at : 0 .. MaxDrafts, dto : UpdateDto,
   seen : DraftRow, phase : {"sent", "read", "done", "failed"}, heard : BOOLEAN,
   next : Steps \cup {"stay"}]

tableVars == <<draft, newer, listings>>

DraftsTypeOK ==
  /\ draft \in [DraftIds -> DraftRow]
  /\ newer \subseteq DraftIds \X DraftIds
  /\ \A d \in DraftIds : listings[d] \in Seq(Listing)
  /\ call \in [Calls -> CallRecord \cup {NoCall}]

\* The body of a request holds v, or the column keeps what was there.
Or(v, otherwise) == IF v = Keep THEN otherwise ELSE v

\* updatedAt is now.
Touch(d) ==
  newer' = {pair \in newer : pair[2] # d} \cup {<<d, e>> : e \in DraftIds \ {d}}

OpenDrafts == {d \in DraftIds : draft[d].status = "OPEN"}

SetPhase(c, p) == call' = [call EXCEPT ![c].phase = p]

AnswerWith(c, d, row) ==
  call' = [call EXCEPT ![c].at = d, ![c].seen = row, ![c].phase = "done"]

------------------------------------------------------------------------------
(* getOrCreateActiveDraft *)

\* findFirst: the OPEN draft updated last.
ActiveDraftFound(c) ==
  /\ call[c].kind = "open" /\ call[c].phase = "sent"
  /\ \E d \in OpenDrafts :
       /\ \A e \in OpenDrafts \ {d} : <<d, e>> \in newer
       /\ AnswerWith(c, d, draft[d])
  /\ UNCHANGED tableVars

\* Fault: a draft is created whatever was found.
NoActiveDraftLookup(c) ==
  /\ call[c].kind = "open" /\ call[c].phase = "sent"
  /\ SetPhase(c, "read")
  /\ UNCHANGED tableVars

\* findFirst answers null.
NoActiveDraft(c) ==
  /\ call[c].kind = "open" /\ call[c].phase = "sent"
  /\ OpenDrafts = {}
  /\ SetPhase(c, "read")
  /\ UNCHANGED tableVars

\* product.create and listingDraft.create, with the seller's own location.
CreateDraft(c) ==
  /\ call[c].kind = "open" /\ call[c].phase = "read"
  /\ \E d \in DraftIds :
       /\ draft[d].status = "FREE"
       /\ \A e \in DraftIds : e < d => draft[e].status # "FREE"
       /\ draft' = [draft EXCEPT ![d].status = "OPEN"]
       /\ Touch(d)
       /\ AnswerWith(c, d, [FreeRow EXCEPT !.status = "OPEN"])
  /\ UNCHANGED listings

------------------------------------------------------------------------------
(* updateDraft and publishDraft *)

\* getDraftById of updateDraft.
ReadDraft(c) ==
  /\ call[c].kind = "save" /\ call[c].phase = "sent"
  /\ call' = [call EXCEPT ![c].phase = "read", ![c].seen = draft[call[c].at]]
  /\ UNCHANGED tableVars

\* Fault: the columns of Product are taken from the body alone.
UpdatedRowUndefined(row, seen, dto) ==
  [row EXCEPT !.sheet = dto.sheet, !.proof = dto.proof, !.price = Or(dto.price, seen.price),
              !.terms = Or(dto.terms, @), !.photos = Or(dto.photos, @)]

\* The columns of Product and the asking price are written whether or not the
\* body has them, from the snapshot; the others only if it has them.
UpdatedRow(row, seen, dto) ==
  [row EXCEPT
     !.sheet = Or(dto.sheet, seen.sheet),
     !.proof = Or(dto.proof, IF seen.proof = Blank THEN DefaultProof ELSE seen.proof),
     !.price = Or(dto.price, IF seen.price = Blank THEN @ ELSE seen.price),
     !.terms = Or(dto.terms, @),
     !.photos = Or(dto.photos, @)]

\* Fault: the answer is the draft as it was read.
UpdateDraftAnswersOld(c) ==
  /\ call[c].kind = "save" /\ call[c].phase = "read"
  /\ LET d == call[c].at
     IN /\ draft' = [draft EXCEPT ![d] = UpdatedRow(@, call[c].seen, call[c].dto)]
        /\ Touch(d)
        /\ AnswerWith(c, d, call[c].seen)
  /\ UNCHANGED listings

\* The transaction.  The status of the draft is not looked at.
UpdateDraft(c) ==
  /\ call[c].kind = "save" /\ call[c].phase = "read"
  /\ LET d == call[c].at
         row == UpdatedRow(draft[d], call[c].seen, call[c].dto)
     IN /\ draft' = [draft EXCEPT ![d] = row]
        /\ Touch(d)
        /\ AnswerWith(c, d, row)
  /\ UNCHANGED listings

\* The listing's location is the body's, for want of one the draft's.
PlaceOf(seen, dto) == Or(dto.terms, seen.terms)

Complete(seen, dto) ==
  /\ Blank \notin {seen.sheet, seen.proof, seen.price, seen.terms, PlaceOf(seen, dto)}
  /\ seen.photos >= MinPhotos

\* Fault: the status of the draft is not looked at.
PublishReadAnyStatus(c) ==
  /\ call[c].kind = "publish" /\ call[c].phase = "sent"
  /\ IF Complete(draft[call[c].at], call[c].dto)
     THEN call' = [call EXCEPT ![c].phase = "read", ![c].seen = draft[call[c].at]]
     ELSE SetPhase(c, "failed")
  /\ UNCHANGED tableVars

\* getDraftById and the checks of publishDraft.
PublishRead(c) ==
  /\ call[c].kind = "publish" /\ call[c].phase = "sent"
  /\ LET row == draft[call[c].at]
     IN IF row.status = "OPEN" /\ Complete(row, call[c].dto)
        THEN call' = [call EXCEPT ![c].phase = "read", ![c].seen = row]
        ELSE SetPhase(c, "failed")
  /\ UNCHANGED tableVars

\* Fault: the listing shows the draft as it is now, not as it was checked.
PublishDraftUnchecked(c) ==
  /\ call[c].kind = "publish" /\ call[c].phase = "read"
  /\ LET d == call[c].at
         row == [draft[d] EXCEPT !.status = "PUBLISHED"]
     IN /\ listings' = [listings EXCEPT ![d] = Append(@,
             [sheet |-> row.sheet, proof |-> row.proof, price |-> row.price,
              place |-> PlaceOf(row, call[c].dto), photos |-> row.photos])]
        /\ draft' = [draft EXCEPT ![d] = row]
        /\ Touch(d)
        /\ AnswerWith(c, d, row)

\* Fault: the transaction forgets the status of the draft.
PublishDraftLeavesOpen(c) ==
  /\ call[c].kind = "publish" /\ call[c].phase = "read"
  /\ LET d == call[c].at
         seen == call[c].seen
         row == draft[d]
     IN /\ listings' = [listings EXCEPT ![d] = Append(@,
             [sheet |-> seen.sheet, proof |-> seen.proof, price |-> seen.price,
              place |-> PlaceOf(seen, call[c].dto), photos |-> seen.photos])]
        /\ draft' = [draft EXCEPT ![d] = row]
        /\ Touch(d)
        /\ AnswerWith(c, d, row)

\* The transaction: the listing is made of the snapshot.
PublishDraft(c) ==
  /\ call[c].kind = "publish" /\ call[c].phase = "read"
  /\ LET d == call[c].at
         seen == call[c].seen
         row == [draft[d] EXCEPT !.status = "PUBLISHED"]
     IN /\ listings' = [listings EXCEPT ![d] = Append(@,
             [sheet |-> seen.sheet, proof |-> seen.proof, price |-> seen.price,
              place |-> PlaceOf(seen, call[c].dto), photos |-> seen.photos])]
        /\ draft' = [draft EXCEPT ![d] = row]
        /\ Touch(d)
        /\ AnswerWith(c, d, row)

\* The request is refused on its way (session, rate limit) or the process
\* stops before the transaction commits.
CallFails(c) ==
  /\ call[c].phase \in {"sent", "read"}
  /\ SetPhase(c, "failed")
  /\ UNCHANGED tableVars

ServerStep(c) ==
  \/ ActiveDraftFound(c) \/ NoActiveDraft(c) \/ CreateDraft(c)
  \/ ReadDraft(c) \/ UpdateDraft(c)
  \/ PublishRead(c) \/ PublishDraft(c)
  \/ CallFails(c)

TablesInit ==
  /\ \/ draft = [d \in DraftIds |-> FreeRow] /\ newer = {}
     \/ \E row \in FirstDrafts :
          /\ draft = [d \in DraftIds |-> IF d = 1 THEN row ELSE FreeRow]
          /\ newer = {<<1, e>> : e \in DraftIds \ {1}}
  /\ listings = [d \in DraftIds |-> <<>>]
  /\ call = [c \in Calls |-> NoCall]
=============================================================================

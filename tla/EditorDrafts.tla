---------------------------- MODULE EditorDrafts ----------------------------
(***************************************************************************)
(* One window of the web editor (apps/web/app/admin) over the handlers of  *)
(* WorkingCopies: what is typed goes to the browser's IndexedDB, to the    *)
(* working copy on the server by autosave or, when that fails, by an       *)
(* outbox, and to the entry by a save.  Every await is a point where other *)
(* steps come in between.                                                  *)
(*                                                                         *)
(* A text is a number, in the order of typing; Blank is an editor without  *)
(* authored content.                                                       *)
(***************************************************************************)
EXTENDS Naturals, Sequences, FiniteSets

CONSTANTS
  Entries, Copies, Drafts, None, NoPayload, MaxRevision,
  MaxTexts,   \* bound: texts typed or saved elsewhere
  MaxMoves,   \* bound: what users do, as against timers, requests and answers
  MaxIO,      \* bound: IndexedDB requests under way when a timer fires
  MaxLate,    \* bound: aborted requests under way, others are lost
  MaxDrafts,  \* drafts the tray keeps, 20 in the code
  Failures    \* what may fail: "storage", "network", "reload"

ASSUME BoundsAssumption ==
  /\ MaxTexts \in Nat \ {0, 1} /\ MaxRevision \in Nat \ {0, 1} /\ MaxMoves \in Nat
  /\ MaxIO \in Nat \ {0} /\ MaxDrafts \in Nat \ {0} /\ MaxLate \in Nat
  /\ Failures \subseteq {"storage", "network", "reload"}

Blank == 0
Texts == 0..MaxTexts

VARIABLES
  entries, copies, versions, tokens,  \* the server's tables
  shelf,    \* IndexedDB "drafts": newest first
  outbox,   \* IndexedDB "outbox": one text for a draft
  tray,     \* the drafts the window lists, read from the shelf
  io,       \* IndexedDB requests under way, in their order
  call,     \* the autosave request runtime.abort can abort
  late,     \* aborted requests the server may still carry out
  pass,     \* what the running pass over the outbox has still to send
  ed,       \* the editor
  save, discard, undo,  \* the handlers under way
  open,     \* the dialog is open, the page is mounted
  user,     \* history: the last text typed, and how much was done
  past      \* history: [kept, retired, revived]

\* what a request says of a text; only notes can be undone, only articles keep
\* versions
Requests == {[text |-> t, kind |-> k, status |-> "public"] : t \in Texts, k \in {"note", "article"}}
Kind     == IF \E e \in Entries : entries[e].kind = "article" THEN "article" ELSE "note"
Says(t)  == [text |-> t, kind |-> Kind, status |-> "public"]

tables == <<entries, copies, versions, tokens>>
browser == <<shelf, outbox, tray, io>>
vars == <<tables, browser, call, late, pass, ed, save, discard, undo, open,
          user, past>>

Server == INSTANCE WorkingCopies WITH KeptVersions <- 2

ASSUME ServerAssumption ==
  /\ None \notin Entries \cup Copies \cup Drafts
  /\ None \notin Texts /\ None \notin Server!Statuses
  /\ None \notin [status : Server!Statuses, text : Texts]
  /\ None \notin [entry : Entries, seen : Texts, checked : BOOLEAN]
  /\ NoPayload \notin Server!Payload

NoDraft == Server!NoDraft
NoCall  == [draft |-> NoDraft, text |-> Blank, kind |-> "none", at |-> "none"]
Fresh   == [text |-> Blank, draft |-> NoDraft, entry |-> None, working |-> None,
            base |-> 0, changed |-> FALSE, token |-> {}]
NoSave  == [stage |-> "off", draft |-> NoDraft, working |-> None, base |-> 0,
            text |-> Blank, token |-> {}]
NoEdit  == [stage |-> "off", entry |-> None, draft |-> NoDraft, copy |-> None, text |-> Blank, base |-> 0]
NoUndo  == [stage |-> "off", text |-> Blank]

\* drafts ids the window knows of, and the copy a live draft is stored in
RowOf(d)    == {c \in Copies : copies[c].state = "live" /\ copies[c].draft = d}
Retired(d)  == d.type = "edit" /\ RowOf(d) = {}
Existing    == {e \in Entries : entries[e].status \notin {"unborn", "gone"}}
NewIds      == {Server!NewDraft(d) : d \in Drafts}
\* the ids drafts have
Ids         == NewIds \cup {Server!UndoDraft(e) : e \in Entries}
               \cup {Server!EditDraft(e, c) : e \in Entries, c \in Copies}
\* crypto.randomUUID() is new: not on any row, in any store or in any request
UsedIds     == {copies[c].draft : c \in Copies} \cup {entries[e].origin : e \in Entries}
               \cup {shelf[i].draft : i \in DOMAIN shelf} \cup {x.draft : x \in outbox}
               \cup {tray[i].draft : i \in DOMAIN tray}
               \cup {x.draft : x \in late} \cup {call.draft, ed.draft, save.draft}
               \cup past.retired \cup {io[i].draft : i \in DOMAIN io}
FreshIds    == NewIds \ UsedIds

\* what is there already: nothing, a draft of an earlier visit, a note that was
\* published, or an article that has been changed
Published(e, kind, history) ==
  /\ entries = [k \in Entries |-> IF k = e
       THEN [Server!Unborn EXCEPT !.status = "public", !.kind = kind, !.text = Len(history),
                                  !.revision = Len(history)] ELSE Server!Unborn]
  /\ copies = [c \in Copies |-> Server!Unused] /\ tokens = {}
  /\ versions = [k \in Entries |-> IF k = e /\ kind = "article" THEN history ELSE <<>>]
  /\ shelf = <<>> /\ user = [text |-> Len(history), moves |-> 0]

Init ==
  /\ \/ Server!Init /\ shelf = <<>> /\ user = [text |-> 0, moves |-> 0]
     \/ Server!Init /\ \E d \in NewIds : shelf = <<[draft |-> d, text |-> 1]>>
        /\ user = [text |-> 1, moves |-> 0]
     \/ \E e \in Entries : Published(e, "note", <<1>>) \/ Published(e, "article", <<1, 2>>)
  /\ outbox = {} /\ tray = <<>> /\ io = <<>>
  /\ call = NoCall /\ late = {} /\ pass = {}
  /\ ed = Fresh /\ save = NoSave /\ discard = NoEdit /\ undo = NoUndo
  /\ open = FALSE
  /\ past = [kept |-> {shelf[i] : i \in DOMAIN shelf}, retired |-> {}, revived |-> {}]

\* a user does something, or types a new text
MovesTo(t) == /\ user.moves < MaxMoves
              /\ user' = [text |-> t, moves |-> user.moves + 1]
Moves      == MovesTo(user.text)
NewText(t) == t = user.text + 1 /\ t <= MaxTexts /\ MovesTo(t)

-----------------------------------------------------------------------------
(* IndexedDB (editor-storage.ts) *)

\* requests to the shelf are carried out in the order they were made in
Op(op, d, t) == [op |-> op, draft |-> d, text |-> t, stale |-> FALSE, closes |-> FALSE]
Named(q, ops) == {q[i].draft : i \in {k \in DOMAIN q : q[k].op \in ops}}
Place(s, d)   == CHOOSE i \in DOMAIN s : s[i].draft = d
Without(s, d) == IF \A i \in DOMAIN s : s[i].draft # d THEN s
                 ELSE [i \in 1..(Len(s) - 1) |-> IF i < Place(s, d) THEN s[i] ELSE s[i + 1]]
Put(s, d, t)  == <<[draft |-> d, text |-> t]>> \o Without(s, d)
Unqueued(d)   == {x \in outbox : x.draft # d}
Queued(d, t)  == Unqueued(d) \cup {[draft |-> d, text |-> t]}
Dropped(d)    == {x \in past.kept : x.draft # d}
\* not counting what a delete is already on its way for
Kept(d, t)    == Dropped(d) \cup IF d \in Named(io, {"prune"}) THEN {}
                                 ELSE {[draft |-> d, text |-> t]}

\* runtime.epoch moves on: what began before it ends without effect
Stale(s) == [i \in DOMAIN s |-> [s[i] EXCEPT !.stale = TRUE]]

\* the page is left during a discard, which goes on without it
Left(s) == [i \in DOMAIN s |-> [s[i] EXCEPT !.stale = TRUE,
                                           !.op = IF @ = "forget" THEN "erase" ELSE @]]

\* refreshDrafts reads the shelf s: the tray shows the newest drafts, for the
\* others a delete is begun
Newest(n, s) == SubSeq(s, 1, IF Len(s) < n THEN Len(s) ELSE n)
RefreshesKeepOldest(s, q, kept) ==  \* mutant: deletes from the wrong end
  /\ tray' = Newest(MaxDrafts, s)
  /\ past' = [past EXCEPT !.kept =
                {x \in kept : ~\E i \in DOMAIN s : i > MaxDrafts /\ s[i].draft = x.draft}]
  /\ io' = q \o [i \in 1..(Len(s) - Len(tray')) |-> Op("prune", s[i].draft, Blank)]
Refreshes(s, q, kept) ==
  /\ tray' = Newest(MaxDrafts, s)
  /\ past' = [past EXCEPT !.kept =
                {x \in kept : ~\E i \in DOMAIN s : i > MaxDrafts /\ s[i].draft = x.draft}]
  /\ io' = q \o [i \in 1..(Len(s) - Len(tray')) |-> Op("prune", s[Len(tray') + i].draft, Blank)]

\* a new request takes the place of the current one, which is aborted; what its
\* catch block has just queued it takes back
Aborted == IF call.at = "sent" /\ Cardinality(late) < MaxLate
           THEN late \cup {[draft |-> call.draft, text |-> call.text]} ELSE late
TakenBack == IF call.at = "requeued" THEN Unqueued(call.draft) ELSE outbox

-----------------------------------------------------------------------------
(* Autosave: useDraftPersistence, useDraftAutosaveSync *)

\* syncDraft as called with the current epoch: offline and within two seconds of
\* the last request the text is queued
Sync(d, t) ==
  IF discard.stage # "off" THEN UNCHANGED <<outbox, call, late>>
  ELSE \/ outbox' = Queued(d, t) /\ UNCHANGED <<call, late>>
       \/ /\ outbox' = TakenBack /\ late' = Aborted
          /\ call' = [draft |-> d, text |-> t, kind |-> "sync", at |-> "sent"]

\* history: a draft that has ended is stored once more; a draft ends, with
\* requests to store it possibly behind in the queue
Revives(d) == [past EXCEPT !.revived = @ \cup ({d} \cap past.retired)]
Stored(q)  == Named(q, {"store", "clear", "keep"})
Ends(d)    == [past EXCEPT !.kept = Dropped(d), !.retired = @ \cup {d},
                           !.revived = (@ \ {d}) \cup ({d} \cap Stored(Tail(io)))]

\* persistNow, by the debounce, the blur and interval flushes, or a close
Persist(closes) ==
  /\ open /\ Len(io) < MaxIO
  /\ IF closes THEN Moves ELSE UNCHANGED user
  /\ IF ed.text # Blank
     THEN \E d \in IF ed.draft = NoDraft THEN FreshIds ELSE {ed.draft} :
            /\ ed' = [ed EXCEPT !.draft = d]
            /\ io' = Append(io, [Op("store", d, ed.text) EXCEPT !.closes = closes])
            /\ past' = Revives(d)
            /\ UNCHANGED open
     ELSE IF ed.draft # NoDraft
     THEN /\ io' = Append(io, [Op("clear", ed.draft, Blank) EXCEPT !.closes = closes])
          /\ past' = Revives(ed.draft)
          /\ UNCHANGED <<ed, open>>
     ELSE /\ closes /\ open' = FALSE /\ UNCHANGED <<ed, io, past>>
  /\ UNCHANGED <<tables, shelf, outbox, tray, call, late, pass, save, discard, undo>>

\* while the text is put away for a close, the window is inert
Closing == \E i \in DOMAIN io : io[i].closes

Autosaves == Persist(FALSE)

\* the first request is carried out, its continuation runs up to its next await
IsNext(op) == io # <<>> /\ Head(io).op = op

Stores ==
  /\ IsNext("store")
  /\ LET o == Head(io) IN
     /\ shelf' = Put(shelf, o.draft, o.text)
     /\ IF o.stale
        THEN /\ io' = Tail(io) /\ UNCHANGED <<outbox, tray, call, late, open>>
             /\ past' = [past EXCEPT !.kept = Kept(o.draft, o.text)]
        ELSE /\ Sync(o.draft, o.text)
             /\ Refreshes(shelf', Tail(io), Kept(o.draft, o.text))
             /\ open' = (open /\ ~o.closes)
  /\ UNCHANGED <<tables, pass, ed, save, discard, undo, user>>

\* the store is not available: the window says so and stays open
StoreFails ==
  /\ "storage" \in Failures /\ (IsNext("store") \/ IsNext("clear"))
  /\ open' = IF Head(io).closes /\ ed.text = Blank THEN FALSE ELSE open
  /\ io' = Tail(io)
  /\ UNCHANGED <<tables, shelf, outbox, tray, call, late, pass, ed, save, discard,
                 undo, user, past>>

Clears ==
  /\ IsNext("clear")
  /\ LET o == Head(io) IN
     /\ shelf' = Without(shelf, o.draft)
     /\ IF o.stale THEN UNCHANGED <<outbox, call, late>> ELSE Sync(o.draft, o.text)
     /\ Refreshes(shelf', Tail(io), Dropped(o.draft))
     /\ open' = (open /\ ~o.closes)
  /\ UNCHANGED <<tables, pass, ed, save, discard, undo, user>>

Prunes ==
  /\ IsNext("prune")
  /\ shelf' = Without(shelf, Head(io).draft)
  /\ io' = Tail(io)
  /\ UNCHANGED <<tables, outbox, tray, call, late, pass, ed, save, discard, undo, open,
                 user, past>>

-----------------------------------------------------------------------------
(* Requests *)

\* POST /working-copies as the server answers it
Accepts(d, t) ==
  \/ \E c \in RowOf(d) : d.type = "edit" /\ Server!SaveEdit(c, Says(t))
  \/ d.type # "edit" /\ Server!SaveDraft(d, Says(t))

CallArrives ==
  /\ call.at = "sent"
  /\ \/ Accepts(call.draft, call.text) /\ call' = [call EXCEPT !.at = "ok"]
     \/ Retired(call.draft) /\ call' = [call EXCEPT !.at = "conflict"] /\ UNCHANGED tables
  /\ UNCHANGED <<browser, late, pass, ed, save, discard, undo, open, user, past>>

CallReturnsSilently ==  \* mutant: the queued item stays
  /\ call.at \in {"ok", "conflict"}
  /\ call' = NoCall
  /\ UNCHANGED <<tables, browser, late, pass, ed, save, discard, undo, open, user, past>>
\* ok and 409 both end with the draft out of the outbox
CallReturns ==
  /\ call.at \in {"ok", "conflict"}
  /\ outbox' = Unqueued(call.draft) /\ call' = NoCall
  /\ UNCHANGED <<tables, shelf, tray, io, late, pass, ed, save, discard, undo, open,
                 user, past>>

\* lost on the way there or back, or another status: to the outbox, and after
\* that await the catch block looks whether it still should
CallFails ==
  /\ "network" \in Failures /\ call.at \in {"sent", "ok"}
  /\ IF discard.stage # "off" THEN call' = NoCall /\ UNCHANGED outbox
     ELSE /\ outbox' = Queued(call.draft, call.text)
          /\ call' = [call EXCEPT !.at = "requeued"]
  /\ UNCHANGED <<tables, shelf, tray, io, late, pass, ed, save, discard, undo, open,
                 user, past>>

CallEnds ==
  /\ call.at = "requeued" /\ call' = NoCall
  /\ outbox' = IF discard.stage # "off" THEN Unqueued(call.draft) ELSE outbox
  /\ UNCHANGED <<tables, shelf, tray, io, late, pass, ed, save, discard, undo, open,
                 user, past>>

\* an aborted request was on its way already, and may never arrive; its answer
\* is ignored
LateArrives ==
  /\ \E x \in late :
       /\ Accepts(x.draft, x.text)
       /\ late' = late \ {x}
  /\ UNCHANGED <<browser, call, pass, ed, save, discard, undo, open, user, past>>

-----------------------------------------------------------------------------
(* The outbox (useDraftOutbox) *)

\* its read comes after the deletes that were begun before it
PassStarts ==
  /\ open /\ discard.stage = "off" /\ outbox # {} /\ pass = {}
  /\ \A i \in DOMAIN io : io[i].op \notin {"drop", "forget", "erase"}
  /\ pass' = outbox
  /\ UNCHANGED <<tables, browser, call, late, ed, save, discard, undo, open, user, past>>

\* one item after the other, in the text it was read with
Retries ==
  /\ call.kind # "retry" /\ discard.stage = "off"
  /\ \E x \in pass :
       /\ pass' = pass \ {x}
       /\ late' = Aborted /\ outbox' = TakenBack
       /\ call' = [draft |-> x.draft, text |-> x.text, kind |-> "retry", at |-> "sent"]
  /\ UNCHANGED <<tables, shelf, tray, io, ed, save, discard, undo, open, user, past>>

\* an item that is not due, or a discard, ends the pass
PassEnds ==
  /\ pass # {} /\ pass' = {}
  /\ UNCHANGED <<tables, browser, call, late, ed, save, discard, undo, open, user, past>>

-----------------------------------------------------------------------------
(* The editor *)

AbandonsOneRequest(s) ==  \* mutant: the epoch stays
  /\ late' = Aborted /\ outbox' = TakenBack /\ call' = NoCall
  /\ io' = io \o s /\ UNCHANGED pass
\* abortPending(): s is what io becomes apart from the stale marks
Abandons(s) ==
  /\ late' = Aborted /\ outbox' = TakenBack /\ call' = NoCall /\ pass' = {}
  /\ io' = Stale(io) \o s

Types ==
  /\ open /\ save.stage = "off" /\ ~Closing
  /\ \E t \in Texts :
       /\ t # ed.text /\ (NewText(t) \/ (t = Blank /\ Moves))
       /\ ed' = [ed EXCEPT !.text = t, !.changed = (@ \/ ed.entry # None)]
  /\ UNCHANGED <<tables, browser, call, late, pass, save, discard, undo, open, past>>

\* what applyWorkingCopy puts in the editor
Shown(e, c, row) == [ed EXCEPT !.text = row.payload.text, !.draft = row.draft, !.entry = e,
                               !.working = c, !.base = row.base]

\* a window is opened: to write, or with ?edit= (useEditWorkingCopyLoader); an
\* edit the server has already is resumed
Listing == Refreshes(shelf, io, past.kept)

OpensNew ==
  /\ Moves
  /\ ~open /\ ed = Fresh /\ open' = TRUE /\ Listing
  /\ UNCHANGED <<tables, shelf, outbox, call, late, pass, ed, save, discard, undo>>

OpensEdit ==
  /\ Moves
  /\ ~open /\ ed = Fresh /\ open' = TRUE /\ Listing
  /\ \E e \in Existing, c \in Copies :
       /\ \/ Server!OpenEdit(e) /\ copies'[c] # copies[c]
          \/ c \in Server!CopiesOf(e) /\ UNCHANGED tables
       /\ ed' = [Shown(e, c, copies'[c]) EXCEPT
                   !.changed = (copies'[c].payload.text # entries[e].text)]
  /\ UNCHANGED <<shelf, outbox, call, late, pass, save, discard, undo>>

\* onLoadDraft: as listed in the tray; forgets which entry was being edited
LoadsDraft ==
  /\ Moves
  /\ open /\ save.stage = "off" /\ ~Closing
  /\ \E i \in DOMAIN tray :
       /\ tray[i].draft # ed.draft
       /\ ed' = [Fresh EXCEPT !.text = tray[i].text, !.draft = tray[i].draft, !.token = ed.token]
       /\ past' = [past EXCEPT !.kept = {x \in @ : x.draft # tray[i].draft}]
  /\ UNCHANGED <<tables, browser, call, late, pass, save, discard, undo, open>>

\* requestClose of the dialog: at once without a draft, else when it is stored
Closes ==
  /\ save.stage = "off" /\ ~Closing /\ ed.entry = None
  /\ Persist(TRUE)

Reopens ==
  /\ Moves
  /\ ~open /\ ed # Fresh /\ ed.entry = None
  /\ open' = TRUE
  /\ UNCHANGED <<tables, browser, call, late, pass, ed, save, discard, undo, past>>

\* the tab is reloaded or crashes: only the two stores and the server remain
Reload ==
  /\ Moves
  /\ "reload" \in Failures /\ open
  /\ open' = FALSE /\ ed' = Fresh /\ save' = NoSave /\ discard' = NoEdit /\ undo' = NoUndo
  /\ io' = <<>> /\ tray' = <<>> /\ late' = Aborted /\ call' = NoCall /\ pass' = {}
  /\ UNCHANGED <<tables, shelf, outbox, past>>

-----------------------------------------------------------------------------
(* Saving: useAdminSaveAction, admin-entry-actions, finalizeSavedDraft *)

SaveStarts ==
  /\ Moves
  /\ open /\ ~Closing /\ save.stage = "off" /\ ed.text # Blank
  /\ \E d \in IF ed.draft = NoDraft THEN FreshIds ELSE {ed.draft} :
       /\ ed' = [ed EXCEPT !.draft = d]
       /\ save' = [stage |-> "keep", draft |-> d, working |-> ed.working, base |-> ed.base,
                   text |-> ed.text, token |-> {}]
       /\ io' = Append(io, Op("keep", d, ed.text))
       /\ past' = Revives(d)
  /\ UNCHANGED <<tables, shelf, outbox, tray, call, late, pass, discard, undo, open>>

\* the draft is put on the shelf first, whether that works or not
Keeps ==
  /\ IsNext("keep")
  /\ LET o == Head(io) IN
     \/ /\ shelf' = Put(shelf, o.draft, o.text)
        /\ past' = [past EXCEPT !.kept = Kept(o.draft, o.text)]
     \/ "storage" \in Failures /\ UNCHANGED <<shelf, past>>
  /\ io' = Tail(io)
  /\ save' = [save EXCEPT !.stage = IF save.working = None THEN "post" ELSE "commit"]
  /\ UNCHANGED <<tables, outbox, tray, call, late, pass, ed, discard, undo, open,
                 user>>

\* without a working copy the draft is posted, which tells its id
SavePosts ==
  /\ save.stage = "post"
  /\ Accepts(save.draft, save.text)
  /\ \E c \in Copies : /\ copies'[c].state = "live" /\ copies'[c].draft = save.draft
                       /\ save' = [save EXCEPT !.stage = "commit", !.working = c]
  /\ UNCHANGED <<browser, call, late, pass, ed, discard, undo, open, user, past>>

\* POST /working-copies/{id}/commit with the whole text, and the base revision
\* when an edit is open
SaveCommits ==
  /\ save.stage = "commit"
  /\ \/ \E e \in Entries : Server!CommitNew(save.working, e, Says(save.text))
     \/ Server!CommitEdit(save.working, Says(save.text), save.base)
  /\ save' = [save EXCEPT !.stage = "answered", !.token = tokens' \ tokens]
  /\ UNCHANGED <<browser, call, late, pass, ed, discard, undo, open, user, past>>

\* 404 and 409: the copy is gone, the entry was changed; or the answer is lost
Refuses(c, base) ==
  \/ copies[c].state # "live"
  \/ /\ copies[c].entry # None
     /\ Server!Expected(c, base) \notin {0, entries[copies[c].entry].revision}

SaveFails ==
  /\ \/ save.stage = "post" /\ Retired(save.draft)
     \/ save.stage = "commit" /\ Refuses(save.working, save.base)
     \/ save.stage \in {"post", "commit", "answered"} /\ "network" \in Failures
  /\ save' = NoSave
  /\ UNCHANGED <<tables, browser, call, late, pass, ed, discard, undo, open,
                 user, past>>

\* what finalizeSavedDraft does up to its await
Finalizes ==
  /\ save.stage = "answered"
  /\ Abandons(<<Op("drop", save.draft, Blank)>>)
  /\ save' = [save EXCEPT !.stage = "drop"]
  /\ UNCHANGED <<tables, shelf, tray, ed, discard, undo, open, user, past>>

\* both deletes are carried out (one that fails would leave the draft behind: not
\* modelled), the draft gets a new id
Drops ==
  /\ IsNext("drop")
  /\ LET d == Head(io).draft IN
     /\ shelf' = Without(shelf, d) /\ outbox' = Unqueued(d)
     /\ past' = Ends(d)
  /\ \E d \in FreshIds : ed' = [ed EXCEPT !.draft = d, !.changed = FALSE]
  /\ io' = Tail(io) /\ save' = [save EXCEPT !.stage = "caches"]
  /\ UNCHANGED <<tables, tray, call, late, pass, discard, undo, open, user>>

\* after the caches: the page of an edit is left, a new entry starts over
SaveEnds ==
  /\ save.stage = "caches"
  /\ save' = NoSave
  /\ IF ed.entry # None
     THEN /\ ed' = Fresh /\ open' = FALSE /\ discard' = NoEdit
          /\ io' = IF discard.stage = "off" THEN io ELSE Left(io)
          /\ UNCHANGED <<tray, past>>
     ELSE /\ ed' = [ed EXCEPT !.text = Blank, !.changed = FALSE, !.token = save.token]
          /\ Listing /\ UNCHANGED <<open, discard>>
  /\ UNCHANGED <<tables, shelf, outbox, call, late, pass, undo,
                 user>>

-----------------------------------------------------------------------------
(* Taking back: useRestorePublishedVersion, useAdminUndoAction *)

DiscardStarts ==
  /\ Moves
  /\ open /\ ed.entry # None /\ ed.changed /\ discard.stage = "off"
  /\ discard' = [NoEdit EXCEPT !.stage = "asked", !.entry = ed.entry, !.draft = ed.draft]
  /\ Abandons(<<>>)
  /\ UNCHANGED <<tables, shelf, tray, ed, save, undo, open, past>>

\* POST /entries/{id}/edit?discard=1 answers with the new copy
DiscardArrives ==
  /\ discard.stage = "asked"
  /\ Server!DiscardEdit(discard.entry)
  /\ \E c \in Copies :
       /\ copies[c].state = "unused" /\ copies'[c].state = "live"
       /\ discard' = [discard EXCEPT !.stage = "answered", !.copy = c,
                        !.text = copies'[c].payload.text, !.base = copies'[c].base]
  /\ UNCHANGED <<browser, call, late, pass, ed, save, undo, open, user, past>>

DiscardForgets ==
  /\ discard.stage = "answered"
  /\ io' = Append(io, Op("forget", discard.draft, Blank))
  /\ discard' = [discard EXCEPT !.stage = "forget"]
  /\ UNCHANGED <<tables, shelf, outbox, tray, call, late, pass, ed, save, undo, open, user,
                 past>>

DiscardFails ==
  /\ "network" \in Failures /\ discard.stage \in {"asked", "answered"}
  /\ discard' = NoEdit
  /\ UNCHANGED <<tables, browser, call, late, pass, ed, save, undo, open, user, past>>

\* both stores forget the old draft, then the published text is shown, unless
\* the page was left
Forgets ==
  /\ IsNext("forget") \/ IsNext("erase")
  /\ LET d == Head(io).draft IN
     /\ shelf' = Without(shelf, d) /\ outbox' = Unqueued(d)
     /\ past' = Ends(d)
  /\ io' = Tail(io)
  /\ IF IsNext("erase") THEN UNCHANGED <<ed, discard>>
     ELSE /\ discard' = NoEdit
          /\ ed' = [Fresh EXCEPT !.text = discard.text, !.entry = discard.entry,
                       !.draft = Server!EditDraft(discard.entry, discard.copy),
                       !.working = discard.copy, !.base = discard.base, !.token = ed.token]
  /\ UNCHANGED <<tables, tray, call, late, pass, save, undo, open, user>>

\* POST /undo/{token}; the text comes back into whatever is being written.  An
\* expired token is one that is not used
UndoArrives ==
  /\ Moves
  /\ open /\ undo.stage = "off"
  /\ \E k \in ed.token :
       /\ Server!UndoCreate(k) \/ Server!UndoEdit(k)
       /\ undo' = [stage |-> "answered", text |-> k.payload.text]
  /\ UNCHANGED <<browser, call, late, pass, ed, save, discard, open, past>>

UndoEnds ==
  /\ undo.stage = "answered" /\ undo' = NoUndo
  /\ ed' = [ed EXCEPT !.text = undo.text, !.token = {}, !.changed = FALSE]
  /\ UNCHANGED <<tables, browser, call, late, pass, save, discard, open, user, past>>

\* another client saves the entry, restores a version or discards the edit
Elsewhere ==
  /\ \/ \E t \in Texts, c \in Copies :
          NewText(t) /\ copies[c].draft.type = "edit" /\ Server!CommitEdit(c, Says(t), copies[c].base)
     \/ Moves /\ \E e \in Entries : Server!DiscardEdit(e) \/ Server!RestoreVersion(e, 1)
  /\ UNCHANGED <<browser, call, late, pass, ed, save, discard, undo, open, past>>

-----------------------------------------------------------------------------
Storage  == Stores \/ StoreFails \/ Clears \/ Prunes \/ Keeps \/ Drops \/ Forgets
Saving   == SavePosts \/ SaveCommits \/ SaveFails \/ Finalizes \/ SaveEnds
Undoing  == DiscardArrives \/ DiscardForgets \/ DiscardFails \/ UndoArrives \/ UndoEnds

Next ==
  \/ Storage \/ Saving \/ Undoing
  \/ Autosaves \/ CallArrives \/ CallReturns \/ CallFails \/ CallEnds \/ LateArrives
  \/ PassStarts \/ Retries \/ PassEnds
  \/ OpensNew \/ OpensEdit \/ Types \/ LoadsDraft \/ Closes \/ Reopens \/ Reload
  \/ SaveStarts \/ DiscardStarts \/ Elsewhere

Spec == Init /\ [][Next]_vars

\* IndexedDB carries out every request; a flush comes every ten seconds, and two
\* seconds after a request it is not throttled; what is sent again and again
\* arrives and is answered once the network and the store have recovered
Syncs    == (Stores \/ Clears) /\ call'.kind = "sync" /\ call'.at = "sent"
Recovers == <>[][~CallFails /\ ~StoreFails]_vars
FairSpec ==
  /\ Spec /\ Recovers
  /\ WF_vars(Storage) /\ WF_vars(Autosaves) /\ SF_vars(Syncs) /\ SF_vars(CallArrives)
  /\ SF_vars(CallReturns) /\ WF_vars(CallEnds) /\ WF_vars(DiscardArrives \/ DiscardFails)
  /\ WF_vars(DiscardForgets)

-----------------------------------------------------------------------------
(* Properties *)

\* Whatever the window stores, sends or has under way is a text of a draft some
\* response or the browser has named, and the server's tables stay well formed.
Item    == [draft : Ids, text : Texts]
Request == [op : {"store", "clear", "prune", "keep", "drop", "forget", "erase"},
            draft : Ids, text : Texts, stale : BOOLEAN, closes : BOOLEAN]
Call    == [draft : Ids, text : Texts, kind : {"sync", "retry"},
            at : {"sent", "ok", "conflict", "requeued"}]
Editor  == [text : Texts, draft : Ids \cup {NoDraft}, entry : Entries \cup {None},
            working : Copies \cup {None}, base : 0..MaxRevision, changed : BOOLEAN,
            token : SUBSET Server!Token]
Save    == [stage : {"off", "keep", "post", "commit", "answered", "drop", "caches"},
            draft : Ids \cup {NoDraft}, working : Copies \cup {None},
            base : 0..MaxRevision, text : Texts, token : SUBSET Server!Token]
Discard == [stage : {"off", "asked", "answered", "forget"}, entry : Entries \cup {None},
            draft : Ids \cup {NoDraft}, copy : Copies \cup {None}, text : Texts,
            base : 0..MaxRevision]
TypeOK ==
  /\ Server!TypeOK
  /\ shelf \in Seq(Item) /\ outbox \subseteq Item /\ tray \in Seq(Item)
  /\ io \in Seq(Request)
  /\ call \in Call \cup {NoCall} /\ late \subseteq Item /\ pass \subseteq Item
  /\ ed \in Editor /\ (ed.entry # None => ed.draft # NoDraft)
  /\ save \in Save /\ (save.stage # "off" => save.draft # NoDraft)
  /\ save.stage = "commit" => save.working # None
  /\ discard \in Discard
  /\ discard.stage # "off" => discard.entry # None /\ discard.draft # NoDraft
  /\ discard.stage \in {"answered", "forget"} => discard.copy # None
  /\ undo \in [stage : {"off", "answered"}, text : Texts]
  /\ open \in BOOLEAN /\ user \in [text : Texts, moves : 0..MaxMoves]
  /\ past \in [kept : SUBSET Item, retired : SUBSET Ids, revived : SUBSET Ids]

\* Text that was put away ("saved locally") is on the shelf in its last version
\* until its draft is saved, discarded, emptied, replaced by another version
\* from the tray, or pushed out by MaxDrafts newer ones: no clean-up of one
\* draft takes another one with it.
StoredTextIsKept ==
  \A x \in past.kept : \E i \in DOMAIN shelf : shelf[i] = x

\* A draft that was saved or discarded is in neither store, at any time:
\* whatever was under way when it ended, a flush, a failed request that is about
\* to be queued, a pass over the outbox, leaves nothing behind, unless the
\* editor itself stored it again.
EndedDraftsAreForgotten ==
  \A d \in past.retired \ past.revived :
    /\ \A x \in outbox : x.draft # d
    /\ \A i \in DOMAIN shelf : shelf[i].draft # d

\* The save of an edit never replaces a text of the entry other than the one the
\* edit was opened on, since no edit in the editor loses its base revision.  A
\* draft that an undo hands out has none.
SavesReplaceWhatWasSeen ==
  [][\A c \in Copies : Server!Saves(c) /\ copies[c].draft.type = "edit" =>
       entries[copies[c].entry].text = copies[c].seen]_vars

\* Once the user rests, online, and with nothing else under way, the server's
\* working copy ends up with the text in the editor, however many older texts
\* were queued, aborted or late; or the draft was ended elsewhere (409).
Rests(d, t) == /\ open /\ ed.draft = d /\ ed.text = t
               /\ save.stage = "off" /\ discard.stage = "off"
Holds(d, t) == \E c \in RowOf(d) : copies[c].payload.text = t
ServerCatchesUp ==
  \A d \in {x \in Ids : x.type # "undo"}, t \in Texts :
    <>[]Rests(d, t) => <>[](Holds(d, t) \/ Retired(d))
=============================================================================

---------------------------- MODULE WorkingCopies ----------------------------
(***************************************************************************)
(* Working copies, formal entries and the undo tokens between them: the    *)
(* persistent write path of services/core.  Each action is one HTTP        *)
(* handler, whose statements run in one transaction; EditLocks looks       *)
(* inside the transactions.                                                *)
(*                                                                         *)
(* Clients are not state.  A request may arrive with any identifier some   *)
(* earlier response handed out, at any later time: that covers several     *)
(* tabs, retries, the outbox of the web client and delayed autosaves.      *)
(***************************************************************************)
EXTENDS Integers, Sequences

CONSTANTS
  Entries,      \* ids of formal entries
  Copies,       \* ids of working-copy rows; a uuid is never reused
  Drafts,       \* clientDraftIds the browser makes for unsaved entries
  Texts,        \* what a version of an entry says
  Requests,     \* the payloads clients send
  KeptVersions, \* 20 in the code
  MaxRevision,  \* bound: no entry is saved beyond this revision
  None,         \* SQL NULL, and fields without a value
  NoPayload

Kinds == {"note", "article"}

\* status and visibility in one: a draft is never shown, whatever its
\* visibility, so "public" and "private" stand for published entries.
Shown    == {"public", "private"}
Statuses == {"draft", "trashed"} \cup Shown

Payload == [text : Texts, kind : Kinds, status : Statuses]

ASSUME ConstantsAssumption ==
  /\ Requests \subseteq Payload
  /\ KeptVersions \in Nat \ {0}
  /\ MaxRevision \in Nat \ {0}
  /\ None \notin Entries \cup Copies \cup Drafts \cup Texts \cup Statuses
  /\ None \notin [status : Statuses, text : Texts]
  /\ None \notin [entry : Entries, seen : Texts, checked : BOOLEAN]
  /\ NoPayload \notin Payload

VARIABLES
  entries,   \* table entries
  copies,    \* table entry_working_copies
  versions,  \* table entry_versions
  tokens     \* table undo_tokens

vars == <<entries, copies, versions, tokens>>

-----------------------------------------------------------------------------
\* client_draft_id: edit-<entry>-<generation>, undo-<entry>, or a browser uuid
DraftId == [type : {"edit", "undo", "new", "none"},
            entry : Entries \cup {None},
            gen : Copies \cup Drafts \cup {None}]

EditDraft(e, c) == [type |-> "edit", entry |-> e, gen |-> c]
UndoDraft(e)    == [type |-> "undo", entry |-> e, gen |-> None]
NewDraft(d)     == [type |-> "new", entry |-> None, gen |-> d]
NoDraft         == [type |-> "none", entry |-> None, gen |-> None]

\* "unborn" and "gone" are ids without a row, before and after
EntryRow == [status : Statuses \cup {"unborn", "gone"},
             kind : Kinds,
             text : Texts \cup {None},
             revision : 0..MaxRevision,
             prev : Statuses \cup {None},            \* previous_status
             deleted : {"no", "recent", "expired"},  \* deleted_at
             origin : DraftId]                       \* history: whose save made it

\* given: the baseRevision the response that made the row told the client.
\* seen: history, the formal text at that moment.
CopyRow == [state : {"unused", "live", "dropped"},
            draft : DraftId,
            entry : Entries \cup {None},
            base : 0..MaxRevision,
            given : 0..MaxRevision,
            seen : Texts \cup {None},
            payload : Payload \cup {NoPayload}]

\* fresh: the save it undoes created the entry.  rev keeps tokens distinct.
Token == [entry : Entries, rev : 0..MaxRevision, fresh : BOOLEAN,
          prev : Statuses, payload : Payload]

Unborn == [status |-> "unborn", kind |-> "note", text |-> None, revision |-> 0,
           prev |-> None, deleted |-> "no", origin |-> NoDraft]
Unused == [state |-> "unused", draft |-> NoDraft, entry |-> None, base |-> 0,
           given |-> 0, seen |-> None, payload |-> NoPayload]

Exists(e)   == entries[e].status \notin {"unborn", "gone"}
Live(c)     == copies[c].state = "live"
Free(c)     == copies[c].state = "unused"
CopiesOf(e) == {c \in Copies : Live(c) /\ copies[c].entry = e}
Rows(d)     == {c \in Copies : Live(c) /\ copies[c].draft = d}

\* the ids clients may still hold remain readable after the row is gone
Dropped(c) == [Unused EXCEPT !.state = "dropped", !.draft = copies[c].draft]

FormalPayload(e) ==
  [text |-> entries[e].text, kind |-> entries[e].kind, status |-> entries[e].status]

EditCopy(e, c) ==
  [state |-> "live", draft |-> EditDraft(e, c), entry |-> e,
   base |-> entries[e].revision, given |-> entries[e].revision,
   seen |-> entries[e].text, payload |-> FormalPayload(e)]

Init ==
  /\ entries = [e \in Entries |-> Unborn]
  /\ copies = [c \in Copies |-> Unused]
  /\ versions = [e \in Entries |-> <<>>]
  /\ tokens = {}

-----------------------------------------------------------------------------
(* Saving drafts *)

\* a draft id clients know: their own uuid, or one an undo gave them
Known(d) == d.type = "undo" => \E c \in Copies : copies[c].draft = d

\* POST /working-copies, any id without the edit- prefix: insert or overwrite
SaveDraft(d, p) ==
  /\ d.type # "edit" /\ Known(d)
  /\ \/ \E c \in Rows(d) :
          copies' = [copies EXCEPT ![c].payload = p]
     \/ /\ Rows(d) = {}
        /\ \E c \in Copies :
             /\ Free(c)
             /\ copies' = [copies EXCEPT ![c] =
                  [Unused EXCEPT !.state = "live", !.draft = d, !.payload = p]]
  /\ UNCHANGED <<entries, versions, tokens>>

\* mutant: an upsert for every kind of draft id
SaveEditUpserts(c, p) ==
  /\ copies[c].draft.type = "edit"
  /\ \E k \in Copies :
       /\ Free(k)
       /\ copies' = IF Live(c) THEN [copies EXCEPT ![c].payload = p]
                    ELSE [copies EXCEPT ![k] =
                           [Unused EXCEPT !.state = "live", !.draft = copies[c].draft,
                                          !.payload = p]]
  /\ UNCHANGED <<entries, versions, tokens>>

\* POST /working-copies, edit- id: update only, 409 when the row is gone
SaveEdit(c, p) ==
  /\ Live(c) /\ copies[c].draft.type = "edit"
  /\ copies' = [copies EXCEPT ![c].payload = p]
  /\ UNCHANGED <<entries, versions, tokens>>

\* PATCH /working-copies/{id}: an omitted baseRevision is stored as 0
PatchCopy(c, p, base) ==
  /\ Live(c) /\ base \in {0, copies[c].given}
  /\ copies' = [copies EXCEPT ![c].payload = p, ![c].base = base]
  /\ UNCHANGED <<entries, versions, tokens>>

\* DELETE /working-copies/{id}
DeleteCopy(c) ==
  /\ Live(c)
  /\ copies' = [copies EXCEPT ![c] = Dropped(c)]
  /\ UNCHANGED <<entries, versions, tokens>>

-----------------------------------------------------------------------------
(* Opening and discarding an edit *)

\* POST /entries/{id}/edit; with a row to resume it changes nothing
OpenEdit(e) ==
  /\ Exists(e) /\ CopiesOf(e) = {}
  /\ \E c \in Copies :
       /\ Free(c)
       /\ copies' = [copies EXCEPT ![c] = EditCopy(e, c)]
  /\ UNCHANGED <<entries, versions, tokens>>

\* mutant: only the unattached rows
DiscardsUnattached(e) ==
  {c \in Copies : /\ Live(c) /\ copies[c].entry = None
                  /\ copies[c].draft.type = "edit"
                  /\ copies[c].draft.entry = e}

\* rows discard deletes: the entry's, and unattached ones with its edit- prefix
Discarded(e) ==
  CopiesOf(e) \cup {c \in Copies : /\ Live(c) /\ copies[c].entry = None
                                   /\ copies[c].draft.type = "edit"
                                   /\ copies[c].draft.entry = e}

\* POST /entries/{id}/edit?discard=1
DiscardEdit(e) ==
  /\ Exists(e)
  /\ \E c \in Copies :
       /\ Free(c)
       /\ copies' = [k \in Copies |-> IF k = c THEN EditCopy(e, c)
                                      ELSE IF k \in Discarded(e) THEN Dropped(k)
                                      ELSE copies[k]]
  /\ UNCHANGED <<entries, versions, tokens>>

-----------------------------------------------------------------------------
(* Committing a working copy *)

\* the request overlays the stored payload; omitted fields inherit it
Overlays(c) == Requests \cup {copies[c].payload}

\* mutant: the oldest versions are kept
SnapshotKeepsOldest(e, p) ==
  IF p.kind # "article" \/ Len(versions[e]) = KeptVersions THEN versions[e]
  ELSE Append(versions[e], p.text)

\* append a snapshot of an article and keep the newest KeptVersions; the
\* version numbers are left out, the newest row is never pruned
Snapshot(e, p) ==
  IF p.kind # "article" THEN versions[e]
  ELSE IF Len(versions[e]) < KeptVersions THEN Append(versions[e], p.text)
  ELSE Append(Tail(versions[e]), p.text)

\* only a published note can be undone
Undoable(p) == p.kind = "note" /\ p.status \in Shown

\* POST /working-copies/{id}/commit of a copy without an entry
CommitNew(c, e, p) ==
  /\ Live(c) /\ copies[c].entry = None /\ copies[c].draft.type # "edit"
  /\ entries[e].status = "unborn" /\ p \in Overlays(c)
  /\ entries' = [entries EXCEPT ![e] =
       [Unborn EXCEPT !.status = p.status, !.kind = p.kind, !.text = p.text,
                      !.revision = 1, !.origin = copies[c].draft]]
  /\ versions' = [versions EXCEPT ![e] = Snapshot(e, p)]
  /\ tokens' = IF Undoable(p)
               THEN tokens \cup {[entry |-> e, rev |-> 1, fresh |-> TRUE,
                                  prev |-> "draft", payload |-> copies[c].payload]}
               ELSE tokens
  /\ copies' = [copies EXCEPT ![c] = Dropped(c)]

\* mutant: the row's base revision is forgotten
ExpectedFromRequest(c, base) == base

\* mutant: nothing is compared
ExpectedAnything(c, base) == 0

\* the revision the save is checked against: the request's, else the row's;
\* 0 stands for "do not check"
Expected(c, base) == IF base > 0 THEN base ELSE copies[c].base

\* ... and of a copy of an entry; base is the request's baseRevision
CommitEdit(c, p, base) ==
  LET e == copies[c].entry IN
  /\ Live(c) /\ e # None /\ Exists(e)
  /\ copies[c].draft.type = "edit" => copies[c].draft.entry = e
  /\ base \in {0, copies[c].given} /\ p \in Overlays(c)
  /\ Expected(c, base) \in {0, entries[e].revision}
  /\ entries[e].revision < MaxRevision
  /\ entries' = [entries EXCEPT ![e].status = p.status, ![e].kind = p.kind,
                                ![e].text = p.text, ![e].revision = @ + 1]
  /\ versions' = [versions EXCEPT ![e] = Snapshot(e, p)]
  /\ tokens' = IF Undoable(p)
               THEN tokens \cup {[entry |-> e, rev |-> entries[e].revision + 1,
                                  fresh |-> FALSE, prev |-> entries[e].status,
                                  payload |-> copies[c].payload]}
               ELSE tokens
  /\ copies' = [copies EXCEPT ![c] = Dropped(c)]

-----------------------------------------------------------------------------
(* Versions, trash and undo *)

\* mutant: restoring is no new revision
RestoreVersionInPlace(e, n) ==
  /\ Exists(e) /\ n \in DOMAIN versions[e]
  /\ entries' = [entries EXCEPT ![e].text = versions[e][n]]
  /\ UNCHANGED <<copies, versions, tokens>>

\* POST /entries/{id}/versions/{n}/restore; slugs are not modelled
RestoreVersion(e, n) ==
  /\ Exists(e) /\ n \in DOMAIN versions[e] /\ entries[e].revision < MaxRevision
  /\ entries' = [entries EXCEPT ![e].text = versions[e][n], ![e].revision = @ + 1]
  /\ UNCHANGED <<copies, versions, tokens>>

\* DELETE /entries/{id}
TrashEntry(e) ==
  /\ Exists(e) /\ entries[e].status # "trashed"
  /\ entries' = [entries EXCEPT ![e].prev = entries[e].status,
                                ![e].status = "trashed", ![e].deleted = "recent"]
  /\ UNCHANGED <<copies, versions, tokens>>

\* COALESCE(previous_status, 'draft')
RestoredStatus(e) == IF entries[e].prev = None THEN "draft" ELSE entries[e].prev

\* POST /entries/{id}/restore
RestoreEntry(e) ==
  /\ entries[e].status = "trashed"
  /\ entries' = [entries EXCEPT
       ![e].status = RestoredStatus(e), ![e].prev = None, ![e].deleted = "no"]
  /\ UNCHANGED <<copies, versions, tokens>>

\* thirty days pass; an undo token from before the entry was trashed expired
RetentionExpires(e) ==
  /\ Exists(e) /\ entries[e].deleted = "recent"
  /\ \A t \in tokens : t.entry = e => t.prev = "trashed"
  /\ entries' = [entries EXCEPT ![e].deleted = "expired"]
  /\ UNCHANGED <<copies, versions, tokens>>

\* mutant: no foreign key
AnyEntry(e) == e \in Entries

\* the foreign key of entry_working_copies
Unreferenced(e) == CopiesOf(e) = {}

\* DELETE FROM entries: versions and undo tokens go with the row
Erase(e) ==
  /\ Unreferenced(e)
  /\ entries' = [entries EXCEPT ![e] = [Unborn EXCEPT !.status = "gone"]]
  /\ versions' = [versions EXCEPT ![e] = <<>>]
  /\ tokens' = {t \in tokens : t.entry # e}
  /\ UNCHANGED copies

\* mutant: deleted_at alone decides
PurgeOutsideTrash(e) ==
  /\ Exists(e) /\ entries[e].deleted = "expired"
  /\ Erase(e)

\* POST /entries/{id}/purge, and the worker's sweep of the trash
PurgeEntry(e) ==
  /\ entries[e].status = "trashed" /\ entries[e].deleted = "expired"
  /\ Erase(e)

\* POST /undo/{token} for the save that created the entry
UndoCreate(t) ==
  /\ t \in tokens /\ t.fresh
  /\ Erase(t.entry)

\* ON CONFLICT (client_draft_id) updates payload and base, not entry_id
UndoCopy(t, c) ==
  LET d == UndoDraft(t.entry) IN
  IF Rows(d) # {}
  THEN c \in Rows(d) /\ copies' = [copies EXCEPT ![c].payload = t.payload, ![c].base = 0]
  ELSE /\ Free(c)
       /\ copies' = [copies EXCEPT ![c] =
            [Unused EXCEPT !.state = "live", !.draft = d, !.entry = t.entry,
                           !.seen = entries[t.entry].text, !.payload = t.payload]]

\* ... and for a save of an existing entry: the draft comes back, the old
\* status is put back, the text and the revision stay
UndoEdit(t) ==
  /\ t \in tokens /\ ~t.fresh
  /\ \E c \in Copies : UndoCopy(t, c)
  /\ entries' = [entries EXCEPT ![t.entry].status = t.prev]
  /\ tokens' = tokens \ {t}
  /\ UNCHANGED versions

\* fifteen seconds pass
TokenExpires(t) ==
  /\ t \in tokens
  /\ tokens' = tokens \ {t}
  /\ UNCHANGED <<entries, copies, versions>>

-----------------------------------------------------------------------------
Next ==
  \/ \E d \in Drafts, p \in Requests : SaveDraft(NewDraft(d), p)
  \/ \E e \in Entries, p \in Requests : SaveDraft(UndoDraft(e), p)
  \/ \E c \in Copies, p \in Requests : SaveEdit(c, p)
  \/ \E c \in Copies, p \in Requests, base \in 0..MaxRevision : PatchCopy(c, p, base)
  \/ \E c \in Copies : DeleteCopy(c)
  \/ \E e \in Entries : OpenEdit(e)
  \/ \E e \in Entries : DiscardEdit(e)
  \/ \E c \in Copies, e \in Entries, p \in Payload : CommitNew(c, e, p)
  \/ \E c \in Copies, p \in Payload, base \in 0..MaxRevision : CommitEdit(c, p, base)
  \/ \E e \in Entries : \E n \in DOMAIN versions[e] : RestoreVersion(e, n)
  \/ \E e \in Entries : TrashEntry(e)
  \/ \E e \in Entries : RestoreEntry(e)
  \/ \E e \in Entries : RetentionExpires(e)
  \/ \E e \in Entries : PurgeEntry(e)
  \/ \E t \in tokens : UndoCreate(t)
  \/ \E t \in tokens : UndoEdit(t)
  \/ \E t \in tokens : TokenExpires(t)

Spec == Init /\ [][Next]_vars

-----------------------------------------------------------------------------
(* Properties *)

\* The four tables hold what their columns and foreign keys allow: every entry
\* has a text, every draft a payload, and the entries that drafts and undo
\* tokens reference exist.
TypeOK ==
  /\ entries \in [Entries -> EntryRow]
  /\ \A e \in Entries : Exists(e) => entries[e].text \in Texts
  /\ copies \in [Copies -> CopyRow]
  /\ \A c \in Copies : Live(c) => copies[c].payload \in Payload
  /\ versions \in [Entries -> Seq(Texts)]
  /\ tokens \subseteq Token
  /\ \A c \in Copies : Live(c) /\ copies[c].entry # None => Exists(copies[c].entry)
  /\ \A t \in tokens : Exists(t.entry)

\* A copy that carries a base revision identifies the text it was opened on:
\* while the entry is at that revision, its text is the one the editor saw.
\* This is what makes the revision check of commit a check of the text: undo,
\* trash and restore may not change a text without a new revision.
BaseIdentifiesText ==
  \A c \in Copies : Live(c) /\ copies[c].base > 0 =>
    LET e == copies[c].entry IN
    /\ e \in Entries /\ Exists(e)
    /\ copies[c].base <= entries[e].revision
    /\ copies[c].base = entries[e].revision => entries[e].text = copies[c].seen

\* The tables are well formed, and an edit generation belongs to an existing
\* entry, the one its draft id names (commit refuses any other; a deleted entry
\* would leave an orphan draft).
EditsHaveTheirEntry ==
  TypeOK /\ \A c \in Copies : Live(c) /\ copies[c].draft.type = "edit" =>
    /\ copies[c].entry = copies[c].draft.entry
    /\ copies[c].entry \in Entries /\ Exists(copies[c].entry)

\* An entry has one edit generation at a time, although no unique index says
\* so, and one row per client draft id.
OneEditPerEntry ==
  \A c, k \in Copies : Live(c) /\ Live(k) /\ c # k =>
    /\ copies[c].draft # copies[k].draft
    /\ copies[c].draft.type = "edit" /\ copies[k].draft.type = "edit" =>
         copies[c].entry # copies[k].entry

\* The text of an article is always among its kept versions, also after a
\* restored version and with the oldest snapshots pruned: no formal text of an
\* article exists without a snapshot to come back to.
ArticleTextIsKept ==
  \A e \in Entries : Exists(e) /\ entries[e].kind = "article" =>
    \E n \in DOMAIN versions[e] : versions[e][n] = entries[e].text

\* the save of copy c onto its entry
Saves(c) ==
  LET e == copies[c].entry IN
  /\ Live(c) /\ ~Live(c)'
  /\ e \in Entries /\ entries'[e].revision = entries[e].revision + 1

\* A commit of a copy with a base revision replaces exactly the text its
\* editor was shown: nothing saved or restored in between is overwritten.
NoLostUpdate ==
  [][\A c \in Copies : Saves(c) /\ copies[c].base > 0 =>
       entries[copies[c].entry].text = copies[c].seen]_vars

\* Once a generation was committed, discarded or deleted, no late autosave
\* brings it back.
RetiredEditsStayRetired ==
  [][\A e \in Entries, c \in Copies :
       copies[c].state = "dropped" => Rows(EditDraft(e, c))' = {}]_vars

\* Requests with one idempotency key, the client draft id, make one entry.
OneEntryPerDraft ==
  \A d, e \in Entries : Exists(d) /\ Exists(e) /\ d # e =>
    entries[d].origin # entries[e].origin

\* A commit never overwrites a text its editor was not shown, whichever copy
\* it commits.
NoSilentOverwrite ==
  [][\A c \in Copies : Saves(c) =>
       entries[copies[c].entry].text = copies[c].seen]_vars

-----------------------------------------------------------------------------
(* The promise *)

\* an entry is a status and a text
Formal == [e \in Entries |->
  IF Exists(e) THEN [status |-> entries[e].status, text |-> entries[e].text] ELSE None]

\* a draft of an entry is a ticket, checked when it has a base revision
OpenEdits == [c \in Copies |->
  IF Live(c) /\ copies[c].entry # None
  THEN [entry |-> copies[c].entry, seen |-> copies[c].seen, checked |-> copies[c].base > 0]
  ELSE None]

Revocable == {t.entry : t \in {u \in tokens : u.fresh}}

Promise == INSTANCE FormalEntries WITH
  Tickets <- Copies, formal <- Formal, tickets <- OpenEdits, revocable <- Revocable

\* Editors get what FormalEntries promises: a checked save replaces the text
\* its editor saw, status changes keep the text, and an entry never vanishes
\* under an open edit, nor outside the trash unless its creation is undone.
KeepsPromise == Promise!Spec
=============================================================================

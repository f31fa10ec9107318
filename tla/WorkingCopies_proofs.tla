------------------------ MODULE WorkingCopies_proofs -------------------------
(***************************************************************************)
(* Proofs about WorkingCopies, for every set of entries, copies, texts and *)
(* requests and every bound.                                               *)
(***************************************************************************)
EXTENDS WorkingCopies, TLAPS

-----------------------------------------------------------------------------
(* Type correctness *)

\* The rows the actions write are rows of their tables.
LEMMA RowTypes ==
  /\ Unborn \in EntryRow
  /\ Unused \in CopyRow
  /\ \A d \in Drafts : NewDraft(d) \in DraftId
  /\ \A e \in Entries : UndoDraft(e) \in DraftId
  /\ \A e \in Entries, c \in Copies : EditDraft(e, c) \in DraftId
  BY ConstantsAssumption
  DEF Unborn, Unused, EntryRow, CopyRow, NewDraft, UndoDraft, EditDraft, NoDraft,
      DraftId, Kinds

\* An edit copy of an existing entry is a row of entry_working_copies.
LEMMA EditCopyType ==
  ASSUME TypeOK, NEW e \in Entries, NEW c \in Copies, Exists(e)
  PROVE  EditCopy(e, c) \in CopyRow /\ EditCopy(e, c).payload \in Payload
  BY RowTypes, ConstantsAssumption
  DEF TypeOK, EditCopy, CopyRow, EntryRow, FormalPayload, Payload, Exists

\* A retired row is still a row.
LEMMA DroppedType ==
  ASSUME TypeOK, NEW c \in Copies
  PROVE  Dropped(c) \in CopyRow /\ Dropped(c).state = "dropped"
  BY RowTypes DEF TypeOK, Dropped, CopyRow, Unused

\* Saving an article keeps its history a sequence of texts.
LEMMA SnapshotType ==
  ASSUME TypeOK, NEW e \in Entries, NEW p \in Payload
  PROVE  Snapshot(e, p) \in Seq(Texts)
  <1>1. versions[e] \in Seq(Texts) /\ p.text \in Texts
    BY DEF TypeOK, Payload
  <1>2. Len(versions[e]) < KeptVersions \/ versions[e] # <<>>
    BY <1>1, ConstantsAssumption
  <1> QED
    BY <1>1, <1>2, ConstantsAssumption DEF Snapshot

\* The parts of TypeOK, by table.
EntriesOK == /\ entries \in [Entries -> EntryRow]
             /\ \A e \in Entries : Exists(e) => entries[e].text \in Texts
CopiesOK  == /\ copies \in [Copies -> CopyRow]
             /\ \A c \in Copies : Live(c) => copies[c].payload \in Payload

\* Writing one row that is well formed keeps the table of working copies so.
LEMMA WriteCopy ==
  ASSUME CopiesOK, NEW c \in Copies, NEW row \in CopyRow,
         row.state = "live" => row.payload \in Payload,
         copies' = [copies EXCEPT ![c] = row]
  PROVE  CopiesOK'
  BY DEF CopiesOK, Live

\* Storing a payload and a base revision keeps a row well formed.
LEMMA StorePayload ==
  ASSUME CopiesOK, NEW c \in Copies, NEW p \in Payload, NEW base \in 0..MaxRevision,
         copies' = [copies EXCEPT ![c].payload = p, ![c].base = base]
  PROVE  CopiesOK'
  <1>1. [copies[c] EXCEPT !.payload = p, !.base = base] \in CopyRow
    BY DEF CopiesOK, CopyRow
  <1>2. [copies[c] EXCEPT !.payload = p, !.base = base].payload = p
    BY DEF CopiesOK, CopyRow
  <1>3. copies' = [copies EXCEPT ![c] = [copies[c] EXCEPT !.payload = p, !.base = base]]
    BY DEF CopiesOK, CopyRow
  <1> QED
    BY <1>1, <1>2, <1>3, WriteCopy

\* Every step keeps the table of working copies well formed.
LEMMA CopiesStep == TypeOK /\ Next => CopiesOK'
  <1> SUFFICES ASSUME TypeOK, Next PROVE CopiesOK'
    OBVIOUS
  <1> USE ConstantsAssumption
  <1>0. CopiesOK
    BY DEF TypeOK, CopiesOK
  <1>1. ASSUME NEW d \in DraftId, NEW p \in Requests, SaveDraft(d, p)
        PROVE  CopiesOK'
    <2>1. CASE \E c \in Rows(d) : copies' = [copies EXCEPT ![c].payload = p]
      <3>1. PICK c \in Copies : Live(c) /\ copies' = [copies EXCEPT ![c].payload = p]
        BY <2>1 DEF Rows
      <3> QED
        BY <1>0, <3>1 DEF CopiesOK, Live, CopyRow
    <2>2. CASE \E c \in Copies : copies' = [copies EXCEPT ![c] =
                 [Unused EXCEPT !.state = "live", !.draft = d, !.payload = p]]
      <3>1. [Unused EXCEPT !.state = "live", !.draft = d, !.payload = p] \in CopyRow
        BY RowTypes DEF CopyRow
      <3>2. [Unused EXCEPT !.state = "live", !.draft = d, !.payload = p].payload = p
        BY RowTypes DEF CopyRow
      <3> QED
        BY <1>0, <2>2, <3>1, <3>2 DEF CopiesOK, Live
    <2> QED
      BY <1>1, <2>1, <2>2 DEF SaveDraft
  <1>2. ASSUME NEW c \in Copies, NEW p \in Requests, SaveEdit(c, p)
        PROVE  CopiesOK'
    BY <1>0, <1>2 DEF SaveEdit, CopiesOK, Live, CopyRow
  <1>3. ASSUME NEW c \in Copies, NEW p \in Requests, NEW base \in 0..MaxRevision,
               PatchCopy(c, p, base)
        PROVE  CopiesOK'
    BY <1>0, <1>3, StorePayload DEF PatchCopy
  <1>4. ASSUME NEW c \in Copies, copies' = [copies EXCEPT ![c] = Dropped(c)]
        PROVE  CopiesOK'
    BY <1>0, <1>4, DroppedType, RowTypes DEF CopiesOK, Live, Dropped, CopyRow, Unused
  <1>5. ASSUME NEW e \in Entries, OpenEdit(e)
        PROVE  CopiesOK'
    <2>1. PICK c \in Copies : copies' = [copies EXCEPT ![c] = EditCopy(e, c)]
      BY <1>5 DEF OpenEdit
    <2>2. EditCopy(e, c) \in CopyRow /\ EditCopy(e, c).payload \in Payload
      BY <1>5, EditCopyType DEF OpenEdit
    <2> QED
      BY <1>0, <2>1, <2>2, WriteCopy
  <1>6. ASSUME NEW e \in Entries, DiscardEdit(e)
        PROVE  CopiesOK'
    <2>1. PICK c \in Copies :
            copies' = [k \in Copies |-> IF k = c THEN EditCopy(e, c)
                                        ELSE IF k \in Discarded(e) THEN Dropped(k)
                                        ELSE copies[k]]
      BY <1>6 DEF DiscardEdit
    <2>2. EditCopy(e, c) \in CopyRow /\ EditCopy(e, c).payload \in Payload
      BY <1>6, EditCopyType DEF DiscardEdit
    <2> QED
      BY <1>0, <2>1, <2>2, DroppedType DEF CopiesOK, Live
  <1>7. ASSUME NEW t \in tokens, UndoEdit(t)
        PROVE  CopiesOK'
    <2> DEFINE row == [Unused EXCEPT !.state = "live", !.draft = UndoDraft(t.entry),
                                     !.entry = t.entry, !.seen = entries[t.entry].text,
                                     !.payload = t.payload]
    <2>1. t.entry \in Entries /\ t.payload \in Payload
      BY DEF TypeOK, Token
    <2>2. row \in CopyRow /\ row.payload = t.payload
      BY <2>1, RowTypes DEF TypeOK, CopyRow, EntryRow
    <2>3. PICK c \in Copies : UndoCopy(t, c)
      BY <1>7 DEF UndoEdit
    <2>4. CASE copies' = [copies EXCEPT ![c].payload = t.payload, ![c].base = 0]
      <3>1. 0 \in 0..MaxRevision
        OBVIOUS
      <3> QED
        BY ONLY <1>0, <2>1, <2>3, <2>4, <3>1, StorePayload
    <2>5. CASE copies' = [copies EXCEPT ![c] = row]
      BY <1>0, <2>1, <2>2, <2>5, WriteCopy
    <2> QED
      BY <2>3, <2>4, <2>5 DEF UndoCopy
  <1>8. ASSUME UNCHANGED copies
        PROVE  CopiesOK'
    BY <1>0, <1>8 DEF CopiesOK, Live
  <1>9. \/ \E d \in DraftId, p \in Requests : SaveDraft(d, p)
        \/ \E c \in Copies, p \in Requests : SaveEdit(c, p)
        \/ \E c \in Copies, p \in Requests, base \in 0..MaxRevision : PatchCopy(c, p, base)
        \/ \E c \in Copies : copies' = [copies EXCEPT ![c] = Dropped(c)]
        \/ \E e \in Entries : OpenEdit(e) \/ DiscardEdit(e)
        \/ \E t \in tokens : UndoEdit(t)
        \/ UNCHANGED copies
    <2>1. (\E d \in Drafts, p \in Requests : SaveDraft(NewDraft(d), p))
            => \E d \in DraftId, p \in Requests : SaveDraft(d, p)
      BY RowTypes
    <2>2. (\E e \in Entries, p \in Requests : SaveDraft(UndoDraft(e), p))
            => \E d \in DraftId, p \in Requests : SaveDraft(d, p)
      BY RowTypes
    <2>3. ASSUME NEW c \in Copies,
                 \/ DeleteCopy(c)
                 \/ \E e \in Entries, p \in Payload : CommitNew(c, e, p)
                 \/ \E p \in Payload, base \in 0..MaxRevision : CommitEdit(c, p, base)
          PROVE  copies' = [copies EXCEPT ![c] = Dropped(c)]
      BY <2>3 DEF DeleteCopy, CommitNew, CommitEdit
    <2>4. ASSUME NEW e \in Entries,
                 \/ \E n \in DOMAIN versions[e] : RestoreVersion(e, n)
                 \/ TrashEntry(e) \/ RestoreEntry(e) \/ RetentionExpires(e) \/ PurgeEntry(e)
          PROVE  UNCHANGED copies
      BY <2>4 DEF RestoreVersion, TrashEntry, RestoreEntry, RetentionExpires, PurgeEntry, Erase
    <2>5. ASSUME NEW t \in tokens, UndoCreate(t) \/ TokenExpires(t)
          PROVE  UNCHANGED copies
      BY <2>5 DEF UndoCreate, Erase, TokenExpires
    <2> QED
      BY <2>1, <2>2, <2>3, <2>4, <2>5, Zenon DEF Next
  <1> QED
    BY <1>1, <1>2, <1>3, <1>4, <1>5, <1>6, <1>7, <1>8, <1>9

\* Writing one row that is well formed keeps the table of entries so.
LEMMA WriteEntry ==
  ASSUME EntriesOK, NEW e \in Entries, NEW row \in EntryRow,
         row.status \notin {"unborn", "gone"} => row.text \in Texts,
         entries' = [entries EXCEPT ![e] = row]
  PROVE  EntriesOK'
  BY DEF EntriesOK, Exists

\* Every step keeps the table of entries well formed.
LEMMA EntriesStep == TypeOK /\ Next => EntriesOK'
  <1> SUFFICES ASSUME TypeOK, Next PROVE EntriesOK'
    OBVIOUS
  <1> USE ConstantsAssumption
  <1>0. EntriesOK
    BY DEF TypeOK, EntriesOK
  <1>1. ASSUME NEW c \in Copies, NEW e \in Entries, NEW p \in Payload, CommitNew(c, e, p)
        PROVE  EntriesOK'
    <2> DEFINE row == [Unborn EXCEPT !.status = p.status, !.kind = p.kind, !.text = p.text,
                                     !.revision = 1, !.origin = copies[c].draft]
    <2>1. /\ p.status \in Statuses /\ p.kind \in Kinds /\ p.text \in Texts
          /\ copies[c].draft \in DraftId
          /\ 1 \in 0..MaxRevision
      BY DEF Payload, TypeOK, CopyRow
    <2>2. Unborn \in EntryRow
      BY RowTypes
    <2>3. row \in EntryRow /\ row.text = p.text
      BY <2>1, <2>2 DEF EntryRow
    <2>4. entries' = [entries EXCEPT ![e] = row]
      BY <1>1 DEF CommitNew
    <2> QED
      BY <1>0, <2>1, <2>3, <2>4, WriteEntry
  <1>2. ASSUME NEW c \in Copies, NEW p \in Payload, NEW base \in 0..MaxRevision,
               CommitEdit(c, p, base)
        PROVE  EntriesOK'
    <2> DEFINE e == copies[c].entry
    <2> DEFINE row == [entries[e] EXCEPT !.status = p.status, !.kind = p.kind,
                                         !.text = p.text, !.revision = @ + 1]
    <2>1. /\ e \in Entries
          /\ p.status \in Statuses /\ p.kind \in Kinds /\ p.text \in Texts
          /\ entries[e] \in EntryRow /\ entries[e].revision + 1 \in 0..MaxRevision
      BY <1>2 DEF CommitEdit, Payload, TypeOK, CopyRow, EntryRow
    <2>2. row \in EntryRow /\ row.text = p.text
      BY <2>1 DEF EntryRow
    <2>3. entries' = [entries EXCEPT ![e] = row]
      BY <1>2, <2>1 DEF CommitEdit, TypeOK, EntryRow
    <2> QED
      BY <1>0, <2>1, <2>2, <2>3, WriteEntry
  <1>3. ASSUME NEW e \in Entries, NEW n \in DOMAIN versions[e], RestoreVersion(e, n)
        PROVE  EntriesOK'
    <2>1. /\ versions[e][n] \in Texts
          /\ entries[e] \in EntryRow /\ entries[e].revision + 1 \in 0..MaxRevision
      BY <1>3 DEF RestoreVersion, TypeOK, EntryRow
    <2>2. [entries[e] EXCEPT !.text = versions[e][n], !.revision = @ + 1] \in EntryRow
      BY <2>1 DEF EntryRow
    <2>3. entries' = [entries EXCEPT ![e] =
                        [entries[e] EXCEPT !.text = versions[e][n], !.revision = @ + 1]]
      BY <1>3, <2>1 DEF RestoreVersion, TypeOK, EntryRow
    <2>4. [entries[e] EXCEPT !.text = versions[e][n], !.revision = @ + 1].text \in Texts
      BY <2>1 DEF EntryRow
    <2> QED
      BY <1>0, <2>2, <2>3, <2>4, WriteEntry
  <1>4. ASSUME NEW e \in Entries, TrashEntry(e) \/ RestoreEntry(e) \/ RetentionExpires(e)
        PROVE  EntriesOK'
    <2>1. CASE TrashEntry(e)
      BY <1>0, <2>1 DEF TrashEntry, EntriesOK, Exists, EntryRow, Statuses
    <2>2. CASE RestoreEntry(e)
      <3> DEFINE row == [entries[e] EXCEPT !.status = RestoredStatus(e), !.prev = None,
                                           !.deleted = "no"]
      <3>1. RestoredStatus(e) \in Statuses
        BY <1>0 DEF RestoredStatus, EntriesOK, EntryRow, Statuses
      <3>2. row \in EntryRow /\ row.text = entries[e].text
        BY <1>0, <3>1 DEF EntriesOK, EntryRow
      <3>3. entries' = [entries EXCEPT ![e] = row]
        BY <1>0, <2>2 DEF RestoreEntry, EntriesOK, EntryRow
      <3>4. row.text \in Texts
        BY <1>0, <2>2, <3>2 DEF RestoreEntry, EntriesOK, Exists
      <3> QED
        BY <1>0, <3>2, <3>3, <3>4, WriteEntry
    <2>3. CASE RetentionExpires(e)
      BY <1>0, <2>3 DEF RetentionExpires, EntriesOK, Exists, EntryRow
    <2> QED
      BY <1>4, <2>1, <2>2, <2>3
  <1>5. ASSUME NEW e \in Entries, Erase(e)
        PROVE  EntriesOK'
    <2>1. /\ [Unborn EXCEPT !.status = "gone"] \in EntryRow
          /\ [Unborn EXCEPT !.status = "gone"].status = "gone"
      BY RowTypes DEF EntryRow
    <2> QED
      BY <1>0, <1>5, <2>1, WriteEntry DEF Erase
  <1>6. ASSUME NEW t \in tokens, UndoEdit(t)
        PROVE  EntriesOK'
    <2>1. t.entry \in Entries /\ t.prev \in Statuses /\ entries[t.entry].text \in Texts
      BY DEF TypeOK, Token
    <2>2. [entries[t.entry] EXCEPT !.status = t.prev] \in EntryRow
      BY <1>0, <2>1 DEF EntriesOK, EntryRow
    <2> QED
      BY <1>0, <1>6, <2>1, <2>2, WriteEntry DEF UndoEdit, EntriesOK, EntryRow
  <1>7. ASSUME UNCHANGED entries
        PROVE  EntriesOK'
    BY <1>0, <1>7 DEF EntriesOK, Exists
  <1>8. \/ \E c \in Copies, e \in Entries, p \in Payload : CommitNew(c, e, p)
        \/ \E c \in Copies, p \in Payload, base \in 0..MaxRevision : CommitEdit(c, p, base)
        \/ \E e \in Entries : \E n \in DOMAIN versions[e] : RestoreVersion(e, n)
        \/ \E e \in Entries : TrashEntry(e) \/ RestoreEntry(e) \/ RetentionExpires(e)
        \/ \E e \in Entries : Erase(e)
        \/ \E t \in tokens : UndoEdit(t)
        \/ UNCHANGED entries
    <2>1. ASSUME NEW d, NEW p, SaveDraft(d, p)
          PROVE  UNCHANGED entries
      BY <2>1 DEF SaveDraft
    <2>2. ASSUME NEW c \in Copies,
                 \/ \E p \in Requests : SaveEdit(c, p)
                 \/ \E p \in Requests, base \in 0..MaxRevision : PatchCopy(c, p, base)
                 \/ DeleteCopy(c)
          PROVE  UNCHANGED entries
      BY <2>2 DEF SaveEdit, PatchCopy, DeleteCopy
    <2>3. ASSUME NEW e \in Entries, OpenEdit(e) \/ DiscardEdit(e)
          PROVE  UNCHANGED entries
      BY <2>3 DEF OpenEdit, DiscardEdit
    <2>4. ASSUME NEW e \in Entries, PurgeEntry(e)
          PROVE  Erase(e)
      BY <2>4 DEF PurgeEntry
    <2>5. ASSUME NEW t \in tokens, UndoCreate(t)
          PROVE  Erase(t.entry) /\ t.entry \in Entries
      BY <2>5 DEF UndoCreate, TypeOK, Token
    <2>6. ASSUME NEW t \in tokens, TokenExpires(t)
          PROVE  UNCHANGED entries
      BY <2>6 DEF TokenExpires
    <2> QED
      BY <2>1, <2>2, <2>3, <2>4, <2>5, <2>6, Zenon DEF Next
  <1> QED
    BY <1>1, <1>2, <1>3, <1>4, <1>5, <1>6, <1>7, <1>8

\* Every step keeps the histories sequences of texts and the undo tokens well
\* formed.
LEMMA HistoryStep ==
  TypeOK /\ Next => versions' \in [Entries -> Seq(Texts)] /\ tokens' \subseteq Token
  <1> DEFINE Typed == versions \in [Entries -> Seq(Texts)] /\ tokens \subseteq Token
  <1> SUFFICES ASSUME TypeOK, Next PROVE Typed'
    OBVIOUS
  <1> USE ConstantsAssumption
  <1>0. Typed
    BY DEF TypeOK
  <1>1. ASSUME NEW e \in Entries, NEW p \in Payload,
               versions' = [versions EXCEPT ![e] = Snapshot(e, p)]
        PROVE  versions' \in [Entries -> Seq(Texts)]
    BY <1>0, <1>1, SnapshotType
  <1>2. ASSUME NEW c \in Copies, NEW e \in Entries, NEW p \in Payload, CommitNew(c, e, p)
        PROVE  Typed'
    <2>1. [entry |-> e, rev |-> 1, fresh |-> TRUE, prev |-> "draft",
           payload |-> copies[c].payload] \in Token
      BY <1>2 DEF CommitNew, TypeOK, Token, Statuses
    <2> QED
      BY <1>0, <1>1, <1>2, <2>1 DEF CommitNew
  <1>3. ASSUME NEW c \in Copies, NEW p \in Payload, NEW base \in 0..MaxRevision,
               CommitEdit(c, p, base)
        PROVE  Typed'
    <2> DEFINE e == copies[c].entry
    <2>1. /\ e \in Entries /\ Live(c) /\ Exists(e)
          /\ entries[e] \in EntryRow /\ entries[e].revision < MaxRevision
      BY <1>3 DEF CommitEdit, TypeOK, CopyRow
    <2>2. entries[e].revision + 1 \in 0..MaxRevision /\ entries[e].status \in Statuses
      BY <2>1 DEF EntryRow, Exists
    <2>3. [entry |-> e, rev |-> entries[e].revision + 1, fresh |-> FALSE,
           prev |-> entries[e].status, payload |-> copies[c].payload] \in Token
      BY <2>1, <2>2 DEF TypeOK, Token
    <2> QED
      BY <1>0, <1>1, <1>3, <2>1, <2>3 DEF CommitEdit
  <1>4. ASSUME NEW e \in Entries, Erase(e)
        PROVE  Typed'
    BY <1>0, <1>4 DEF Erase
  <1>5. ASSUME UNCHANGED versions, tokens' \subseteq tokens
        PROVE  Typed'
    BY <1>0, <1>5
  <1>6. \/ \E c \in Copies, e \in Entries, p \in Payload : CommitNew(c, e, p)
        \/ \E c \in Copies, p \in Payload, base \in 0..MaxRevision : CommitEdit(c, p, base)
        \/ \E e \in Entries : Erase(e)
        \/ UNCHANGED versions /\ tokens' \subseteq tokens
    <2>1. ASSUME NEW d, NEW p, SaveDraft(d, p)
          PROVE  UNCHANGED <<versions, tokens>>
      BY <2>1 DEF SaveDraft
    <2>2. ASSUME NEW c \in Copies,
                 \/ \E p \in Requests : SaveEdit(c, p)
                 \/ \E p \in Requests, base \in 0..MaxRevision : PatchCopy(c, p, base)
                 \/ DeleteCopy(c)
          PROVE  UNCHANGED <<versions, tokens>>
      BY <2>2 DEF SaveEdit, PatchCopy, DeleteCopy
    <2>3. ASSUME NEW e \in Entries,
                 \/ OpenEdit(e) \/ DiscardEdit(e)
                 \/ \E n \in DOMAIN versions[e] : RestoreVersion(e, n)
                 \/ TrashEntry(e) \/ RestoreEntry(e) \/ RetentionExpires(e)
          PROVE  UNCHANGED <<versions, tokens>>
      BY <2>3 DEF OpenEdit, DiscardEdit, RestoreVersion, TrashEntry, RestoreEntry,
                  RetentionExpires
    <2>4. ASSUME NEW e \in Entries, PurgeEntry(e)
          PROVE  Erase(e)
      BY <2>4 DEF PurgeEntry
    <2>5. ASSUME NEW t \in tokens, UndoCreate(t)
          PROVE  Erase(t.entry) /\ t.entry \in Entries
      BY <2>5 DEF UndoCreate, TypeOK, Token
    <2>6. ASSUME NEW t \in tokens, UndoEdit(t) \/ TokenExpires(t)
          PROVE  UNCHANGED versions /\ tokens' \subseteq tokens
      BY <2>6 DEF UndoEdit, TokenExpires
    <2> QED
      BY <2>1, <2>2, <2>3, <2>4, <2>5, <2>6, Zenon DEF Next
  <1> QED
    BY <1>2, <1>3, <1>4, <1>5, <1>6

\* The foreign keys, of the drafts and of the undo tokens.
References ==
  /\ \A c \in Copies : Live(c) /\ copies[c].entry # None => Exists(copies[c].entry)
  /\ \A t \in tokens : Exists(t.entry)

\* An action that keeps the entries and gives no draft another one keeps the
\* foreign keys.
LEMMA KeepEntries ==
  ASSUME TypeOK, UNCHANGED <<entries, tokens>>,
         \A c \in Copies : Live(c)' => \/ copies'[c].entry = None
                                       \/ Exists(copies'[c].entry)
  PROVE  References'
  BY DEF TypeOK, References, Exists

\* An action that only rewrites existing entries keeps the foreign keys.
LEMMA KeepReferences ==
  ASSUME TypeOK, UNCHANGED copies, tokens' \subseteq tokens,
         \A e \in Entries : Exists(e) => Exists(e)'
  PROVE  References'
  BY DEF TypeOK, References, Live, CopyRow, Token

\* Every step keeps the foreign keys.
LEMMA ReferencesStep == TypeOK /\ Next => References'
  <1> SUFFICES ASSUME TypeOK, Next PROVE References'
    OBVIOUS
  <1> USE ConstantsAssumption
  <1>0. References
    BY DEF TypeOK, References
  <1>1. ASSUME NEW d \in DraftId, NEW p, SaveDraft(d, p)
        PROVE  References'
    <2> DEFINE row == [Unused EXCEPT !.state = "live", !.draft = d, !.payload = p]
    <2>1. row.entry = None
      BY RowTypes DEF Unused, CopyRow
    <2>2. CASE \E c \in Rows(d) : copies' = [copies EXCEPT ![c].payload = p]
      BY <1>0, <1>1, <2>2, KeepEntries DEF SaveDraft, References, Rows, Live, TypeOK, CopyRow
    <2>3. CASE \E c \in Copies : copies' = [copies EXCEPT ![c] = row]
      <3>1. PICK c \in Copies : copies' = [copies EXCEPT ![c] = row]
        BY <2>3
      <3>2. \A k \in Copies : copies'[k].entry = None \/ copies'[k] = copies[k]
        BY <2>1, <3>1 DEF TypeOK
      <3> QED
        BY <1>0, <1>1, <3>2, KeepEntries DEF SaveDraft, References, Live
    <2> QED
      BY <1>1, <2>2, <2>3 DEF SaveDraft
  <1>2. ASSUME NEW c \in Copies, NEW p \in Requests, SaveEdit(c, p)
        PROVE  References'
    <2>1. \A k \in Copies : copies'[k].entry = copies[k].entry /\ (Live(k)' => Live(k))
      BY <1>2 DEF SaveEdit, Live, TypeOK, CopyRow
    <2> QED
      BY <1>0, <1>2, <2>1, KeepEntries DEF SaveEdit, References
  <1>3. ASSUME NEW c \in Copies, NEW p \in Requests, NEW base \in 0..MaxRevision,
                PatchCopy(c, p, base)
         PROVE  References'
    <2>1. \A k \in Copies : copies'[k].entry = copies[k].entry /\ (Live(k)' => Live(k))
      BY <1>3 DEF PatchCopy, Live, TypeOK, CopyRow
    <2> QED
      BY <1>0, <1>3, <2>1, KeepEntries DEF PatchCopy, References
  <1>4. ASSUME NEW c \in Copies, DeleteCopy(c)
        PROVE  References'
    BY <1>0, <1>4, DroppedType DEF DeleteCopy, References, Live, Exists, TypeOK
  <1>5. ASSUME NEW e \in Entries, OpenEdit(e)
        PROVE  References'
    BY <1>0, <1>5 DEF OpenEdit, EditCopy, References, Live, Exists, TypeOK
  <1>6. ASSUME NEW e \in Entries, DiscardEdit(e)
        PROVE  References'
    BY <1>0, <1>6, DroppedType DEF DiscardEdit, EditCopy, References, Live, Exists, TypeOK
  <1>7. ASSUME NEW c \in Copies, NEW e \in Entries, NEW p \in Payload, CommitNew(c, e, p)
        PROVE  References'
    <2>1. entries' = [entries EXCEPT ![e] =
            [Unborn EXCEPT !.status = p.status, !.kind = p.kind, !.text = p.text,
                           !.revision = 1, !.origin = copies[c].draft]]
      BY <1>7 DEF CommitNew
    <2>2. Exists(e)' /\ \A d \in Entries : Exists(d) => Exists(d)'
      BY <2>1, RowTypes DEF Exists, TypeOK, EntryRow, Payload, Statuses, Shown
    <2>3. \A t \in tokens' : t \in tokens \/ t.entry = e
      BY <1>7 DEF CommitNew
    <2>4. copies' = [copies EXCEPT ![c] = Dropped(c)] /\ Dropped(c).state = "dropped"
      BY <1>7, DroppedType DEF CommitNew
    <2>5. ASSUME NEW d \in Copies, Live(d)', copies'[d].entry # None
          PROVE  Exists(copies[d].entry)'
      <3>1. d # c /\ copies'[d] = copies[d] /\ Live(d)
        BY <2>4, <2>5 DEF Live, TypeOK
      <3>2. copies[d].entry \in Entries
        BY <2>5, <3>1 DEF TypeOK, CopyRow
      <3> QED
        BY <1>0, <2>2, <2>5, <3>1, <3>2 DEF References
    <2>6. \A t \in tokens : t.entry \in Entries
      BY DEF TypeOK, Token
    <2> QED
      BY <1>0, <2>2, <2>3, <2>5, <2>6 DEF References
  <1>8. ASSUME NEW c \in Copies, NEW p \in Payload, NEW base \in 0..MaxRevision,
               CommitEdit(c, p, base)
        PROVE  References'
    <2>1. copies[c].entry \in Entries /\ Exists(copies[c].entry)
      BY <1>8 DEF CommitEdit, TypeOK, CopyRow
    <2>2. \A d \in Entries : Exists(d) => Exists(d)'
      BY <1>8, <2>1 DEF CommitEdit, Exists, TypeOK, EntryRow, Payload, Statuses, Shown
    <2>3. \A t \in tokens' : t \in tokens \/ t.entry = copies[c].entry
      <3> DEFINE new == [entry |-> copies[c].entry,
                         rev |-> entries[copies[c].entry].revision + 1, fresh |-> FALSE,
                         prev |-> entries[copies[c].entry].status,
                         payload |-> copies[c].payload]
      <3>1. tokens' = tokens \cup {new} \/ tokens' = tokens
        BY <1>8 DEF CommitEdit
      <3>2. new.entry = copies[c].entry
        OBVIOUS
      <3> HIDE DEF new
      <3> QED
        BY <3>1, <3>2
    <2> QED
      BY <1>0, <1>8, <2>1, <2>2, <2>3, DroppedType
      DEF CommitEdit, References, Live, TypeOK, Token, CopyRow
  <1>9. ASSUME NEW e \in Entries, NEW n \in DOMAIN versions[e], RestoreVersion(e, n)
        PROVE  References'
    BY <1>9, KeepReferences DEF RestoreVersion, Exists, TypeOK, EntryRow
  <1>10. ASSUME NEW e \in Entries, TrashEntry(e)
        PROVE  References'
    BY <1>10, KeepReferences DEF TrashEntry, Exists, TypeOK, EntryRow
  <1>12. ASSUME NEW e \in Entries, RetentionExpires(e)
         PROVE  References'
    BY <1>12, KeepReferences DEF RetentionExpires, Exists, TypeOK, EntryRow
  <1>11. ASSUME NEW e \in Entries, RestoreEntry(e)
         PROVE  References'
    <2>1. RestoredStatus(e) \in Statuses
      BY DEF RestoredStatus, TypeOK, EntryRow, Statuses
    <2> QED
      BY <1>11, <2>1, KeepReferences
      DEF RestoreEntry, Exists, TypeOK, EntryRow, Statuses, Shown
  <1>13. ASSUME NEW e \in Entries, Erase(e)
         PROVE  References'
    BY <1>0, <1>13
    DEF Erase, Unreferenced, CopiesOf, References, Live, Exists, TypeOK, Token, CopyRow
  <1>14. ASSUME NEW t \in tokens, UndoEdit(t)
         PROVE  References'
    <2>1. t.entry \in Entries /\ t.prev \in Statuses /\ Exists(t.entry)
      BY <1>0 DEF TypeOK, Token, References
    <2>2. \A d \in Entries : Exists(d) => Exists(d)'
      BY <1>14, <2>1 DEF UndoEdit, Exists, TypeOK, EntryRow, Statuses, Shown
    <2>3. PICK c \in Copies : UndoCopy(t, c)
      BY <1>14 DEF UndoEdit
    <2>4. \A k \in Copies : Live(k)' => \/ Live(k) /\ copies'[k].entry = copies[k].entry
                                        \/ copies'[k].entry = t.entry
      <3>1. CASE Rows(UndoDraft(t.entry)) # {}
        <4>1. copies' = [copies EXCEPT ![c].payload = t.payload, ![c].base = 0]
          BY <2>3, <3>1 DEF UndoCopy
        <4> QED
          BY <4>1 DEF Live, TypeOK, CopyRow
      <3>2. CASE Rows(UndoDraft(t.entry)) = {}
        <4> DEFINE row == [Unused EXCEPT !.state = "live", !.draft = UndoDraft(t.entry),
                                         !.entry = t.entry, !.seen = entries[t.entry].text,
                                         !.payload = t.payload]
        <4>1. row.entry = t.entry
          BY RowTypes DEF CopyRow
        <4>2. copies' = [copies EXCEPT ![c] = row]
          BY <2>3, <3>2 DEF UndoCopy
        <4> QED
          BY <4>1, <4>2 DEF Live, TypeOK
      <3> QED
        BY <3>1, <3>2
    <2> QED
      BY <1>0, <1>14, <2>1, <2>2, <2>4 DEF UndoEdit, References, TypeOK, Token, CopyRow
  <1>15. ASSUME NEW t \in tokens, TokenExpires(t)
         PROVE  References'
    BY <1>15, KeepReferences DEF TokenExpires, Exists
  <1>16. ASSUME NEW e \in Entries, PurgeEntry(e)
         PROVE  References'
    BY <1>13, <1>16 DEF PurgeEntry
  <1>17. ASSUME NEW t \in tokens, UndoCreate(t)
         PROVE  References'
    BY <1>13, <1>17 DEF UndoCreate, TypeOK, Token
  <1>18. CASE \/ \E d \in Drafts, p \in Requests : SaveDraft(NewDraft(d), p)
              \/ \E e \in Entries, p \in Requests : SaveDraft(UndoDraft(e), p)
              \/ \E c \in Copies, p \in Requests : SaveEdit(c, p)
              \/ \E c \in Copies, p \in Requests, base \in 0..MaxRevision :
                   PatchCopy(c, p, base)
              \/ \E c \in Copies : DeleteCopy(c)
    <2>1. ASSUME NEW d \in Drafts, NEW p \in Requests, SaveDraft(NewDraft(d), p)
          PROVE  References'
      BY <1>1, <2>1, RowTypes
    <2>2. ASSUME NEW e \in Entries, NEW p \in Requests, SaveDraft(UndoDraft(e), p)
          PROVE  References'
      BY <1>1, <2>2, RowTypes
    <2> QED
      BY <1>2, <1>4, <1>3, <1>18, <2>1, <2>2
  <1>19. CASE \/ \E e \in Entries : OpenEdit(e)
              \/ \E e \in Entries : DiscardEdit(e)
              \/ \E c \in Copies, e \in Entries, p \in Payload : CommitNew(c, e, p)
              \/ \E c \in Copies, p \in Payload, base \in 0..MaxRevision :
                   CommitEdit(c, p, base)
    BY <1>5, <1>6, <1>7, <1>8, <1>19
  <1>20. CASE \/ \E e \in Entries : \E n \in DOMAIN versions[e] : RestoreVersion(e, n)
              \/ \E e \in Entries : TrashEntry(e)
              \/ \E e \in Entries : RestoreEntry(e)
              \/ \E e \in Entries : RetentionExpires(e)
              \/ \E e \in Entries : PurgeEntry(e)
    BY <1>9, <1>10, <1>11, <1>16, <1>12, <1>20
  <1>21. CASE \/ \E t \in tokens : UndoCreate(t)
              \/ \E t \in tokens : UndoEdit(t)
              \/ \E t \in tokens : TokenExpires(t)
    BY <1>14, <1>15, <1>17, <1>21
  <1> QED
    BY <1>18, <1>19, <1>20, <1>21 DEF Next

\* The empty database is well formed.
LEMMA TypeInit == Init => TypeOK
  <1>1. ASSUME Init PROVE EntriesOK /\ CopiesOK
    <2>1. Unborn.status = "unborn" /\ Unused.state = "unused"
      BY DEF Unborn, Unused
    <2> QED
      BY <1>1, <2>1, RowTypes DEF Init, EntriesOK, CopiesOK, Exists, Live
  <1>2. ASSUME Init PROVE \A c \in Copies : ~Live(c)
    BY <1>2 DEF Init, Live, Unused
  <1> QED
    BY <1>1, <1>2 DEF Init, TypeOK, EntriesOK, CopiesOK

\* Every step keeps the database well formed.
LEMMA TypeStep == TypeOK /\ [Next]_vars => TypeOK'
  <1>1. TypeOK /\ Next => TypeOK'
    BY EntriesStep, CopiesStep, HistoryStep, ReferencesStep
    DEF TypeOK, EntriesOK, CopiesOK, References
  <1>2. TypeOK /\ UNCHANGED vars => TypeOK'
    BY DEF TypeOK, vars, Exists, Live
  <1> QED
    BY <1>1, <1>2

\* The four tables always hold what their columns and foreign keys allow.
THEOREM TypeCorrect == Spec => []TypeOK
  BY TypeInit, TypeStep, PTL DEF Spec

-----------------------------------------------------------------------------
(* What a draft knows of its entry *)

\* The base revision of a draft is the one it was given, or none; while the
\* entry is at the given revision, its text is the text the editor saw; and an
\* edit generation, the only draft with a given revision, belongs to the entry
\* its draft id names.
Linked(c) ==
  Live(c) =>
    LET e == copies[c].entry IN
    /\ copies[c].base \in {0, copies[c].given}
    /\ e # None => copies[c].seen \in Texts
    /\ copies[c].given > 0 =>
         /\ e # None
         /\ copies[c].given <= entries[e].revision
         /\ copies[c].given = entries[e].revision => entries[e].text = copies[c].seen
    /\ copies[c].draft.type = "edit" => e # None /\ e = copies[c].draft.entry
    /\ copies[c].draft.type # "edit" => copies[c].given = 0

AllLinked == \A c \in Copies : Linked(c)

\* The inductive invariant.
IInv == TypeOK /\ AllLinked

\* A step may change the text of an entry only with a new revision.
Advances(e) ==
  \/ entries'[e].revision = entries[e].revision /\ entries'[e].text = entries[e].text
  \/ entries'[e].revision > entries[e].revision

\* A draft that survives a step keeps what it knows.
KeepsRow(c) ==
  Live(c)' =>
    /\ Live(c)
    /\ copies'[c].draft = copies[c].draft /\ copies'[c].entry = copies[c].entry
    /\ copies'[c].given = copies[c].given /\ copies'[c].seen = copies[c].seen
    /\ copies'[c].base \in {0, copies[c].base, copies[c].given}

\* A kept draft stays linked while its entry only advances.
LEMMA KeepLink ==
  ASSUME TypeOK, TypeOK', AllLinked, NEW c \in Copies, KeepsRow(c),
         Live(c) /\ copies[c].entry # None => Advances(copies[c].entry)
  PROVE  Linked(c)'
  <1> SUFFICES ASSUME Live(c)' PROVE Linked(c)'
    BY DEF Linked
  <1> DEFINE e == copies[c].entry
  <1>1. Live(c) /\ Linked(c) /\ copies'[c].entry = e
    BY DEF KeepsRow, AllLinked
  <1>2. /\ copies'[c].base \in {0, copies'[c].given}
        /\ copies'[c].entry # None => copies'[c].seen \in Texts
        /\ copies'[c].draft.type = "edit" =>
             copies'[c].entry # None /\ copies'[c].entry = copies'[c].draft.entry
        /\ copies'[c].draft.type # "edit" => copies'[c].given = 0
    BY <1>1 DEF KeepsRow, Linked
  <1>3. ASSUME copies'[c].given > 0
        PROVE  /\ e # None
               /\ copies'[c].given <= entries'[e].revision
               /\ copies'[c].given = entries'[e].revision => entries'[e].text = copies'[c].seen
    <2>1. /\ e \in Entries /\ e # None /\ Exists(e)
          /\ copies[c].given <= entries[e].revision
          /\ copies[c].given = entries[e].revision => entries[e].text = copies[c].seen
      BY <1>1, <1>3 DEF KeepsRow, Linked, TypeOK, CopyRow
    <2>2. entries[e].revision \in Int /\ copies[c].given \in Int /\ Advances(e)
      BY <1>1, <2>1, ConstantsAssumption DEF TypeOK, CopyRow, EntryRow
    <2>3. CASE entries'[e].revision = entries[e].revision /\ entries'[e].text = entries[e].text
      BY <2>1, <2>3 DEF KeepsRow
    <2>4. CASE entries'[e].revision > entries[e].revision
      <3>1. entries'[e].revision \in Int
        BY <2>1, ConstantsAssumption DEF TypeOK, EntryRow
      <3> QED
        BY <1>1, <2>1, <2>2, <2>4, <3>1 DEF KeepsRow
    <2> QED
      BY <2>2, <2>3, <2>4 DEF Advances
  <1> QED
    BY <1>1, <1>2, <1>3 DEF Linked

\* A fresh edit copy is linked to its entry.
LEMMA EditCopyLink ==
  ASSUME TypeOK, NEW e \in Entries, NEW c \in Copies, Exists(e), UNCHANGED entries,
         copies'[c] = EditCopy(e, c)
  PROVE  Linked(c)'
  BY ConstantsAssumption DEF TypeOK, EntryRow, EditCopy, EditDraft, Linked, Live, Exists

\* Every step keeps the drafts linked to their entries.
LEMMA LinkedStep == TypeOK /\ TypeOK' /\ AllLinked /\ Next => AllLinked'
  <1> SUFFICES ASSUME TypeOK, TypeOK', AllLinked, Next PROVE AllLinked'
    OBVIOUS
  <1> USE ConstantsAssumption
  <1>1. ASSUME NEW d \in DraftId, NEW p, d.type # "edit", SaveDraft(d, p)
        PROVE  AllLinked'
    <2> DEFINE row == [Unused EXCEPT !.state = "live", !.draft = d, !.payload = p]
    <2>1. /\ row.base = 0 /\ row.given = 0 /\ row.entry = None /\ row.draft = d
      BY RowTypes DEF CopyRow, Unused
    <2>2. CASE \E c \in Rows(d) : copies' = [copies EXCEPT ![c].payload = p]
      <3>1. \A k \in Copies : KeepsRow(k)
        BY <2>2 DEF KeepsRow, Rows, Live, TypeOK, CopyRow
      <3> QED
        BY <1>1, <3>1, KeepLink DEF SaveDraft, Advances, AllLinked
    <2>3. CASE \E c \in Copies : copies' = [copies EXCEPT ![c] = row]
      <3>1. PICK c \in Copies : copies' = [copies EXCEPT ![c] = row]
        BY <2>3
      <3>2. copies'[c] = row
        BY <3>1 DEF TypeOK
      <3>3. Linked(c)'
        BY <1>1, <2>1, <3>2 DEF Linked
      <3>4. \A k \in Copies \ {c} : KeepsRow(k)
        BY <3>1 DEF KeepsRow, Live, TypeOK, CopyRow
      <3> QED
        BY <1>1, <3>3, <3>4, KeepLink DEF SaveDraft, Advances, AllLinked
    <2> QED
      BY <1>1, <2>2, <2>3 DEF SaveDraft
  <1>2. ASSUME NEW c \in Copies, NEW p \in Requests, SaveEdit(c, p)
        PROVE  AllLinked'
    <2>1. \A k \in Copies : KeepsRow(k)
      BY <1>2 DEF SaveEdit, KeepsRow, Live, TypeOK, CopyRow
    <2> QED
      BY <1>2, <2>1, KeepLink DEF SaveEdit, Advances, AllLinked
  <1>3. ASSUME NEW c \in Copies, NEW p \in Requests, NEW base \in 0..MaxRevision,
               PatchCopy(c, p, base)
        PROVE  AllLinked'
    <2>1. \A k \in Copies : KeepsRow(k)
      BY <1>3 DEF PatchCopy, KeepsRow, Live, TypeOK, CopyRow
    <2> QED
      BY <1>3, <2>1, KeepLink DEF PatchCopy, Advances, AllLinked
  <1>4. ASSUME NEW c \in Copies, copies' = [copies EXCEPT ![c] = Dropped(c)]
        PROVE  \A k \in Copies : KeepsRow(k)
    BY <1>4, DroppedType DEF KeepsRow, Live, TypeOK
  <1>5. ASSUME NEW c \in Copies, DeleteCopy(c)
        PROVE  AllLinked'
    BY <1>4, <1>5, KeepLink DEF DeleteCopy, Advances, AllLinked
  <1>6. ASSUME NEW e \in Entries, OpenEdit(e)
        PROVE  AllLinked'
    <2>1. PICK c \in Copies : copies' = [copies EXCEPT ![c] = EditCopy(e, c)]
      BY <1>6 DEF OpenEdit
    <2>2. Linked(c)'
      BY <1>6, <2>1, EditCopyLink DEF OpenEdit, TypeOK
    <2>3. \A k \in Copies \ {c} : KeepsRow(k)
      BY <2>1 DEF KeepsRow, Live, TypeOK
    <2> QED
      BY <1>6, <2>2, <2>3, KeepLink DEF OpenEdit, Advances, AllLinked
  <1>7. ASSUME NEW e \in Entries, DiscardEdit(e)
        PROVE  AllLinked'
    <2>1. PICK c \in Copies :
            copies' = [k \in Copies |-> IF k = c THEN EditCopy(e, c)
                                        ELSE IF k \in Discarded(e) THEN Dropped(k)
                                        ELSE copies[k]]
      BY <1>7 DEF DiscardEdit
    <2>2. Linked(c)'
      BY <1>7, <2>1, EditCopyLink DEF DiscardEdit
    <2>3. \A k \in Copies \ {c} : KeepsRow(k)
      BY <2>1, DroppedType DEF KeepsRow, Live
    <2> QED
      BY <1>7, <2>2, <2>3, KeepLink DEF DiscardEdit, Advances, AllLinked
  <1>8. ASSUME NEW c \in Copies, NEW e \in Entries, NEW p \in Payload, CommitNew(c, e, p)
        PROVE  AllLinked'
    <2>1. \A k \in Copies : KeepsRow(k)
      BY <1>4, <1>8 DEF CommitNew
    <2>2. \A d \in Entries : d # e => Advances(d)
      BY <1>8 DEF CommitNew, Advances, TypeOK
    <2>3. \A k \in Copies : Live(k) => copies[k].entry # e
      BY <1>8 DEF CommitNew, TypeOK, Exists
    <2> QED
      BY <2>1, <2>2, <2>3, KeepLink DEF AllLinked, TypeOK, CopyRow
  <1>9. ASSUME NEW c \in Copies, NEW p \in Payload, NEW base \in 0..MaxRevision,
               CommitEdit(c, p, base)
        PROVE  AllLinked'
    <2>1. \A k \in Copies : KeepsRow(k)
      BY <1>4, <1>9 DEF CommitEdit
    <2>2. \A d \in Entries : Advances(d)
      <3> DEFINE e == copies[c].entry
      <3>1. e \in Entries
        BY <1>9 DEF CommitEdit, TypeOK, CopyRow
      <3>2. entries[e].revision \in Int /\ entries'[e].revision = entries[e].revision + 1
        <4>1. entries' = [entries EXCEPT ![e] =
                           [entries[e] EXCEPT !.status = p.status, !.kind = p.kind,
                                              !.text = p.text, !.revision = @ + 1]]
          BY <1>9, <3>1 DEF CommitEdit, TypeOK, EntryRow
        <4> QED
          BY <3>1, <4>1 DEF TypeOK, EntryRow
      <3>3. \A d \in Entries : d # e => entries'[d] = entries[d]
        BY <1>9 DEF CommitEdit, TypeOK
      <3> QED
        BY <3>2, <3>3 DEF Advances
    <2> QED
      BY <2>1, <2>2, KeepLink DEF AllLinked, TypeOK, CopyRow
  <1>10. ASSUME NEW e \in Entries, NEW n \in DOMAIN versions[e], RestoreVersion(e, n)
         PROVE  AllLinked'
    <2>1. \A k \in Copies : KeepsRow(k)
      BY <1>10 DEF RestoreVersion, KeepsRow, Live
    <2>2. \A d \in Entries : Advances(d)
      BY <1>10 DEF RestoreVersion, Advances, TypeOK, EntryRow
    <2> QED
      BY <2>1, <2>2, KeepLink DEF AllLinked, TypeOK, CopyRow
  <1>11. ASSUME NEW e \in Entries, TrashEntry(e) \/ RestoreEntry(e) \/ RetentionExpires(e)
         PROVE  AllLinked'
    <2>1. \A k \in Copies : KeepsRow(k)
      BY <1>11 DEF TrashEntry, RestoreEntry, RetentionExpires, KeepsRow, Live
    <2>2. \A d \in Entries : Advances(d)
      <3>1. CASE TrashEntry(e)
        BY <3>1 DEF TrashEntry, Advances, TypeOK, EntryRow
      <3>2. CASE RestoreEntry(e)
        BY <3>2 DEF RestoreEntry, Advances, TypeOK, EntryRow
      <3>3. CASE RetentionExpires(e)
        BY <3>3 DEF RetentionExpires, Advances, TypeOK, EntryRow
      <3> QED
        BY <1>11, <3>1, <3>2, <3>3
    <2> QED
      BY <2>1, <2>2, KeepLink DEF AllLinked, TypeOK, CopyRow
  <1>12. ASSUME NEW e \in Entries, Erase(e)
         PROVE  AllLinked'
    <2>1. \A k \in Copies : KeepsRow(k)
      BY <1>12 DEF Erase, KeepsRow, Live
    <2>2. \A d \in Entries : d # e => Advances(d)
      BY <1>12 DEF Erase, Advances, TypeOK
    <2>3. \A k \in Copies : Live(k) => copies[k].entry # e
      BY <1>12 DEF Erase, Unreferenced, CopiesOf
    <2> QED
      BY <2>1, <2>2, <2>3, KeepLink DEF AllLinked, TypeOK, CopyRow
  <1>13. ASSUME NEW t \in tokens, UndoEdit(t)
         PROVE  AllLinked'
    <2> DEFINE row == [Unused EXCEPT !.state = "live", !.draft = UndoDraft(t.entry),
                                     !.entry = t.entry, !.seen = entries[t.entry].text,
                                     !.payload = t.payload]
    <2>1. t.entry \in Entries /\ t.entry # None /\ entries[t.entry].text \in Texts
      BY DEF TypeOK, Token
    <2>2. /\ row.base = 0 /\ row.given = 0 /\ row.entry = t.entry
          /\ row.seen = entries[t.entry].text /\ row.draft.type = "undo"
      BY RowTypes DEF CopyRow, Unused, UndoDraft
    <2>3. \A d \in Entries : Advances(d)
      BY <1>13, <2>1 DEF UndoEdit, Advances, TypeOK, EntryRow
    <2>4. PICK c \in Copies : UndoCopy(t, c)
      BY <1>13 DEF UndoEdit
    <2>5. CASE Rows(UndoDraft(t.entry)) # {}
      <3>1. copies' = [copies EXCEPT ![c].payload = t.payload, ![c].base = 0]
        BY <2>4, <2>5 DEF UndoCopy
      <3>2. \A k \in Copies : KeepsRow(k)
        BY <3>1 DEF KeepsRow, Live, TypeOK, CopyRow
      <3> QED
        BY <2>3, <3>2, KeepLink DEF AllLinked, TypeOK, CopyRow
    <2>6. CASE Rows(UndoDraft(t.entry)) = {}
      <3>1. copies' = [copies EXCEPT ![c] = row]
        BY <2>4, <2>6 DEF UndoCopy
      <3>2. copies'[c] = row
        BY <3>1 DEF TypeOK
      <3>3. Linked(c)'
        BY <2>1, <2>2, <3>2 DEF Linked
      <3>4. \A k \in Copies \ {c} : KeepsRow(k)
        BY <3>1 DEF KeepsRow, Live, TypeOK
      <3> QED
        BY <2>3, <3>3, <3>4, KeepLink DEF AllLinked, TypeOK, CopyRow
    <2> QED
      BY <2>5, <2>6
  <1>14. ASSUME NEW t \in tokens, TokenExpires(t)
         PROVE  AllLinked'
    BY <1>14 DEF TokenExpires, AllLinked, Linked, Live
  <1>15. CASE \/ \E d \in Drafts, p \in Requests : SaveDraft(NewDraft(d), p)
              \/ \E e \in Entries, p \in Requests : SaveDraft(UndoDraft(e), p)
    <2>1. ASSUME NEW d \in Drafts, NEW p \in Requests, SaveDraft(NewDraft(d), p)
          PROVE  AllLinked'
      BY <1>1, <2>1, RowTypes DEF NewDraft
    <2>2. ASSUME NEW e \in Entries, NEW p \in Requests, SaveDraft(UndoDraft(e), p)
          PROVE  AllLinked'
      BY <1>1, <2>2, RowTypes DEF UndoDraft
    <2> QED
      BY <1>15, <2>1, <2>2
  <1>16. CASE \/ \E c \in Copies, p \in Requests : SaveEdit(c, p)
              \/ \E c \in Copies, p \in Requests, base \in 0..MaxRevision :
                   PatchCopy(c, p, base)
              \/ \E c \in Copies : DeleteCopy(c)
              \/ \E e \in Entries : OpenEdit(e)
              \/ \E e \in Entries : DiscardEdit(e)
    BY <1>2, <1>3, <1>5, <1>6, <1>7, <1>16
  <1>17. CASE \/ \E c \in Copies, e \in Entries, p \in Payload : CommitNew(c, e, p)
              \/ \E c \in Copies, p \in Payload, base \in 0..MaxRevision :
                   CommitEdit(c, p, base)
              \/ \E e \in Entries : \E n \in DOMAIN versions[e] : RestoreVersion(e, n)
    BY <1>8, <1>9, <1>10, <1>17
  <1>18. CASE \/ \E e \in Entries : TrashEntry(e)
              \/ \E e \in Entries : RestoreEntry(e)
              \/ \E e \in Entries : RetentionExpires(e)
              \/ \E e \in Entries : PurgeEntry(e)
    BY <1>11, <1>12, <1>18 DEF PurgeEntry
  <1>19. CASE \/ \E t \in tokens : UndoCreate(t)
              \/ \E t \in tokens : UndoEdit(t)
              \/ \E t \in tokens : TokenExpires(t)
    <2>1. ASSUME NEW t \in tokens, UndoCreate(t)
          PROVE  AllLinked'
      BY <1>12, <2>1 DEF UndoCreate, TypeOK, Token
    <2> QED
      BY <1>13, <1>14, <1>19, <2>1
  <1> QED
    BY <1>15, <1>16, <1>17, <1>18, <1>19 DEF Next

\* The inductive invariant holds.
THEOREM Inductive == Spec => []IInv
  <1>1. Init => IInv
    <2>1. ASSUME Init PROVE AllLinked
      BY <2>1 DEF Init, AllLinked, Linked, Live, Unused
    <2>2. Init => TypeOK
      BY TypeInit
    <2> QED
      BY <2>1, <2>2 DEF IInv
  <1>2. IInv /\ [Next]_vars => IInv'
    <2>1. IInv /\ Next => IInv'
      BY TypeStep, LinkedStep DEF IInv
    <2>2. IInv /\ UNCHANGED vars => IInv'
      BY TypeStep DEF IInv, vars, AllLinked, Linked, Live
    <2> QED
      BY <2>1, <2>2
  <1> QED
    BY <1>1, <1>2, PTL DEF Spec

\* A base revision identifies the text its editor saw: no handler changes the
\* text of an entry without a new revision, so the commit check on revisions is
\* a check on texts.
THEOREM BaseRevisionIdentifiesText == Spec => []BaseIdentifiesText
  <1>1. IInv => BaseIdentifiesText
    <2> SUFFICES ASSUME IInv, NEW c \in Copies, Live(c), copies[c].base > 0
                 PROVE  LET e == copies[c].entry IN
                        /\ e \in Entries /\ Exists(e)
                        /\ copies[c].base <= entries[e].revision
                        /\ copies[c].base = entries[e].revision =>
                             entries[e].text = copies[c].seen
      BY DEF BaseIdentifiesText
    <2>1. copies[c].base = copies[c].given /\ Linked(c)
      BY DEF IInv, AllLinked, Linked
    <2> QED
      BY <2>1 DEF IInv, TypeOK, Linked, CopyRow
  <1> QED
    BY <1>1, Inductive, PTL

\* Edit generations keep their entry: discard, purge and undo leave no orphan.
THEOREM EditGenerationsHaveTheirEntry == Spec => []EditsHaveTheirEntry
  <1>1. IInv => EditsHaveTheirEntry
    BY DEF IInv, AllLinked, Linked, EditsHaveTheirEntry, TypeOK, CopyRow
  <1> QED
    BY <1>1, Inductive, PTL

-----------------------------------------------------------------------------
(* No lost update *)

\* A commit that reaches an entry has passed the check on its revision.
LEMMA CommitChecked ==
  ASSUME IInv, NEW c \in Copies, NEW p \in Payload, NEW base \in 0..MaxRevision,
         CommitEdit(c, p, base), copies[c].base > 0
  PROVE  entries[copies[c].entry].text = copies[c].seen
  <1> DEFINE e == copies[c].entry
  <1>1. Live(c) /\ Linked(c) /\ e \in Entries
    BY DEF IInv, AllLinked, CommitEdit, TypeOK, CopyRow
  <1>2. copies[c].base = copies[c].given /\ copies[c].given \in Nat
    BY <1>1, ConstantsAssumption DEF Linked, IInv, TypeOK, CopyRow
  <1>3. base \in {0, copies[c].given} /\ Expected(c, base) \in {0, entries[e].revision}
    BY DEF CommitEdit
  <1>4. Expected(c, base) = copies[c].given
    BY <1>2, <1>3 DEF Expected
  <1>5. copies[c].given = entries[e].revision
    BY <1>2, <1>3, <1>4
  <1> QED
    BY <1>1, <1>2, <1>5 DEF Linked

\* Only the commit of a draft removes it and makes a new revision of its entry.
LEMMA SavesIsCommit ==
  ASSUME IInv, Next, NEW c \in Copies, Saves(c)
  PROVE  \E p \in Payload, base \in 0..MaxRevision : CommitEdit(c, p, base)
  <1> DEFINE e == copies[c].entry
  <1> DEFINE Goal == \E p \in Payload, base \in 0..MaxRevision : CommitEdit(c, p, base)
  <1>1. /\ e \in Entries /\ Live(c) /\ ~Live(c)' /\ Exists(e) /\ e # None
        /\ entries'[e].revision # entries[e].revision
    BY ConstantsAssumption DEF Saves, IInv, TypeOK, EntryRow
  <1>2. ASSUME UNCHANGED entries \/ UNCHANGED copies
        PROVE  FALSE
    BY <1>1, <1>2 DEF Live
  <1>3. CASE \/ \E d \in Drafts, p \in Requests : SaveDraft(NewDraft(d), p)
             \/ \E f \in Entries, p \in Requests : SaveDraft(UndoDraft(f), p)
    BY <1>2, <1>3 DEF SaveDraft
  <1>4. CASE \/ \E k \in Copies, p \in Requests : SaveEdit(k, p)
             \/ \E k \in Copies, p \in Requests, base \in 0..MaxRevision :
                  PatchCopy(k, p, base)
             \/ \E k \in Copies : DeleteCopy(k)
             \/ \E f \in Entries : OpenEdit(f)
             \/ \E f \in Entries : DiscardEdit(f)
    BY <1>2, <1>4 DEF SaveEdit, PatchCopy, DeleteCopy, OpenEdit, DiscardEdit
  <1>5. ASSUME NEW k \in Copies, NEW f \in Entries, NEW p \in Payload, CommitNew(k, f, p)
        PROVE  FALSE
    <2>1. e # f
      BY <1>1, <1>5 DEF CommitNew, Exists
    <2> QED
      BY <1>1, <1>5, <2>1 DEF CommitNew, IInv, TypeOK
  <1>6. ASSUME NEW k \in Copies, NEW p \in Payload, NEW base \in 0..MaxRevision,
               CommitEdit(k, p, base)
        PROVE  Goal
    <2>1. k = c
      BY <1>1, <1>6 DEF CommitEdit, IInv, TypeOK, Live
    <2> QED
      BY <1>6, <2>1
  <1>7. CASE \/ \E f \in Entries : \E n \in DOMAIN versions[f] : RestoreVersion(f, n)
             \/ \E f \in Entries : TrashEntry(f)
             \/ \E f \in Entries : RestoreEntry(f)
             \/ \E f \in Entries : RetentionExpires(f)
             \/ \E f \in Entries : PurgeEntry(f)
    BY <1>2, <1>7 DEF RestoreVersion, TrashEntry, RestoreEntry, RetentionExpires,
                      PurgeEntry, Erase
  <1>8. CASE \/ \E t \in tokens : UndoCreate(t)
             \/ \E t \in tokens : TokenExpires(t)
    BY <1>2, <1>8 DEF UndoCreate, Erase, TokenExpires
  <1>9. ASSUME NEW t \in tokens, UndoEdit(t)
        PROVE  FALSE
    <2>1. entries'[e].revision = entries[e].revision
      BY <1>1, <1>9 DEF UndoEdit, IInv, TypeOK, EntryRow
    <2> QED
      BY <1>1, <2>1
  <1> QED
    BY <1>3, <1>4, <1>5, <1>6, <1>7, <1>8, <1>9 DEF Next

\* A checked commit replaces exactly the text its editor was shown.
THEOREM NoUpdateIsLost == Spec => NoLostUpdate
  <1>1. IInv /\ [Next]_vars =>
          [\A c \in Copies : Saves(c) /\ copies[c].base > 0 =>
             entries[copies[c].entry].text = copies[c].seen]_vars
    <2> SUFFICES ASSUME IInv, Next, NEW c \in Copies, Saves(c), copies[c].base > 0
                 PROVE  entries[copies[c].entry].text = copies[c].seen
      BY DEF vars
    <2> QED
      BY SavesIsCommit, CommitChecked
  <1> QED
    BY <1>1, Inductive, PTL DEF Spec, NoLostUpdate

-----------------------------------------------------------------------------
(* A client that never patches a draft *)

\* The handlers the web editor calls.
EditorCalls ==
  \/ \E d \in Drafts, p \in Requests : SaveDraft(NewDraft(d), p)
  \/ \E e \in Entries, p \in Requests : SaveDraft(UndoDraft(e), p)
  \/ \E c \in Copies, p \in Requests : SaveEdit(c, p)
  \/ \E e \in Entries : OpenEdit(e)
  \/ \E e \in Entries : DiscardEdit(e)
  \/ \E c \in Copies, e \in Entries, p \in Payload : CommitNew(c, e, p)
  \/ \E c \in Copies, p \in Payload, base \in 0..MaxRevision : CommitEdit(c, p, base)
  \/ \E e \in Entries : \E n \in DOMAIN versions[e] : RestoreVersion(e, n)
  \/ \E t \in tokens : UndoCreate(t)
  \/ \E t \in tokens : UndoEdit(t)

\* The ids of drafts, by who makes them.
Ids == {NewDraft(d) : d \in Drafts} \cup {UndoDraft(e) : e \in Entries}
       \cup {EditDraft(e, c) : e \in Entries, c \in Copies}

\* Every entry has a revision, every edit was opened on one, and drafts have
\* the ids clients know.
EditsAreChecked ==
  /\ \A e \in Entries : Exists(e) => entries[e].revision > 0
  /\ \A c \in Copies : Live(c) =>
       /\ copies[c].draft \in Ids
       /\ copies[c].draft.type = "edit" => copies[c].base > 0

\* Where a draft comes from that is there after a step.
Comes(k) ==
  Live(k)' =>
    \/ /\ Live(k) /\ copies'[k].draft = copies[k].draft
       /\ copies'[k].base = copies[k].base \/ copies[k].draft.type # "edit"
    \/ \E e \in Entries : Exists(e) /\ copies'[k] = EditCopy(e, k)
    \/ copies'[k].draft \in Ids /\ copies'[k].draft.type # "edit"

\* No handler the editor calls takes the base revision off an edit.
LEMMA DraftsCome == TypeOK /\ EditorCalls => \A k \in Copies : Comes(k)
  <1> SUFFICES ASSUME TypeOK, EditorCalls, NEW k \in Copies PROVE Comes(k)
    OBVIOUS
  <1>0. copies \in [Copies -> CopyRow]
    BY DEF TypeOK
  <1>1. ASSUME NEW d \in Ids, NEW p \in Requests, SaveDraft(d, p), d.type # "edit"
        PROVE  Comes(k)
    <2>1. CASE \E c \in Rows(d) : copies' = [copies EXCEPT ![c].payload = p]
      BY <1>0, <2>1 DEF Comes, Rows, Live, CopyRow
    <2>2. CASE \E c \in Copies : copies' = [copies EXCEPT ![c] =
                 [Unused EXCEPT !.state = "live", !.draft = d, !.payload = p]]
      <3>1. PICK c \in Copies : copies' = [copies EXCEPT ![c] =
                 [Unused EXCEPT !.state = "live", !.draft = d, !.payload = p]]
        BY <2>2
      <3>2. CASE k = c
        <4>1. copies'[k] = [Unused EXCEPT !.state = "live", !.draft = d, !.payload = p]
          BY <1>0, <3>1, <3>2
        <4>2. copies'[k].draft = d
          BY <4>1, RowTypes DEF CopyRow
        <4> QED
          BY <1>1, <4>2 DEF Comes
      <3>3. CASE k # c
        BY <1>0, <3>1, <3>3 DEF Comes, Live
      <3> QED
        BY <3>2, <3>3
    <2> QED
      BY <1>1, <2>1, <2>2 DEF SaveDraft
  <1>2. CASE \E c \in Copies, p \in Requests : SaveEdit(c, p)
    BY <1>0, <1>2 DEF SaveEdit, Comes, Live, CopyRow
  <1>3. CASE \E e \in Entries : OpenEdit(e)
    BY <1>0, <1>3 DEF OpenEdit, Comes, Live
  <1>4. CASE \E e \in Entries : DiscardEdit(e)
    <2>1. PICK e \in Entries, c \in Copies :
            /\ Exists(e)
            /\ copies' = [j \in Copies |-> IF j = c THEN EditCopy(e, c)
                                           ELSE IF j \in Discarded(e) THEN Dropped(j)
                                           ELSE copies[j]]
      BY <1>4 DEF DiscardEdit
    <2> QED
      BY <1>0, <2>1, DroppedType DEF Comes, Live
  <1>5. ASSUME NEW c \in Copies, copies' = [copies EXCEPT ![c] = Dropped(c)]
        PROVE  Comes(k)
    BY <1>0, <1>5, DroppedType DEF Comes, Live
  <1>6. CASE UNCHANGED copies
    BY <1>6 DEF Comes, Live
  <1>7. ASSUME NEW t \in tokens, UndoEdit(t)
        PROVE  Comes(k)
    <2> DEFINE row == [Unused EXCEPT !.state = "live", !.draft = UndoDraft(t.entry),
                                     !.entry = t.entry, !.seen = entries[t.entry].text,
                                     !.payload = t.payload]
    <2>1. t.entry \in Entries
      BY DEF TypeOK, Token
    <2>2. row.draft = UndoDraft(t.entry) /\ row.draft \in Ids /\ row.draft.type # "edit"
      BY <2>1, RowTypes DEF CopyRow, Ids, UndoDraft
    <2>3. PICK c \in Copies : UndoCopy(t, c)
      BY <1>7 DEF UndoEdit
    <2>4. CASE c \in Rows(UndoDraft(t.entry))
               /\ copies' = [copies EXCEPT ![c].payload = t.payload, ![c].base = 0]
      BY <1>0, <2>4 DEF Comes, Rows, Live, CopyRow, UndoDraft
    <2>5. CASE copies' = [copies EXCEPT ![c] = row]
      BY <1>0, <2>2, <2>5 DEF Comes, Live
    <2> QED
      BY <2>3, <2>4, <2>5 DEF UndoCopy
  <1>8. \A d \in Drafts : NewDraft(d) \in Ids /\ NewDraft(d).type # "edit"
    BY DEF Ids, NewDraft
  <1>9. \A e \in Entries : UndoDraft(e) \in Ids /\ UndoDraft(e).type # "edit"
    BY DEF Ids, UndoDraft
  <1>10. ASSUME NEW c \in Copies, NEW e \in Entries, NEW p \in Payload, CommitNew(c, e, p)
         PROVE  Comes(k)
    BY <1>5, <1>10 DEF CommitNew
  <1>11. ASSUME NEW c \in Copies, NEW p \in Payload, NEW base \in 0..MaxRevision,
                CommitEdit(c, p, base)
         PROVE  Comes(k)
    BY <1>5, <1>11 DEF CommitEdit
  <1>12. CASE \E e \in Entries : \E n \in DOMAIN versions[e] : RestoreVersion(e, n)
    BY <1>6, <1>12 DEF RestoreVersion
  <1>13. CASE \E t \in tokens : UndoCreate(t)
    BY <1>6, <1>13 DEF UndoCreate, Erase
  <1>14. CASE \/ \E d \in Drafts, p \in Requests : SaveDraft(NewDraft(d), p)
              \/ \E e \in Entries, p \in Requests : SaveDraft(UndoDraft(e), p)
    BY <1>1, <1>8, <1>9, <1>14
  <1> QED
    BY <1>2, <1>3, <1>4, <1>7, <1>10, <1>11, <1>12, <1>13, <1>14 DEF EditorCalls

\* ... nor does an entry come without a revision.
LEMMA RevisionsStay ==
  TypeOK /\ EditsAreChecked /\ EditorCalls =>
    \A e \in Entries : Exists(e)' => entries'[e].revision > 0
  <1> SUFFICES ASSUME TypeOK, EditsAreChecked, EditorCalls, NEW e \in Entries, Exists(e)'
               PROVE  entries'[e].revision > 0
    OBVIOUS
  <1>0. /\ entries \in [Entries -> EntryRow] /\ entries[e].revision \in Nat
        /\ Exists(e) => entries[e].revision > 0
    BY ConstantsAssumption DEF TypeOK, EntryRow, EditsAreChecked
  <1>1. CASE UNCHANGED entries
    BY <1>0, <1>1 DEF Exists
  <1>2. ASSUME NEW c \in Copies, NEW f \in Entries, NEW p \in Payload, CommitNew(c, f, p)
        PROVE  entries'[e].revision > 0
    <2>1. [Unborn EXCEPT !.status = p.status, !.kind = p.kind, !.text = p.text,
                         !.revision = 1, !.origin = copies[c].draft].revision = 1
      BY DEF Unborn
    <2> QED
      BY <1>0, <1>2, <2>1 DEF CommitNew, Exists
  <1>3. ASSUME NEW c \in Copies, NEW p \in Payload, NEW base \in 0..MaxRevision,
               CommitEdit(c, p, base)
        PROVE  entries'[e].revision > 0
    <2>1. copies[c] \in CopyRow
      BY DEF TypeOK
    <2>2. PICK f \in Entries :
            /\ Exists(f)
            /\ entries' = [entries EXCEPT ![f].status = p.status, ![f].kind = p.kind,
                                          ![f].text = p.text, ![f].revision = @ + 1]
      BY <1>3, <2>1 DEF CommitEdit, CopyRow
    <2>3. CASE e = f
      <3>1. entries[e] \in EntryRow
        BY <1>0
      <3>2. entries'[e].revision = entries[e].revision + 1
        BY <1>0, <2>2, <2>3, <3>1 DEF EntryRow
      <3> QED
        BY <1>0, <3>2
    <2>4. CASE e # f
      <3>1. entries'[e] = entries[e]
        BY <1>0, <2>2, <2>4
      <3> QED
        BY <1>0, <3>1 DEF Exists
    <2> QED
      BY <2>3, <2>4
  <1>4. ASSUME NEW f \in Entries, NEW n \in DOMAIN versions[f], RestoreVersion(f, n)
        PROVE  entries'[e].revision > 0
    BY <1>0, <1>4 DEF RestoreVersion, Exists, EntryRow
  <1>5. ASSUME NEW t \in tokens, UndoCreate(t)
        PROVE  entries'[e].revision > 0
    BY <1>0, <1>5 DEF UndoCreate, Erase, Exists, Unborn
  <1>6. ASSUME NEW t \in tokens, UndoEdit(t)
        PROVE  entries'[e].revision > 0
    <2>1. t.entry \in Entries /\ Exists(t.entry)
      BY DEF TypeOK, Token
    <2> QED
      BY <1>0, <1>6, <2>1 DEF UndoEdit, Exists, EntryRow
  <1> QED
    BY <1>1, <1>2, <1>3, <1>4, <1>5, <1>6
    DEF EditorCalls, SaveDraft, SaveEdit, OpenEdit, DiscardEdit

\* What the editor calls are handlers, and every edit stays checked.
LEMMA CheckedStep ==
  IInv /\ EditsAreChecked /\ EditorCalls => Next /\ IInv' /\ EditsAreChecked'
  <1> SUFFICES ASSUME IInv, EditsAreChecked, EditorCalls
               PROVE  Next /\ IInv' /\ EditsAreChecked'
    OBVIOUS
  <1>1. Next
    BY DEF EditorCalls, Next
  <1>2. IInv'
    BY <1>1, TypeStep, LinkedStep DEF IInv
  <1>3. ASSUME NEW c \in Copies, Live(c)'
        PROVE  copies'[c].draft \in Ids /\ (copies'[c].draft.type = "edit" => copies'[c].base > 0)
    <2>1. Comes(c)
      BY DraftsCome DEF IInv
    <2>2. CASE \E e \in Entries : Exists(e) /\ copies'[c] = EditCopy(e, c)
      BY <2>2 DEF EditCopy, Ids, EditsAreChecked
    <2> QED
      BY <1>3, <2>1, <2>2 DEF Comes, EditsAreChecked
  <1> QED
    BY <1>1, <1>2, <1>3, RevisionsStay DEF IInv, EditsAreChecked

\* A save of an edit then replaces the text its editor saw.
LEMMA EditSavesAreChecked ==
  ASSUME IInv, EditsAreChecked, EditorCalls, NEW c \in Copies, Saves(c),
         copies[c].draft.type = "edit"
  PROVE  entries[copies[c].entry].text = copies[c].seen
  BY CheckedStep, SavesIsCommit, CommitChecked DEF EditsAreChecked, Saves
=============================================================================

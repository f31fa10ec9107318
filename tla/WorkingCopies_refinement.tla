---------------------- MODULE WorkingCopies_refinement -----------------------
(***************************************************************************)
(* What the handlers of WorkingCopies keep besides its core invariant.     *)
(* First the proof that they implement FormalEntries: one step of the      *)
(* promise, or a stutter, for every handler.  Then the rows: an entry has  *)
(* one edit at a time, an edit that has ended stays ended, and the text of *)
(* an article is among its versions.                                       *)
(***************************************************************************)
EXTENDS WorkingCopies_proofs

\* An entry with a row has been saved at least once.
Numbered == \A e \in Entries : Exists(e) => entries[e].revision > 0

\* Every step keeps it.
LEMMA NumberedStep == TypeOK /\ TypeOK' /\ Numbered /\ Next => Numbered'
  <1> SUFFICES ASSUME TypeOK, TypeOK', Numbered, Next PROVE Numbered'
    OBVIOUS
  <1> USE ConstantsAssumption
  <1>1. ASSUME NEW e \in Entries, \A d \in Entries : d # e => entries'[d] = entries[d],
               Exists(e)' => entries'[e].revision > 0
        PROVE  Numbered'
    BY <1>1 DEF Numbered, Exists
  <1>2. ASSUME UNCHANGED entries
        PROVE  Numbered'
    BY <1>2 DEF Numbered, Exists
  <1>3. ASSUME NEW c \in Copies, NEW e \in Entries, NEW p \in Payload, CommitNew(c, e, p)
        PROVE  Numbered'
    <2>1. entries'[e].revision = 1
      BY <1>3, RowTypes DEF CommitNew, TypeOK, EntryRow
    <2> QED
      BY <1>1, <1>3, <2>1 DEF CommitNew, TypeOK
  <1>4. ASSUME NEW c \in Copies, NEW p \in Payload, NEW base \in 0..MaxRevision,
               CommitEdit(c, p, base)
        PROVE  Numbered'
    <2>1. PICK e \in Entries : e = copies[c].entry
      BY <1>4 DEF CommitEdit, TypeOK, CopyRow
    <2>2. entries' = [entries EXCEPT ![e] = [entries[e] EXCEPT !.status = p.status,
                        !.kind = p.kind, !.text = p.text, !.revision = @ + 1]]
      BY <1>4, <2>1, Zenon DEF CommitEdit, TypeOK
    <2>3. entries[e] \in EntryRow /\ entries[e].revision \in Nat
      BY <2>1 DEF TypeOK, EntryRow
    <2>4. entries'[e].revision = entries[e].revision + 1
      BY <2>1, <2>2, <2>3 DEF TypeOK, EntryRow
    <2>5. entries'[e].revision > 0
      BY <2>3, <2>4
    <2>6. \A d \in Entries : d # e => entries'[d] = entries[d]
      BY <2>1, <2>2 DEF TypeOK
    <2> QED
      BY <1>1, <2>1, <2>5, <2>6
  <1>5. ASSUME NEW e \in Entries, NEW n \in DOMAIN versions[e], RestoreVersion(e, n)
        PROVE  Numbered'
    <2>1. entries'[e].revision = entries[e].revision + 1 /\ entries[e].revision \in Nat
      BY <1>5 DEF RestoreVersion, TypeOK, EntryRow
    <2>2. entries'[e].revision > 0
      BY <2>1
    <2>3. \A d \in Entries : d # e => entries'[d] = entries[d]
      BY <1>5 DEF RestoreVersion, TypeOK
    <2> QED
      BY <1>1, <2>2, <2>3
  <1>6. ASSUME NEW e \in Entries, Exists(e), \A d \in Entries : d # e => entries'[d] = entries[d],
               entries'[e].revision = entries[e].revision
        PROVE  Numbered'
    BY <1>1, <1>6 DEF Numbered
  <1>7. ASSUME NEW e \in Entries, TrashEntry(e) \/ RetentionExpires(e)
        PROVE  Numbered'
    <2>1. CASE TrashEntry(e)
      BY <1>6, <2>1 DEF TrashEntry, TypeOK, EntryRow
    <2>2. CASE RetentionExpires(e)
      BY <1>6, <2>2 DEF RetentionExpires, TypeOK, EntryRow
    <2> QED
      BY <1>7, <2>1, <2>2
  <1>8. ASSUME NEW e \in Entries, RestoreEntry(e)
        PROVE  Numbered'
    BY <1>6, <1>8 DEF RestoreEntry, TypeOK, EntryRow, Exists
  <1>9. ASSUME NEW e \in Entries, Erase(e)
        PROVE  Numbered'
    <2>1. [Unborn EXCEPT !.status = "gone"].status = "gone"
      BY RowTypes DEF EntryRow
    <2> QED
      BY <1>1, <1>9, <2>1 DEF Erase, Exists, TypeOK
  <1>10. ASSUME NEW t \in tokens, UndoEdit(t)
         PROVE  Numbered'
    <2>1. PICK e \in Entries : e = t.entry /\ Exists(e)
      BY DEF TypeOK, Token
    <2> QED
      BY <1>6, <1>10, <2>1 DEF UndoEdit, TypeOK, EntryRow
  <1>11. CASE \/ \E d \in Drafts, p \in Requests : SaveDraft(NewDraft(d), p)
              \/ \E e \in Entries, p \in Requests : SaveDraft(UndoDraft(e), p)
              \/ \E c \in Copies, p \in Requests : SaveEdit(c, p)
              \/ \E c \in Copies, p \in Requests, base \in 0..MaxRevision :
                   PatchCopy(c, p, base)
              \/ \E c \in Copies : DeleteCopy(c)
              \/ \E e \in Entries : OpenEdit(e)
              \/ \E e \in Entries : DiscardEdit(e)
              \/ \E t \in tokens : TokenExpires(t)
    BY <1>2, <1>11
    DEF SaveDraft, SaveEdit, PatchCopy, DeleteCopy, OpenEdit, DiscardEdit, TokenExpires
  <1>12. CASE \/ \E c \in Copies, e \in Entries, p \in Payload : CommitNew(c, e, p)
              \/ \E c \in Copies, p \in Payload, base \in 0..MaxRevision :
                   CommitEdit(c, p, base)
              \/ \E e \in Entries : \E n \in DOMAIN versions[e] : RestoreVersion(e, n)
    BY <1>3, <1>4, <1>5, <1>12
  <1>13. CASE \/ \E e \in Entries : TrashEntry(e)
              \/ \E e \in Entries : RestoreEntry(e)
              \/ \E e \in Entries : RetentionExpires(e)
              \/ \E e \in Entries : PurgeEntry(e)
    BY <1>7, <1>8, <1>9, <1>13 DEF PurgeEntry
  <1>14. CASE \/ \E t \in tokens : UndoCreate(t)
              \/ \E t \in tokens : UndoEdit(t)
    <2>1. ASSUME NEW t \in tokens, UndoCreate(t)
          PROVE  Numbered'
      BY <1>9, <2>1 DEF UndoCreate, TypeOK, Token
    <2> QED
      BY <1>10, <1>14, <2>1
  <1> QED
    BY <1>11, <1>12, <1>13, <1>14 DEF Next

-----------------------------------------------------------------------------
(* The mapped state *)

\* The abstract values of the entries and of the drafts.
Mapped ==
  /\ \A e \in Entries : Exists(e) <=> Formal[e] # None
  /\ \A e \in Entries : Exists(e) =>
       /\ Formal[e] = [status |-> entries[e].status, text |-> entries[e].text]
       /\ Formal[e] \in [status : Statuses, text : Texts]
  /\ \A c \in Copies : OpenEdits[c] # None <=> Live(c) /\ copies[c].entry # None
  /\ \A c \in Copies : OpenEdits[c] # None =>
       /\ copies[c].entry \in Entries
       /\ OpenEdits[c] = [entry |-> copies[c].entry, seen |-> copies[c].seen,
                          checked |-> copies[c].base > 0]
       /\ OpenEdits[c].entry = copies[c].entry /\ OpenEdits[c].seen = copies[c].seen
  /\ \A e \in Entries : Promise!OpenOn(e) = CopiesOf(e)

\* In every reachable state the mapping means what it says.
LEMMA MappedValues == IInv => Mapped
  <1> SUFFICES ASSUME IInv PROVE Mapped
    OBVIOUS
  <1>1. ASSUME NEW e \in Entries, Exists(e)
        PROVE  /\ Formal[e] = [status |-> entries[e].status, text |-> entries[e].text]
               /\ Formal[e] \in [status : Statuses, text : Texts]
               /\ Formal[e] # None
    <2>1. entries[e].status \in Statuses /\ entries[e].text \in Texts
      BY <1>1 DEF IInv, TypeOK, EntryRow, Exists
    <2> QED
      BY <1>1, <2>1, ConstantsAssumption DEF Formal
  <1>2. ASSUME NEW e \in Entries, ~Exists(e)
        PROVE  Formal[e] = None
    BY <1>2 DEF Formal
  <1>3. ASSUME NEW c \in Copies, Live(c), copies[c].entry # None
        PROVE  /\ copies[c].entry \in Entries
               /\ OpenEdits[c] = [entry |-> copies[c].entry, seen |-> copies[c].seen,
                                  checked |-> copies[c].base > 0]
               /\ OpenEdits[c] # None
               /\ OpenEdits[c].entry = copies[c].entry
               /\ OpenEdits[c].seen = copies[c].seen
    <2>1. copies[c].entry \in Entries /\ copies[c].seen \in Texts
      BY <1>3 DEF IInv, TypeOK, CopyRow, AllLinked, Linked
    <2>2. (copies[c].base > 0) \in BOOLEAN
      OBVIOUS
    <2>3. OpenEdits[c] = [entry |-> copies[c].entry, seen |-> copies[c].seen,
                          checked |-> copies[c].base > 0]
      BY <1>3 DEF OpenEdits
    <2>4. OpenEdits[c] \in [entry : Entries, seen : Texts, checked : BOOLEAN]
      BY <2>1, <2>2, <2>3
    <2>5. OpenEdits[c].entry = copies[c].entry /\ OpenEdits[c].seen = copies[c].seen
      BY <2>3
    <2> QED
      BY <2>1, <2>3, <2>4, <2>5, ConstantsAssumption
  <1>4. ASSUME NEW c \in Copies, ~(Live(c) /\ copies[c].entry # None)
        PROVE  OpenEdits[c] = None
    BY <1>4 DEF OpenEdits
  <1>5. ASSUME NEW e \in Entries
        PROVE  Promise!OpenOn(e) = CopiesOf(e)
    <2>1. e # None
      BY ConstantsAssumption
    <2>2. ASSUME NEW c \in Copies, Live(c), copies[c].entry = e
          PROVE  OpenEdits[c] # None /\ OpenEdits[c].entry = e
      BY <1>3, <2>1, <2>2
    <2>3. ASSUME NEW c \in Copies, OpenEdits[c] # None, OpenEdits[c].entry = e
          PROVE  Live(c) /\ copies[c].entry = e
      BY <1>3, <1>4, <2>3
    <2> QED
      BY <2>2, <2>3 DEF Promise!OpenOn, CopiesOf
  <1> QED
    BY <1>1, <1>2, <1>3, <1>4, <1>5 DEF Mapped

\* Writing one row changes one abstract value.
LEMMA FormalWrite ==
  ASSUME NEW e \in Entries, \A d \in Entries : d # e => entries'[d] = entries[d]
  PROVE  Formal' = [Formal EXCEPT ![e] = Formal'[e]]
  <1>1. \A d \in Entries : d # e => Formal'[d] = Formal[d]
    BY DEF Formal, Exists
  <1>2. Formal = [d \in Entries |-> Formal[d]] /\ Formal' = [d \in Entries |-> Formal'[d]]
    BY DEF Formal
  <1> QED
    BY <1>1, <1>2

LEMMA OpenWrite ==
  ASSUME NEW c \in Copies, \A k \in Copies : k # c => copies'[k] = copies[k]
  PROVE  OpenEdits' = [OpenEdits EXCEPT ![c] = OpenEdits'[c]]
  <1>1. \A k \in Copies : k # c => OpenEdits'[k] = OpenEdits[k]
    BY DEF OpenEdits, Live
  <1>2. /\ OpenEdits = [k \in Copies |-> OpenEdits[k]]
        /\ OpenEdits' = [k \in Copies |-> OpenEdits'[k]]
    BY DEF OpenEdits
  <1> QED
    BY <1>1, <1>2

\* What is not written keeps its abstract value.
LEMMA FormalSame ==
  ASSUME UNCHANGED entries PROVE UNCHANGED Formal
  BY DEF Formal, Exists

LEMMA OpenSame ==
  ASSUME UNCHANGED copies PROVE UNCHANGED OpenEdits
  BY DEF OpenEdits, Live

LEMMA RevocableSame ==
  ASSUME UNCHANGED tokens PROVE UNCHANGED Revocable
  BY DEF Revocable

\* Drafts of no entry are no tickets, whatever is stored in them.
LEMMA OpenKept ==
  ASSUME \A k \in Copies : \/ /\ Live(k)' <=> Live(k)
                              /\ copies'[k].entry = copies[k].entry
                              /\ copies'[k].seen = copies[k].seen
                              /\ copies'[k].base = copies[k].base
                           \/ OpenEdits[k] = None /\ OpenEdits'[k] = None
  PROVE  UNCHANGED OpenEdits
  <1>1. \A k \in Copies : OpenEdits'[k] = OpenEdits[k]
    BY DEF OpenEdits, Live
  <1>2. /\ OpenEdits = [k \in Copies |-> OpenEdits[k]]
        /\ OpenEdits' = [k \in Copies |-> OpenEdits'[k]]
    BY DEF OpenEdits
  <1> QED
    BY <1>1, <1>2

-----------------------------------------------------------------------------
(* Steps *)

Stutter == UNCHANGED Promise!vars

\* Saving a draft is invisible: the promise is about tickets, not payloads.
LEMMA SaveDraftStep ==
  ASSUME IInv, NEW d \in DraftId, NEW p \in Requests, SaveDraft(d, p)
  PROVE  Stutter
  <1> DEFINE row == [Unused EXCEPT !.state = "live", !.draft = d, !.payload = p]
  <1>1. CASE \E c \in Rows(d) : copies' = [copies EXCEPT ![c].payload = p]
    <2>1. UNCHANGED OpenEdits
      BY <1>1, OpenKept DEF Live, IInv, TypeOK, CopyRow
    <2> QED
      BY <2>1, FormalSame, RevocableSame DEF SaveDraft, Stutter, Promise!vars
  <1>2. CASE \E c \in Copies : Free(c) /\ copies' = [copies EXCEPT ![c] = row]
    <2>1. PICK c \in Copies : Free(c) /\ copies' = [copies EXCEPT ![c] = row]
      BY <1>2
    <2>2. row.entry = None
      BY RowTypes DEF CopyRow, Unused
    <2>3. copies'[c] = row
      BY <2>1 DEF IInv, TypeOK
    <2>4. OpenEdits[c] = None /\ OpenEdits'[c] = None
      BY <2>1, <2>2, <2>3 DEF OpenEdits, Free, Live
    <2>5. UNCHANGED OpenEdits
      BY <2>1, <2>4, OpenKept DEF Live, IInv, TypeOK
    <2> QED
      BY <2>5, FormalSame, RevocableSame DEF SaveDraft, Stutter, Promise!vars
  <1> QED
    BY <1>1, <1>2 DEF SaveDraft

LEMMA SaveEditStep ==
  ASSUME IInv, NEW c \in Copies, NEW p \in Requests, SaveEdit(c, p)
  PROVE  Stutter
  <1>1. UNCHANGED OpenEdits
    BY OpenKept DEF SaveEdit, Live, IInv, TypeOK, CopyRow
  <1> QED
    BY <1>1, FormalSame, RevocableSame DEF SaveEdit, Stutter, Promise!vars

\* Storing another base revision asks for the check or for none.
LEMMA PatchStep ==
  ASSUME IInv, IInv', NEW c \in Copies, NEW p \in Requests, NEW base \in 0..MaxRevision,
         PatchCopy(c, p, base)
  PROVE  Stutter \/ \E b \in BOOLEAN : Promise!Check(c, b)
  <1>1. UNCHANGED <<Formal, Revocable>>
    BY FormalSame, RevocableSame DEF PatchCopy
  <1>2. CASE copies[c].entry = None
    <2>1. OpenEdits[c] = None /\ OpenEdits'[c] = None
      BY <1>2 DEF PatchCopy, OpenEdits, Live, IInv, TypeOK, CopyRow
    <2>2. UNCHANGED OpenEdits
      BY <2>1, OpenKept DEF PatchCopy, Live, IInv, TypeOK, CopyRow
    <2> QED
      BY <1>1, <2>2 DEF Stutter, Promise!vars
  <1>3. CASE copies[c].entry # None
    <2> DEFINE b == base > 0
    <2>1. /\ OpenEdits[c] # None
          /\ OpenEdits[c] = [entry |-> copies[c].entry, seen |-> copies[c].seen,
                             checked |-> copies[c].base > 0]
      BY <1>3, MappedValues DEF PatchCopy, Mapped
    <2>2. OpenEdits'[c] = [entry |-> copies[c].entry, seen |-> copies[c].seen, checked |-> b]
      BY <1>3 DEF PatchCopy, OpenEdits, Live, IInv, TypeOK, CopyRow
    <2>3. OpenEdits' = [OpenEdits EXCEPT ![c] = OpenEdits'[c]]
      BY OpenWrite DEF PatchCopy, IInv, TypeOK
    <2>4. OpenEdits' = [OpenEdits EXCEPT ![c].checked = b]
      BY <2>1, <2>2, <2>3
    <2>5. b \in BOOLEAN
      OBVIOUS
    <2> QED
      BY <1>1, <2>1, <2>4, <2>5 DEF Promise!Check
  <1> QED
    BY <1>2, <1>3

\* A row that goes is a ticket dropped.
LEMMA DropTicket ==
  ASSUME IInv, NEW c \in Copies, copies' = [copies EXCEPT ![c] = Dropped(c)]
  PROVE  OpenEdits' = [OpenEdits EXCEPT ![c] = None]
  <1>1. OpenEdits'[c] = None
    BY DroppedType DEF OpenEdits, Live, IInv, TypeOK
  <1> QED
    BY <1>1, OpenWrite DEF IInv, TypeOK

LEMMA DeleteStep ==
  ASSUME IInv, NEW c \in Copies, DeleteCopy(c)
  PROVE  Stutter \/ Promise!Drop(c)
  <1>1. UNCHANGED <<Formal, Revocable>> /\ OpenEdits' = [OpenEdits EXCEPT ![c] = None]
    BY FormalSame, RevocableSame, DropTicket DEF DeleteCopy
  <1>2. CASE OpenEdits[c] = None
    BY <1>1, <1>2 DEF Stutter, Promise!vars, OpenEdits
  <1>3. CASE OpenEdits[c] # None
    BY <1>1, <1>3 DEF Promise!Drop
  <1> QED
    BY <1>2, <1>3

\* The ticket of a fresh edit copy is checked and remembers the current text.
LEMMA FreshTicket ==
  ASSUME IInv, Numbered, NEW e \in Entries, NEW c \in Copies, Exists(e), Free(c),
         copies'[c] = EditCopy(e, c)
  PROVE  /\ OpenEdits[c] = None /\ Promise!Exists(e)
         /\ OpenEdits'[c] = [entry |-> e, seen |-> Formal[e].text, checked |-> TRUE]
  <1>1. e # None /\ entries[e].revision > 0
    BY ConstantsAssumption DEF Numbered
  <1>2. OpenEdits[c] = None
    BY DEF OpenEdits, Free, Live
  <1>3. Formal[e].text = entries[e].text /\ Promise!Exists(e)
    <2>1. /\ Formal[e] = [status |-> entries[e].status, text |-> entries[e].text]
          /\ Formal[e] # None
      BY MappedValues DEF Mapped
    <2> QED
      BY <2>1 DEF Promise!Exists
  <1>4. OpenEdits'[c] = [entry |-> e, seen |-> entries[e].text,
                         checked |-> entries[e].revision > 0]
    BY <1>1 DEF OpenEdits, Live, EditCopy
  <1> QED
    BY <1>1, <1>2, <1>3, <1>4

LEMMA OpenStep ==
  ASSUME IInv, Numbered, NEW e \in Entries, OpenEdit(e)
  PROVE  \E c \in Copies : Promise!Open(e, c)
  <1>1. PICK c \in Copies : Free(c) /\ copies' = [copies EXCEPT ![c] = EditCopy(e, c)]
    BY DEF OpenEdit
  <1>2. /\ OpenEdits[c] = None /\ Promise!Exists(e)
        /\ OpenEdits'[c] = [entry |-> e, seen |-> Formal[e].text, checked |-> TRUE]
    BY <1>1, FreshTicket DEF OpenEdit, IInv, TypeOK
  <1>3. \A k \in Copies : k # c => OpenEdits'[k] = OpenEdits[k]
    BY <1>1 DEF OpenEdits, Live, IInv, TypeOK
  <1>4. OpenEdits' = [j \in Copies |->
          IF j = c THEN [entry |-> e, seen |-> Formal[e].text, checked |-> TRUE]
          ELSE IF j \in {} THEN None ELSE OpenEdits[j]]
    BY <1>2, <1>3 DEF OpenEdits
  <1>5. UNCHANGED <<Formal, Revocable>>
    BY FormalSame, RevocableSame DEF OpenEdit
  <1> QED
    BY <1>2, <1>4, <1>5 DEF Promise!Open

\* Discarding drops the tickets of the entry, and only those.
LEMMA DiscardStep ==
  ASSUME IInv, Numbered, NEW e \in Entries, DiscardEdit(e)
  PROVE  \E c \in Copies : Promise!Open(e, c)
  <1>1. PICK c \in Copies :
          /\ Free(c)
          /\ copies' = [k \in Copies |-> IF k = c THEN EditCopy(e, c)
                                         ELSE IF k \in Discarded(e) THEN Dropped(k)
                                         ELSE copies[k]]
    BY DEF DiscardEdit
  <1>2. /\ OpenEdits[c] = None /\ Promise!Exists(e)
        /\ OpenEdits'[c] = [entry |-> e, seen |-> Formal[e].text, checked |-> TRUE]
    BY <1>1, FreshTicket DEF DiscardEdit
  <1>3. ASSUME NEW k \in Copies, k # c, k \in CopiesOf(e)
        PROVE  OpenEdits'[k] = None
    BY <1>1, <1>3, DroppedType DEF OpenEdits, Live, Discarded, IInv
  <1>4. ASSUME NEW k \in Copies, k # c, k \notin CopiesOf(e)
        PROVE  OpenEdits'[k] = OpenEdits[k]
    <2>1. CASE k \in Discarded(e)
      BY <1>1, <1>4, <2>1, DroppedType DEF OpenEdits, Live, Discarded, IInv
    <2>2. CASE k \notin Discarded(e)
      BY <1>1, <1>4, <2>2 DEF OpenEdits, Live
    <2> QED
      BY <2>1, <2>2
  <1>5. Promise!OpenOn(e) = CopiesOf(e)
    BY MappedValues DEF Mapped
  <1>6. OpenEdits' = [j \in Copies |->
          IF j = c THEN [entry |-> e, seen |-> Formal[e].text, checked |-> TRUE]
          ELSE IF j \in Promise!OpenOn(e) THEN None ELSE OpenEdits[j]]
    BY <1>2, <1>3, <1>4, <1>5 DEF OpenEdits
  <1>7. UNCHANGED <<Formal, Revocable>>
    BY FormalSame, RevocableSame DEF DiscardEdit
  <1> QED
    BY <1>2, <1>6, <1>7 DEF Promise!Open

\* The entry of a save gets the status and the text of its payload.
LEMMA CommitNewStep ==
  ASSUME IInv, IInv', NEW c \in Copies, NEW e \in Entries, NEW p \in Payload,
         CommitNew(c, e, p)
  PROVE  \E r \in Promise!Register : Promise!Create(e, r)
  <1>1. /\ ~Exists(e) /\ Exists(e)'
    BY RowTypes DEF CommitNew, Exists, Payload, Statuses, Shown, IInv, TypeOK, EntryRow
  <1>2. ~Promise!Exists(e)
    BY <1>1, MappedValues DEF Mapped, Promise!Exists
  <1>3. Formal'[e] \in Promise!Register
    <2>1. Mapped'
      BY MappedValues, PTL
    <2> QED
      BY <1>1, <2>1 DEF Mapped, Promise!Register
  <1>4. Formal' = [Formal EXCEPT ![e] = Formal'[e]]
    BY FormalWrite DEF CommitNew, IInv, TypeOK
  <1>5. UNCHANGED OpenEdits
    <2>1. OpenEdits[c] = None /\ OpenEdits' = [OpenEdits EXCEPT ![c] = None]
      BY DropTicket DEF CommitNew, OpenEdits
    <2> QED
      BY <2>1 DEF OpenEdits
  <1>6. Revocable' \in {Revocable, Revocable \cup {e}}
    BY DEF CommitNew, Revocable
  <1> QED
    BY <1>2, <1>3, <1>4, <1>5, <1>6 DEF Promise!Create

\* A commit redeems the ticket of its draft; a checked one finds the text it
\* remembers.
LEMMA CommitEditStep ==
  ASSUME IInv, IInv', NEW c \in Copies, NEW p \in Payload, NEW base \in 0..MaxRevision,
         CommitEdit(c, p, base)
  PROVE  \E r \in Promise!Register : Promise!Save(c, r)
  <1>0. PICK e \in Entries : e = copies[c].entry
    BY DEF CommitEdit, IInv, TypeOK, CopyRow
  <1>1. /\ e \in Entries /\ Exists(e) /\ Live(c) /\ e # None
        /\ OpenEdits[c] # None /\ OpenEdits[c].entry = e
        /\ OpenEdits[c].seen = copies[c].seen
        /\ OpenEdits[c] = [entry |-> e, seen |-> copies[c].seen,
                           checked |-> copies[c].base > 0]
    BY <1>0, MappedValues, ConstantsAssumption DEF CommitEdit, Mapped
  <1>2. Exists(e)'
    <2>1. entries'[e].status = p.status
      BY <1>0 DEF CommitEdit, IInv, TypeOK, EntryRow
    <2> QED
      BY <2>1 DEF Exists, Payload, Statuses, Shown
  <1>3. Formal'[e] \in Promise!Register
    <2>1. Mapped'
      BY MappedValues, PTL
    <2> QED
      BY <1>1, <1>2, <2>1 DEF Mapped, Promise!Register
  <1>4. Formal' = [Formal EXCEPT ![e] = Formal'[e]]
    BY <1>0, FormalWrite DEF CommitEdit, IInv, TypeOK
  <1>5. OpenEdits' = [OpenEdits EXCEPT ![c] = None]
    BY DropTicket DEF CommitEdit
  <1>6. OpenEdits[c].checked => Formal[e].text = OpenEdits[c].seen
    <2>1. OpenEdits[c].checked <=> copies[c].base > 0
      <3>1. OpenEdits[c].checked = (copies[c].base > 0)
        BY <1>1
      <3> QED
        BY <3>1
    <2>2. copies[c].base > 0 => entries[e].text = copies[c].seen
      BY <1>0, CommitChecked
    <2>3. Formal[e].text = entries[e].text
      <3>1. Formal[e] = [status |-> entries[e].status, text |-> entries[e].text]
        BY <1>1, MappedValues DEF Mapped
      <3> QED
        BY <3>1
    <2> QED
      BY <1>1, <2>1, <2>2, <2>3
  <1>7. UNCHANGED Revocable
    BY DEF CommitEdit, Revocable
  <1> QED
    BY <1>0, <1>1, <1>3, <1>4, <1>5, <1>6, <1>7 DEF Promise!Save

\* Restoring a version replaces the text and keeps the status.
LEMMA RestoreVersionStep ==
  ASSUME IInv, IInv', NEW e \in Entries, NEW n \in DOMAIN versions[e], RestoreVersion(e, n)
  PROVE  \E text \in Texts : Promise!Replace(e, text)
  <1>1. Exists(e) /\ versions[e][n] \in Texts
    BY DEF RestoreVersion, IInv, TypeOK
  <1>2. /\ entries'[e].status = entries[e].status
        /\ entries'[e].text = versions[e][n]
    BY DEF RestoreVersion, IInv, TypeOK, EntryRow
  <1>3. /\ Formal[e] = [status |-> entries[e].status, text |-> entries[e].text]
        /\ Formal[e] # None
    BY <1>1, MappedValues DEF Mapped
  <1>4. Formal'[e] = [status |-> entries[e].status, text |-> versions[e][n]]
    BY <1>1, <1>2 DEF Formal, Exists
  <1>5. Formal' = [Formal EXCEPT ![e].text = versions[e][n]]
    <2>1. Formal' = [Formal EXCEPT ![e] = Formal'[e]]
      BY FormalWrite DEF RestoreVersion, IInv, TypeOK
    <2> QED
      BY <1>3, <1>4, <2>1 DEF Formal
  <1>6. UNCHANGED <<OpenEdits, Revocable>>
    BY OpenSame, RevocableSame DEF RestoreVersion
  <1> QED
    BY <1>1, <1>3, <1>5, <1>6 DEF Promise!Replace, Promise!Exists

\* A step that only changes the status of an entry shows it differently.
LEMMA ShowStep ==
  ASSUME IInv, NEW e \in Entries, NEW s \in Statuses, Exists(e),
         \A d \in Entries : d # e => entries'[d] = entries[d],
         entries'[e].status = s, entries'[e].text = entries[e].text,
         UNCHANGED <<OpenEdits, Revocable>>
  PROVE  Promise!Show(e, s)
  <1>1. /\ Formal[e] = [status |-> entries[e].status, text |-> entries[e].text]
        /\ Formal[e] # None
    BY MappedValues DEF Mapped
  <1>2. s \notin {"unborn", "gone"}
    BY DEF Statuses, Shown
  <1>3. Formal'[e] = [status |-> s, text |-> entries[e].text]
    BY <1>2 DEF Formal, Exists
  <1>4. Formal' = [Formal EXCEPT ![e].status = s]
    <2>1. Formal' = [Formal EXCEPT ![e] = Formal'[e]]
      BY FormalWrite
    <2> QED
      BY <1>1, <1>3, <2>1 DEF Formal
  <1> QED
    BY <1>1, <1>4 DEF Promise!Show, Promise!Exists

LEMMA TrashSteps ==
  ASSUME IInv, NEW e \in Entries, TrashEntry(e) \/ RestoreEntry(e)
  PROVE  \E s \in Statuses : Promise!Show(e, s)
  <1>1. UNCHANGED <<OpenEdits, Revocable>>
    BY OpenSame, RevocableSame DEF TrashEntry, RestoreEntry
  <1>2. CASE TrashEntry(e)
    <2>1. /\ Exists(e) /\ \A d \in Entries : d # e => entries'[d] = entries[d]
          /\ entries'[e].status = "trashed" /\ entries'[e].text = entries[e].text
      BY <1>2 DEF TrashEntry, IInv, TypeOK, EntryRow
    <2> QED
      BY <1>1, <2>1, ShowStep DEF Statuses
  <1>3. CASE RestoreEntry(e)
    <2>1. /\ Exists(e) /\ \A d \in Entries : d # e => entries'[d] = entries[d]
          /\ entries'[e].status = RestoredStatus(e)
          /\ entries'[e].text = entries[e].text
      BY <1>3 DEF RestoreEntry, Exists, IInv, TypeOK, EntryRow
    <2>2. RestoredStatus(e) \in Statuses
      BY DEF RestoredStatus, IInv, TypeOK, EntryRow, Statuses
    <2> QED
      BY <1>1, <2>1, <2>2, ShowStep
  <1> QED
    BY <1>2, <1>3

LEMMA RetentionStep ==
  ASSUME IInv, NEW e \in Entries, RetentionExpires(e)
  PROVE  Stutter
  <1>1. \A d \in Entries : /\ entries'[d].status = entries[d].status
                           /\ entries'[d].text = entries[d].text
    BY DEF RetentionExpires, IInv, TypeOK, EntryRow
  <1>2. UNCHANGED Formal
    BY <1>1 DEF Formal, Exists
  <1> QED
    BY <1>2, OpenSame, RevocableSame DEF RetentionExpires, Stutter, Promise!vars

\* An entry vanishes with its undo tokens, and no ticket points at it.
LEMMA EraseStep ==
  ASSUME IInv, NEW e \in Entries, Exists(e), Erase(e),
         entries[e].status = "trashed" \/ e \in Revocable
  PROVE  Promise!Vanish(e)
  <1>1. /\ Formal[e] = [status |-> entries[e].status, text |-> entries[e].text]
        /\ Formal[e] # None /\ Promise!OpenOn(e) = {}
    BY MappedValues DEF Mapped, Erase, Unreferenced
  <1>2. Formal[e].status = "trashed" \/ e \in Revocable
    BY <1>1
  <1>3. Formal' = [Formal EXCEPT ![e] = None]
    <2>1. [Unborn EXCEPT !.status = "gone"].status = "gone"
      BY RowTypes DEF EntryRow
    <2>2. Formal'[e] = None
      BY <2>1 DEF Erase, Formal, Exists, IInv, TypeOK
    <2>3. Formal' = [Formal EXCEPT ![e] = Formal'[e]]
      BY FormalWrite DEF Erase, IInv, TypeOK
    <2> QED
      BY <2>2, <2>3
  <1>4. Revocable' = Revocable \ {e}
    BY DEF Erase, Revocable
  <1>5. UNCHANGED OpenEdits
    BY OpenSame DEF Erase
  <1> QED
    BY <1>1, <1>2, <1>3, <1>4, <1>5 DEF Promise!Vanish, Promise!Exists

LEMMA VanishSteps ==
  ASSUME IInv,
         \/ \E e \in Entries : PurgeEntry(e)
         \/ \E t \in tokens : UndoCreate(t)
  PROVE  \E e \in Entries : Promise!Vanish(e)
  <1>1. ASSUME NEW e \in Entries, PurgeEntry(e)
        PROVE  Promise!Vanish(e)
    BY <1>1, EraseStep DEF PurgeEntry, Exists
  <1>2. ASSUME NEW t \in tokens, UndoCreate(t)
        PROVE  t.entry \in Entries /\ Promise!Vanish(t.entry)
    <2>1. t.entry \in Entries /\ Exists(t.entry) /\ t.entry \in Revocable
      BY <1>2 DEF UndoCreate, Revocable, IInv, TypeOK, Token
    <2> QED
      BY <1>2, <2>1, EraseStep DEF UndoCreate
  <1> QED
    BY <1>1, <1>2

\* Undoing a save puts the status back, with or without a new ticket.
LEMMA UndoEditStep ==
  ASSUME IInv, NEW t \in tokens, UndoEdit(t)
  PROVE  \/ \E e \in Entries, s \in Statuses : Promise!Show(e, s)
         \/ \E e \in Entries, s \in Statuses, c \in Copies : Promise!Reopen(e, s, c)
  <1>1. PICK e \in Entries : e = t.entry
    BY DEF IInv, TypeOK, Token
  <1>2. /\ Exists(e) /\ t.prev \in Statuses /\ e # None
        /\ \A d \in Entries : d # e => entries'[d] = entries[d]
        /\ entries'[e].status = t.prev /\ entries'[e].text = entries[e].text
    BY <1>1, ConstantsAssumption DEF UndoEdit, IInv, TypeOK, Token, EntryRow
  <1>3. UNCHANGED Revocable
    BY DEF UndoEdit, Revocable
  <1>4. PICK c \in Copies : UndoCopy(t, c)
    BY DEF UndoEdit
  <1>5. CASE Rows(UndoDraft(t.entry)) # {}
    <2>1. /\ c \in Rows(UndoDraft(t.entry))
          /\ copies' = [copies EXCEPT ![c].payload = t.payload, ![c].base = 0]
      BY <1>4, <1>5 DEF UndoCopy
    <2>2. copies[c].base = 0
      <3>1. copies[c].draft.type # "edit" /\ Live(c)
        BY <2>1 DEF Rows, UndoDraft
      <3> QED
        BY <3>1 DEF IInv, AllLinked, Linked
    <2>3. UNCHANGED OpenEdits
      BY <2>1, <2>2, OpenKept DEF Live, IInv, TypeOK, CopyRow
    <2> QED
      BY <1>2, <1>3, <2>3, ShowStep
  <1>6. CASE Rows(UndoDraft(t.entry)) = {}
    <2> DEFINE row == [Unused EXCEPT !.state = "live", !.draft = UndoDraft(t.entry),
                                     !.entry = t.entry, !.seen = entries[t.entry].text,
                                     !.payload = t.payload]
    <2>1. Free(c) /\ copies' = [copies EXCEPT ![c] = row]
      BY <1>4, <1>6 DEF UndoCopy
    <2>2. copies'[c] = row
      BY <2>1 DEF IInv, TypeOK
    <2>3. row.state = "live" /\ row.entry = e /\ row.seen = entries[e].text /\ row.base = 0
      BY <1>1, RowTypes DEF CopyRow, Unused
    <2>4. OpenEdits[c] = None
      BY <2>1 DEF OpenEdits, Free, Live
    <2>5. /\ Formal[e] = [status |-> entries[e].status, text |-> entries[e].text]
          /\ Formal[e] # None
      BY <1>2, MappedValues DEF Mapped
    <2>6. OpenEdits'[c] = [entry |-> e, seen |-> Formal[e].text, checked |-> FALSE]
      <3>1. OpenEdits'[c] = [entry |-> e, seen |-> entries[e].text, checked |-> FALSE]
        <4>1. (copies'[c].base > 0) = FALSE
          BY <2>2, <2>3
        <4> QED
          BY <1>2, <2>2, <2>3, <4>1 DEF OpenEdits, Live
      <3>2. Formal[e].text = entries[e].text
        BY <2>5
      <3> QED
        BY <3>1, <3>2
    <2>7. OpenEdits' = [OpenEdits EXCEPT ![c] = OpenEdits'[c]]
      BY <2>1, OpenWrite DEF IInv, TypeOK
    <2>8. Formal' = [Formal EXCEPT ![e].status = t.prev]
      <3>1. Formal'[e] = [status |-> t.prev, text |-> entries[e].text]
        BY <1>2 DEF Formal, Exists, Statuses, Shown
      <3>2. Formal' = [Formal EXCEPT ![e] = Formal'[e]]
        BY <1>2, FormalWrite
      <3> QED
        BY <2>5, <3>1, <3>2 DEF Formal
    <2>9. Promise!Reopen(e, t.prev, c)
      BY <1>3, <2>4, <2>5, <2>6, <2>7, <2>8 DEF Promise!Reopen, Promise!Exists
    <2> QED
      BY <1>2, <2>9
  <1> QED
    BY <1>5, <1>6

\* With its last undo token the creation of an entry is settled.
LEMMA ExpireStep ==
  ASSUME IInv, NEW t \in tokens, TokenExpires(t)
  PROVE  Stutter \/ \E e \in Entries : Promise!Settle(e)
  <1>1. t.entry \in Entries
    BY DEF IInv, TypeOK, Token
  <1>2. UNCHANGED <<Formal, OpenEdits>>
    BY FormalSame, OpenSame DEF TokenExpires
  <1>3. Revocable' = Revocable \/ Revocable' = Revocable \ {t.entry}
    BY DEF TokenExpires, Revocable
  <1> QED
    BY <1>1, <1>2, <1>3 DEF Stutter, Promise!vars, Promise!Settle

\* Every step of the handlers is a step of the promise or a stutter.
LEMMA PromiseStep ==
  IInv /\ IInv' /\ Numbered /\ [Next]_vars => [Promise!Next]_(Promise!vars)
  <1> SUFFICES ASSUME IInv, IInv', Numbered, [Next]_vars
               PROVE  Promise!Next \/ Stutter
    BY DEF Stutter
  <1>1. CASE \/ \E d \in Drafts, p \in Requests : SaveDraft(NewDraft(d), p)
             \/ \E e \in Entries, p \in Requests : SaveDraft(UndoDraft(e), p)
             \/ \E c \in Copies, p \in Requests : SaveEdit(c, p)
             \/ \E e \in Entries : RetentionExpires(e)
    <2>1. ASSUME NEW d \in Drafts, NEW p \in Requests, SaveDraft(NewDraft(d), p)
          PROVE  Stutter
      BY <2>1, RowTypes, SaveDraftStep
    <2>2. ASSUME NEW e \in Entries, NEW p \in Requests, SaveDraft(UndoDraft(e), p)
          PROVE  Stutter
      BY <2>2, RowTypes, SaveDraftStep
    <2> QED
      BY <1>1, <2>1, <2>2, SaveEditStep, RetentionStep
  <1>2. CASE \/ \E c \in Copies, p \in Requests, base \in 0..MaxRevision :
                  PatchCopy(c, p, base)
             \/ \E c \in Copies : DeleteCopy(c)
    BY <1>2, PatchStep, DeleteStep DEF Promise!Next
  <1>3. CASE \E e \in Entries : OpenEdit(e) \/ DiscardEdit(e)
    BY <1>3, OpenStep, DiscardStep DEF Promise!Next
  <1>4. CASE \E c \in Copies, e \in Entries, p \in Payload : CommitNew(c, e, p)
    BY <1>4, CommitNewStep DEF Promise!Next
  <1>5. CASE \E c \in Copies, p \in Payload, base \in 0..MaxRevision : CommitEdit(c, p, base)
    BY <1>5, CommitEditStep DEF Promise!Next
  <1>6. CASE \E e \in Entries : \E n \in DOMAIN versions[e] : RestoreVersion(e, n)
    BY <1>6, RestoreVersionStep DEF Promise!Next
  <1>7. CASE \E e \in Entries : TrashEntry(e) \/ RestoreEntry(e)
    BY <1>7, TrashSteps DEF Promise!Next
  <1>8. CASE \/ \E e \in Entries : PurgeEntry(e)
             \/ \E t \in tokens : UndoCreate(t)
    BY <1>8, VanishSteps DEF Promise!Next
  <1>9. CASE \E t \in tokens : UndoEdit(t)
    BY <1>9, UndoEditStep DEF Promise!Next
  <1>10. CASE \E t \in tokens : TokenExpires(t)
    BY <1>10, ExpireStep DEF Promise!Next
  <1>11. CASE UNCHANGED vars
    BY <1>11, FormalSame, OpenSame, RevocableSame DEF vars, Stutter, Promise!vars
  <1> QED
    BY <1>1, <1>2, <1>3, <1>4, <1>5, <1>6, <1>7, <1>8, <1>9, <1>10, <1>11 DEF Next

\* The working-copy protocol implements the promise it makes to editors.
THEOREM PromiseKept == Spec => KeepsPromise
  <1>1. Init => Promise!Init
    <2>1. ASSUME Init
          PROVE  /\ \A e \in Entries : ~Exists(e)
                 /\ \A c \in Copies : ~Live(c)
                 /\ tokens = {}
      BY <2>1 DEF Init, Exists, Live, Unborn, Unused
    <2> QED
      BY <2>1 DEF Promise!Init, Formal, OpenEdits, Revocable
  <1>2. Init => Numbered
    BY DEF Init, Numbered, Exists, Unborn
  <1>3. IInv /\ IInv' /\ Numbered /\ [Next]_vars => Numbered'
    <2>1. Numbered /\ UNCHANGED vars => Numbered'
      BY DEF Numbered, vars, Exists
    <2> QED
      BY <2>1, NumberedStep DEF IInv
  <1>4. Spec => []Numbered
    BY <1>2, <1>3, Inductive, PTL DEF Spec
  <1> QED
    BY <1>1, <1>4, Inductive, PromiseStep, PTL DEF Spec, KeepsPromise, Promise!Spec

-----------------------------------------------------------------------------
(* What a step does to the working copies *)

\* A row stays what it is, or is retired.
Ages(k) ==
  /\ copies'[k].draft = copies[k].draft
  /\ Live(k)' => Live(k) /\ copies'[k].entry = copies[k].entry
  /\ copies[k].state = "dropped" => copies'[k].state = "dropped"

\* A row is made with a draft id of the browser or of an undo, which no other
\* row has.
Inserts(c) ==
  /\ Free(c) /\ copies'[c].draft.type # "edit" /\ Rows(copies'[c].draft) = {}
  /\ \A k \in Copies \ {c} : Ages(k)

\* A row is made for a new edit of an entry, whose other rows are gone then.
Opens(e, c) ==
  /\ Free(c) /\ copies'[c].draft = EditDraft(e, c) /\ copies'[c].entry = e
  /\ \A k \in Copies \ {c} : Ages(k) /\ (Live(k)' => copies[k].entry # e)

CopiesAge == \A k \in Copies : Ages(k)

\* Retiring one row leaves the others alone.
LEMMA RetireOne ==
  ASSUME TypeOK, NEW c \in Copies, Live(c), copies' = [copies EXCEPT ![c] = Dropped(c)]
  PROVE  CopiesAge
  <1>1. Dropped(c).state = "dropped" /\ Dropped(c).draft = copies[c].draft
    BY RowTypes DEF Dropped, CopyRow
  <1> QED
    BY <1>1 DEF CopiesAge, Ages, Live, TypeOK

\* A new payload or base revision leaves every row what it is.
LEMMA RewriteOne ==
  ASSUME TypeOK, NEW c \in Copies, NEW p,
         \/ copies' = [copies EXCEPT ![c].payload = p]
         \/ \E base : copies' = [copies EXCEPT ![c].payload = p, ![c].base = base]
  PROVE  CopiesAge
  BY DEF CopiesAge, Ages, Live, TypeOK, CopyRow

\* A row written over an unused one changes no other.
LEMMA InsertOne ==
  ASSUME TypeOK, NEW c \in Copies, NEW row \in CopyRow, Free(c), row.draft.type # "edit",
         Rows(row.draft) = {}, copies' = [copies EXCEPT ![c] = row]
  PROVE  Inserts(c)
  BY DEF Inserts, Ages, Live, TypeOK

\* Every step retires or keeps rows and makes at most one.
LEMMA CopySteps ==
  ASSUME TypeOK, Next
  PROVE  \/ CopiesAge
         \/ \E c \in Copies : Inserts(c)
         \/ \E e \in Entries, c \in Copies : Opens(e, c)
  <1> DEFINE Goal == \/ CopiesAge
                     \/ \E c \in Copies : Inserts(c)
                     \/ \E e \in Entries, c \in Copies : Opens(e, c)
  <1>1. ASSUME NEW d \in DraftId, NEW p \in Requests, SaveDraft(d, p)
        PROVE  Goal
    <2>1. CASE \E c \in Rows(d) : copies' = [copies EXCEPT ![c].payload = p]
      BY <2>1, RewriteOne DEF Rows
    <2>2. ASSUME NEW c \in Copies, Free(c), Rows(d) = {},
                 copies' = [copies EXCEPT ![c] =
                   [Unused EXCEPT !.state = "live", !.draft = d, !.payload = p]]
          PROVE  Goal
      <3> DEFINE row == [Unused EXCEPT !.state = "live", !.draft = d, !.payload = p]
      <3>1. row \in CopyRow /\ row.draft = d
        BY RowTypes, ConstantsAssumption DEF CopyRow
      <3>2. d.type # "edit"
        BY <1>1 DEF SaveDraft
      <3> QED
        BY <2>2, <3>1, <3>2, InsertOne
    <2> QED
      BY <1>1, <2>1, <2>2 DEF SaveDraft
  <1>2. ASSUME NEW c \in Copies, NEW p \in Requests, SaveEdit(c, p)
        PROVE  Goal
    BY <1>2, RewriteOne DEF SaveEdit
  <1>3. ASSUME NEW c \in Copies, NEW p \in Requests, NEW base \in 0..MaxRevision,
               PatchCopy(c, p, base)
        PROVE  Goal
    BY <1>3, RewriteOne DEF PatchCopy
  <1>4. ASSUME NEW c \in Copies, Live(c), copies' = [copies EXCEPT ![c] = Dropped(c)]
        PROVE  Goal
    BY <1>4, RetireOne
  <1>5. ASSUME NEW e \in Entries, OpenEdit(e)
        PROVE  Goal
    <2>1. PICK c \in Copies : Free(c) /\ copies' = [copies EXCEPT ![c] = EditCopy(e, c)]
      BY <1>5 DEF OpenEdit
    <2>2. copies'[c].draft = EditDraft(e, c) /\ copies'[c].entry = e
      BY <2>1 DEF TypeOK, EditCopy
    <2>3. \A k \in Copies \ {c} : Ages(k) /\ (Live(k)' => copies[k].entry # e)
      BY <1>5, <2>1 DEF OpenEdit, CopiesOf, Ages, Live, TypeOK
    <2> QED
      BY <2>1, <2>2, <2>3 DEF Opens
  <1>6. ASSUME NEW e \in Entries, DiscardEdit(e)
        PROVE  Goal
    <2>1. PICK c \in Copies :
            /\ Free(c)
            /\ copies' = [k \in Copies |-> IF k = c THEN EditCopy(e, c)
                                           ELSE IF k \in Discarded(e) THEN Dropped(k)
                                           ELSE copies[k]]
      BY <1>6 DEF DiscardEdit
    <2>2. copies'[c].draft = EditDraft(e, c) /\ copies'[c].entry = e
      BY <2>1 DEF EditCopy
    <2>3. ASSUME NEW k \in Copies \ {c}
          PROVE  Ages(k) /\ (Live(k)' => copies[k].entry # e)
      <3>1. Dropped(k).state = "dropped" /\ Dropped(k).draft = copies[k].draft
        BY RowTypes DEF Dropped, CopyRow
      <3>2. CASE k \in Discarded(e)
        <4>1. copies'[k] = Dropped(k)
          BY <2>1, <3>2
        <4> QED
          BY <3>1, <4>1 DEF Ages, Live
      <3>3. CASE k \notin Discarded(e)
        <4>1. copies'[k] = copies[k]
          BY <2>1, <3>3
        <4>2. Live(k) => copies[k].entry # e
          BY <3>3 DEF Discarded, CopiesOf
        <4> QED
          BY <4>1, <4>2 DEF Ages, Live
      <3> QED
        BY <3>2, <3>3
    <2> QED
      BY <2>1, <2>2, <2>3 DEF Opens
  <1>7. ASSUME NEW t \in tokens, UndoEdit(t)
        PROVE  Goal
    <2> DEFINE d == UndoDraft(t.entry)
    <2>1. t \in Token /\ d \in DraftId /\ d.type = "undo"
      BY RowTypes DEF TypeOK, Token, UndoDraft
    <2>2. PICK c \in Copies : UndoCopy(t, c)
      BY <1>7 DEF UndoEdit
    <2>3. CASE Rows(d) # {}
      BY <2>2, <2>3, RewriteOne DEF UndoCopy
    <2>4. CASE Rows(d) = {}
      <3> DEFINE row == [Unused EXCEPT !.state = "live", !.draft = d, !.entry = t.entry,
                                       !.seen = entries[t.entry].text, !.payload = t.payload]
      <3>1. Free(c) /\ copies' = [copies EXCEPT ![c] = row]
        BY <2>2, <2>4 DEF UndoCopy
      <3>2. row \in CopyRow /\ row.draft = d
        BY <2>1, RowTypes DEF CopyRow, TypeOK, EntryRow, Token
      <3> QED
        BY <2>1, <2>4, <3>1, <3>2, InsertOne
    <2> QED
      BY <2>3, <2>4
  <1>8. ASSUME UNCHANGED copies
        PROVE  Goal
    BY <1>8 DEF CopiesAge, Ages, Live
  <1>9. CASE \/ \E d \in Drafts, p \in Requests : SaveDraft(NewDraft(d), p)
             \/ \E e \in Entries, p \in Requests : SaveDraft(UndoDraft(e), p)
    BY <1>1, <1>9, RowTypes
  <1>10. CASE \/ \E c \in Copies : DeleteCopy(c)
              \/ \E c \in Copies, e \in Entries, p \in Payload : CommitNew(c, e, p)
              \/ \E c \in Copies, p \in Payload, base \in 0..MaxRevision : CommitEdit(c, p, base)
    <2>1. ASSUME NEW c \in Copies, DeleteCopy(c)
          PROVE  Goal
      BY <1>4, <2>1 DEF DeleteCopy
    <2>2. ASSUME NEW c \in Copies, NEW e \in Entries, NEW p \in Payload, CommitNew(c, e, p)
          PROVE  Goal
      BY <1>4, <2>2 DEF CommitNew
    <2>3. ASSUME NEW c \in Copies, NEW p \in Payload, NEW base \in 0..MaxRevision,
                 CommitEdit(c, p, base)
          PROVE  Goal
      BY <1>4, <2>3 DEF CommitEdit
    <2> QED
      BY <1>10, <2>1, <2>2, <2>3
  <1>11. CASE \/ \E e \in Entries : \E n \in DOMAIN versions[e] : RestoreVersion(e, n)
              \/ \E e \in Entries : TrashEntry(e)
              \/ \E e \in Entries : RestoreEntry(e)
              \/ \E e \in Entries : RetentionExpires(e)
              \/ \E e \in Entries : PurgeEntry(e)
              \/ \E t \in tokens : UndoCreate(t)
              \/ \E t \in tokens : TokenExpires(t)
    BY <1>8, <1>11 DEF RestoreVersion, TrashEntry, RestoreEntry, RetentionExpires,
                       PurgeEntry, UndoCreate, Erase, TokenExpires
  <1> QED
    BY <1>2, <1>3, <1>5, <1>6, <1>7, <1>9, <1>10, <1>11 DEF Next

-----------------------------------------------------------------------------
(* One edit of an entry at a time *)

\* An edit's draft id names the row it was made with.
Generations == \A c \in Copies :
  Live(c) /\ copies[c].draft.type = "edit" => copies[c].draft.gen = c

\* The inductive invariant: without Generations a new edit could meet its own
\* draft id on another row.
EditInv == TypeOK /\ Generations /\ OneEditPerEntry

\* A step keeps the edits of an entry apart.
LEMMA EditStep == EditInv /\ Next => Generations' /\ OneEditPerEntry'
  <1> SUFFICES ASSUME EditInv, Next PROVE Generations' /\ OneEditPerEntry'
    OBVIOUS
  <1>1. CASE CopiesAge
    BY <1>1 DEF CopiesAge, Ages, EditInv, Generations, OneEditPerEntry
  <1>2. ASSUME NEW c \in Copies, Inserts(c)
        PROVE  Generations' /\ OneEditPerEntry'
    <2>1. \A k \in Copies \ {c} : Live(k)' => copies'[k].draft # copies'[c].draft
      BY <1>2 DEF Inserts, Ages, Rows
    <2> QED
      BY <1>2, <2>1 DEF Inserts, Ages, EditInv, Generations, OneEditPerEntry
  <1>3. ASSUME NEW e \in Entries, NEW c \in Copies, Opens(e, c)
        PROVE  Generations' /\ OneEditPerEntry'
    <2>1. copies'[c].draft.gen = c /\ copies'[c].draft.type = "edit"
      BY <1>3 DEF Opens, EditDraft
    <2>2. Generations'
      BY <1>3, <2>1 DEF Opens, Ages, EditInv, Generations
    <2>3. \A k \in Copies \ {c} : Live(k)' =>
            copies'[k].draft # copies'[c].draft /\ copies'[k].entry # copies'[c].entry
      BY <1>3, <2>1, <2>2 DEF Opens, Ages, Generations
    <2> QED
      BY <1>3, <2>2, <2>3 DEF Opens, Ages, EditInv, OneEditPerEntry
  <1> QED
    BY <1>1, <1>2, <1>3, CopySteps DEF EditInv

\* The rows of edits stay apart.
LEMMA EditsInductive == Spec => []EditInv
  <1>1. Init => EditInv
    BY TypeInit DEF Init, EditInv, Generations, OneEditPerEntry, Live, Unused
  <1>2. EditInv /\ [Next]_vars => EditInv'
    <2>1. EditInv /\ Next => EditInv'
      BY EditStep, TypeStep DEF EditInv
    <2>2. EditInv /\ UNCHANGED vars => EditInv'
      BY TypeStep DEF EditInv, Generations, OneEditPerEntry, Live, vars
    <2> QED
      BY <2>1, <2>2
  <1> QED
    BY <1>1, <1>2, PTL DEF Spec

\* No two windows ever hold two edits of one entry, nor two rows with one
\* client draft id: opening finds the row to resume, discarding retires the rows
\* it replaces, although no index of the table says so.
THEOREM EditsStayApart == Spec => []OneEditPerEntry
  BY EditsInductive, PTL DEF EditInv

\* A generation that was committed, discarded or deleted is never live again:
\* a late autosave with its id finds no row, and no handler makes one.
THEOREM RetiredStaysRetired == Spec => RetiredEditsStayRetired
  <1>1. EditInv /\ EditInv' /\ [Next]_vars =>
          [\A e \in Entries, c \in Copies :
             copies[c].state = "dropped" => Rows(EditDraft(e, c))' = {}]_vars
    <2> SUFFICES ASSUME EditInv, EditInv', Next, NEW e \in Entries, NEW c \in Copies,
                        copies[c].state = "dropped"
                 PROVE  Rows(EditDraft(e, c))' = {}
      BY DEF vars
    <2>1. copies'[c].state = "dropped"
      <3>1. CASE CopiesAge
        BY <3>1 DEF CopiesAge, Ages
      <3>2. ASSUME NEW k \in Copies, Inserts(k) PROVE copies'[c].state = "dropped"
        BY <3>2 DEF Inserts, Ages, Free
      <3>3. ASSUME NEW f \in Entries, NEW k \in Copies, Opens(f, k)
            PROVE  copies'[c].state = "dropped"
        BY <3>3 DEF Opens, Ages, Free
      <3> QED
        BY <3>1, <3>2, <3>3, CopySteps DEF EditInv
    <2>2. \A k \in Copies : Live(k)' /\ copies'[k].draft = EditDraft(e, c) => k = c
      BY DEF EditInv, Generations, EditDraft
    <2> QED
      BY <2>1, <2>2 DEF Rows, Live
  <1> QED
    BY <1>1, EditsInductive, PTL DEF Spec, RetiredEditsStayRetired

-----------------------------------------------------------------------------
(* The versions of an article *)

KeptText(e) ==
  Exists(e) /\ entries[e].kind = "article" =>
    \E n \in DOMAIN versions[e] : versions[e][n] = entries[e].text

\* A snapshot of an article ends with the text that is saved, pruned or not.
LEMMA SnapshotHasText ==
  ASSUME TypeOK, NEW e \in Entries, NEW p \in Payload, p.kind = "article"
  PROVE  \E n \in DOMAIN Snapshot(e, p) : Snapshot(e, p)[n] = p.text
  <1>1. versions[e] \in Seq(Texts) /\ p.text \in Texts
    BY DEF TypeOK, Payload
  <1>2. CASE Len(versions[e]) < KeptVersions
    <2>1. Snapshot(e, p) = Append(versions[e], p.text)
      BY <1>2 DEF Snapshot
    <2>2. Len(versions[e]) + 1 \in DOMAIN Append(versions[e], p.text)
          /\ Append(versions[e], p.text)[Len(versions[e]) + 1] = p.text
      BY <1>1
    <2> QED
      BY <2>1, <2>2
  <1>3. CASE ~(Len(versions[e]) < KeptVersions)
    <2> DEFINE rest == Tail(versions[e])
    <2>1. Snapshot(e, p) = Append(rest, p.text)
      BY <1>3 DEF Snapshot
    <2>2. rest \in Seq(Texts)
      BY <1>1, <1>3, ConstantsAssumption
    <2>3. Len(rest) + 1 \in DOMAIN Append(rest, p.text)
          /\ Append(rest, p.text)[Len(rest) + 1] = p.text
      BY <1>1, <2>2
    <2> QED
      BY <2>1, <2>3
  <1> QED
    BY <1>2, <1>3

\* An entry whose text, kind and versions are what they were keeps its version.
LEMMA KeepText ==
  ASSUME NEW e \in Entries, KeptText(e), Exists(e)' => Exists(e),
         entries'[e].text = entries[e].text, entries'[e].kind = entries[e].kind,
         versions'[e] = versions[e]
  PROVE  KeptText(e)'
  BY DEF KeptText

\* Every step keeps the text of every article among its versions.
LEMMA TextStep == TypeOK /\ ArticleTextIsKept /\ Next => ArticleTextIsKept'
  <1> SUFFICES ASSUME TypeOK, ArticleTextIsKept, Next, NEW e \in Entries PROVE KeptText(e)'
    BY DEF ArticleTextIsKept, KeptText
  <1>0. KeptText(e)
    BY DEF ArticleTextIsKept, KeptText
  <1>1. ASSUME UNCHANGED entries, UNCHANGED versions
        PROVE  KeptText(e)'
    BY <1>0, <1>1, KeepText DEF Exists
  <1>2. ASSUME NEW c \in Copies, NEW f \in Entries, NEW p \in Payload, CommitNew(c, f, p)
        PROVE  KeptText(e)'
    <2>1. CASE e # f
      BY <1>0, <1>2, <2>1, KeepText DEF CommitNew, Exists, TypeOK
    <2>2. CASE e = f
      <3>1. /\ versions'[e] = Snapshot(e, p)
            /\ entries'[e].kind = p.kind /\ entries'[e].text = p.text
        BY <1>2, <2>2, RowTypes DEF CommitNew, TypeOK, EntryRow
      <3> QED
        BY <3>1, SnapshotHasText DEF KeptText
    <2> QED
      BY <2>1, <2>2
  <1>3. ASSUME NEW c \in Copies, NEW p \in Payload, NEW base \in 0..MaxRevision,
               CommitEdit(c, p, base)
        PROVE  KeptText(e)'
    <2> DEFINE f == copies[c].entry
    <2>0. f \in Entries
      BY <1>3 DEF CommitEdit, TypeOK, CopyRow
    <2>1. CASE e # f
      BY <1>0, <1>3, <2>0, <2>1, KeepText DEF CommitEdit, Exists, TypeOK, EntryRow
    <2>2. CASE e = f
      <3>1. /\ versions'[e] = Snapshot(e, p)
            /\ entries'[e].kind = p.kind /\ entries'[e].text = p.text
        BY <1>3, <2>2 DEF CommitEdit, TypeOK, EntryRow
      <3> QED
        BY <3>1, SnapshotHasText DEF KeptText
    <2> QED
      BY <2>1, <2>2
  <1>4. ASSUME NEW f \in Entries, NEW n \in DOMAIN versions[f], RestoreVersion(f, n)
        PROVE  KeptText(e)'
    <2>1. CASE e # f
      BY <1>0, <1>4, <2>1, KeepText DEF RestoreVersion, Exists, TypeOK, EntryRow
    <2>2. CASE e = f
      BY <1>4, <2>2 DEF RestoreVersion, TypeOK, EntryRow, KeptText
    <2> QED
      BY <2>1, <2>2
  <1>5. ASSUME NEW f \in Entries, TrashEntry(f) \/ RestoreEntry(f) \/ RetentionExpires(f)
        PROVE  KeptText(e)'
    <2>1. /\ entries'[e].text = entries[e].text /\ entries'[e].kind = entries[e].kind
          /\ versions' = versions
      <3>1. CASE TrashEntry(f)
        BY <3>1 DEF TrashEntry, TypeOK, EntryRow
      <3>2. CASE RestoreEntry(f)
        BY <3>2 DEF RestoreEntry, TypeOK, EntryRow
      <3>3. CASE RetentionExpires(f)
        BY <3>3 DEF RetentionExpires, TypeOK, EntryRow
      <3> QED
        BY <1>5, <3>1, <3>2, <3>3
    <2>2. Exists(e)' => Exists(e)
      BY <1>5 DEF TrashEntry, RestoreEntry, RetentionExpires, TypeOK, EntryRow, Exists
    <2> QED
      BY <1>0, <2>1, <2>2, KeepText
  <1>6. ASSUME NEW f \in Entries, Erase(f)
        PROVE  KeptText(e)'
    <2>1. CASE e # f
      BY <1>0, <1>6, <2>1, KeepText DEF Erase, Exists, TypeOK
    <2>2. CASE e = f
      <3>1. entries'[e].status = "gone"
        BY <1>6, <2>2, RowTypes DEF Erase, TypeOK, EntryRow
      <3> QED
        BY <3>1 DEF KeptText, Exists
    <2> QED
      BY <2>1, <2>2
  <1>7. ASSUME NEW t \in tokens, UndoEdit(t)
        PROVE  KeptText(e)'
    <2>1. t.entry \in Entries /\ Exists(t.entry)
      BY DEF TypeOK, Token
    <2>2. /\ entries'[e].text = entries[e].text /\ entries'[e].kind = entries[e].kind
          /\ versions' = versions
      BY <1>7, <2>1 DEF UndoEdit, TypeOK, EntryRow
    <2>3. Exists(e)' => Exists(e)
      BY <1>7, <2>1 DEF UndoEdit, TypeOK, EntryRow, Exists
    <2> QED
      BY <1>0, <2>2, <2>3, KeepText
  <1>8. CASE \/ \E d \in Drafts, p \in Requests : SaveDraft(NewDraft(d), p)
             \/ \E f \in Entries, p \in Requests : SaveDraft(UndoDraft(f), p)
             \/ \E c \in Copies, p \in Requests : SaveEdit(c, p)
             \/ \E c \in Copies, p \in Requests, base \in 0..MaxRevision : PatchCopy(c, p, base)
             \/ \E c \in Copies : DeleteCopy(c)
             \/ \E f \in Entries : OpenEdit(f)
             \/ \E f \in Entries : DiscardEdit(f)
             \/ \E t \in tokens : TokenExpires(t)
    BY <1>1, <1>8 DEF SaveDraft, SaveEdit, PatchCopy, DeleteCopy, OpenEdit, DiscardEdit,
                      TokenExpires
  <1>9. CASE \/ \E f \in Entries : PurgeEntry(f)
             \/ \E t \in tokens : UndoCreate(t)
    BY <1>6, <1>9 DEF PurgeEntry, UndoCreate, TypeOK, Token
  <1> QED
    BY <1>2, <1>3, <1>4, <1>5, <1>7, <1>8, <1>9 DEF Next

\* What an article shows is always among the versions that are kept, also after
\* an old version was restored and with any number of older ones pruned.
THEOREM ArticlesKeepTheirText == Spec => []ArticleTextIsKept
  <1>1. Init => ArticleTextIsKept
    BY DEF Init, ArticleTextIsKept, Exists, Unborn
  <1>2. TypeOK /\ ArticleTextIsKept /\ [Next]_vars => ArticleTextIsKept'
    <2>1. ArticleTextIsKept /\ UNCHANGED vars => ArticleTextIsKept'
      BY DEF ArticleTextIsKept, Exists, vars
    <2> QED
      BY <2>1, TextStep
  <1> QED
    BY <1>1, <1>2, TypeCorrect, PTL DEF Spec
=============================================================================

------------------------ MODULE EditorDrafts_proofs -------------------------
(***************************************************************************)
(* Proofs about EditorDrafts, for every set of entries, copies and drafts, *)
(* every bound and every choice of failures.                               *)
(***************************************************************************)
EXTENDS EditorDrafts, SequenceTheorems, TLAPS

\* the lemmas about the server's handlers
Core == INSTANCE WorkingCopies_proofs WITH KeptVersions <- 2

-----------------------------------------------------------------------------
(* The server *)

\* The window's constants are constants of the server.
LEMMA CoreConstants == Core!ConstantsAssumption
  BY ServerAssumption, BoundsAssumption
  DEF Core!ConstantsAssumption, Core!Payload, Core!Statuses, Core!Kinds, Core!Shown,
      Server!Payload, Server!Statuses, Server!Kinds, Server!Shown, Requests, Texts

\* Both names of the server mean the same.
LEMMA SameRows ==
  /\ Server!Token = Core!Token /\ Server!Payload = Core!Payload
  /\ Server!CopyRow = Core!CopyRow /\ Server!EntryRow = Core!EntryRow
  /\ Server!TypeOK <=> Core!TypeOK
  /\ \A c \in Copies : Server!Live(c) <=> Core!Live(c)
  /\ Ids = Core!Ids
  <1>1. Server!Payload = Core!Payload /\ Server!Statuses = Core!Statuses
    BY DEF Server!Payload, Core!Payload, Server!Statuses, Core!Statuses, Server!Kinds,
           Core!Kinds, Server!Shown, Core!Shown
  <1>2. /\ Server!DraftId = Core!DraftId /\ Server!Kinds = Core!Kinds
        /\ \A c \in Copies : Server!Live(c) <=> Core!Live(c)
        /\ \A e : Server!Exists(e) <=> Core!Exists(e)
    BY DEF Server!DraftId, Core!DraftId, Server!Kinds, Core!Kinds, Server!Live, Core!Live,
           Server!Exists, Core!Exists
  <1>3. Server!Token = Core!Token
    BY <1>1 DEF Server!Token, Core!Token
  <1>4. Server!CopyRow = Core!CopyRow
    BY <1>1, <1>2 DEF Server!CopyRow, Core!CopyRow
  <1>5. Server!EntryRow = Core!EntryRow
    BY <1>1, <1>2 DEF Server!EntryRow, Core!EntryRow
  <1>6. Server!TypeOK <=> Core!TypeOK
    BY <1>1, <1>2, <1>3, <1>4, <1>5 DEF Server!TypeOK, Core!TypeOK
  <1>7. Ids = Core!Ids
    BY DEF Ids, NewIds, Core!Ids, Server!NewDraft, Server!UndoDraft, Server!EditDraft,
           Core!NewDraft, Core!UndoDraft, Core!EditDraft
  <1> QED
    BY <1>1, <1>2, <1>3, <1>4, <1>5, <1>6, <1>7

\* ... also where they name a handler.
LEMMA SameCopies ==
  /\ \A e \in Entries, c \in Copies : Server!EditCopy(e, c) = Core!EditCopy(e, c)
  /\ \A c \in Copies : Server!Dropped(c) = Core!Dropped(c)
  /\ \A e \in Entries : Server!CopiesOf(e) = Core!CopiesOf(e)
  /\ \A d : Server!Rows(d) = Core!Rows(d)
  BY DEF Server!EditCopy, Core!EditCopy, Server!FormalPayload, Core!FormalPayload,
         Server!EditDraft, Core!EditDraft, Server!Dropped, Core!Dropped, Server!Unused,
         Core!Unused, Server!NoDraft, Core!NoDraft, Server!CopiesOf, Core!CopiesOf,
         Server!Live, Core!Live, Server!Rows, Core!Rows

\* Handlers that write drafts and edits.
LEMMA SameDrafting ==
  /\ \A d, p : Server!SaveDraft(d, p) <=> Core!SaveDraft(d, p)
  /\ \A c \in Copies : \A p : Server!SaveEdit(c, p) <=> Core!SaveEdit(c, p)
  /\ \A e \in Entries : Server!OpenEdit(e) <=> Core!OpenEdit(e)
  /\ \A e \in Entries : Server!DiscardEdit(e) <=> Core!DiscardEdit(e)
  <1>1. \A d, p : Server!SaveDraft(d, p) <=> Core!SaveDraft(d, p)
    BY SameCopies DEF Server!SaveDraft, Core!SaveDraft, Server!Known, Core!Known,
       Server!Free, Core!Free, Server!Unused, Core!Unused, Server!NoDraft, Core!NoDraft
  <1>2. \A c \in Copies : \A p : Server!SaveEdit(c, p) <=> Core!SaveEdit(c, p)
    BY DEF Server!SaveEdit, Core!SaveEdit, Server!Live, Core!Live
  <1>3. \A e \in Entries : Server!OpenEdit(e) <=> Core!OpenEdit(e)
    BY SameCopies DEF Server!OpenEdit, Core!OpenEdit, Server!Exists, Core!Exists,
       Server!Free, Core!Free
  <1>4. \A e \in Entries : Server!DiscardEdit(e) <=> Core!DiscardEdit(e)
    BY DEF Server!DiscardEdit, Core!DiscardEdit, Server!Discarded, Core!Discarded,
       Server!Exists, Core!Exists, Server!Free, Core!Free, Server!Live, Core!Live,
       Server!EditCopy, Core!EditCopy, Server!FormalPayload, Core!FormalPayload,
       Server!EditDraft, Core!EditDraft, Server!Dropped, Core!Dropped, Server!Unused,
       Core!Unused, Server!NoDraft, Core!NoDraft, Server!CopiesOf, Core!CopiesOf
  <1> QED
    BY <1>1, <1>2, <1>3, <1>4

\* Handlers that save, restore and undo.
LEMMA SameSaving ==
  /\ \A c \in Copies : \A e \in Entries : \A p :
       Server!CommitNew(c, e, p) <=> Core!CommitNew(c, e, p)
  /\ \A c \in Copies : \A p, b : Server!CommitEdit(c, p, b) <=> Core!CommitEdit(c, p, b)
  /\ \A e \in Entries : \A n : Server!RestoreVersion(e, n) <=> Core!RestoreVersion(e, n)
  /\ \A t : Server!UndoCreate(t) <=> Core!UndoCreate(t)
  /\ \A t : Server!UndoEdit(t) <=> Core!UndoEdit(t)
  /\ \A c \in Copies : Server!Saves(c) <=> Core!Saves(c)
  <1>1. \A c \in Copies : \A e \in Entries : \A p :
          Server!CommitNew(c, e, p) <=> Core!CommitNew(c, e, p)
    BY DEF Server!CommitNew, Core!CommitNew, Server!Live, Core!Live, Server!Overlays,
       Core!Overlays, Server!Unborn, Core!Unborn, Server!NoDraft, Core!NoDraft,
       Server!Snapshot, Core!Snapshot, Server!Undoable, Core!Undoable, Server!Shown,
       Core!Shown, Server!Dropped, Core!Dropped, Server!Unused, Core!Unused
  <1>2. \A c \in Copies : \A p, b : Server!CommitEdit(c, p, b) <=> Core!CommitEdit(c, p, b)
    BY DEF Server!CommitEdit, Core!CommitEdit, Server!Live, Core!Live, Server!Exists,
       Core!Exists, Server!Overlays, Core!Overlays, Server!Expected, Core!Expected,
       Server!Snapshot, Core!Snapshot, Server!Undoable, Core!Undoable, Server!Shown,
       Core!Shown, Server!Dropped, Core!Dropped, Server!Unused, Core!Unused,
       Server!NoDraft, Core!NoDraft
  <1>3. \A e \in Entries : \A n : Server!RestoreVersion(e, n) <=> Core!RestoreVersion(e, n)
    BY DEF Server!RestoreVersion, Core!RestoreVersion, Server!Exists, Core!Exists
  <1>4. \A t : Server!UndoCreate(t) <=> Core!UndoCreate(t)
    BY DEF Server!UndoCreate, Core!UndoCreate, Server!Erase, Core!Erase,
       Server!Unreferenced, Core!Unreferenced, Server!CopiesOf, Core!CopiesOf,
       Server!Live, Core!Live, Server!Unborn, Core!Unborn, Server!NoDraft, Core!NoDraft
  <1>5. \A t : Server!UndoEdit(t) <=> Core!UndoEdit(t)
    BY DEF Server!UndoEdit, Core!UndoEdit, Server!UndoCopy, Core!UndoCopy,
       Server!UndoDraft, Core!UndoDraft, Server!Rows, Core!Rows, Server!Live, Core!Live,
       Server!Free, Core!Free, Server!Unused, Core!Unused, Server!NoDraft, Core!NoDraft
  <1>6. \A c \in Copies : Server!Saves(c) <=> Core!Saves(c)
    BY DEF Server!Saves, Core!Saves, Server!Live, Core!Live
  <1> QED
    BY <1>1, <1>2, <1>3, <1>4, <1>5, <1>6

\* What the window says of a text is a request.
LEMMA SaysType == \A t \in Texts : Says(t) \in Requests /\ Says(t) \in Core!Payload
  BY DEF Says, Kind, Requests, Core!Payload, Core!Kinds, Core!Statuses, Core!Shown

\* POST /working-copies is one of the handlers.
LEMMA AcceptsCalls ==
  ASSUME NEW d \in Ids, NEW t \in Texts, Accepts(d, t)
  PROVE  Core!EditorCalls
  <1>1. CASE \E c \in RowOf(d) : Server!SaveEdit(c, Says(t))
    BY <1>1, SameDrafting, SaysType DEF RowOf, Core!EditorCalls
  <1>2. CASE d.type # "edit" /\ Server!SaveDraft(d, Says(t))
    <2>1. d \in {Core!NewDraft(x) : x \in Drafts} \cup {Core!UndoDraft(e) : e \in Entries}
      BY <1>2, SameRows DEF Core!Ids, Core!EditDraft
    <2>2. Core!SaveDraft(d, Says(t))
      BY <1>2, SameDrafting
    <2> QED
      BY <2>1, <2>2, SaysType DEF Core!EditorCalls
  <1> QED
    BY <1>1, <1>2 DEF Accepts

-----------------------------------------------------------------------------
(* The window's types *)

Tables    == Core!IInv /\ Core!EditsAreChecked
QueueOK   == /\ shelf \in Seq(Item) /\ outbox \subseteq Item /\ tray \in Seq(Item)
             /\ io \in Seq(Request)
CallOK    == /\ call \in Call \cup {NoCall} /\ late \subseteq Item /\ pass \subseteq Item
EdOK      == ed \in Editor /\ (ed.entry # None => ed.draft # NoDraft)
SaveOK    == /\ save \in Save /\ (save.stage # "off" => save.draft # NoDraft)
             /\ save.stage = "commit" => save.working # None
DiscardOK == /\ discard \in Discard
             /\ discard.stage # "off" => discard.entry # None /\ discard.draft # NoDraft
             /\ discard.stage \in {"answered", "forget"} => discard.copy # None
RestOK    == /\ undo \in [stage : {"off", "answered"}, text : Texts]
             /\ open \in BOOLEAN /\ user \in [text : Texts, moves : 0..MaxMoves]
PastOK    == past \in [kept : SUBSET Item, retired : SUBSET Ids, revived : SUBSET Ids]
Window    == QueueOK /\ CallOK /\ EdOK /\ SaveOK /\ DiscardOK /\ RestOK /\ PastOK

\* TypeOK is what the window and the server's tables say of their types.
LEMMA TypeParts == Tables /\ Window => TypeOK
  BY SameRows DEF Tables, Core!IInv, Window, TypeOK, QueueOK, CallOK, EdOK, SaveOK,
     DiscardOK, RestOK, PastOK

\* Every step of the window that changes the tables is a handler it calls.
LEMMA WindowCalls == Window /\ Tables /\ Next => Core!EditorCalls \/ UNCHANGED tables
  <1> SUFFICES ASSUME Window, Tables, Next PROVE Core!EditorCalls \/ UNCHANGED tables
    OBVIOUS
  <1>0. Core!TypeOK
    BY DEF Tables, Core!IInv
  <1>1. CASE CallArrives
    <2>1. call \in Call /\ call.draft \in Ids /\ call.text \in Texts
      BY <1>1 DEF CallArrives, Window, CallOK, Call, NoCall
    <2> QED
      BY <1>1, <2>1, AcceptsCalls DEF CallArrives
  <1>2. CASE LateArrives
    <2>1. PICK x \in late : Accepts(x.draft, x.text)
      BY <1>2 DEF LateArrives
    <2>2. x.draft \in Ids /\ x.text \in Texts
      BY DEF Window, CallOK, Item
    <2> QED
      BY <2>1, <2>2, AcceptsCalls
  <1>3. CASE SavePosts
    <2>1. save.draft \in Ids /\ save.text \in Texts
      BY <1>3 DEF SavePosts, Window, SaveOK, Save
    <2> QED
      BY <1>3, <2>1, AcceptsCalls DEF SavePosts
  <1>4. CASE SaveCommits
    <2>1. save.working \in Copies /\ save.base \in 0..MaxRevision /\ save.text \in Texts
      BY <1>4 DEF SaveCommits, Window, SaveOK, Save
    <2>2. \/ \E e \in Entries : Core!CommitNew(save.working, e, Says(save.text))
          \/ Core!CommitEdit(save.working, Says(save.text), save.base)
      BY <1>4, <2>1, SameSaving DEF SaveCommits
    <2> QED
      BY <2>1, <2>2, SaysType DEF Core!EditorCalls
  <1>5. CASE OpensEdit
    BY <1>5, SameDrafting DEF OpensEdit, Existing, Core!EditorCalls
  <1>6. CASE DiscardArrives
    <2>1. discard.entry \in Entries
      BY <1>6 DEF DiscardArrives, Window, DiscardOK, Discard
    <2> QED
      BY <1>6, <2>1, SameDrafting DEF DiscardArrives, Core!EditorCalls
  <1>7. CASE UndoArrives
    BY <1>7, SameSaving DEF UndoArrives, Core!EditorCalls, Core!UndoCreate, Core!UndoEdit
  <1>8. CASE Elsewhere
    <2>1. \A c \in Copies : copies[c].base \in 0..MaxRevision
      BY <1>0 DEF Core!TypeOK, Core!CopyRow
    <2>2. \/ \E t \in Texts, c \in Copies : Core!CommitEdit(c, Says(t), copies[c].base)
          \/ \E e \in Entries : Core!DiscardEdit(e)
          \/ \E e \in Entries : Core!RestoreVersion(e, 1)
      BY <1>8, SameDrafting, SameSaving DEF Elsewhere
    <2>3. CASE \E e \in Entries : Core!RestoreVersion(e, 1)
      BY <2>3 DEF Core!EditorCalls, Core!RestoreVersion
    <2> QED
      BY <2>1, <2>2, <2>3, SaysType DEF Core!EditorCalls
  <1>9. CASE Storage
    BY <1>9 DEF Storage, Stores, StoreFails, Clears, Prunes, Keeps, Drops, Forgets
  <1>10. CASE SaveFails \/ Finalizes \/ SaveEnds \/ DiscardForgets \/ DiscardFails \/ UndoEnds
    BY <1>10 DEF SaveFails, Finalizes, SaveEnds, DiscardForgets, DiscardFails, UndoEnds
  <1>11. CASE Autosaves \/ Closes
    BY <1>11 DEF Autosaves, Closes, Persist
  <1>12. CASE CallReturns \/ CallFails \/ CallEnds \/ PassStarts \/ Retries \/ PassEnds
    BY <1>12 DEF CallReturns, CallFails, CallEnds, PassStarts, Retries, PassEnds
  <1>13. CASE OpensNew \/ Types \/ LoadsDraft \/ Reopens \/ Reload \/ SaveStarts \/ DiscardStarts
    BY <1>13 DEF OpensNew, Types, LoadsDraft, Reopens, Reload, SaveStarts, DiscardStarts
  <1> QED
    BY <1>1, <1>2, <1>3, <1>4, <1>5, <1>6, <1>7, <1>8, <1>9, <1>10, <1>11, <1>12, <1>13
    DEF Next, Saving, Undoing

\* So the server's tables keep its invariants, and the base revisions of edits.
LEMMA TablesStep == Window /\ Tables /\ [Next]_vars => Tables'
  <1> SUFFICES ASSUME Window, Tables, [Next]_vars PROVE Tables'
    OBVIOUS
  <1>1. CASE Core!EditorCalls
    BY <1>1, CoreConstants, Core!CheckedStep DEF Tables
  <1>2. CASE UNCHANGED tables
    <2>1. Core!IInv'
      BY <1>2 DEF tables, Tables, Core!IInv, Core!TypeOK, Core!AllLinked, Core!Linked,
         Core!Exists, Core!Live
    <2>2. Core!EditsAreChecked'
      BY <1>2 DEF tables, Tables, Core!EditsAreChecked, Core!Exists, Core!Live
    <2> QED
      BY <2>1, <2>2 DEF Tables
  <1> QED
    BY <1>1, <1>2, WindowCalls DEF vars

-----------------------------------------------------------------------------
(* The shelf and the queue *)

Members(s)  == {s[i] : i \in DOMAIN s}
Distinct(s) == \A i, j \in DOMAIN s : s[i].draft = s[j].draft => i = j

\* Without takes out what has that draft and nothing else.
LEMMA WithoutType ==
  ASSUME NEW s \in Seq(Item), NEW d
  PROVE  /\ Without(s, d) \in Seq(Item)
         /\ Members(Without(s, d)) \subseteq Members(s)
         /\ \A x \in Members(s) : x.draft # d => x \in Members(Without(s, d))
         /\ Distinct(s) => /\ Distinct(Without(s, d))
                           /\ \A x \in Members(Without(s, d)) : x.draft # d
  <1>1. CASE \A i \in DOMAIN s : s[i].draft # d
    BY <1>1 DEF Without, Members
  <1>2. CASE \E i \in DOMAIN s : s[i].draft = d
    <2> DEFINE p == Place(s, d)
               w == [i \in 1..(Len(s) - 1) |-> IF i < p THEN s[i] ELSE s[i + 1]]
    <2>1. p \in 1..Len(s) /\ s[p].draft = d
      BY <1>2 DEF Place
    <2>2. Without(s, d) = w
      BY <1>2 DEF Without
    <2> HIDE DEF p
    <2>3. w \in Seq(Item) /\ Len(w) = Len(s) - 1
      BY <2>1
    <2>4. Members(w) \subseteq Members(s)
      BY <2>1, <2>3 DEF Members
    <2>5. ASSUME NEW j \in DOMAIN s, j # p
          PROVE  \E i \in DOMAIN w : w[i] = s[j]
      <3>1. CASE j < p
        BY <2>1, <2>3, <2>5, <3>1
      <3>2. CASE j > p
        <4>1. j - 1 \in DOMAIN w /\ w[j - 1] = s[j]
          BY <2>1, <2>3, <3>2
        <4> QED
          BY <4>1
      <3> QED
        BY <2>1, <2>5, <3>1, <3>2
    <2>6. \A x \in Members(s) : x.draft # d => x \in Members(w)
      BY <2>1, <2>5 DEF Members
    <2>7. ASSUME Distinct(s)
          PROVE  Distinct(w) /\ \A x \in Members(w) : x.draft # d
      <3>1. \A i \in DOMAIN w : w[i].draft # d
        BY <2>1, <2>3, <2>7 DEF Distinct
      <3>2. Distinct(w)
        BY <2>1, <2>3, <2>7 DEF Distinct
      <3> QED
        BY <3>1, <3>2 DEF Members
    <2> QED
      BY <2>2, <2>3, <2>4, <2>6, <2>7
  <1> QED
    BY <1>1, <1>2

\* Put takes out the old text of the draft and puts the new one first.
LEMMA PutType ==
  ASSUME NEW s \in Seq(Item), NEW d \in Ids, NEW t \in Texts
  PROVE  /\ Put(s, d, t) \in Seq(Item)
         /\ Members(Put(s, d, t)) = {[draft |-> d, text |-> t]} \cup Members(Without(s, d))
         /\ Distinct(s) => Distinct(Put(s, d, t))
  <1> DEFINE x == [draft |-> d, text |-> t]
             w == Without(s, d)
  <1>1. x \in Item /\ x.draft = d
    BY DEF Item
  <1>2. /\ w \in Seq(Item) /\ (Distinct(s) => Distinct(w) /\ \A y \in Members(w) : y.draft # d)
    BY WithoutType
  <1>3. Put(s, d, t) = <<x>> \o w
    BY DEF Put
  <1> HIDE DEF x, w
  <1> DEFINE p == <<x>> \o w
  <1>4. /\ p \in Seq(Item) /\ Len(p) = Len(w) + 1 /\ p[1] = x
        /\ \A i \in 1..Len(w) : p[i + 1] = w[i]
        /\ \A i \in 2..Len(p) : i - 1 \in 1..Len(w) /\ p[i] = w[i - 1]
    BY <1>1, <1>2
  <1> HIDE DEF p
  <1>5. Members(p) = {x} \cup Members(w)
    <2>1. ASSUME NEW i \in DOMAIN p PROVE p[i] \in {x} \cup Members(w)
      BY <1>2, <1>4 DEF Members
    <2>2. ASSUME NEW i \in DOMAIN w PROVE w[i] \in Members(p)
      <3>1. i + 1 \in DOMAIN p /\ p[i + 1] = w[i]
        BY <1>2, <1>4
      <3> QED
        BY <3>1 DEF Members
    <2>3. x \in Members(p)
      BY <1>2, <1>4 DEF Members
    <2> QED
      BY <2>1, <2>2, <2>3 DEF Members
  <1>6. ASSUME Distinct(s) PROVE Distinct(p)
    <2>1. \A i \in DOMAIN w : w[i].draft # d
      BY <1>2, <1>6 DEF Members
    <2>2. ASSUME NEW i \in DOMAIN p, NEW j \in DOMAIN p, i < j, p[i].draft = p[j].draft
          PROVE  FALSE
      <3>1. j - 1 \in DOMAIN w /\ p[j] = w[j - 1]
        BY <1>2, <1>4, <2>2
      <3>2. CASE i = 1
        BY <1>1, <1>4, <2>1, <2>2, <3>1, <3>2
      <3>3. CASE i > 1
        <4>1. i - 1 \in DOMAIN w /\ p[i] = w[i - 1]
          BY <1>2, <1>4, <2>2, <3>3
        <4>2. i - 1 = j - 1
          BY <1>2, <1>6, <2>2, <3>1, <4>1 DEF Distinct
        <4> QED
          BY <1>4, <2>2, <4>2
      <3> QED
        BY <1>4, <3>2, <3>3
    <2>3. ASSUME NEW i \in DOMAIN p, NEW j \in DOMAIN p, p[i].draft = p[j].draft
          PROVE  i = j
      <3>1. i \in Nat /\ j \in Nat
        BY <1>4
      <3> QED
        BY <2>2, <2>3, <3>1
    <2> QED
      BY <2>3 DEF Distinct
  <1> QED
    BY <1>3, <1>4, <1>5, <1>6 DEF x, w, p

\* The tray shows the newest drafts.
LEMMA NewestType ==
  ASSUME NEW s \in Seq(Item)
  PROVE  /\ Newest(MaxDrafts, s) \in Seq(Item)
         /\ Len(Newest(MaxDrafts, s)) = IF Len(s) < MaxDrafts THEN Len(s) ELSE MaxDrafts
  <1>1. ASSUME NEW n \in 0..Len(s)
        PROVE  SubSeq(s, 1, n) \in Seq(Item) /\ Len(SubSeq(s, 1, n)) = n
    <2>1. \A i \in 1..n : s[i] \in Item
      OBVIOUS
    <2>2. 1 \in Int /\ n \in Int
      OBVIOUS
    <2> QED
      BY <2>1, <2>2, SubSeqProperties
  <1>2. MaxDrafts \in Nat
    BY BoundsAssumption
  <1>3. CASE Len(s) < MaxDrafts
    BY <1>1, <1>2, <1>3 DEF Newest
  <1>4. CASE ~(Len(s) < MaxDrafts)
    <2>1. MaxDrafts \in 0..Len(s)
      BY <1>2, <1>4
    <2> QED
      BY <1>1, <1>4, <2>1 DEF Newest
  <1> QED
    BY <1>3, <1>4

\* What follows another queue.
LEMMA CatType ==
  ASSUME NEW q \in Seq(Request), NEW r \in Seq(Request)
  PROVE  /\ q \o r \in Seq(Request)
         /\ Len(q \o r) = Len(q) + Len(r)
         /\ \A i \in 1..Len(q) : (q \o r)[i] = q[i]
         /\ \A i \in DOMAIN (q \o r) : i > Len(q) =>
              i - Len(q) \in DOMAIN r /\ (q \o r)[i] = r[i - Len(q)]
  OBVIOUS

\* A new request is one, and what it says.
LEMMA OpType ==
  ASSUME NEW op \in {"store", "clear", "prune", "keep", "drop", "forget", "erase"},
         NEW d \in Ids, NEW t \in Texts
  PROVE  /\ Op(op, d, t) \in Request
         /\ Op(op, d, t).op = op /\ Op(op, d, t).draft = d /\ Op(op, d, t).text = t
         /\ ~Op(op, d, t).stale /\ ~Op(op, d, t).closes
  BY DEF Op, Request

\* No text is a text.
LEMMA BlankType == Blank \in Texts
  BY BoundsAssumption DEF Blank, Texts

\* Requests for the others follow what is under way.
LEMMA RefreshedQueue ==
  ASSUME NEW s \in Seq(Item), NEW q \in Seq(Request), NEW kept, Refreshes(s, q, kept)
  PROVE  /\ tray' \in Seq(Item)
         /\ io' \in Seq(Request)
         /\ Len(io') >= Len(q)
         /\ \A i \in 1..Len(q) : io'[i] = q[i]
         /\ \A i \in DOMAIN io' : i > Len(q) =>
              \E j \in DOMAIN s : j > MaxDrafts /\ io'[i] = Op("prune", s[j].draft, Blank)
  <1>0. \A j \in DOMAIN s : s[j].draft \in Ids
    <2>1. \A j \in DOMAIN s : s[j] \in Item
      OBVIOUS
    <2> QED
      BY <2>1 DEF Item
  <1>1. tray' \in Seq(Item) /\ Len(tray') = IF Len(s) < MaxDrafts THEN Len(s) ELSE MaxDrafts
    <2>1. tray' = Newest(MaxDrafts, s)
      BY Zenon DEF Refreshes
    <2> QED
      BY <2>1, NewestType
  <1> DEFINE n == Len(s) - Len(tray')
             r == [i \in 1..n |-> Op("prune", s[Len(tray') + i].draft, Blank)]
  <1>2. n \in Nat /\ (n > 0 => Len(tray') = MaxDrafts /\ Len(s) = MaxDrafts + n)
    BY <1>1, BoundsAssumption
  <1>3. ASSUME NEW i \in 1..n
        PROVE  \E j \in DOMAIN s : j > MaxDrafts /\ r[i] = Op("prune", s[j].draft, Blank)
    <2>1. Len(tray') + i \in DOMAIN s /\ Len(tray') + i > MaxDrafts
      BY <1>2, BoundsAssumption
    <2> QED
      BY <2>1
  <1>4. r \in Seq(Request) /\ Len(r) = n
    BY <1>0, <1>2, <1>3, OpType, BlankType
  <1>5. io' = q \o r
    BY Zenon DEF Refreshes
  <1>6. \A i \in 1..n : \E j \in DOMAIN s : j > MaxDrafts /\ r[i] = Op("prune", s[j].draft, Blank)
    BY <1>3
  <1> HIDE DEF n, r
  <1>7. /\ Len(io') >= Len(q)
        /\ \A i \in DOMAIN io' : i > Len(q) => i - Len(q) \in 1..n /\ io'[i] = r[i - Len(q)]
    BY <1>2, <1>4, <1>5, CatType
  <1> QED
    BY <1>1, <1>4, <1>5, <1>6, <1>7, CatType

-----------------------------------------------------------------------------
(* The queue *)

\* Who waits for a request: a save for its "keep" and its "drop", a discard for
\* its "forget", nobody any more for an "erase".
Work     == {"keep", "drop", "forget", "erase"}
Deletes  == {"drop", "forget", "erase"}

\* A save and a discard have one request each under way, and nothing that is
\* carried out before a draft is deleted acts on it any more.
Orderly(q) ==
  /\ \A i, j \in DOMAIN q : q[i].op \in {"keep", "drop"} /\ q[j].op \in {"keep", "drop"} => i = j
  /\ \A i, j \in DOMAIN q : q[i].op = "forget" /\ q[j].op = "forget" => i = j
  /\ \A i, j \in DOMAIN q : j < i /\ q[i].op \in {"drop", "erase"} => q[j].stale

\* Each is under way for a handler that waits for it.
Staged ==
  \A i \in DOMAIN io :
    /\ io[i].op = "keep" => save.stage = "keep"
    /\ io[i].op = "drop" => save.stage = "drop" /\ save.draft = io[i].draft
    /\ io[i].op = "forget" => discard.stage = "forget"

\* While a draft is being discarded or deleted no autosave is under way.
Quiet ==
  discard.stage # "off" \/ (\E i \in DOMAIN io : io[i].op \in Deletes) =>
    call = NoCall /\ pass = {}

Queue == Orderly(io) /\ Staged /\ Quiet

\* What handlers wait for in queue p they wait for in queue q.
Continues(p, q) ==
  \A i \in DOMAIN p : p[i].op \in Work =>
    \E j \in DOMAIN q : q[j].op = p[i].op /\ q[j].draft = p[i].draft

\* The first request is done.
LEMMA TailQueue ==
  ASSUME NEW q \in Seq(Request), q # <<>>, Orderly(q)
  PROVE  /\ Tail(q) \in Seq(Request) /\ Head(q) \in Request /\ 1 \in DOMAIN q /\ Head(q) = q[1]
         /\ Len(Tail(q)) = Len(q) - 1
         /\ \A i \in DOMAIN Tail(q) : i + 1 \in DOMAIN q /\ Tail(q)[i] = q[i + 1]
         /\ Orderly(Tail(q)) /\ Continues(Tail(q), q)
  <1> DEFINE p == Tail(q)
  <1>1. /\ p \in Seq(Request) /\ Head(q) \in Request /\ 1 \in DOMAIN q /\ Head(q) = q[1]
        /\ Len(p) = Len(q) - 1
        /\ \A i \in DOMAIN p : i + 1 \in DOMAIN q /\ p[i] = q[i + 1]
    OBVIOUS
  <1> HIDE DEF p
  <1>2. Continues(p, q)
    BY <1>1 DEF Continues
  <1>3. Orderly(p)
    BY <1>1 DEF Orderly
  <1> QED
    BY <1>1, <1>2, <1>3 DEF p

\* Requests follow that nobody waits for.
LEMMA GrownQueue ==
  ASSUME NEW q \in Seq(Request), Orderly(q), NEW p \in Seq(Request), Len(p) >= Len(q),
         \A i \in 1..Len(q) : p[i] = q[i],
         \A i \in DOMAIN p : i > Len(q) => p[i].op \in {"store", "clear", "prune"}
  PROVE  Orderly(p) /\ Continues(p, q)
  <1>1. \A i \in DOMAIN p : p[i].op \in Work => i \in DOMAIN q /\ p[i] = q[i]
    BY DEF Work
  <1>2. Continues(p, q)
    BY <1>1 DEF Continues
  <1>3. ASSUME NEW i \in DOMAIN p, NEW j \in DOMAIN p, j < i, p[i].op \in {"drop", "erase"}
        PROVE  p[j].stale
    <2>1. i \in DOMAIN q /\ j \in DOMAIN q /\ p[i] = q[i] /\ p[j] = q[j]
      BY <1>1, <1>3 DEF Work
    <2> QED
      BY <1>3, <2>1 DEF Orderly
  <1> QED
    BY <1>1, <1>2, <1>3 DEF Orderly, Work

\* A handler makes a request and waits.
LEMMA AppendQueue ==
  ASSUME NEW q \in Seq(Request), Orderly(q), NEW r \in Request
  PROVE  /\ Append(q, r) \in Seq(Request) /\ Len(Append(q, r)) = Len(q) + 1
         /\ \A i \in 1..Len(q) : Append(q, r)[i] = q[i]
         /\ Append(q, r)[Len(q) + 1] = r
         /\ r.op \in {"store", "clear", "prune"} =>
              Orderly(Append(q, r)) /\ Continues(Append(q, r), q)
         /\ r.op = "keep" /\ (\A i \in DOMAIN q : q[i].op \notin {"keep", "drop"}) =>
              Orderly(Append(q, r))
         /\ r.op = "forget" /\ (\A i \in DOMAIN q : q[i].op # "forget") =>
              Orderly(Append(q, r))
  <1> DEFINE p == Append(q, r)
  <1>1. /\ p \in Seq(Request) /\ Len(p) = Len(q) + 1
        /\ \A i \in 1..Len(q) : p[i] = q[i]
        /\ p[Len(q) + 1] = r
    OBVIOUS
  <1> HIDE DEF p
  <1>2. ASSUME r.op \in {"store", "clear", "prune"}
        PROVE  Orderly(p) /\ Continues(p, q)
    BY <1>1, <1>2, GrownQueue
  <1>3. ASSUME r.op \in {"keep", "forget"}
        PROVE  \A i, j \in DOMAIN p : j < i /\ p[i].op \in {"drop", "erase"} => p[j].stale
    <2>1. \A i, j \in DOMAIN p : j < i /\ p[i].op \in {"drop", "erase"} =>
            i \in DOMAIN q /\ j \in DOMAIN q
      BY <1>1, <1>3
    <2> QED
      BY <1>1, <2>1 DEF Orderly
  <1>4. ASSUME r.op = "keep", \A i \in DOMAIN q : q[i].op \notin {"keep", "drop"}
        PROVE  Orderly(p)
    <2>1. \A i \in DOMAIN p : p[i].op \in {"keep", "drop"} => i = Len(q) + 1
      BY <1>1, <1>4
    <2>2. \A i \in DOMAIN p : p[i].op = "forget" => i \in DOMAIN q /\ p[i] = q[i]
      BY <1>1, <1>4
    <2>3. \A i, j \in DOMAIN p : p[i].op = "forget" /\ p[j].op = "forget" => i = j
      BY <2>2 DEF Orderly
    <2> QED
      BY <1>3, <1>4, <2>1, <2>3 DEF Orderly
  <1>5. ASSUME r.op = "forget", \A i \in DOMAIN q : q[i].op # "forget"
        PROVE  Orderly(p)
    <2>1. \A i \in DOMAIN p : p[i].op = "forget" => i = Len(q) + 1
      BY <1>1, <1>5
    <2>2. \A i \in DOMAIN p : p[i].op \in {"keep", "drop"} => i \in DOMAIN q /\ p[i] = q[i]
      BY <1>1, <1>5
    <2>3. \A i, j \in DOMAIN p : p[i].op \in {"keep", "drop"} /\ p[j].op \in {"keep", "drop"} => i = j
      BY <2>2 DEF Orderly
    <2> QED
      BY <1>3, <1>5, <2>1, <2>3 DEF Orderly
  <1> QED
    BY <1>1, <1>2, <1>4, <1>5 DEF p

\* The epoch moves on.
LEMMA StaleQueue ==
  ASSUME NEW q \in Seq(Request), Orderly(q)
  PROVE  /\ Stale(q) \in Seq(Request) /\ Len(Stale(q)) = Len(q)
         /\ \A i \in DOMAIN q : /\ Stale(q)[i].op = q[i].op /\ Stale(q)[i].draft = q[i].draft
                                /\ Stale(q)[i].text = q[i].text /\ Stale(q)[i].stale
         /\ Orderly(Stale(q)) /\ Continues(Stale(q), q)
  <1> DEFINE p == Stale(q)
  <1>1. ASSUME NEW i \in DOMAIN q
        PROVE  /\ p[i] \in Request /\ p[i].op = q[i].op /\ p[i].draft = q[i].draft
               /\ p[i].text = q[i].text /\ p[i].stale
    <2>1. q[i] \in Request
      OBVIOUS
    <2>2. p[i] = [q[i] EXCEPT !.stale = TRUE]
      BY DEF Stale
    <2> QED
      BY <2>1, <2>2 DEF Request
  <1>2. p \in Seq(Request) /\ Len(p) = Len(q)
    BY <1>1 DEF Stale
  <1> HIDE DEF p
  <1>3. DOMAIN p = DOMAIN q
    BY <1>2
  <1>4. Orderly(p)
    BY <1>1, <1>3 DEF Orderly
  <1>5. Continues(p, q)
    BY <1>1, <1>3 DEF Continues
  <1> QED
    BY <1>1, <1>2, <1>4, <1>5 DEF p

\* ... and a draft is deleted.
LEMMA DropQueue ==
  ASSUME NEW q \in Seq(Request), Orderly(q), NEW r \in Request, r.op = "drop",
         \A i \in DOMAIN q : q[i].op \notin {"keep", "drop"}
  PROVE  /\ Stale(q) \o <<r>> \in Seq(Request) /\ Len(Stale(q) \o <<r>>) = Len(q) + 1
         /\ \A i \in 1..Len(q) : (Stale(q) \o <<r>>)[i] = Stale(q)[i]
         /\ (Stale(q) \o <<r>>)[Len(q) + 1] = r
         /\ Orderly(Stale(q) \o <<r>>)
  <1> DEFINE s == Stale(q)
             p == s \o <<r>>
  <1>1. /\ s \in Seq(Request) /\ Len(s) = Len(q)
        /\ \A i \in DOMAIN q : s[i].op = q[i].op /\ s[i].stale
        /\ Orderly(s)
    BY StaleQueue
  <1> HIDE DEF s
  <1>2. /\ p \in Seq(Request) /\ Len(p) = Len(q) + 1
        /\ \A i \in 1..Len(q) : p[i] = s[i]
        /\ p[Len(q) + 1] = r
    BY <1>1
  <1> HIDE DEF p
  <1>3. Orderly(p)
    <2>1. \A i \in DOMAIN p : p[i].op \in {"keep", "drop"} => i = Len(q) + 1
      BY <1>1, <1>2
    <2>2. \A i \in DOMAIN p : p[i].op = "forget" => i \in DOMAIN s /\ p[i] = s[i]
      BY <1>1, <1>2
    <2>3. \A i, j \in DOMAIN p : p[i].op = "forget" /\ p[j].op = "forget" => i = j
      BY <1>1, <2>2 DEF Orderly
    <2>4. ASSUME NEW i \in DOMAIN p, NEW j \in DOMAIN p, j < i
          PROVE  p[j].stale
      <3>1. j \in DOMAIN q /\ p[j] = s[j]
        BY <1>2, <2>4
      <3> QED
        BY <1>1, <3>1
    <2> QED
      BY <2>1, <2>3, <2>4 DEF Orderly
  <1> QED
    BY <1>2, <1>3 DEF s, p

\* The page is left during a discard.
LEMMA LeftQueue ==
  ASSUME NEW q \in Seq(Request), Orderly(q)
  PROVE  /\ Left(q) \in Seq(Request) /\ Len(Left(q)) = Len(q)
         /\ \A i \in DOMAIN q :
              /\ Left(q)[i].op = IF q[i].op = "forget" THEN "erase" ELSE q[i].op
              /\ Left(q)[i].draft = q[i].draft /\ Left(q)[i].text = q[i].text
              /\ Left(q)[i].stale
         /\ Orderly(Left(q))
  <1> DEFINE p == Left(q)
  <1>1. ASSUME NEW i \in DOMAIN q
        PROVE  /\ p[i] \in Request /\ p[i].op = IF q[i].op = "forget" THEN "erase" ELSE q[i].op
               /\ p[i].draft = q[i].draft /\ p[i].text = q[i].text /\ p[i].stale
    <2>1. q[i] \in Request
      OBVIOUS
    <2>2. p[i] = [q[i] EXCEPT !.stale = TRUE,
                              !.op = IF q[i].op = "forget" THEN "erase" ELSE q[i].op]
      BY DEF Left
    <2> QED
      BY <2>1, <2>2 DEF Request
  <1>2. p \in Seq(Request) /\ Len(p) = Len(q)
    <2>1. \A i \in 1..Len(q) : p[i] \in Request
      BY <1>1
    <2>2. p = [i \in 1..Len(q) |-> p[i]]
      BY DEF Left
    <2> HIDE DEF p
    <2> QED
      BY <2>1, <2>2
  <1> HIDE DEF p
  <1>3. \A i \in DOMAIN p : p[i].op \in {"keep", "drop"} => q[i].op \in {"keep", "drop"}
    BY <1>1, <1>2
  <1>4. ASSUME NEW i \in DOMAIN p
        PROVE  p[i].op # "forget" /\ p[i].stale
    <2>1. i \in DOMAIN q
      BY <1>2
    <2>2. p[i].op = IF q[i].op = "forget" THEN "erase" ELSE q[i].op
      BY <1>1, <2>1
    <2>3. p[i].stale
      BY <1>1, <2>1
    <2> QED
      BY <2>2, <2>3
  <1>5. Orderly(p)
    BY <1>2, <1>3, <1>4 DEF Orderly
  <1> QED
    BY <1>1, <1>2, <1>5 DEF p

\* The window lists its drafts.
LEMMA ListedQueue ==
  ASSUME NEW s \in Seq(Item), NEW q \in Seq(Request), Orderly(q), NEW kept,
         Refreshes(s, q, kept)
  PROVE  tray' \in Seq(Item) /\ io' \in Seq(Request) /\ Orderly(io') /\ Continues(io', q)
  <1>1. /\ tray' \in Seq(Item) /\ io' \in Seq(Request)
        /\ Len(io') >= Len(q) /\ \A i \in 1..Len(q) : io'[i] = q[i]
        /\ \A i \in DOMAIN io' : i > Len(q) =>
              \E j \in DOMAIN s : j > MaxDrafts /\ io'[i] = Op("prune", s[j].draft, Blank)
    BY RefreshedQueue
  <1>2. ASSUME NEW i \in DOMAIN io', i > Len(q)
        PROVE  io'[i].op \in {"store", "clear", "prune"}
    <2>1. PICK j \in DOMAIN s : io'[i] = Op("prune", s[j].draft, Blank)
      BY <1>1, <1>2
    <2> QED
      BY <2>1 DEF Op
  <1> QED
    BY <1>1, <1>2, GrownQueue

\* Waiting goes on from queue to queue.
LEMMA ContinuesOn ==
  ASSUME NEW p, NEW q, NEW r, Continues(p, q), Continues(q, r)
  PROVE  Continues(p, r)
  BY DEF Continues

\* A queue that stays keeps everyone waiting.
LEMMA ContinuesSame == \A q : Continues(q, q)
  BY DEF Continues

\* Whoever waited goes on waiting.
LEMMA StagedOn ==
  ASSUME Staged, Continues(io', io), save'.stage = save.stage, save'.draft = save.draft,
         discard'.stage = discard.stage
  PROVE  Staged'
  BY DEF Staged, Continues, Work

\* No autosave begins.
LEMMA QuietOn ==
  ASSUME Quiet, Continues(io', io), discard'.stage # "off" => discard.stage # "off",
         call = NoCall => call' = NoCall, pass = {} => pass' = {}
  PROVE  Quiet'
  BY DEF Quiet, Continues, Work, Deletes, NoCall

\* The first request is done: for whoever does not wait for it nothing changes.
LEMMA FirstDone ==
  ASSUME Window, Queue, io # <<>>
  PROVE  /\ Head(io) \in Request /\ 1 \in DOMAIN io /\ Head(io) = io[1]
         /\ Tail(io) \in Seq(Request) /\ Orderly(Tail(io)) /\ Continues(Tail(io), io)
         /\ Len(Tail(io)) = Len(io) - 1
         /\ \A i \in DOMAIN Tail(io) : i + 1 \in DOMAIN io /\ Tail(io)[i] = io[i + 1]
  BY TailQueue DEF Window, QueueOK, Queue

\* An autosave begins only when no draft is being deleted.
LEMMA SyncQuiet ==
  ASSUME Window, Queue, io # <<>>, ~Head(io).stale, Head(io).op \notin Work,
         NEW d, NEW t, Sync(d, t), Continues(io', io), UNCHANGED <<discard, pass>>
  PROVE  Quiet'
  <1>1. CASE discard.stage # "off"
    BY <1>1, QuietOn DEF Sync, Queue
  <1>2. CASE discard.stage = "off"
    <2>1. \A i \in DOMAIN io : io[i].op \notin Deletes
      <3>1. \A i \in DOMAIN io : i # 1 /\ io[i].op \in {"drop", "erase"} => io[1].stale
        BY FirstDone DEF Queue, Orderly, Window, QueueOK
      <3>2. \A i \in DOMAIN io : io[i].op # "forget"
        BY <1>2 DEF Queue, Staged
      <3> QED
        BY <3>1, <3>2, FirstDone DEF Work, Deletes
    <2>2. \A i \in DOMAIN io' : io'[i].op \notin Deletes
      BY <2>1 DEF Continues, Work, Deletes
    <2> QED
      BY <1>2, <2>2 DEF Quiet
  <1> QED
    BY <1>1, <1>2

\* IndexedDB carries out a request.
LEMMA QueueStorage ==
  ASSUME Window, Queue, Storage
  PROVE  io' \in Seq(Request) /\ Queue' /\ (UNCHANGED tray \/ tray' \in Seq(Item))
  <1>0. shelf \in Seq(Item) /\ outbox \subseteq Item
    BY DEF Window, QueueOK
  <1>1. ASSUME io # <<>>, io' = Tail(io), UNCHANGED <<tray, call, pass>>,
               UNCHANGED <<save, discard>>
        PROVE  io' \in Seq(Request) /\ Queue' /\ (UNCHANGED tray \/ tray' \in Seq(Item))
    <2>1. Continues(io', io) /\ io' \in Seq(Request) /\ Orderly(io')
      BY <1>1, FirstDone
    <2> QED
      BY <1>1, <2>1, StagedOn, QuietOn DEF Queue
  <1>2. CASE Stores
    <2>1. CASE Head(io).stale
      <3>1. io' = Tail(io) /\ UNCHANGED <<tray, call, pass, save, discard>> /\ io # <<>>
        BY <1>2, <2>1 DEF Stores, IsNext
      <3> QED
        BY <1>1, <3>1
    <2>2. CASE ~Head(io).stale
      <3> DEFINE o == Head(io)
      <3>1. /\ Sync(o.draft, o.text) /\ Refreshes(shelf', Tail(io), Kept(o.draft, o.text))
            /\ shelf' = Put(shelf, o.draft, o.text) /\ io # <<>> /\ o.op = "store"
            /\ UNCHANGED <<save, discard, pass>>
        BY <1>2, <2>2 DEF Stores, IsNext
      <3>2. shelf' \in Seq(Item)
        BY <1>0, <3>1, FirstDone, PutType DEF Request
      <3>3. tray' \in Seq(Item) /\ io' \in Seq(Request) /\ Orderly(io') /\ Continues(io', Tail(io))
        BY <3>1, <3>2, FirstDone, ListedQueue
      <3>4. Continues(io', io)
        BY <3>1, <3>3, FirstDone, ContinuesOn
      <3>5. Staged'
        BY <3>1, <3>4, StagedOn DEF Queue
      <3>6. Quiet'
        BY <2>2, <3>1, <3>4, SyncQuiet DEF Work
      <3> QED
        BY <3>3, <3>5, <3>6 DEF Queue
    <2> QED
      BY <2>1, <2>2
  <1>3. CASE StoreFails
    BY <1>1, <1>3 DEF StoreFails, IsNext
  <1>4. CASE Clears
    <2> DEFINE o == Head(io)
    <2>1. /\ Refreshes(shelf', Tail(io), Dropped(o.draft))
          /\ shelf' = Without(shelf, o.draft) /\ io # <<>> /\ o.op = "clear"
          /\ UNCHANGED <<save, discard, pass>>
      BY <1>4 DEF Clears, IsNext
    <2>2. shelf' \in Seq(Item)
      BY <1>0, <2>1, WithoutType
    <2>3. tray' \in Seq(Item) /\ io' \in Seq(Request) /\ Orderly(io') /\ Continues(io', Tail(io))
      BY <2>1, <2>2, FirstDone, ListedQueue
    <2>4. Continues(io', io)
      BY <2>1, <2>3, FirstDone, ContinuesOn
    <2>5. Staged'
      BY <2>1, <2>4, StagedOn DEF Queue
    <2>6. CASE o.stale
      <3>1. UNCHANGED call
        BY <1>4, <2>6 DEF Clears
      <3> QED
        BY <2>1, <2>3, <2>4, <2>5, <3>1, QuietOn DEF Queue
    <2>7. CASE ~o.stale
      <3>1. Sync(o.draft, o.text)
        BY <1>4, <2>7 DEF Clears
      <3> QED
        BY <2>1, <2>3, <2>4, <2>5, <2>7, <3>1, SyncQuiet DEF Queue, Work
    <2> QED
      BY <2>6, <2>7
  <1>5. CASE Prunes
    BY <1>1, <1>5 DEF Prunes, IsNext
  <1>6. ASSUME Keeps \/ Drops
        PROVE  io' \in Seq(Request) /\ Queue' /\ (UNCHANGED tray \/ tray' \in Seq(Item))
    <2>1. /\ io' = Tail(io) /\ io # <<>> /\ Head(io).op \in {"keep", "drop"}
          /\ UNCHANGED <<tray, call, pass, discard>>
      BY <1>6 DEF Keeps, Drops, IsNext
    <2>2. Continues(io', io) /\ io' \in Seq(Request) /\ Orderly(io')
      BY <2>1, FirstDone
    <2>3. \A i \in DOMAIN io' : io'[i].op \notin {"keep", "drop"}
      BY <2>1, FirstDone DEF Queue, Orderly
    <2>4. Staged'
      BY <2>1, <2>2, <2>3 DEF Queue, Staged, Continues, Work
    <2> QED
      BY <2>1, <2>2, <2>4, QuietOn DEF Queue
  <1>7. CASE Forgets
    <2>1. io' = Tail(io) /\ io # <<>> /\ UNCHANGED <<tray, call, pass, save>>
      BY <1>7 DEF Forgets, IsNext
    <2>2. Continues(io', io) /\ io' \in Seq(Request) /\ Orderly(io')
      BY <2>1, FirstDone
    <2>3. CASE Head(io).op = "erase"
      <3>1. UNCHANGED discard
        BY <1>7, <2>1, <2>3 DEF Forgets, IsNext
      <3> QED
        BY <1>1, <2>1, <3>1
    <2>4. CASE Head(io).op = "forget"
      <3>1. discard' = NoEdit
        BY <1>7, <2>1, <2>4 DEF Forgets, IsNext
      <3>2. discard'.stage = "off"
        BY <3>1 DEF NoEdit
      <3>3. \A i \in DOMAIN io' : io'[i].op # "forget"
        BY <2>1, <2>4, FirstDone DEF Queue, Orderly
      <3>4. Staged'
        BY <2>1, <2>2, <3>3 DEF Queue, Staged, Continues, Work
      <3> QED
        BY <2>1, <2>2, <3>2, <3>4, QuietOn DEF Queue
    <2> QED
      BY <1>7, <2>3, <2>4 DEF Forgets, IsNext
  <1> QED
    BY <1>2, <1>3, <1>4, <1>5, <1>6, <1>7 DEF Storage

\* Nothing is done to the queue.
LEMMA QueueRests ==
  ASSUME Window, Queue, UNCHANGED io
  PROVE  /\ io' \in Seq(Request) /\ Orderly(io') /\ Continues(io', io)
         /\ UNCHANGED <<save, discard>> => Staged'
  <1>1. io' \in Seq(Request) /\ Orderly(io') /\ Continues(io', io)
    BY ContinuesSame DEF Window, QueueOK, Queue
  <1> QED
    BY <1>1, StagedOn DEF Queue

\* Requests to the server, answers and passes over the outbox.
LEMMA QueueCalls ==
  ASSUME Window, Queue,
         \/ CallArrives \/ CallReturns \/ CallFails \/ CallEnds \/ LateArrives
         \/ PassStarts \/ Retries \/ PassEnds
  PROVE  io' \in Seq(Request) /\ Queue'
  <1>1. UNCHANGED <<io, save, discard>>
    BY DEF CallArrives, CallReturns, CallFails, CallEnds, LateArrives, PassStarts, Retries,
           PassEnds, browser
  <1>2. io' \in Seq(Request) /\ Orderly(io') /\ Continues(io', io) /\ Staged'
    BY <1>1, QueueRests
  <1>3. CASE CallArrives \/ CallReturns \/ CallFails \/ CallEnds \/ LateArrives \/ PassEnds
    <2>1. (call = NoCall => call' = NoCall) /\ (pass = {} => pass' = {})
      BY <1>3 DEF CallArrives, CallReturns, CallFails, CallEnds, LateArrives, PassEnds, NoCall
    <2> QED
      BY <1>1, <1>2, <2>1, QuietOn DEF Queue
  <1>4. CASE PassStarts
    <2>1. discard'.stage = "off" /\ \A i \in DOMAIN io' : io'[i].op \notin Deletes
      BY <1>1, <1>4 DEF PassStarts, Deletes
    <2> QED
      BY <1>2, <2>1 DEF Queue, Quiet
  <1>5. CASE Retries
    <2>1. discard'.stage = "off" /\ pass # {}
      BY <1>1, <1>5 DEF Retries
    <2>2. \A i \in DOMAIN io' : io'[i].op \notin Deletes
      BY <1>1, <2>1 DEF Queue, Quiet
    <2> QED
      BY <1>2, <2>1, <2>2 DEF Queue, Quiet
  <1> QED
    BY <1>3, <1>4, <1>5

\* The page lists its drafts.
LEMMA QueueListing ==
  ASSUME Window, Queue, Listing
  PROVE  tray' \in Seq(Item) /\ io' \in Seq(Request) /\ Orderly(io') /\ Continues(io', io)
  <1>1. shelf \in Seq(Item) /\ io \in Seq(Request) /\ Orderly(io)
    BY DEF Window, QueueOK, Queue
  <1> QED
    BY <1>1, ListedQueue DEF Listing

\* The debounce, a flush or a close appends a request.
LEMMA QueuePersists ==
  ASSUME Window, Queue, NEW closes \in BOOLEAN, Persist(closes)
  PROVE  /\ io' \in Seq(Request) /\ Queue'
         /\ io' # io => \E r \in Request : r.op \in {"store", "clear"} /\ io' = Append(io, r)
  <1>0. io \in Seq(Request) /\ Orderly(io) /\ UNCHANGED <<save, discard, call, pass>>
    BY DEF Window, QueueOK, Queue, Persist
  <1>1. ASSUME NEW op \in {"store", "clear"}, NEW d \in Ids, NEW t \in Texts
        PROVE  /\ [Op(op, d, t) EXCEPT !.closes = closes] \in Request
               /\ [Op(op, d, t) EXCEPT !.closes = closes].op = op
    BY DEF Op, Request
  <1>2. FreshIds \subseteq Ids
    BY DEF FreshIds, Ids
  <1>3. io' # io => \E r \in Request : r.op \in {"store", "clear"} /\ io' = Append(io, r)
    <2>0. ed.text \in Texts /\ ed.draft \in Ids \cup {NoDraft}
      BY DEF Window, EdOK, Editor
    <2>1. CASE ed.text # Blank
      <3>1. PICK d \in IF ed.draft = NoDraft THEN FreshIds ELSE {ed.draft} :
              io' = Append(io, [Op("store", d, ed.text) EXCEPT !.closes = closes])
        BY <2>1 DEF Persist
      <3>2. d \in Ids
        BY <1>2, <2>0
      <3> QED
        BY <1>1, <2>0, <3>1, <3>2
    <2>2. CASE ed.text = Blank /\ ed.draft # NoDraft
      <3>1. io' = Append(io, [Op("clear", ed.draft, Blank) EXCEPT !.closes = closes])
        BY <2>2 DEF Persist
      <3> QED
        BY <1>1, <2>0, <2>2, <3>1
    <2>3. CASE ed.text = Blank /\ ed.draft = NoDraft
      BY <2>3 DEF Persist
    <2> QED
      BY <2>1, <2>2, <2>3
  <1>4. io' \in Seq(Request) /\ Orderly(io') /\ Continues(io', io)
    <2>1. CASE io' = io
      BY <1>0, <2>1, ContinuesSame
    <2>2. CASE io' # io
      <3>1. PICK r \in Request : r.op \in {"store", "clear"} /\ io' = Append(io, r)
        BY <1>3, <2>2
      <3> QED
        BY <1>0, <3>1, AppendQueue
    <2> QED
      BY <2>1, <2>2
  <1> QED
    BY <1>0, <1>3, <1>4, StagedOn, QuietOn DEF Queue

\* What the user does.
LEMMA QueueEditor ==
  ASSUME Window, Queue,
         OpensNew \/ OpensEdit \/ Types \/ LoadsDraft \/ Reopens \/ Reload \/ Elsewhere
  PROVE  io' \in Seq(Request) /\ Queue' /\ tray' \in Seq(Item)
  <1>0. tray \in Seq(Item)
    BY DEF Window, QueueOK
  <1>1. CASE OpensNew \/ OpensEdit
    <2>1. Listing /\ UNCHANGED <<save, discard, call, pass>>
      BY <1>1 DEF OpensNew, OpensEdit
    <2> QED
      BY <2>1, QueueListing, StagedOn, QuietOn DEF Queue
  <1>2. CASE Types \/ LoadsDraft \/ Reopens \/ Elsewhere
    <2>1. UNCHANGED <<io, tray, save, discard, call, pass>>
      BY <1>2 DEF Types, LoadsDraft, Reopens, Elsewhere, browser
    <2> QED
      BY <1>0, <2>1, QueueRests, QuietOn DEF Queue
  <1>3. CASE Reload
    <2>1. io' = <<>> /\ tray' = <<>> /\ call' = NoCall /\ pass' = {}
      BY <1>3 DEF Reload
    <2>2. DOMAIN io' = {}
      BY <2>1
    <2>3. io' \in Seq(Request) /\ tray' \in Seq(Item)
      BY <2>1
    <2> QED
      BY <2>1, <2>2, <2>3 DEF Queue, Orderly, Staged, Quiet
  <1> QED
    BY <1>1, <1>2, <1>3

\* A save.
LEMMA QueueSaving ==
  ASSUME Window, Queue, Saving \/ SaveStarts
  PROVE  io' \in Seq(Request) /\ Queue' /\ (UNCHANGED tray \/ tray' \in Seq(Item))
  <1>0. /\ io \in Seq(Request) /\ Orderly(io) /\ Staged /\ Quiet
        /\ save.draft \in Ids \cup {NoDraft} /\ (save.stage # "off" => save.draft # NoDraft)
        /\ ed.text \in Texts /\ ed.draft \in Ids \cup {NoDraft}
    BY DEF Window, QueueOK, Queue, SaveOK, EdOK, Save, Editor
  <1>1. ASSUME save.stage \notin {"keep", "drop"}
        PROVE  \A i \in DOMAIN io : io[i].op \notin {"keep", "drop"}
    BY <1>0, <1>1 DEF Staged
  <1>2. ASSUME SavePosts \/ SaveCommits \/ SaveFails
        PROVE  io' \in Seq(Request) /\ Queue' /\ UNCHANGED tray
    <2>1. UNCHANGED <<io, tray, discard, call, pass>> /\ save.stage \notin {"keep", "drop"}
      BY <1>2 DEF SavePosts, SaveCommits, SaveFails, browser
    <2>2. Staged'
      BY <1>0, <1>1, <2>1 DEF Staged
    <2> QED
      BY <2>1, <2>2, QueueRests, QuietOn DEF Queue
  <1>3. CASE Finalizes
    <2> DEFINE r == Op("drop", save.draft, Blank)
    <2>1. /\ save.stage = "answered" /\ Abandons(<<r>>) /\ save' = [save EXCEPT !.stage = "drop"]
          /\ UNCHANGED <<discard, tray>>
      BY <1>3 DEF Finalizes
    <2>2. call' = NoCall /\ pass' = {} /\ io' = Stale(io) \o <<r>>
      BY <2>1 DEF Abandons
    <2>3. r \in Request /\ r.op = "drop" /\ r.draft = save.draft
      BY <1>0, <2>1, OpType, BlankType
    <2>4. save'.stage = "drop" /\ save'.draft = save.draft
      BY <2>1 DEF Window, SaveOK, Save
    <2> HIDE DEF r
    <2>5. /\ io' \in Seq(Request) /\ Len(io') = Len(io) + 1 /\ io'[Len(io) + 1] = r
          /\ \A i \in 1..Len(io) : io'[i] = Stale(io)[i]
          /\ Orderly(io')
      BY <1>0, <1>1, <2>1, <2>2, <2>3, DropQueue
    <2>6. \A i \in 1..Len(io) : io'[i].op = io[i].op
      BY <1>0, <2>5, StaleQueue
    <2>7. Staged'
      BY <1>0, <1>1, <2>1, <2>3, <2>4, <2>5, <2>6 DEF Staged
    <2> QED
      BY <2>1, <2>2, <2>5, <2>7 DEF Queue, Quiet
  <1>4. CASE SaveEnds
    <2>1. save.stage = "caches" /\ save' = NoSave /\ UNCHANGED <<call, pass>>
      BY <1>4 DEF SaveEnds
    <2>2. \A i \in DOMAIN io : io[i].op \notin {"keep", "drop"}
      BY <1>1, <2>1
    <2>3. CASE ed.entry # None
      <3>1. /\ discard' = NoEdit /\ UNCHANGED tray
            /\ io' = IF discard.stage = "off" THEN io ELSE Left(io)
        BY <1>4, <2>3 DEF SaveEnds
      <3>2. discard'.stage = "off"
        BY <3>1 DEF NoEdit
      <3>3. CASE discard.stage = "off"
        <4>1. UNCHANGED io
          BY <3>1, <3>3
        <4>2. Staged'
          BY <1>0, <2>2, <3>3, <4>1 DEF Staged
        <4> QED
          BY <2>1, <3>1, <3>2, <4>1, <4>2, QueueRests, QuietOn DEF Queue
      <3>4. CASE discard.stage # "off"
        <4>1. io' = Left(io)
          BY <3>1, <3>4
        <4>2. /\ io' \in Seq(Request) /\ Orderly(io') /\ Len(io') = Len(io)
              /\ \A i \in DOMAIN io :
                   io'[i].op = IF io[i].op = "forget" THEN "erase" ELSE io[i].op
          BY <1>0, <4>1, LeftQueue
        <4>3. ASSUME NEW i \in DOMAIN io'
              PROVE  io'[i].op \notin {"keep", "drop", "forget"}
          <5>1. i \in DOMAIN io
            BY <1>0, <4>2
          <5>2. io'[i].op = IF io[i].op = "forget" THEN "erase" ELSE io[i].op
            BY <4>2, <5>1
          <5> QED
            BY <2>2, <5>1, <5>2
        <4>4. call' = NoCall /\ pass' = {}
          BY <1>0, <2>1, <3>4 DEF Quiet
        <4>5. Staged'
          BY <4>3 DEF Staged
        <4> QED
          BY <3>1, <4>2, <4>4, <4>5 DEF Queue, Quiet
      <3> QED
        BY <3>3, <3>4
    <2>4. CASE ed.entry = None
      <3>1. Listing /\ UNCHANGED discard
        BY <1>4, <2>4 DEF SaveEnds
      <3>2. tray' \in Seq(Item) /\ io' \in Seq(Request) /\ Orderly(io') /\ Continues(io', io)
        BY <3>1, QueueListing
      <3>3. Staged'
        BY <1>0, <2>2, <3>1, <3>2 DEF Staged, Continues, Work
      <3> QED
        BY <2>1, <3>1, <3>2, <3>3, QuietOn DEF Queue
    <2> QED
      BY <2>3, <2>4
  <1>5. CASE SaveStarts
    <2>1. PICK d \in IF ed.draft = NoDraft THEN FreshIds ELSE {ed.draft} :
            /\ io' = Append(io, Op("keep", d, ed.text))
            /\ save' = [stage |-> "keep", draft |-> d, working |-> ed.working, base |-> ed.base,
                        text |-> ed.text, token |-> {}]
      BY <1>5 DEF SaveStarts
    <2>2. save.stage = "off" /\ UNCHANGED <<tray, call, pass, discard>> /\ save'.stage = "keep"
      BY <1>5, <2>1 DEF SaveStarts
    <2>3. d \in Ids
      BY <1>0 DEF FreshIds, Ids
    <2> DEFINE r == Op("keep", d, ed.text)
    <2>4. r \in Request /\ r.op = "keep"
      BY <1>0, <2>3, OpType
    <2>5. io' = Append(io, r)
      BY <2>1
    <2> HIDE DEF r
    <2>6. /\ io' \in Seq(Request) /\ Len(io') = Len(io) + 1
          /\ \A i \in 1..Len(io) : io'[i] = io[i]
          /\ io'[Len(io) + 1] = r /\ Orderly(io')
      BY <1>0, <1>1, <2>2, <2>4, <2>5, AppendQueue
    <2>7. Staged'
      BY <1>0, <1>1, <2>2, <2>4, <2>6 DEF Staged
    <2>8. Quiet'
      BY <1>0, <2>2, <2>4, <2>6 DEF Quiet, Deletes
    <2> QED
      BY <2>2, <2>6, <2>7, <2>8 DEF Queue
  <1> QED
    BY <1>2, <1>3, <1>4, <1>5 DEF Saving

\* A discard, and undo.
LEMMA QueueUndoing ==
  ASSUME Window, Queue, Undoing \/ DiscardStarts
  PROVE  io' \in Seq(Request) /\ Queue' /\ UNCHANGED tray
  <1>0. /\ io \in Seq(Request) /\ Orderly(io) /\ Staged /\ Quiet
        /\ discard.stage # "off" => discard.draft \in Ids
    BY DEF Window, QueueOK, Queue, DiscardOK, Discard
  <1>1. ASSUME discard.stage # "forget"
        PROVE  \A i \in DOMAIN io : io[i].op # "forget"
    BY <1>0, <1>1 DEF Staged
  <1>2. CASE DiscardArrives \/ DiscardFails
    <2>1. /\ UNCHANGED <<io, tray, save, call, pass>>
          /\ discard.stage # "forget" /\ discard.stage # "off"
      BY <1>2 DEF DiscardArrives, DiscardFails, browser
    <2>2. Staged'
      BY <1>0, <1>1, <2>1 DEF Staged
    <2> QED
      BY <2>1, <2>2, QueueRests, QuietOn DEF Queue
  <1>3. CASE DiscardForgets
    <2> DEFINE r == Op("forget", discard.draft, Blank)
    <2>1. /\ discard.stage = "answered" /\ io' = Append(io, r)
          /\ discard' = [discard EXCEPT !.stage = "forget"]
          /\ UNCHANGED <<tray, save, call, pass>>
      BY <1>3 DEF DiscardForgets
    <2>2. r \in Request /\ r.op = "forget"
      BY <1>0, <2>1, OpType, BlankType
    <2>3. discard'.stage = "forget"
      BY <2>1 DEF Window, DiscardOK, Discard
    <2>4. call' = NoCall /\ pass' = {}
      BY <1>0, <2>1 DEF Quiet
    <2> HIDE DEF r
    <2>5. /\ io' \in Seq(Request) /\ Len(io') = Len(io) + 1
          /\ \A i \in 1..Len(io) : io'[i] = io[i]
          /\ io'[Len(io) + 1] = r /\ Orderly(io')
      BY <1>0, <1>1, <2>1, <2>2, AppendQueue
    <2>6. Staged'
      BY <1>0, <2>1, <2>2, <2>3, <2>5 DEF Staged
    <2> QED
      BY <2>1, <2>4, <2>5, <2>6 DEF Queue, Quiet
  <1>4. CASE UndoArrives \/ UndoEnds
    <2>1. UNCHANGED <<io, tray, save, discard, call, pass>>
      BY <1>4 DEF UndoArrives, UndoEnds, browser
    <2> QED
      BY <2>1, QueueRests, QuietOn DEF Queue
  <1>5. CASE DiscardStarts
    <2>1. discard.stage = "off" /\ Abandons(<<>>) /\ UNCHANGED <<tray, save>>
      BY <1>5 DEF DiscardStarts
    <2>2. call' = NoCall /\ pass' = {} /\ io' = Stale(io) \o <<>>
      BY <2>1 DEF Abandons
    <2>3. io' = Stale(io) /\ io' \in Seq(Request) /\ Orderly(io') /\ Continues(io', io)
      BY <1>0, <2>2, StaleQueue
    <2>4. Staged'
      BY <1>0, <1>1, <2>1, <2>3 DEF Staged, Continues, Work
    <2> QED
      BY <2>1, <2>2, <2>3, <2>4 DEF Queue, Quiet
  <1> QED
    BY <1>2, <1>3, <1>4, <1>5 DEF Undoing

\* Every step keeps the queue in order.
LEMMA QueueStep ==
  ASSUME Window, Queue, [Next]_vars
  PROVE  io' \in Seq(Request) /\ Queue' /\ tray' \in Seq(Item)
  <1>0. tray \in Seq(Item)
    BY DEF Window, QueueOK
  <1>1. CASE Storage
    BY <1>0, <1>1, QueueStorage
  <1>2. CASE Saving \/ SaveStarts
    BY <1>0, <1>2, QueueSaving
  <1>3. CASE Undoing \/ DiscardStarts
    BY <1>0, <1>3, QueueUndoing
  <1>4. CASE Autosaves \/ Closes
    <2>1. \E closes \in BOOLEAN : Persist(closes)
      BY <1>4 DEF Autosaves, Closes
    <2> QED
      BY <1>0, <2>1, QueuePersists DEF Persist
  <1>5. CASE \/ CallArrives \/ CallReturns \/ CallFails \/ CallEnds \/ LateArrives
             \/ PassStarts \/ Retries \/ PassEnds
    <2>1. UNCHANGED tray
      BY <1>5 DEF CallArrives, CallReturns, CallFails, CallEnds, LateArrives, PassStarts,
                  Retries, PassEnds, browser
    <2> QED
      BY <1>0, <1>5, <2>1, QueueCalls
  <1>6. CASE OpensNew \/ OpensEdit \/ Types \/ LoadsDraft \/ Reopens \/ Reload \/ Elsewhere
    BY <1>6, QueueEditor
  <1>7. CASE UNCHANGED vars
    <2>1. UNCHANGED <<io, tray, save, discard, call, pass>>
      BY <1>7 DEF vars, browser
    <2> QED
      BY <1>0, <2>1, QueueRests, QuietOn DEF Queue
  <1> QED
    BY <1>1, <1>2, <1>3, <1>4, <1>5, <1>6, <1>7 DEF Next

-----------------------------------------------------------------------------
(* The types of the window *)

\* Every draft id says who made it.
LEMMA FreshAreIds ==
  /\ FreshIds \subseteq Ids /\ NoDraft \notin Ids
  /\ \A e \in Entries, c \in Copies : Server!EditDraft(e, c) \in Ids
  <1>1. \A d \in Ids : d.type \in {"new", "undo", "edit"}
    BY DEF Ids, NewIds, Server!NewDraft, Server!UndoDraft, Server!EditDraft
  <1>2. NoDraft.type = "none"
    BY DEF NoDraft, Server!NoDraft
  <1>3. FreshIds \subseteq Ids /\ \A e \in Entries, c \in Copies : Server!EditDraft(e, c) \in Ids
    BY DEF FreshIds, Ids
  <1> QED
    BY <1>1, <1>2, <1>3

\* What the tables then say about drafts.
LEMMA RowsSeenNext ==
  ASSUME Tables'
  PROVE  /\ \A c \in Copies : Server!Live(c)' =>
              /\ copies'[c].draft \in Ids /\ copies'[c].payload.text \in Texts
              /\ copies'[c].base \in 0..MaxRevision
         /\ tokens' \subseteq Server!Token
  BY SameRows DEF Tables, Core!IInv, Core!TypeOK, Core!EditsAreChecked, Core!CopyRow,
     Core!Payload, Core!Live, Server!Live

\* What there is to send or to take back.
LEMMA AbortedType == Window => Aborted \subseteq Item /\ TakenBack \subseteq Item
  <1> SUFFICES ASSUME Window PROVE Aborted \subseteq Item /\ TakenBack \subseteq Item
    OBVIOUS
  <1>1. late \subseteq Item /\ outbox \subseteq Item /\ call \in Call \cup {NoCall}
    BY DEF Window, CallOK, QueueOK
  <1>2. call.at = "sent" => [draft |-> call.draft, text |-> call.text] \in Item
    BY <1>1 DEF Call, NoCall, Item
  <1> QED
    BY <1>1, <1>2 DEF Aborted, TakenBack, Unqueued

\* The shelf.
LEMMA ShelfType ==
  ASSUME Window, Queue, [Next]_vars
  PROVE  shelf' \in Seq(Item)
  <1>0. shelf \in Seq(Item) /\ io \in Seq(Request)
    BY DEF Window, QueueOK
  <1>1. CASE UNCHANGED shelf
    BY <1>0, <1>1
  <1>2. ASSUME io # <<>>, \E d : shelf' = Without(shelf, d)
        PROVE  shelf' \in Seq(Item)
    BY <1>0, <1>2, WithoutType
  <1>3. ASSUME io # <<>>, shelf' = Put(shelf, Head(io).draft, Head(io).text)
        PROVE  shelf' \in Seq(Item)
    BY <1>0, <1>3, FirstDone, PutType DEF Request
  <1>4. CASE Storage
    BY <1>1, <1>2, <1>3, <1>4
    DEF Storage, Stores, StoreFails, Clears, Prunes, Keeps, Drops, Forgets, IsNext
  <1>5. CASE Saving
    BY <1>1, <1>5 DEF Saving, SavePosts, SaveCommits, SaveFails, Finalizes, SaveEnds, browser
  <1>6. CASE Undoing
    BY <1>1, <1>6 DEF Undoing, DiscardArrives, DiscardForgets, DiscardFails, UndoArrives,
       UndoEnds, browser
  <1>7. CASE Autosaves \/ Closes
    BY <1>1, <1>7 DEF Autosaves, Closes, Persist
  <1>8. CASE CallArrives \/ CallReturns \/ CallFails \/ CallEnds \/ LateArrives
    BY <1>1, <1>8 DEF CallArrives, CallReturns, CallFails, CallEnds, LateArrives, browser
  <1>9. CASE PassStarts \/ Retries \/ PassEnds
    BY <1>1, <1>9 DEF PassStarts, Retries, PassEnds, browser
  <1>10. CASE \/ OpensNew \/ OpensEdit \/ Types \/ LoadsDraft \/ Reopens \/ Reload
              \/ SaveStarts \/ DiscardStarts \/ Elsewhere
    BY <1>1, <1>10 DEF OpensNew, OpensEdit, Types, LoadsDraft, Reopens, Reload, SaveStarts,
       DiscardStarts, Elsewhere, browser
  <1> QED
    BY <1>1, <1>4, <1>5, <1>6, <1>7, <1>8, <1>9, <1>10 DEF Next, vars, browser

\* Requests and the outbox.
LEMMA SyncType ==
  ASSUME Window, NEW d \in Ids, NEW t \in Texts, Sync(d, t)
  PROVE  outbox' \subseteq Item /\ call' \in Call \cup {NoCall} /\ late' \subseteq Item
  <1>1. outbox \subseteq Item /\ late \subseteq Item /\ call \in Call \cup {NoCall}
    BY DEF Window, CallOK, QueueOK
  <1>2. CASE UNCHANGED <<outbox, call, late>>
    BY <1>1, <1>2
  <1>3. CASE outbox' = Queued(d, t) /\ UNCHANGED <<call, late>>
    BY <1>1, <1>3 DEF Queued, Unqueued, Item
  <1>4. CASE /\ outbox' = TakenBack /\ late' = Aborted
             /\ call' = [draft |-> d, text |-> t, kind |-> "sync", at |-> "sent"]
    BY <1>4, AbortedType DEF Call
  <1> QED
    BY <1>2, <1>3, <1>4 DEF Sync

\* The outbox and the requests of the autosave.
LEMMA CallType ==
  ASSUME Window, Queue, [Next]_vars
  PROVE  outbox' \subseteq Item /\ CallOK'
  <1>0. /\ outbox \subseteq Item /\ late \subseteq Item /\ call \in Call \cup {NoCall}
        /\ pass \subseteq Item
    BY DEF Window, CallOK, QueueOK
  <1>1. CASE UNCHANGED <<outbox, call, late, pass>>
    BY <1>0, <1>1 DEF CallOK
  <1>2. ASSUME io # <<>>, Sync(Head(io).draft, Head(io).text), UNCHANGED pass
        PROVE  outbox' \subseteq Item /\ CallOK'
    <2>1. Head(io).draft \in Ids /\ Head(io).text \in Texts
      BY <1>2, FirstDone DEF Request
    <2> QED
      BY <1>0, <1>2, <2>1, SyncType DEF CallOK
  <1>3. ASSUME NEW d, outbox' = Unqueued(d), UNCHANGED <<call, late, pass>>
        PROVE  outbox' \subseteq Item /\ CallOK'
    BY <1>0, <1>3 DEF CallOK, Unqueued
  <1>4. ASSUME NEW s, Abandons(s)
        PROVE  outbox' \subseteq Item /\ CallOK'
    BY <1>4, AbortedType DEF CallOK, Abandons
  <1>5. CASE Stores \/ Clears
    BY <1>1, <1>2, <1>5 DEF Stores, Clears, IsNext
  <1>6. CASE StoreFails \/ Prunes \/ Keeps
    BY <1>1, <1>6 DEF StoreFails, Prunes, Keeps
  <1>7. CASE Drops \/ Forgets
    BY <1>3, <1>7 DEF Drops, Forgets
  <1>8. CASE Saving \/ SaveStarts
    BY <1>1, <1>4, <1>8
    DEF Saving, SavePosts, SaveCommits, SaveFails, Finalizes, SaveEnds, SaveStarts, browser
  <1>9. CASE Undoing \/ DiscardStarts
    BY <1>1, <1>4, <1>9 DEF Undoing, DiscardArrives, DiscardForgets, DiscardFails, UndoArrives,
       UndoEnds, DiscardStarts, browser
  <1>10. CASE Autosaves \/ Closes
    BY <1>1, <1>10 DEF Autosaves, Closes, Persist
  <1>11. CASE CallArrives
    <2>1. call \in Call /\ UNCHANGED <<outbox, late, pass>>
      BY <1>0, <1>11 DEF CallArrives, NoCall, browser
    <2>2. call' = [call EXCEPT !.at = "ok"] \/ call' = [call EXCEPT !.at = "conflict"]
      BY <1>11 DEF CallArrives
    <2>3. call' \in Call
      BY <2>1, <2>2 DEF Call
    <2> QED
      BY <1>0, <2>1, <2>3 DEF CallOK
  <1>12. CASE CallReturns
    BY <1>0, <1>12 DEF CallReturns, CallOK, Unqueued
  <1>13. CASE CallFails
    <2>1. call \in Call /\ UNCHANGED <<late, pass>>
      BY <1>0, <1>13 DEF CallFails, NoCall
    <2>2. CASE call' = NoCall /\ UNCHANGED outbox
      BY <1>0, <2>1, <2>2 DEF CallOK
    <2>3. CASE /\ outbox' = Queued(call.draft, call.text)
               /\ call' = [call EXCEPT !.at = "requeued"]
      <3>1. call' \in Call
        BY <2>1, <2>3 DEF Call
      <3>2. outbox' \subseteq Item
        BY <1>0, <2>1, <2>3 DEF Queued, Unqueued, Item, Call
      <3> QED
        BY <1>0, <2>1, <3>1, <3>2 DEF CallOK
    <2> QED
      BY <1>13, <2>2, <2>3 DEF CallFails
  <1>14. CASE CallEnds
    BY <1>0, <1>14 DEF CallEnds, CallOK, Unqueued
  <1>15. CASE LateArrives
    BY <1>0, <1>15 DEF LateArrives, CallOK, browser
  <1>16. CASE PassStarts \/ PassEnds
    BY <1>0, <1>16 DEF PassStarts, PassEnds, CallOK, browser
  <1>17. CASE Retries
    <2>1. PICK x \in pass :
            /\ pass' = pass \ {x} /\ late' = Aborted /\ outbox' = TakenBack
            /\ call' = [draft |-> x.draft, text |-> x.text, kind |-> "retry", at |-> "sent"]
      BY <1>17 DEF Retries
    <2>2. call' \in Call
      BY <1>0, <2>1 DEF Call, Item
    <2> QED
      BY <1>0, <2>1, <2>2, AbortedType DEF CallOK
  <1>18. CASE OpensNew \/ OpensEdit \/ Types \/ LoadsDraft \/ Reopens \/ Elsewhere
    BY <1>1, <1>18 DEF OpensNew, OpensEdit, Types, LoadsDraft, Reopens, Elsewhere, browser
  <1>19. CASE Reload
    BY <1>0, <1>19, AbortedType DEF Reload, CallOK
  <1> QED
    BY <1>1, <1>5, <1>6, <1>7, <1>8, <1>9, <1>10, <1>11, <1>12, <1>13, <1>14, <1>15, <1>16,
       <1>17, <1>18, <1>19 DEF Next, Storage, vars, browser

\* The editor.
LEMMA FreshType == Fresh \in Editor /\ Fresh.entry = None
  BY BlankType, BoundsAssumption DEF Fresh, Editor

\* A working copy put into the editor.
LEMMA ShownType ==
  ASSUME ed \in Editor, NEW e \in Entries, NEW c \in Copies, NEW row, row.draft \in Ids,
         row.payload.text \in Texts, row.base \in 0..MaxRevision, NEW b \in BOOLEAN
  PROVE  /\ [Shown(e, c, row) EXCEPT !.changed = b] \in Editor
         /\ [Shown(e, c, row) EXCEPT !.changed = b].draft = row.draft
  BY DEF Shown, Editor

\* An edit is opened with the row the server answers.
LEMMA OpensEditType ==
  ASSUME Window, Tables, Tables', OpensEdit
  PROVE  EdOK'
  <1>0. ed \in Editor /\ copies \in [Copies -> Server!CopyRow]
    BY SameRows DEF Window, EdOK, Tables, Core!IInv, Core!TypeOK
  <1>1. PICK e \in Existing, c \in Copies :
          /\ \/ Server!OpenEdit(e) /\ copies'[c] # copies[c]
             \/ c \in Server!CopiesOf(e) /\ UNCHANGED tables
          /\ ed' = [Shown(e, c, copies'[c]) EXCEPT
                      !.changed = (copies'[c].payload.text # entries[e].text)]
    BY DEF OpensEdit
  <1>2. Server!Live(c)'
    <2>1. CASE Server!OpenEdit(e) /\ copies'[c] # copies[c]
      <3>1. PICK k \in Copies : copies' = [copies EXCEPT ![k] = Server!EditCopy(e, k)]
        BY <2>1 DEF Server!OpenEdit
      <3>2. k = c
        BY <1>0, <2>1, <3>1
      <3> QED
        BY <1>0, <3>1, <3>2 DEF Server!Live, Server!EditCopy
    <2>2. CASE c \in Server!CopiesOf(e) /\ UNCHANGED tables
      BY <2>2 DEF Server!CopiesOf, Server!Live, tables
    <2> QED
      BY <1>1, <2>1, <2>2
  <1> DEFINE row == copies'[c]
             b == row.payload.text # entries[e].text
  <1>3. row.draft \in Ids /\ row.payload.text \in Texts /\ row.base \in 0..MaxRevision
    BY <1>2, RowsSeenNext
  <1>4. b \in BOOLEAN /\ e \in Entries
    BY DEF Existing
  <1>5. ed' = [Shown(e, c, row) EXCEPT !.changed = b]
    BY <1>1
  <1> HIDE DEF row, b
  <1>6. ed' \in Editor /\ ed'.draft = row.draft
    BY <1>0, <1>3, <1>4, <1>5, ShownType
  <1> QED
    BY <1>3, <1>6, FreshAreIds DEF EdOK

\* The editor, step by step.
LEMMA EdType ==
  ASSUME Window, Queue, Tables, Tables', [Next]_vars
  PROVE  EdOK'
  <1>0. /\ ed \in Editor /\ (ed.entry # None => ed.draft # NoDraft) /\ NoDraft \notin Ids
        /\ FreshIds \subseteq Ids
    BY FreshAreIds DEF Window, EdOK
  <1>1. CASE UNCHANGED ed
    BY <1>0, <1>1 DEF EdOK
  <1>2. ASSUME NEW d \in IF ed.draft = NoDraft THEN FreshIds ELSE {ed.draft},
               ed' = [ed EXCEPT !.draft = d]
        PROVE  EdOK'
    <2>1. d \in Ids
      BY <1>0 DEF Editor
    <2> QED
      BY <1>0, <1>2, <2>1 DEF EdOK, Editor
  <1>3. CASE Drops
    <2>1. PICK d \in FreshIds : ed' = [ed EXCEPT !.draft = d, !.changed = FALSE]
      BY <1>3 DEF Drops
    <2> QED
      BY <1>0, <2>1 DEF EdOK, Editor
  <1>4. CASE Forgets
    <2>1. CASE IsNext("erase")
      BY <1>1, <1>4, <2>1 DEF Forgets
    <2>2. CASE ~IsNext("erase")
      <3>1. /\ ed' = [Fresh EXCEPT !.text = discard.text, !.entry = discard.entry,
                         !.draft = Server!EditDraft(discard.entry, discard.copy),
                         !.working = discard.copy, !.base = discard.base, !.token = ed.token]
            /\ io # <<>> /\ Head(io).op = "forget"
        BY <1>4, <2>2 DEF Forgets, IsNext
      <3>2. discard.stage = "forget"
        BY <3>1, FirstDone DEF Queue, Staged
      <3>3. /\ discard.entry \in Entries /\ discard.copy \in Copies /\ discard.text \in Texts
            /\ discard.base \in 0..MaxRevision
        BY <3>2 DEF Window, DiscardOK, Discard
      <3>4. Server!EditDraft(discard.entry, discard.copy) \in Ids
        BY <3>3, FreshAreIds
      <3> DEFINE x == Server!EditDraft(discard.entry, discard.copy)
      <3>5. ed' = [Fresh EXCEPT !.text = discard.text, !.entry = discard.entry,
                      !.draft = x, !.working = discard.copy, !.base = discard.base,
                      !.token = ed.token] /\ x \in Ids
        BY <3>1, <3>4
      <3> HIDE DEF x
      <3> QED
        BY <1>0, <3>3, <3>5 DEF EdOK, Editor, Fresh
    <2> QED
      BY <2>1, <2>2
  <1>5. CASE StoreFails \/ Prunes \/ Keeps \/ Stores \/ Clears
    BY <1>1, <1>5 DEF StoreFails, Prunes, Keeps, Stores, Clears
  <1>6. CASE SaveEnds
    <2>1. ed' = Fresh \/ ed' = [ed EXCEPT !.text = Blank, !.changed = FALSE, !.token = save.token]
      BY <1>6 DEF SaveEnds
    <2>2. save.token \subseteq Server!Token
      BY DEF Window, SaveOK, Save
    <2>3. CASE ed' = Fresh
      BY <2>3, FreshType DEF EdOK
    <2>4. CASE ed' = [ed EXCEPT !.text = Blank, !.changed = FALSE, !.token = save.token]
      BY <1>0, <2>2, <2>4, BlankType DEF EdOK, Editor
    <2> QED
      BY <2>1, <2>3, <2>4
  <1>7. CASE SavePosts \/ SaveCommits \/ SaveFails \/ Finalizes
    BY <1>1, <1>7 DEF SavePosts, SaveCommits, SaveFails, Finalizes
  <1>8. CASE UndoEnds
    <2>1. ed' = [ed EXCEPT !.text = undo.text, !.token = {}, !.changed = FALSE]
      BY <1>8 DEF UndoEnds
    <2>2. undo.text \in Texts
      BY DEF Window, RestOK
    <2> QED
      BY <1>0, <2>1, <2>2 DEF EdOK, Editor
  <1>9. CASE \/ DiscardArrives \/ DiscardForgets \/ DiscardFails \/ UndoArrives
             \/ DiscardStarts
    BY <1>1, <1>9 DEF DiscardArrives, DiscardForgets, DiscardFails, UndoArrives, DiscardStarts
  <1>10. CASE Autosaves \/ Closes
    BY <1>1, <1>2, <1>10 DEF Autosaves, Closes, Persist
  <1>11. CASE CallArrives \/ CallReturns \/ CallFails \/ CallEnds \/ LateArrives
    BY <1>1, <1>11 DEF CallArrives, CallReturns, CallFails, CallEnds, LateArrives
  <1>12. CASE PassStarts \/ Retries \/ PassEnds
    BY <1>1, <1>12 DEF PassStarts, Retries, PassEnds
  <1>13. CASE OpensNew \/ Reopens \/ Elsewhere
    BY <1>1, <1>13 DEF OpensNew, Reopens, Elsewhere
  <1>14. CASE OpensEdit
    BY <1>14, OpensEditType
  <1>15. CASE Types
    <2>1. PICK t \in Texts : ed' = [ed EXCEPT !.text = t, !.changed = (@ \/ ed.entry # None)]
      BY <1>15 DEF Types
    <2> QED
      BY <1>0, <2>1 DEF EdOK, Editor
  <1>16. CASE LoadsDraft
    <2>1. PICK i \in DOMAIN tray : ed' = [Fresh EXCEPT !.text = tray[i].text,
                                             !.draft = tray[i].draft, !.token = ed.token]
      BY <1>16 DEF LoadsDraft
    <2>2. tray[i] \in Item
      BY DEF Window, QueueOK
    <2>3. tray[i].text \in Texts /\ tray[i].draft \in Ids /\ ed.token \subseteq Server!Token
      BY <1>0, <2>2 DEF Item, Editor
    <2> QED
      BY <2>1, <2>3, FreshType DEF EdOK, Editor
  <1>17. CASE Reload
    BY <1>17, FreshType DEF Reload, EdOK
  <1>18. CASE SaveStarts
    BY <1>2, <1>18 DEF SaveStarts
  <1> QED
    BY <1>1, <1>3, <1>4, <1>5, <1>6, <1>7, <1>8, <1>9, <1>10, <1>11, <1>12, <1>13, <1>14,
       <1>15, <1>16, <1>17, <1>18 DEF Next, Storage, Saving, Undoing, vars

\* The save under way.
LEMMA SaveType ==
  ASSUME Window, Queue, Tables', [Next]_vars
  PROVE  SaveOK'
  <1>0. /\ save \in Save /\ (save.stage # "off" => save.draft # NoDraft) /\ SaveOK
        /\ ed \in Editor /\ NoDraft \notin Ids /\ FreshIds \subseteq Ids
    BY FreshAreIds DEF Window, SaveOK, EdOK
  <1>1. CASE UNCHANGED save
    BY <1>0, <1>1 DEF SaveOK
  <1>2. CASE save' = NoSave
    BY <1>2, BlankType, BoundsAssumption DEF NoSave, SaveOK, Save
  <1>3. ASSUME save.stage # "off", NEW x \in {"post", "caches", "drop"},
               save' = [save EXCEPT !.stage = x]
        PROVE  SaveOK'
    BY <1>0, <1>3 DEF SaveOK, Save
  <1>4. CASE Keeps
    <2>1. save.stage = "keep"
      BY <1>4, FirstDone DEF Keeps, IsNext, Queue, Staged
    <2>2. CASE save.working = None
      BY <1>3, <1>4, <2>1, <2>2 DEF Keeps
    <2>3. CASE save.working # None
      <3>1. save' = [save EXCEPT !.stage = "commit"]
        BY <1>4, <2>3 DEF Keeps
      <3> QED
        BY <1>0, <2>1, <2>3, <3>1 DEF SaveOK, Save
    <2> QED
      BY <2>2, <2>3
  <1>5. CASE Drops
    <2>1. save.stage = "drop"
      BY <1>5, FirstDone DEF Drops, IsNext, Queue, Staged
    <2> QED
      BY <1>3, <1>5, <2>1 DEF Drops
  <1>6. CASE Finalizes
    BY <1>3, <1>6 DEF Finalizes
  <1>7. CASE SaveFails \/ SaveEnds \/ Reload
    BY <1>2, <1>7 DEF SaveFails, SaveEnds, Reload
  <1>8. CASE SavePosts
    <2>1. PICK c \in Copies : save' = [save EXCEPT !.stage = "commit", !.working = c]
      BY <1>8 DEF SavePosts
    <2>2. save.stage # "off" /\ c # None
      BY <1>8, ServerAssumption DEF SavePosts
    <2> QED
      BY <1>0, <2>1, <2>2 DEF SaveOK, Save
  <1>9. CASE SaveCommits
    <2> DEFINE x == tokens' \ tokens
    <2>1. save.stage # "off" /\ save' = [save EXCEPT !.stage = "answered", !.token = x]
      BY <1>9 DEF SaveCommits
    <2>2. x \subseteq Server!Token
      BY RowsSeenNext
    <2> HIDE DEF x
    <2> QED
      BY <1>0, <2>1, <2>2 DEF SaveOK, Save
  <1>10. CASE SaveStarts
    <2>1. PICK d \in IF ed.draft = NoDraft THEN FreshIds ELSE {ed.draft} :
            save' = [stage |-> "keep", draft |-> d, working |-> ed.working, base |-> ed.base,
                     text |-> ed.text, token |-> {}]
      BY <1>10 DEF SaveStarts
    <2>2. d \in Ids
      BY <1>0 DEF Editor
    <2> QED
      BY <1>0, <2>1, <2>2 DEF SaveOK, Save, Editor
  <1>11. CASE Stores \/ StoreFails \/ Clears \/ Prunes \/ Forgets
    BY <1>1, <1>11 DEF Stores, StoreFails, Clears, Prunes, Forgets
  <1>12. CASE Undoing \/ DiscardStarts
    BY <1>1, <1>12 DEF Undoing, DiscardArrives, DiscardForgets, DiscardFails, UndoArrives,
       UndoEnds, DiscardStarts
  <1>13. CASE Autosaves \/ Closes
    BY <1>1, <1>13 DEF Autosaves, Closes, Persist
  <1>14. CASE CallArrives \/ CallReturns \/ CallFails \/ CallEnds \/ LateArrives
    BY <1>1, <1>14 DEF CallArrives, CallReturns, CallFails, CallEnds, LateArrives
  <1>15. CASE PassStarts \/ Retries \/ PassEnds
    BY <1>1, <1>15 DEF PassStarts, Retries, PassEnds
  <1>16. CASE OpensNew \/ OpensEdit \/ Types \/ LoadsDraft \/ Reopens \/ Elsewhere
    BY <1>1, <1>16 DEF OpensNew, OpensEdit, Types, LoadsDraft, Reopens, Elsewhere
  <1> QED
    BY <1>1, <1>4, <1>5, <1>6, <1>7, <1>8, <1>9, <1>10, <1>11, <1>12, <1>13, <1>14, <1>15,
       <1>16 DEF Next, Storage, Saving, vars

\* The discard under way.
LEMMA DiscardType ==
  ASSUME Window, Queue, Tables', [Next]_vars
  PROVE  DiscardOK'
  <1>0. discard \in Discard /\ DiscardOK /\ ed \in Editor /\ (ed.entry # None => ed.draft # NoDraft)
    BY DEF Window, DiscardOK, EdOK
  <1>1. CASE UNCHANGED discard
    BY <1>0, <1>1 DEF DiscardOK
  <1>2. CASE discard' = NoEdit
    BY <1>2, BlankType, BoundsAssumption DEF NoEdit, DiscardOK, Discard
  <1>3. CASE DiscardStarts
    <2>1. /\ ed.entry # None
          /\ discard' = [NoEdit EXCEPT !.stage = "asked", !.entry = ed.entry, !.draft = ed.draft]
      BY <1>3 DEF DiscardStarts
    <2>2. NoEdit \in Discard
      BY BlankType, BoundsAssumption DEF NoEdit, Discard
    <2>3. ed.entry \in Entries /\ ed.draft \in Ids
      BY <1>0, <2>1 DEF Editor
    <2> QED
      BY <1>0, <2>1, <2>2, <2>3 DEF DiscardOK, Discard
  <1>4. CASE DiscardArrives
    <2>1. PICK c \in Copies :
            /\ copies'[c].state = "live"
            /\ discard' = [discard EXCEPT !.stage = "answered", !.copy = c,
                             !.text = copies'[c].payload.text, !.base = copies'[c].base]
      BY <1>4 DEF DiscardArrives
    <2> DEFINE t == copies'[c].payload.text
               b == copies'[c].base
    <2>2. t \in Texts /\ b \in 0..MaxRevision
      BY <2>1, RowsSeenNext DEF Server!Live
    <2>3. discard' = [discard EXCEPT !.stage = "answered", !.copy = c, !.text = t, !.base = b]
      BY <2>1
    <2>4. discard.stage = "asked" /\ c # None
      BY <1>4, ServerAssumption DEF DiscardArrives
    <2> HIDE DEF t, b
    <2> QED
      BY <1>0, <2>2, <2>3, <2>4 DEF DiscardOK, Discard
  <1>5. CASE DiscardForgets
    BY <1>0, <1>5 DEF DiscardForgets, DiscardOK, Discard
  <1>6. CASE DiscardFails \/ Reload
    BY <1>2, <1>6 DEF DiscardFails, Reload
  <1>7. CASE SaveEnds \/ Forgets
    BY <1>1, <1>2, <1>7 DEF SaveEnds, Forgets
  <1>8. CASE Stores \/ StoreFails \/ Clears \/ Prunes \/ Keeps \/ Drops
    BY <1>1, <1>8 DEF Stores, StoreFails, Clears, Prunes, Keeps, Drops
  <1>9. CASE SavePosts \/ SaveCommits \/ SaveFails \/ Finalizes \/ SaveStarts
    BY <1>1, <1>9 DEF SavePosts, SaveCommits, SaveFails, Finalizes, SaveStarts
  <1>10. CASE UndoArrives \/ UndoEnds
    BY <1>1, <1>10 DEF UndoArrives, UndoEnds
  <1>11. CASE Autosaves \/ Closes
    BY <1>1, <1>11 DEF Autosaves, Closes, Persist
  <1>12. CASE CallArrives \/ CallReturns \/ CallFails \/ CallEnds \/ LateArrives
    BY <1>1, <1>12 DEF CallArrives, CallReturns, CallFails, CallEnds, LateArrives
  <1>13. CASE PassStarts \/ Retries \/ PassEnds
    BY <1>1, <1>13 DEF PassStarts, Retries, PassEnds
  <1>14. CASE OpensNew \/ OpensEdit \/ Types \/ LoadsDraft \/ Reopens \/ Elsewhere
    BY <1>1, <1>14 DEF OpensNew, OpensEdit, Types, LoadsDraft, Reopens, Elsewhere
  <1> QED
    BY <1>1, <1>3, <1>4, <1>5, <1>6, <1>7, <1>8, <1>9, <1>10, <1>11, <1>12, <1>13, <1>14
    DEF Next, Storage, Saving, Undoing, vars

\* What is on the way of the user, and of undo.
LEMMA RestType ==
  ASSUME Window, Queue, [Next]_vars
  PROVE  RestOK'
  <1>0. /\ undo \in [stage : {"off", "answered"}, text : Texts] /\ open \in BOOLEAN
        /\ user \in [text : Texts, moves : 0..MaxMoves] /\ ed.token \subseteq Server!Token
        /\ MaxMoves \in Nat
    BY BoundsAssumption DEF Window, RestOK, EdOK, Editor
  <1>1. ASSUME NEW t \in Texts, MovesTo(t)
        PROVE  user' \in [text : Texts, moves : 0..MaxMoves]
    BY <1>0, <1>1 DEF MovesTo
  <1>2. ASSUME Moves PROVE user' \in [text : Texts, moves : 0..MaxMoves]
    BY <1>0, <1>1, <1>2 DEF Moves
  <1>3. ASSUME UNCHANGED user \/ Moves \/ \E t \in Texts : NewText(t)
        PROVE  user' \in [text : Texts, moves : 0..MaxMoves]
    BY <1>0, <1>1, <1>2, <1>3 DEF NewText
  <1>4. ASSUME UNCHANGED user \/ Moves \/ (\E t \in Texts : NewText(t)), open' \in BOOLEAN,
               UNCHANGED undo
        PROVE  RestOK'
    BY <1>0, <1>3, <1>4 DEF RestOK
  <1>5. CASE Stores \/ StoreFails \/ Clears
    <2>1. open' \in BOOLEAN
      BY <1>0, <1>5 DEF Stores, StoreFails, Clears
    <2>2. UNCHANGED <<user, undo>>
      BY <1>5 DEF Stores, StoreFails, Clears
    <2> QED
      BY <1>4, <2>1, <2>2
  <1>6. CASE Prunes \/ Keeps \/ Drops \/ Forgets
    BY <1>0, <1>4, <1>6 DEF Prunes, Keeps, Drops, Forgets
  <1>7. CASE SavePosts \/ SaveCommits \/ SaveFails \/ Finalizes \/ SaveStarts
    BY <1>0, <1>4, <1>7 DEF SavePosts, SaveCommits, SaveFails, Finalizes, SaveStarts
  <1>8. CASE SaveEnds
    <2>1. UNCHANGED <<user, undo>> /\ (open' = FALSE \/ UNCHANGED open)
      BY <1>8 DEF SaveEnds
    <2> QED
      BY <1>0, <1>4, <2>1
  <1>9. CASE DiscardArrives \/ DiscardForgets \/ DiscardFails \/ DiscardStarts
    BY <1>0, <1>4, <1>9 DEF DiscardArrives, DiscardForgets, DiscardFails, DiscardStarts
  <1>10. CASE UndoArrives
    <2>1. PICK k \in ed.token : undo' = [stage |-> "answered", text |-> k.payload.text]
      BY <1>10 DEF UndoArrives
    <2>2. k.payload.text \in Texts
      BY <1>0 DEF Server!Token, Server!Payload
    <2>3. undo' \in [stage : {"off", "answered"}, text : Texts]
      BY <2>1, <2>2
    <2>4. Moves /\ UNCHANGED open
      BY <1>10 DEF UndoArrives
    <2> QED
      BY <1>0, <1>2, <2>3, <2>4 DEF RestOK
  <1>11. CASE UndoEnds
    <2>1. undo' = NoUndo /\ UNCHANGED <<open, user>>
      BY <1>11 DEF UndoEnds
    <2> QED
      BY <1>0, <2>1, BlankType DEF RestOK, NoUndo
  <1>12. CASE Autosaves \/ Closes
    <2>1. /\ UNCHANGED user \/ Moves
          /\ UNCHANGED undo
      BY <1>12 DEF Autosaves, Closes, Persist
    <2>2. open' = FALSE \/ UNCHANGED open
      BY <1>12 DEF Autosaves, Closes, Persist
    <2> QED
      BY <1>0, <1>4, <2>1, <2>2
  <1>13. CASE CallArrives \/ CallReturns \/ CallFails \/ CallEnds \/ LateArrives
    BY <1>0, <1>4, <1>13 DEF CallArrives, CallReturns, CallFails, CallEnds, LateArrives
  <1>14. CASE PassStarts \/ Retries \/ PassEnds
    BY <1>0, <1>4, <1>14 DEF PassStarts, Retries, PassEnds
  <1>15. CASE OpensNew \/ OpensEdit \/ LoadsDraft \/ Reopens
    BY <1>0, <1>4, <1>15 DEF OpensNew, OpensEdit, LoadsDraft, Reopens
  <1>16. CASE Reload
    <2>1. undo' = NoUndo /\ open' = FALSE /\ Moves
      BY <1>16 DEF Reload
    <2> QED
      BY <1>0, <1>2, <2>1, BlankType DEF RestOK, NoUndo
  <1>17. CASE Types
    <2>1. (Moves \/ \E t \in Texts : NewText(t)) /\ UNCHANGED <<open, undo>>
      BY <1>17 DEF Types
    <2> QED
      BY <1>0, <1>4, <2>1
  <1>18. CASE Elsewhere
    <2>1. (Moves \/ \E t \in Texts : NewText(t)) /\ UNCHANGED <<open, undo>>
      BY <1>18 DEF Elsewhere
    <2> QED
      BY <1>0, <1>4, <2>1
  <1>19. CASE UNCHANGED vars
    BY <1>0, <1>4, <1>19 DEF vars
  <1> QED
    BY <1>5, <1>6, <1>7, <1>8, <1>9, <1>10, <1>11, <1>12, <1>13, <1>14, <1>15, <1>16, <1>17,
       <1>18, <1>19 DEF Next, Storage, Saving, Undoing

\* The texts a listing still promises: those of the drafts it does not delete.
Spared(s, kept) ==
  {x \in kept : ~\E i \in DOMAIN s : i > MaxDrafts /\ s[i].draft = x.draft}

\* A listing ends the promises of the drafts it deletes.
LEMMA RefreshedPast ==
  ASSUME NEW s, NEW q, NEW kept, Refreshes(s, q, kept)
  PROVE  past' = [past EXCEPT !.kept = Spared(s, kept)]
  BY Zenon DEF Refreshes, Spared

\* The histories.
LEMMA PastType ==
  ASSUME Window, Queue, [Next]_vars
  PROVE  PastOK'
  <1>0. /\ past \in [kept : SUBSET Item, retired : SUBSET Ids, revived : SUBSET Ids]
        /\ ed.draft \in Ids \cup {NoDraft} /\ FreshIds \subseteq Ids
    BY FreshAreIds DEF Window, PastOK, EdOK, Editor
  <1>1. CASE UNCHANGED past
    BY <1>0, <1>1 DEF PastOK
  <1>2. ASSUME NEW k \in SUBSET Item, past' = [past EXCEPT !.kept = k]
        PROVE  PastOK'
    BY <1>0, <1>2 DEF PastOK
  <1>3. ASSUME NEW d \in Ids, past' = Revives(d)
        PROVE  PastOK'
    <2> DEFINE r == past.revived \cup ({d} \cap past.retired)
    <2>1. r \in SUBSET Ids
      BY <1>0
    <2>2. past' = [past EXCEPT !.revived = r]
      BY <1>3 DEF Revives
    <2> HIDE DEF r
    <2> QED
      BY <1>0, <2>1, <2>2 DEF PastOK
  <1>4. ASSUME NEW d \in Ids
        PROVE  Dropped(d) \in SUBSET Item /\ \A t \in Texts : Kept(d, t) \in SUBSET Item
    BY <1>0 DEF Dropped, Kept, Item
  <1>5. ASSUME NEW d \in Ids, past' = Ends(d)
        PROVE  PastOK'
    <2> DEFINE k == Dropped(d)
               t == past.retired \cup {d}
               r == (past.revived \ {d}) \cup ({d} \cap Stored(Tail(io)))
    <2>1. k \in SUBSET Item /\ t \in SUBSET Ids /\ r \in SUBSET Ids
      BY <1>0, <1>4
    <2>2. past' = [past EXCEPT !.kept = k, !.retired = t, !.revived = r]
      BY <1>5 DEF Ends
    <2> HIDE DEF k, t, r
    <2> QED
      BY <1>0, <2>1, <2>2 DEF PastOK
  <1>6. ASSUME NEW s, NEW q, NEW k \in SUBSET Item, Refreshes(s, q, k)
        PROVE  PastOK'
    <2>1. Spared(s, k) \in SUBSET Item
      BY DEF Spared
    <2> QED
      BY <1>2, <1>6, <2>1, RefreshedPast
  <1>7. ASSUME io # <<>> PROVE Head(io).draft \in Ids /\ Head(io).text \in Texts
    BY <1>7, FirstDone DEF Request
  <1>8. CASE Stores \/ Keeps
    <2>1. io # <<>>
      BY <1>8 DEF Stores, Keeps, IsNext
    <2>2. Kept(Head(io).draft, Head(io).text) \in SUBSET Item
      BY <1>4, <1>7, <2>1
    <2>3. \/ UNCHANGED past
          \/ past' = [past EXCEPT !.kept = Kept(Head(io).draft, Head(io).text)]
          \/ Refreshes(shelf', Tail(io), Kept(Head(io).draft, Head(io).text))
      BY <1>8 DEF Stores, Keeps
    <2> QED
      BY <1>1, <1>2, <1>6, <2>2, <2>3
  <1>9. CASE Clears
    <2>1. io # <<>> /\ Refreshes(shelf', Tail(io), Dropped(Head(io).draft))
      BY <1>9 DEF Clears, IsNext
    <2> QED
      BY <1>4, <1>6, <1>7, <2>1
  <1>10. CASE Drops \/ Forgets
    <2>1. io # <<>> /\ past' = Ends(Head(io).draft)
      BY <1>10 DEF Drops, Forgets, IsNext
    <2> QED
      BY <1>5, <1>7, <2>1
  <1>11. CASE StoreFails \/ Prunes
    BY <1>1, <1>11 DEF StoreFails, Prunes
  <1>12. CASE SaveEnds \/ OpensNew \/ OpensEdit
    <2>1. UNCHANGED past \/ Listing
      BY <1>12 DEF SaveEnds, OpensNew, OpensEdit
    <2> QED
      BY <1>0, <1>1, <1>6, <2>1 DEF Listing
  <1>13. CASE SavePosts \/ SaveCommits \/ SaveFails \/ Finalizes
    BY <1>1, <1>13 DEF SavePosts, SaveCommits, SaveFails, Finalizes
  <1>14. CASE Undoing \/ DiscardStarts
    BY <1>1, <1>14 DEF Undoing, DiscardArrives, DiscardForgets, DiscardFails, UndoArrives,
       UndoEnds, DiscardStarts
  <1>15. CASE Autosaves \/ Closes
    BY <1>0, <1>1, <1>3, <1>15 DEF Autosaves, Closes, Persist
  <1>16. CASE SaveStarts
    BY <1>0, <1>3, <1>16 DEF SaveStarts
  <1>17. CASE CallArrives \/ CallReturns \/ CallFails \/ CallEnds \/ LateArrives
    BY <1>1, <1>17 DEF CallArrives, CallReturns, CallFails, CallEnds, LateArrives
  <1>18. CASE PassStarts \/ Retries \/ PassEnds
    BY <1>1, <1>18 DEF PassStarts, Retries, PassEnds
  <1>19. CASE LoadsDraft
    <2>1. PICK d : past' = [past EXCEPT !.kept = {x \in @ : x.draft # d}]
      BY <1>19 DEF LoadsDraft
    <2> DEFINE k == {x \in past.kept : x.draft # d}
    <2>2. k \in SUBSET Item /\ past' = [past EXCEPT !.kept = k]
      BY <1>0, <2>1
    <2> HIDE DEF k
    <2> QED
      BY <1>2, <2>2
  <1>20. CASE Types \/ Reopens \/ Reload \/ Elsewhere
    BY <1>1, <1>20 DEF Types, Reopens, Reload, Elsewhere
  <1> QED
    BY <1>1, <1>8, <1>9, <1>10, <1>11, <1>12, <1>13, <1>14, <1>15, <1>16, <1>17, <1>18, <1>19,
       <1>20 DEF Next, Storage, Saving, vars

\* So every step keeps the types.
LEMMA WindowStep ==
  Window /\ Queue /\ Tables /\ [Next]_vars => Window' /\ Queue' /\ Tables'
  <1> SUFFICES ASSUME Window, Queue, Tables, [Next]_vars
               PROVE  Window' /\ Queue' /\ Tables'
    OBVIOUS
  <1>1. Tables'
    BY TablesStep
  <1>2. QueueOK' /\ CallOK' /\ Queue'
    BY QueueStep, ShelfType, CallType DEF QueueOK
  <1>3. EdOK' /\ SaveOK' /\ DiscardOK' /\ RestOK' /\ PastOK'
    BY <1>1, EdType, SaveType, DiscardType, RestType, PastType
  <1> QED
    BY <1>1, <1>2, <1>3 DEF Window

\* A published entry is a good beginning for the server, ...
LEMMA PublishedTables ==
  ASSUME NEW e \in Entries, NEW kind \in {"note", "article"}, NEW h \in Seq(Texts),
         Len(h) \in {1, 2}, Published(e, kind, h)
  PROVE  Tables /\ shelf = <<>> /\ user \in [text : Texts, moves : 0..MaxMoves]
  <1> DEFINE n == Len(h)
  <1>0. 1 \in Texts /\ 2 \in Texts /\ {0, 1, 2} \subseteq 0..MaxRevision /\ 0 \in 0..MaxMoves
    BY BoundsAssumption DEF Texts
  <1>1. n = Len(h) /\ n \in {1, 2}
    OBVIOUS
  <1> HIDE DEF n
  <1> DEFINE row == [Core!Unborn EXCEPT !.status = "public", !.kind = kind, !.text = n,
                                        !.revision = n]
  <1>2. /\ row \in Core!EntryRow /\ row.text \in Texts /\ row.revision > 0
        /\ row.status = "public"
    <2>1. Core!Unborn \in Core!EntryRow
      BY CoreConstants, Core!RowTypes
    <2>2. n \in Texts /\ n \in 0..MaxRevision /\ n > 0
      BY <1>0, <1>1
    <2>3. kind \in Core!Kinds /\ "public" \in Core!Statuses
      BY DEF Core!Kinds, Core!Statuses, Core!Shown
    <2> QED
      BY <2>1, <2>2, <2>3 DEF Core!EntryRow
  <1>3. /\ entries = [k \in Entries |-> IF k = e THEN row ELSE Core!Unborn]
        /\ copies = [c \in Copies |-> Core!Unused] /\ tokens = {}
        /\ versions = [k \in Entries |-> IF k = e /\ kind = "article" THEN h ELSE <<>>]
        /\ shelf = <<>> /\ user = [text |-> n, moves |-> 0]
    BY <1>1 DEF Published, Server!Unborn, Core!Unborn, Server!Unused, Core!Unused,
       Server!NoDraft, Core!NoDraft
  <1> HIDE DEF row
  <1>4. Core!Unborn \in Core!EntryRow /\ Core!Unused \in Core!CopyRow
    BY CoreConstants, Core!RowTypes
  <1>5. Core!Unborn.status = "unborn" /\ Core!Unused.state = "unused"
    BY DEF Core!Unborn, Core!Unused
  <1>6. \A c \in Copies : ~Core!Live(c)
    BY <1>3, <1>5 DEF Core!Live
  <1>7. /\ entries \in [Entries -> Core!EntryRow]
        /\ \A k \in Entries : Core!Exists(k) =>
             entries[k].text \in Texts /\ entries[k].revision > 0
    BY <1>2, <1>3, <1>4, <1>5 DEF Core!Exists
  <1>8. versions \in [Entries -> Seq(Texts)]
    BY <1>3
  <1>9. Core!TypeOK
    BY <1>3, <1>4, <1>6, <1>7, <1>8 DEF Core!TypeOK
  <1>10. Tables
    BY <1>6, <1>7, <1>9 DEF Tables, Core!IInv, Core!AllLinked, Core!Linked, Core!EditsAreChecked
  <1>11. n \in Texts
    BY <1>0, <1>1
  <1> QED
    BY <1>0, <1>3, <1>10, <1>11

\* ... and so are empty tables.
LEMMA EmptyTables == Server!Init => Tables
  <1> SUFFICES ASSUME Server!Init PROVE Tables
    OBVIOUS
  <1>1. Core!Init
    BY DEF Server!Init, Core!Init, Server!Unborn, Core!Unborn, Server!Unused, Core!Unused,
           Server!NoDraft, Core!NoDraft
  <1>2. /\ \A c \in Copies : ~Core!Live(c)
        /\ \A e \in Entries : ~Core!Exists(e)
    BY <1>1 DEF Core!Init, Core!Live, Core!Exists, Core!Unborn, Core!Unused
  <1>3. Core!TypeOK
    BY <1>1, CoreConstants, Core!TypeInit
  <1> QED
    BY <1>2, <1>3 DEF Tables, Core!IInv, Core!AllLinked, Core!Linked, Core!EditsAreChecked

\* The window begins with what earlier visits left on the shelf.
LEMMA InitShelf ==
  Init => /\ Tables /\ user \in [text : Texts, moves : 0..MaxMoves]
          /\ \/ shelf = <<>>
             \/ \E x \in Item : shelf = <<x>>
  <1> SUFFICES ASSUME Init
               PROVE  /\ Tables /\ user \in [text : Texts, moves : 0..MaxMoves]
                      /\ shelf = <<>> \/ \E x \in Item : shelf = <<x>>
    OBVIOUS
  <1>0. 0 \in Texts /\ 1 \in Texts /\ 2 \in Texts /\ 0 \in 0..MaxMoves
    BY BoundsAssumption DEF Texts
  <1>1. CASE Server!Init /\ shelf = <<>> /\ user = [text |-> 0, moves |-> 0]
    BY <1>0, <1>1, EmptyTables
  <1>2. CASE Server!Init /\ \E d \in NewIds : shelf = <<[draft |-> d, text |-> 1]>>
             /\ user = [text |-> 1, moves |-> 0]
    <2>1. PICK d \in NewIds : shelf = <<[draft |-> d, text |-> 1]>>
      BY <1>2
    <2>2. [draft |-> d, text |-> 1] \in Item
      BY <1>0 DEF Item, Ids
    <2>3. user \in [text : Texts, moves : 0..MaxMoves]
      BY <1>0, <1>2
    <2> QED
      BY <1>2, <2>1, <2>2, <2>3, EmptyTables
  <1>3. CASE \E e \in Entries : Published(e, "note", <<1>>) \/ Published(e, "article", <<1, 2>>)
    <2>1. PICK e \in Entries : Published(e, "note", <<1>>) \/ Published(e, "article", <<1, 2>>)
      BY <1>3
    <2>2. PICK kind \in {"note", "article"}, h \in Seq(Texts) :
            Published(e, kind, h) /\ Len(h) \in {1, 2}
      <3>1. /\ <<1>> \in Seq(Texts) /\ Len(<<1>>) = 1
            /\ <<1, 2>> \in Seq(Texts) /\ Len(<<1, 2>>) = 2
        BY <1>0
      <3>2. CASE Published(e, "note", <<1>>)
        BY <3>1, <3>2
      <3>3. CASE Published(e, "article", <<1, 2>>)
        BY <3>1, <3>3
      <3> QED
        BY <2>1, <3>2, <3>3
    <2> QED
      BY <2>2, PublishedTables
  <1> QED
    BY <1>1, <1>2, <1>3 DEF Init

\* The window starts with a queue in order.
LEMMA WindowInit == Init => Window /\ Queue /\ Tables
  <1> SUFFICES ASSUME Init PROVE Window /\ Queue /\ Tables
    OBVIOUS
  <1>1. /\ outbox = {} /\ tray = <<>> /\ io = <<>> /\ call = NoCall /\ late = {} /\ pass = {}
        /\ ed = Fresh /\ save = NoSave /\ discard = NoEdit /\ undo = NoUndo /\ open = FALSE
        /\ past = [kept |-> Members(shelf), retired |-> {}, revived |-> {}]
    BY DEF Init, Members
  <1>2. shelf \in Seq(Item) /\ Members(shelf) \subseteq Item
    <2>1. CASE shelf = <<>>
      BY <2>1 DEF Members
    <2>2. ASSUME NEW x \in Item, shelf = <<x>>
          PROVE  shelf \in Seq(Item)
      BY <2>2
    <2>3. shelf \in Seq(Item)
      BY <2>1, <2>2, InitShelf
    <2> QED
      BY <2>3 DEF Members
  <1>3. tray \in Seq(Item) /\ io \in Seq(Request) /\ DOMAIN io = {}
    BY <1>1
  <1>4. EdOK /\ SaveOK /\ DiscardOK
    <2>1. EdOK
      BY <1>1, FreshType DEF EdOK
    <2>2. SaveOK
      BY <1>1, BlankType, BoundsAssumption DEF SaveOK, Save, NoSave
    <2>3. DiscardOK
      BY <1>1, BlankType, BoundsAssumption DEF DiscardOK, Discard, NoEdit
    <2> QED
      BY <2>1, <2>2, <2>3
  <1>5. QueueOK /\ CallOK /\ PastOK
    BY <1>1, <1>2, <1>3 DEF QueueOK, CallOK, PastOK
  <1>6. RestOK
    BY <1>1, InitShelf, BlankType DEF RestOK, NoUndo
  <1>7. discard.stage = "off"
    BY <1>1 DEF NoEdit
  <1> QED
    BY <1>3, <1>4, <1>5, <1>6, <1>7, InitShelf DEF Window, Queue, Orderly, Staged, Quiet

\* Everything the window stores, sends and waits for is a text of a draft, and
\* the queue of IndexedDB is in order: a save or a discard that is answered
\* finds its own state as it left it.
THEOREM QueueInOrder == Spec => [](Window /\ Queue /\ Tables)
  <1>1. Init => Window /\ Queue /\ Tables
    BY WindowInit
  <1>2. (Window /\ Queue /\ Tables) /\ [Next]_vars => (Window /\ Queue /\ Tables)'
    BY WindowStep
  <1> QED
    BY <1>1, <1>2, PTL DEF Spec

\* The window and the tables hold what their types allow.
THEOREM EditorTypes == Spec => []TypeOK
  <1>1. Window /\ Queue /\ Tables => TypeOK
    BY TypeParts
  <1> QED
    BY <1>1, QueueInOrder, PTL

\* The save of an edit replaces the text its editor saw: no step of the window
\* takes the base revision off an edit, whatever the window resumes or retries.
THEOREM NoEditIsOverwritten == Spec => SavesReplaceWhatWasSeen
  <1>1. (Window /\ Queue /\ Tables) /\ [Next]_vars =>
          [\A c \in Copies : Server!Saves(c) /\ copies[c].draft.type = "edit" =>
             entries[copies[c].entry].text = copies[c].seen]_vars
    <2> SUFFICES ASSUME Window, Tables, Next, NEW c \in Copies, Server!Saves(c),
                        copies[c].draft.type = "edit"
                 PROVE  entries[copies[c].entry].text = copies[c].seen
      OBVIOUS
    <2>1. CASE UNCHANGED tables
      BY <2>1 DEF tables, Server!Saves, Server!Live
    <2>2. CASE Core!EditorCalls
      BY <2>2, CoreConstants, SameSaving, Core!EditSavesAreChecked DEF Tables
    <2> QED
      BY <2>1, <2>2, WindowCalls
  <1> QED
    BY <1>1, QueueInOrder, PTL DEF Spec, SavesReplaceWhatWasSeen

-----------------------------------------------------------------------------
(* Who is named in the queue *)

\* A draft is named by a request for it.
LEMMA NamedIn ==
  ASSUME NEW q, NEW ops, NEW d
  PROVE  d \in Named(q, ops) <=> \E i \in DOMAIN q : q[i].op \in ops /\ q[i].draft = d
  BY DEF Named

\* The first request is done: the others name whom they named.
LEMMA NamedTail ==
  ASSUME NEW q \in Seq(Request), q # <<>>, NEW ops
  PROVE  /\ Named(Tail(q), ops) \subseteq Named(q, ops)
         /\ Head(q).op \in ops => Head(q).draft \in Named(q, ops)
  <1> DEFINE p == Tail(q)
  <1>1. /\ 1 \in DOMAIN q /\ Head(q) = q[1]
        /\ \A i \in DOMAIN p : i + 1 \in DOMAIN q /\ p[i] = q[i + 1]
    OBVIOUS
  <1> HIDE DEF p
  <1>2. ASSUME NEW d \in Named(p, ops)
        PROVE  d \in Named(q, ops)
    <2>1. PICK i \in DOMAIN p : p[i].op \in ops /\ p[i].draft = d
      BY NamedIn
    <2>2. i + 1 \in DOMAIN q /\ q[i + 1].op \in ops /\ q[i + 1].draft = d
      BY <1>1, <2>1
    <2> QED
      BY <2>2, NamedIn
  <1>3. Head(q).op \in ops => Head(q).draft \in Named(q, ops)
    BY <1>1, NamedIn
  <1> QED
    BY <1>2, <1>3 DEF p

\* A longer queue names those of the old one and of what was added.
LEMMA NamedGrown ==
  ASSUME NEW q \in Seq(Request), NEW p \in Seq(Request), NEW ops,
         \A i \in 1..Len(q) : p[i].op = q[i].op /\ p[i].draft = q[i].draft,
         NEW more, \A i \in DOMAIN p : i > Len(q) /\ p[i].op \in ops => p[i].draft \in more
  PROVE  Named(p, ops) \subseteq Named(q, ops) \cup more
  <1> SUFFICES ASSUME NEW d \in Named(p, ops) PROVE d \in Named(q, ops) \cup more
    OBVIOUS
  <1>1. PICK i \in DOMAIN p : p[i].op \in ops /\ p[i].draft = d
    BY NamedIn
  <1>2. CASE i > Len(q)
    BY <1>1, <1>2
  <1>3. CASE ~(i > Len(q))
    <2>1. i \in DOMAIN q /\ q[i].op \in ops /\ q[i].draft = d
      BY <1>1, <1>3
    <2> QED
      BY <2>1, NamedIn
  <1> QED
    BY <1>2, <1>3

\* One more request names one more draft at most.
LEMMA NamedAppend ==
  ASSUME NEW q \in Seq(Request), NEW r \in Request, NEW ops
  PROVE  Named(Append(q, r), ops) \subseteq
           Named(q, ops) \cup (IF r.op \in ops THEN {r.draft} ELSE {})
  <1> DEFINE p == Append(q, r)
  <1>1. /\ p \in Seq(Request) /\ Len(p) = Len(q) + 1 /\ p[Len(q) + 1] = r
        /\ \A i \in 1..Len(q) : p[i] = q[i]
    OBVIOUS
  <1> HIDE DEF p
  <1>2. \A i \in DOMAIN p : i > Len(q) => p[i] = r
    BY <1>1
  <1> QED
    BY <1>1, <1>2, NamedGrown DEF p

\* The epoch moves on, and the page is left.
LEMMA NamedStale ==
  ASSUME NEW q \in Seq(Request), Orderly(q), NEW ops
  PROVE  Named(Stale(q), ops) \subseteq Named(q, ops)
  <1>1. /\ Stale(q) \in Seq(Request) /\ Len(Stale(q)) = Len(q)
        /\ \A i \in DOMAIN q : Stale(q)[i].op = q[i].op /\ Stale(q)[i].draft = q[i].draft
    BY StaleQueue
  <1>2. \A i \in DOMAIN Stale(q) : i \in DOMAIN q
    BY <1>1
  <1> QED
    BY <1>1, <1>2, NamedIn

\* A save that ends names nobody but the draft it deletes.
LEMMA NamedDrop ==
  ASSUME NEW q \in Seq(Request), Orderly(q), NEW r \in Request, r.op = "drop",
         \A i \in DOMAIN q : q[i].op \notin {"keep", "drop"}, NEW ops, "drop" \notin ops
  PROVE  Named(Stale(q) \o <<r>>, ops) \subseteq Named(q, ops)
  <1> DEFINE p == Stale(q) \o <<r>>
  <1>1. /\ p \in Seq(Request) /\ Len(p) = Len(q) + 1 /\ p[Len(q) + 1] = r
        /\ \A i \in 1..Len(q) : p[i] = Stale(q)[i]
    BY DropQueue
  <1>2. \A i \in 1..Len(q) : Stale(q)[i].op = q[i].op /\ Stale(q)[i].draft = q[i].draft
    BY StaleQueue
  <1> HIDE DEF p
  <1>3. \A i \in 1..Len(q) : p[i].op = q[i].op /\ p[i].draft = q[i].draft
    BY <1>1, <1>2
  <1>4. \A i \in DOMAIN p : i > Len(q) => p[i] = r
    BY <1>1
  <1>5. Named(p, ops) \subseteq Named(q, ops) \cup {}
    BY <1>1, <1>3, <1>4, NamedGrown
  <1> QED
    BY <1>5 DEF p

\* Leaving the page only tells a discard from its page.
LEMMA NamedLeft ==
  ASSUME NEW q \in Seq(Request), Orderly(q), NEW ops, ops \cap {"forget", "erase"} = {}
  PROVE  Named(Left(q), ops) \subseteq Named(q, ops)
  <1> SUFFICES ASSUME NEW d \in Named(Left(q), ops) PROVE d \in Named(q, ops)
    OBVIOUS
  <1>1. PICK i \in DOMAIN Left(q) : Left(q)[i].op \in ops /\ Left(q)[i].draft = d
    BY NamedIn
  <1>2. /\ i \in DOMAIN q /\ Left(q)[i].draft = q[i].draft
        /\ Left(q)[i].op = IF q[i].op = "forget" THEN "erase" ELSE q[i].op
    BY LeftQueue
  <1>3. q[i].op \in ops
    BY <1>1, <1>2
  <1> QED
    BY <1>1, <1>2, <1>3, NamedIn

\* A listing names no one but those it deletes.
LEMMA NamedListed ==
  ASSUME NEW s \in Seq(Item), NEW q \in Seq(Request), NEW kept, Refreshes(s, q, kept)
  PROVE  /\ Stored(io') \subseteq Stored(q)
         /\ Named(io', {"prune"}) \subseteq
              Named(q, {"prune"}) \cup {s[j].draft : j \in {k \in DOMAIN s : k > MaxDrafts}}
  <1> DEFINE more == {s[j].draft : j \in {k \in DOMAIN s : k > MaxDrafts}}
  <1>1. /\ io' \in Seq(Request) /\ \A i \in 1..Len(q) : io'[i] = q[i]
        /\ \A i \in DOMAIN io' : i > Len(q) =>
             \E j \in DOMAIN s : j > MaxDrafts /\ io'[i] = Op("prune", s[j].draft, Blank)
    BY RefreshedQueue
  <1>2. ASSUME NEW i \in DOMAIN io', i > Len(q)
        PROVE  io'[i].op = "prune" /\ io'[i].draft \in more
    <2>1. PICK j \in DOMAIN s : j > MaxDrafts /\ io'[i] = Op("prune", s[j].draft, Blank)
      BY <1>1, <1>2
    <2>2. io'[i].op = "prune" /\ io'[i].draft = s[j].draft
      BY <2>1 DEF Op
    <2> QED
      BY <2>1, <2>2
  <1> HIDE DEF more
  <1>3. Named(io', {"prune"}) \subseteq Named(q, {"prune"}) \cup more
    BY <1>1, <1>2, NamedGrown
  <1>4. Named(io', {"store", "clear", "keep"}) \subseteq Named(q, {"store", "clear", "keep"}) \cup {}
    BY <1>1, <1>2, NamedGrown
  <1> QED
    BY <1>3, <1>4 DEF more, Stored

-----------------------------------------------------------------------------
(* What is on the shelf *)

\* A draft is on the shelf once, the promised texts are on it, and no delete on
\* its way is for one of them.
Shelf ==
  /\ Distinct(shelf)
  /\ past.kept \subseteq Members(shelf)
  /\ \A x \in past.kept : x.draft \notin Named(io, {"prune"})

\* Nothing on the shelf changes, and no promise is added.
LEMMA ShelfOn ==
  ASSUME Shelf, UNCHANGED shelf, past'.kept \subseteq past.kept,
         Named(io', {"prune"}) \subseteq Named(io, {"prune"})
  PROVE  Shelf'
  BY DEF Shelf, Members, Distinct

\* The new text of a draft takes the place of the old one.
LEMMA ShelfPut ==
  ASSUME Window, Queue, Shelf, io # <<>>,
         shelf' = Put(shelf, Head(io).draft, Head(io).text)
  PROVE  /\ Distinct(shelf')
         /\ Kept(Head(io).draft, Head(io).text) \subseteq Members(shelf')
         /\ \A x \in Kept(Head(io).draft, Head(io).text) :
              x.draft \notin Named(Tail(io), {"prune"})
  <1> DEFINE d == Head(io).draft
             t == Head(io).text
             x == [draft |-> d, text |-> t]
  <1>1. d \in Ids /\ t \in Texts /\ shelf \in Seq(Item) /\ io \in Seq(Request)
    BY FirstDone DEF Request, Window, QueueOK
  <1> HIDE DEF d, t
  <1>2. shelf' = Put(shelf, d, t)
    BY DEF d, t
  <1>3. Distinct(shelf') /\ Members(shelf') = {x} \cup Members(Without(shelf, d))
    BY <1>1, <1>2, PutType DEF Shelf
  <1>4. Dropped(d) \subseteq Members(Without(shelf, d))
    BY <1>1, WithoutType DEF Dropped, Shelf
  <1>5. x.draft = d
    OBVIOUS
  <1> HIDE DEF x
  <1>6. Kept(d, t) \subseteq Dropped(d) \cup {x}
        /\ (x \in Kept(d, t) => x \in Dropped(d) \/ d \notin Named(io, {"prune"}))
    BY DEF Kept, x
  <1>7. Named(Tail(io), {"prune"}) \subseteq Named(io, {"prune"})
    BY <1>1, NamedTail
  <1>8. \A y \in Dropped(d) : y.draft \notin Named(io, {"prune"})
    BY DEF Dropped, Shelf
  <1>9. Kept(d, t) \subseteq Members(shelf')
    BY <1>3, <1>4, <1>6
  <1>10. \A y \in Kept(d, t) : y.draft \notin Named(Tail(io), {"prune"})
    BY <1>5, <1>6, <1>7, <1>8
  <1> QED
    BY <1>3, <1>9, <1>10 DEF d, t

\* A draft is taken off the shelf.
LEMMA ShelfWithout ==
  ASSUME Window, Queue, Shelf, io # <<>>, shelf' = Without(shelf, Head(io).draft)
  PROVE  /\ Distinct(shelf')
         /\ Dropped(Head(io).draft) \subseteq Members(shelf')
         /\ \A x \in Dropped(Head(io).draft) : x.draft \notin Named(Tail(io), {"prune"})
  <1>1. shelf \in Seq(Item) /\ io \in Seq(Request)
    BY DEF Window, QueueOK
  <1>2. Named(Tail(io), {"prune"}) \subseteq Named(io, {"prune"})
    BY <1>1, NamedTail
  <1> QED
    BY <1>1, <1>2, WithoutType DEF Dropped, Shelf

\* A listing promises no draft that it deletes.
LEMMA ShelfListed ==
  ASSUME NEW s \in Seq(Item), NEW q \in Seq(Request), NEW kept, Refreshes(s, q, kept),
         past \in [kept : SUBSET Item, retired : SUBSET Ids, revived : SUBSET Ids],
         shelf' = s, Distinct(s), kept \subseteq Members(s),
         \A x \in kept : x.draft \notin Named(q, {"prune"})
  PROVE  Shelf'
  <1>1. past'.kept = Spared(s, kept)
    BY RefreshedPast
  <1>2. Named(io', {"prune"}) \subseteq
          Named(q, {"prune"}) \cup {s[j].draft : j \in {k \in DOMAIN s : k > MaxDrafts}}
    BY NamedListed
  <1>3. \A x \in Spared(s, kept) :
          x \in kept /\ \A i \in DOMAIN s : i > MaxDrafts => s[i].draft # x.draft
    BY DEF Spared
  <1>4. \A x \in Spared(s, kept) : x.draft \notin Named(io', {"prune"})
    BY <1>2, <1>3
  <1>5. Spared(s, kept) \subseteq Members(s)
    BY <1>3
  <1> QED
    BY <1>1, <1>4, <1>5 DEF Shelf, Members, Distinct

\* Every step keeps the shelf in order.
LEMMA ShelfStorage ==
  ASSUME Window, Queue, Shelf, Storage
  PROVE  Shelf'
  <1> DEFINE d == Head(io).draft
             t == Head(io).text
  <1>0. /\ past \in [kept : SUBSET Item, retired : SUBSET Ids, revived : SUBSET Ids]
        /\ io \in Seq(Request)
    BY DEF Window, PastOK, QueueOK
  <1>1. CASE Stores
    <2>1. io # <<>> /\ shelf' = Put(shelf, d, t)
      BY <1>1 DEF Stores, IsNext
    <2>2. shelf' \in Seq(Item) /\ Tail(io) \in Seq(Request)
      BY <1>1, <2>1, ShelfType, FirstDone DEF Next, Storage
    <2>3. /\ Distinct(shelf') /\ Kept(d, t) \subseteq Members(shelf')
          /\ \A x \in Kept(d, t) : x.draft \notin Named(Tail(io), {"prune"})
      BY <2>1, ShelfPut
    <2>4. CASE Head(io).stale
      <3> DEFINE k == Kept(d, t)
      <3>1. io' = Tail(io) /\ past' = [past EXCEPT !.kept = k]
        BY <1>1, <2>4 DEF Stores
      <3> HIDE DEF k
      <3>2. past'.kept = k
        BY <1>0, <3>1
      <3> QED
        BY <2>3, <3>1, <3>2 DEF Shelf, k
    <2>5. CASE ~Head(io).stale
      <3>1. Refreshes(shelf', Tail(io), Kept(d, t))
        BY <1>1, <2>5 DEF Stores
      <3> QED
        BY <1>0, <2>2, <2>3, <3>1, ShelfListed
    <2> QED
      BY <2>4, <2>5
  <1>2. CASE Clears
    <2>1. /\ io # <<>> /\ shelf' = Without(shelf, d)
          /\ Refreshes(shelf', Tail(io), Dropped(d))
      BY <1>2 DEF Clears, IsNext
    <2>2. shelf' \in Seq(Item) /\ Tail(io) \in Seq(Request)
      BY <1>2, <2>1, ShelfType, FirstDone DEF Next, Storage
    <2> QED
      BY <1>0, <2>1, <2>2, ShelfWithout, ShelfListed
  <1>3. CASE StoreFails
    <2>1. io # <<>> /\ io' = Tail(io) /\ UNCHANGED <<shelf, past>>
      BY <1>3 DEF StoreFails, IsNext
    <2> QED
      BY <1>0, <2>1, NamedTail, ShelfOn
  <1>4. CASE Prunes
    <2>1. /\ io # <<>> /\ io' = Tail(io) /\ shelf' = Without(shelf, d) /\ UNCHANGED past
          /\ Head(io).op = "prune"
      BY <1>4 DEF Prunes, IsNext
    <2>2. d \in Named(io, {"prune"})
      BY <1>0, <2>1, NamedTail
    <2>3. Dropped(d) = past.kept
      BY <2>2 DEF Shelf, Dropped
    <2> QED
      BY <2>1, <2>3, ShelfWithout DEF Shelf
  <1>5. CASE Keeps
    <2>1. io # <<>> /\ io' = Tail(io)
      BY <1>5 DEF Keeps, IsNext
    <2>2. CASE UNCHANGED <<shelf, past>>
      BY <1>0, <2>1, <2>2, NamedTail, ShelfOn
    <2>3. CASE shelf' = Put(shelf, d, t) /\ past' = [past EXCEPT !.kept = Kept(d, t)]
      <3> DEFINE k == Kept(d, t)
      <3>1. /\ Distinct(shelf') /\ k \subseteq Members(shelf')
            /\ \A x \in k : x.draft \notin Named(Tail(io), {"prune"})
        BY <2>1, <2>3, ShelfPut
      <3>2. past' = [past EXCEPT !.kept = k]
        BY <2>3
      <3> HIDE DEF k
      <3>3. past'.kept = k
        BY <1>0, <3>2
      <3> QED
        BY <2>1, <3>1, <3>3 DEF Shelf
    <2> QED
      BY <1>5, <2>2, <2>3 DEF Keeps
  <1>6. CASE Drops \/ Forgets
    <2>1. /\ io # <<>> /\ io' = Tail(io) /\ shelf' = Without(shelf, d) /\ past' = Ends(d)
      BY <1>6 DEF Drops, Forgets, IsNext
    <2> DEFINE k == Dropped(d)
               y == past.retired \cup {d}
               z == (past.revived \ {d}) \cup ({d} \cap Stored(Tail(io)))
    <2>2. /\ Distinct(shelf') /\ k \subseteq Members(shelf')
          /\ \A x \in k : x.draft \notin Named(Tail(io), {"prune"})
      BY <2>1, ShelfWithout
    <2>3. past' = [past EXCEPT !.kept = k, !.retired = y, !.revived = z]
      BY <2>1 DEF Ends
    <2> HIDE DEF k, y, z
    <2>4. past'.kept = k
      BY <1>0, <2>3
    <2> QED
      BY <2>1, <2>2, <2>4 DEF Shelf
  <1> QED
    BY <1>1, <1>2, <1>3, <1>4, <1>5, <1>6 DEF Storage

\* The page lists its drafts.
LEMMA ShelfListing ==
  ASSUME Window, Queue, Shelf, Listing, UNCHANGED shelf
  PROVE  Shelf'
  BY ShelfListed DEF Listing, Window, PastOK, QueueOK, Shelf

\* A text is on its way to the shelf.
LEMMA ShelfRevives ==
  ASSUME Window, Queue, Shelf, NEW d, past' = Revives(d), UNCHANGED shelf,
         NEW r \in Request, r.op # "prune", io' = Append(io, r)
  PROVE  Shelf'
  <1>1. /\ past \in [kept : SUBSET Item, retired : SUBSET Ids, revived : SUBSET Ids]
        /\ io \in Seq(Request)
    BY DEF Window, PastOK, QueueOK
  <1>2. Named(io', {"prune"}) \subseteq Named(io, {"prune"})
    BY <1>1, NamedAppend
  <1> DEFINE z == past.revived \cup ({d} \cap past.retired)
  <1>3. past' = [past EXCEPT !.revived = z]
    BY DEF Revives
  <1> HIDE DEF z
  <1>4. past'.kept = past.kept
    BY <1>1, <1>3
  <1> QED
    BY <1>2, <1>4, ShelfOn

\* Every step keeps what the shelf promises.
LEMMA ShelfStep ==
  ASSUME Window, Queue, Tables, Shelf, [Next]_vars
  PROVE  Shelf'
  <1>0. /\ past \in [kept : SUBSET Item, retired : SUBSET Ids, revived : SUBSET Ids]
        /\ io \in Seq(Request) /\ Orderly(io)
        /\ ed.text \in Texts /\ ed.draft \in Ids \cup {NoDraft} /\ FreshIds \subseteq Ids
    BY FreshAreIds DEF Window, PastOK, QueueOK, Queue, EdOK, Editor
  <1>1. CASE UNCHANGED <<shelf, past, io>>
    BY <1>1, ShelfOn
  <1>2. CASE Storage
    BY <1>2, ShelfStorage
  <1>3. CASE SavePosts \/ SaveCommits \/ SaveFails
    BY <1>1, <1>3 DEF SavePosts, SaveCommits, SaveFails, browser
  <1>4. CASE Finalizes
    <2> DEFINE r == Op("drop", save.draft, Blank)
    <2>1. save.stage = "answered" /\ Abandons(<<r>>) /\ UNCHANGED <<shelf, past>>
      BY <1>4 DEF Finalizes
    <2>2. save.draft \in Ids
      BY <2>1 DEF Window, SaveOK, Save
    <2>3. r \in Request /\ r.op = "drop"
      BY <2>2, OpType, BlankType
    <2>4. \A i \in DOMAIN io : io[i].op \notin {"keep", "drop"}
      BY <2>1 DEF Queue, Staged
    <2>5. io' = Stale(io) \o <<r>>
      BY <2>1 DEF Abandons
    <2> HIDE DEF r
    <2>6. Named(io', {"prune"}) \subseteq Named(io, {"prune"})
      BY <1>0, <2>3, <2>4, <2>5, NamedDrop
    <2> QED
      BY <2>1, <2>6, ShelfOn
  <1>5. CASE SaveEnds
    <2>1. CASE ed.entry = None
      BY <1>5, <2>1, ShelfListing DEF SaveEnds
    <2>2. CASE ed.entry # None
      <3>1. UNCHANGED <<shelf, past>> /\ (io' = io \/ io' = Left(io))
        BY <1>5, <2>2 DEF SaveEnds
      <3>2. Named(Left(io), {"prune"}) \subseteq Named(io, {"prune"})
        BY <1>0, NamedLeft
      <3> QED
        BY <3>1, <3>2, ShelfOn
    <2> QED
      BY <2>1, <2>2
  <1>6. CASE DiscardArrives \/ DiscardFails \/ UndoArrives \/ UndoEnds
    BY <1>1, <1>6 DEF DiscardArrives, DiscardFails, UndoArrives, UndoEnds, browser
  <1>7. CASE DiscardForgets
    <2> DEFINE r == Op("forget", discard.draft, Blank)
    <2>1. discard.stage = "answered" /\ UNCHANGED <<shelf, past>> /\ io' = Append(io, r)
      BY <1>7 DEF DiscardForgets
    <2>2. discard.draft \in Ids
      BY <2>1 DEF Window, DiscardOK, Discard
    <2>3. r \in Request /\ r.op = "forget"
      BY <2>2, OpType, BlankType
    <2> HIDE DEF r
    <2>4. Named(io', {"prune"}) \subseteq Named(io, {"prune"})
      BY <1>0, <2>1, <2>3, NamedAppend
    <2> QED
      BY <2>1, <2>4, ShelfOn
  <1>8. CASE DiscardStarts
    <2>1. Abandons(<<>>) /\ UNCHANGED <<shelf, past>>
      BY <1>8 DEF DiscardStarts
    <2>2. Stale(io) \in Seq(Request)
      BY <1>0, StaleQueue
    <2>3. io' = Stale(io)
      BY <2>1, <2>2 DEF Abandons
    <2> QED
      BY <1>0, <2>1, <2>3, NamedStale, ShelfOn
  <1>9. CASE Autosaves \/ Closes
    <2>1. PICK closes \in BOOLEAN : Persist(closes)
      BY <1>9 DEF Autosaves, Closes
    <2>2. UNCHANGED shelf
      BY <2>1 DEF Persist
    <2>3. CASE io' = io
      <3>1. UNCHANGED past \/ \E d : past' = Revives(d)
        BY <2>1 DEF Persist
      <3>2. past'.kept = past.kept
        BY <1>0, <3>1 DEF Revives
      <3> QED
        BY <2>2, <2>3, <3>2, ShelfOn
    <2>4. CASE io' # io
      <3>1. PICK r \in Request : r.op \in {"store", "clear"} /\ io' = Append(io, r)
        BY <2>1, <2>4, QueuePersists
      <3>2. \E d : past' = Revives(d)
        BY <2>1, <2>4 DEF Persist
      <3> QED
        BY <2>2, <3>1, <3>2, ShelfRevives
    <2> QED
      BY <2>3, <2>4
  <1>10. CASE SaveStarts
    <2>1. PICK d \in IF ed.draft = NoDraft THEN FreshIds ELSE {ed.draft} :
            io' = Append(io, Op("keep", d, ed.text)) /\ past' = Revives(d)
      BY <1>10 DEF SaveStarts
    <2>2. d \in Ids /\ UNCHANGED shelf
      BY <1>0, <1>10 DEF SaveStarts
    <2>3. Op("keep", d, ed.text) \in Request /\ Op("keep", d, ed.text).op = "keep"
      BY <1>0, <2>2, OpType
    <2> QED
      BY <2>1, <2>2, <2>3, ShelfRevives
  <1>11. CASE CallArrives \/ CallReturns \/ CallFails \/ CallEnds \/ LateArrives
    BY <1>1, <1>11 DEF CallArrives, CallReturns, CallFails, CallEnds, LateArrives, browser
  <1>12. CASE PassStarts \/ Retries \/ PassEnds
    BY <1>1, <1>12 DEF PassStarts, Retries, PassEnds, browser
  <1>13. CASE OpensNew \/ OpensEdit
    BY <1>13, ShelfListing DEF OpensNew, OpensEdit
  <1>14. CASE Types \/ Reopens \/ Elsewhere
    BY <1>1, <1>14 DEF Types, Reopens, Elsewhere, browser
  <1>15. CASE LoadsDraft
    <2>1. PICK d : past' = [past EXCEPT !.kept = {x \in @ : x.draft # d}]
      BY <1>15 DEF LoadsDraft
    <2> DEFINE k == {x \in past.kept : x.draft # d}
    <2>2. k \subseteq past.kept /\ past' = [past EXCEPT !.kept = k]
      BY <2>1
    <2> HIDE DEF k
    <2>3. past'.kept \subseteq past.kept /\ UNCHANGED <<shelf, io>>
      BY <1>0, <1>15, <2>2 DEF LoadsDraft, browser
    <2> QED
      BY <2>3, ShelfOn
  <1>16. CASE Reload
    <2>1. io' = <<>> /\ UNCHANGED <<shelf, past>>
      BY <1>16 DEF Reload
    <2>2. Named(io', {"prune"}) = {}
      BY <2>1, NamedIn
    <2> QED
      BY <2>1, <2>2, ShelfOn
  <1> QED
    BY <1>1, <1>2, <1>3, <1>4, <1>5, <1>6, <1>7, <1>8, <1>9, <1>10, <1>11, <1>12, <1>13,
       <1>14, <1>15, <1>16 DEF Next, Saving, Undoing, vars, browser

\* A shelf of an earlier visit has every draft once.
LEMMA ShelfInit == Init => Shelf
  <1> SUFFICES ASSUME Init PROVE Shelf
    OBVIOUS
  <1>1. io = <<>> /\ past.kept = Members(shelf)
    BY DEF Init, Members
  <1>2. Named(io, {"prune"}) = {}
    BY <1>1, NamedIn
  <1>3. Distinct(shelf)
    <2>1. CASE shelf = <<>>
      BY <2>1 DEF Distinct
    <2>2. ASSUME NEW x \in Item, shelf = <<x>>
          PROVE  Distinct(shelf)
      BY <2>2 DEF Distinct
    <2> QED
      BY <2>1, <2>2, InitShelf
  <1> QED
    BY <1>1, <1>2, <1>3 DEF Shelf

\* Text that was put away stays on the shelf until its own draft is saved,
\* discarded, emptied, replaced or pushed out: the delete of one draft, under
\* way in the queue, never takes another one, nor a newer text of the same one.
THEOREM PutAwayIsKept == Spec => []StoredTextIsKept
  <1> DEFINE I == Window /\ Queue /\ Tables /\ Shelf
  <1>1. Init => I
    BY WindowInit, ShelfInit
  <1>2. I /\ [Next]_vars => I'
    BY WindowStep, ShelfStep
  <1>3. I => StoredTextIsKept
    BY DEF Shelf, Members, StoredTextIsKept
  <1> QED
    BY <1>1, <1>2, <1>3, PTL DEF Spec

-----------------------------------------------------------------------------
(* What is left of a draft that has ended *)

\* the drafts that ended and were not stored again
Over == past.retired \ past.revived

\* Nothing holds one of them: neither store, nor what a pass has read, nor the
\* request under way, nor a request that is still going to store a text.
Ended ==
  \A d \in Over :
    /\ \A x \in outbox \cup pass \cup Members(shelf) : x.draft # d
    /\ call.at # "none" => call.draft # d
    /\ d \notin Stored(io)

\* Nobody takes up a draft.
LEMMA EndedOn ==
  ASSUME Ended, Over' \subseteq Over,
         outbox' \cup pass' \cup Members(shelf') \subseteq outbox \cup pass \cup Members(shelf),
         call'.at # "none" => call.at # "none" /\ call'.draft = call.draft,
         Stored(io') \subseteq Stored(io)
  PROVE  Ended'
  BY DEF Ended

\* What a step does to the drafts that have ended.
LEMMA OverSame ==
  ASSUME past \in [kept : SUBSET Item, retired : SUBSET Ids, revived : SUBSET Ids],
         UNCHANGED past \/ \E k : past' = [past EXCEPT !.kept = k]
  PROVE  Over' = Over
  BY DEF Over

\* A draft stored again is no longer over.
LEMMA OverRevives ==
  ASSUME past \in [kept : SUBSET Item, retired : SUBSET Ids, revived : SUBSET Ids],
         NEW d, past' = Revives(d)
  PROVE  Over' = Over \ {d}
  <1> DEFINE z == past.revived \cup ({d} \cap past.retired)
  <1>1. past' = [past EXCEPT !.revived = z]
    BY DEF Revives
  <1>2. past.retired \ z = Over \ {d}
    BY DEF Over
  <1> HIDE DEF z
  <1>3. past'.retired = past.retired /\ past'.revived = z
    BY <1>1
  <1> QED
    BY <1>2, <1>3 DEF Over

\* A draft that ends is over unless it is still to be stored.
LEMMA OverEnds ==
  ASSUME past \in [kept : SUBSET Item, retired : SUBSET Ids, revived : SUBSET Ids],
         NEW d, past' = Ends(d)
  PROVE  Over' \subseteq Over \cup {d} /\ (d \in Over' => d \notin Stored(Tail(io)))
  <1> DEFINE k == Dropped(d)
             y == past.retired \cup {d}
             z == (past.revived \ {d}) \cup ({d} \cap Stored(Tail(io)))
  <1>1. past' = [past EXCEPT !.kept = k, !.retired = y, !.revived = z]
    BY DEF Ends
  <1>2. y \ z \subseteq Over \cup {d} /\ (d \in y \ z => d \notin Stored(Tail(io)))
    BY DEF Over
  <1> HIDE DEF k, y, z
  <1>3. past'.retired = y /\ past'.revived = z
    BY <1>1
  <1> QED
    BY <1>2, <1>3 DEF Over

\* An autosave of a draft that has not ended.
LEMMA EndedSync ==
  ASSUME Ended, NEW d, NEW t, d \notin Over, Sync(d, t), Over' = Over, UNCHANGED pass,
         \A x \in Members(shelf') : x \in Members(shelf) \/ x.draft = d,
         Stored(io') \subseteq Stored(io)
  PROVE  Ended'
  <1>1. \A x \in outbox' : x \in outbox \/ x.draft = d
    BY DEF Sync, Queued, Unqueued, TakenBack
  <1>2. UNCHANGED call \/ call'.draft = d
    BY DEF Sync
  <1> QED
    BY <1>1, <1>2 DEF Ended

\* A draft is deleted from both stores.
LEMMA EndedDeletes ==
  ASSUME Window, Queue, Shelf, Ended, io # <<>>, Head(io).op \in Deletes, io' = Tail(io),
         shelf' = Without(shelf, Head(io).draft), outbox' = Unqueued(Head(io).draft),
         past' = Ends(Head(io).draft), UNCHANGED <<call, pass>>
  PROVE  Ended'
  <1> DEFINE d == Head(io).draft
  <1>1. /\ io \in Seq(Request) /\ shelf \in Seq(Item)
        /\ past \in [kept : SUBSET Item, retired : SUBSET Ids, revived : SUBSET Ids]
    BY DEF Window, QueueOK, PastOK
  <1>2. call = NoCall /\ pass = {}
    BY FirstDone DEF Queue, Quiet
  <1>3. Over' \subseteq Over \cup {d} /\ (d \in Over' => d \notin Stored(Tail(io)))
    BY <1>1, OverEnds
  <1>4. /\ Members(shelf') \subseteq Members(shelf)
        /\ \A x \in Members(shelf') : x.draft # d
    BY <1>1, WithoutType DEF Shelf
  <1>5. outbox' \subseteq outbox /\ \A x \in outbox' : x.draft # d
    BY DEF Unqueued
  <1>6. Stored(io') \subseteq Stored(io)
    BY <1>1, NamedTail DEF Stored
  <1>7. call'.at = "none" /\ pass' = {}
    BY <1>2 DEF NoCall
  <1> HIDE DEF d
  <1> QED
    BY <1>3, <1>4, <1>5, <1>6, <1>7 DEF Ended

\* IndexedDB carries out a request.
LEMMA EndedStorage ==
  ASSUME Window, Queue, Shelf, Ended, Storage
  PROVE  Ended'
  <1> DEFINE d == Head(io).draft
             t == Head(io).text
  <1>0. /\ io \in Seq(Request) /\ shelf \in Seq(Item)
        /\ past \in [kept : SUBSET Item, retired : SUBSET Ids, revived : SUBSET Ids]
    BY DEF Window, QueueOK, PastOK
  <1>1. ASSUME io # <<>>
        PROVE  /\ d \in Ids /\ t \in Texts /\ Tail(io) \in Seq(Request)
               /\ Stored(Tail(io)) \subseteq Stored(io)
               /\ Head(io).op \in {"store", "clear", "keep"} => d \notin Over
    <2>1. Head(io).op \in {"store", "clear", "keep"} => d \in Stored(io)
      BY <1>0, <1>1, NamedTail DEF Stored
    <2> QED
      BY <1>0, <1>1, <2>1, FirstDone, NamedTail DEF Request, Stored, Ended
  <1>2. ASSUME io # <<>>, shelf' = Put(shelf, d, t)
        PROVE  \A x \in Members(shelf') : x \in Members(shelf) \/ x.draft = d
    <2>1. Members(Put(shelf, d, t)) = {[draft |-> d, text |-> t]} \cup Members(Without(shelf, d))
      BY <1>0, <1>1, <1>2, PutType
    <2>2. Members(Without(shelf, d)) \subseteq Members(shelf)
      BY <1>0, WithoutType
    <2> QED
      BY <1>2, <2>1, <2>2
  <1>3. Members(Without(shelf, d)) \subseteq Members(shelf)
    BY <1>0, WithoutType
  <1>4. ASSUME io # <<>>, io' = Tail(io), shelf' = Put(shelf, d, t) \/ UNCHANGED shelf,
               Head(io).op \in {"store", "keep"}, UNCHANGED <<outbox, call, pass>>, Over' = Over
        PROVE  Ended'
    <2>1. d \notin Over /\ Stored(io') \subseteq Stored(io)
      BY <1>1, <1>4
    <2>2. \A x \in Members(shelf') : x \in Members(shelf) \/ x.draft = d
      BY <1>2, <1>4
    <2> QED
      BY <1>4, <2>1, <2>2 DEF Ended
  <1>5. CASE Stores
    <2>1. /\ io # <<>> /\ Head(io).op = "store" /\ shelf' = Put(shelf, d, t)
          /\ UNCHANGED pass
      BY <1>5 DEF Stores, IsNext
    <2>2. shelf' \in Seq(Item)
      BY <1>5, ShelfType DEF Next, Storage
    <2>3. CASE Head(io).stale
      <3>1. io' = Tail(io) /\ UNCHANGED <<outbox, call>> /\ \E k : past' = [past EXCEPT !.kept = k]
        BY <1>5, <2>3 DEF Stores
      <3>2. Over' = Over
        BY <1>0, <3>1, OverSame
      <3> QED
        BY <1>4, <2>1, <3>1, <3>2
    <2>4. CASE ~Head(io).stale
      <3>1. Sync(d, t) /\ Refreshes(shelf', Tail(io), Kept(d, t))
        BY <1>5, <2>4 DEF Stores
      <3>2. Stored(io') \subseteq Stored(Tail(io))
        BY <1>1, <2>1, <2>2, <3>1, NamedListed
      <3>3. Over' = Over
        BY <1>0, <3>1, OverSame, RefreshedPast
      <3> QED
        BY <1>1, <1>2, <2>1, <3>1, <3>2, <3>3, EndedSync
    <2> QED
      BY <2>3, <2>4
  <1>6. CASE Clears
    <2>1. /\ io # <<>> /\ Head(io).op = "clear" /\ shelf' = Without(shelf, d)
          /\ Refreshes(shelf', Tail(io), Dropped(d)) /\ UNCHANGED pass
      BY <1>6 DEF Clears, IsNext
    <2>2. shelf' \in Seq(Item)
      BY <1>6, ShelfType DEF Next, Storage
    <2>3. Stored(io') \subseteq Stored(io)
      BY <1>1, <2>1, <2>2, NamedListed
    <2>4. Over' = Over
      BY <1>0, <2>1, OverSame, RefreshedPast
    <2>5. CASE Head(io).stale
      <3>1. UNCHANGED <<outbox, call>>
        BY <1>6, <2>5 DEF Clears
      <3> QED
        BY <1>3, <2>1, <2>3, <2>4, <3>1, EndedOn
    <2>6. CASE ~Head(io).stale
      <3>1. Sync(d, t)
        BY <1>6, <2>6 DEF Clears
      <3> QED
        BY <1>1, <1>3, <2>1, <2>3, <2>4, <3>1, EndedSync
    <2> QED
      BY <2>5, <2>6
  <1>7. CASE StoreFails \/ Prunes
    <2>1. /\ io # <<>> /\ io' = Tail(io) /\ (UNCHANGED shelf \/ shelf' = Without(shelf, d))
          /\ UNCHANGED <<outbox, call, pass, past>>
      BY <1>7 DEF StoreFails, Prunes, IsNext
    <2>2. Over' = Over
      BY <1>0, <2>1, OverSame
    <2> QED
      BY <1>1, <1>3, <2>1, <2>2, EndedOn
  <1>8. CASE Keeps
    <2>1. /\ io # <<>> /\ Head(io).op = "keep" /\ io' = Tail(io)
          /\ UNCHANGED <<outbox, call, pass>>
      BY <1>8 DEF Keeps, IsNext
    <2>2. /\ shelf' = Put(shelf, d, t) \/ UNCHANGED shelf
          /\ UNCHANGED past \/ \E k : past' = [past EXCEPT !.kept = k]
      BY <1>8 DEF Keeps
    <2>3. Over' = Over
      BY <1>0, <2>2, OverSame
    <2> QED
      BY <1>4, <2>1, <2>2, <2>3
  <1>9. CASE Drops \/ Forgets
    <2>1. /\ io # <<>> /\ Head(io).op \in Deletes /\ io' = Tail(io)
          /\ shelf' = Without(shelf, d) /\ outbox' = Unqueued(d) /\ past' = Ends(d)
          /\ UNCHANGED <<call, pass>>
      BY <1>9 DEF Drops, Forgets, IsNext, Deletes
    <2> QED
      BY <2>1, EndedDeletes
  <1> QED
    BY <1>5, <1>6, <1>7, <1>8, <1>9 DEF Storage

\* A text is on its way to the shelf: its draft has not ended, or no more.
LEMMA EndedRevives ==
  ASSUME Window, Ended, NEW d, past' = Revives(d), UNCHANGED <<shelf, outbox, call, pass>>,
         NEW r \in Request, r.draft = d, io' = Append(io, r)
  PROVE  Ended'
  <1>1. /\ io \in Seq(Request)
        /\ past \in [kept : SUBSET Item, retired : SUBSET Ids, revived : SUBSET Ids]
    BY DEF Window, QueueOK, PastOK
  <1>2. Over' = Over \ {d}
    BY <1>1, OverRevives
  <1>3. Stored(io') \subseteq Stored(io) \cup {d}
    BY <1>1, NamedAppend DEF Stored
  <1> QED
    BY <1>2, <1>3 DEF Ended

\* What is under way is given up.
LEMMA EndedAbandons ==
  ASSUME Window, Ended, late' = Aborted, outbox' = TakenBack \/ UNCHANGED outbox,
         call' = NoCall, pass' = {}, UNCHANGED <<shelf, past>>, Stored(io') \subseteq Stored(io)
  PROVE  Ended'
  <1>1. Over' = Over
    BY OverSame DEF Window, PastOK
  <1>2. outbox' \subseteq outbox
    BY DEF TakenBack, Unqueued
  <1>3. call'.at = "none"
    BY DEF NoCall
  <1> QED
    BY <1>1, <1>2, <1>3, EndedOn

\* Requests, answers and passes over the outbox.
LEMMA EndedCalls ==
  ASSUME Window, Ended,
         \/ CallArrives \/ CallReturns \/ CallFails \/ CallEnds \/ LateArrives
         \/ PassStarts \/ Retries \/ PassEnds
  PROVE  Ended'
  <1>0. UNCHANGED <<shelf, past, io>> /\ call \in Call \cup {NoCall}
    BY DEF CallArrives, CallReturns, CallFails, CallEnds, LateArrives, PassStarts, Retries,
           PassEnds, browser, Window, CallOK
  <1>1. Over' = Over
    BY <1>0, OverSame DEF Window, PastOK
  <1>2. NoCall.at = "none"
    BY DEF NoCall
  <1>3. CASE CallArrives
    <2>1. call \in Call /\ UNCHANGED <<outbox, pass>>
      BY <1>0, <1>2, <1>3 DEF CallArrives, browser
    <2>2. call' = [call EXCEPT !.at = "ok"] \/ call' = [call EXCEPT !.at = "conflict"]
      BY <1>3 DEF CallArrives
    <2>3. call'.draft = call.draft /\ call.at # "none"
      BY <2>1, <2>2 DEF Call
    <2> QED
      BY <1>0, <1>1, <2>1, <2>3, EndedOn
  <1>4. CASE CallReturns \/ CallEnds \/ LateArrives \/ PassStarts \/ PassEnds
    <2>1. call' = NoCall \/ UNCHANGED call
      BY <1>4 DEF CallReturns, CallEnds, LateArrives, PassStarts, PassEnds
    <2>2. outbox' \subseteq outbox /\ pass' \subseteq outbox \cup pass
      BY <1>4 DEF CallReturns, CallEnds, LateArrives, PassStarts, PassEnds, browser, Unqueued
    <2> QED
      BY <1>0, <1>1, <1>2, <2>1, <2>2, EndedOn
  <1>5. CASE CallFails
    <2>1. call \in Call /\ UNCHANGED pass
      BY <1>0, <1>2, <1>5 DEF CallFails
    <2>2. CASE call' = NoCall /\ UNCHANGED outbox
      BY <1>0, <1>1, <1>2, <2>1, <2>2, EndedOn
    <2>3. CASE /\ outbox' = Queued(call.draft, call.text)
               /\ call' = [call EXCEPT !.at = "requeued"]
      <3>1. call'.draft = call.draft /\ call.at # "none"
        BY <2>1, <2>3 DEF Call
      <3>2. \A x \in outbox' : x \in outbox \/ x.draft = call.draft
        BY <2>3 DEF Queued, Unqueued
      <3> QED
        BY <1>0, <1>1, <2>1, <3>1, <3>2 DEF Ended
    <2> QED
      BY <1>5, <2>2, <2>3 DEF CallFails
  <1>6. CASE Retries
    <2>1. PICK x \in pass :
            /\ pass' = pass \ {x} /\ outbox' = TakenBack
            /\ call' = [draft |-> x.draft, text |-> x.text, kind |-> "retry", at |-> "sent"]
      BY <1>6 DEF Retries
    <2>2. call'.draft = x.draft /\ outbox' \subseteq outbox
      BY <2>1 DEF TakenBack, Unqueued
    <2> QED
      BY <1>0, <1>1, <2>1, <2>2 DEF Ended
  <1> QED
    BY <1>3, <1>4, <1>5, <1>6

\* No step brings back a draft that is over.
LEMMA EndedStep ==
  ASSUME Window, Queue, Tables, Shelf, Ended, [Next]_vars
  PROVE  Ended'
  <1>0. /\ past \in [kept : SUBSET Item, retired : SUBSET Ids, revived : SUBSET Ids]
        /\ io \in Seq(Request) /\ Orderly(io) /\ shelf \in Seq(Item)
        /\ ed.text \in Texts /\ ed.draft \in Ids \cup {NoDraft} /\ FreshIds \subseteq Ids
    BY FreshAreIds DEF Window, PastOK, QueueOK, Queue, EdOK, Editor
  <1>1. ASSUME UNCHANGED <<shelf, outbox, call, pass>>, Over' = Over,
               Stored(io') \subseteq Stored(io)
        PROVE  Ended'
    BY <1>1, EndedOn
  <1>2. CASE UNCHANGED <<shelf, outbox, io, call, pass, past>>
    BY <1>0, <1>1, <1>2, OverSame
  <1>3. ASSUME Listing, UNCHANGED <<shelf, outbox, call, pass>>
        PROVE  Ended'
    <2>1. Over' = Over
      BY <1>0, <1>3, OverSame, RefreshedPast DEF Listing
    <2>2. Stored(io') \subseteq Stored(io)
      BY <1>0, <1>3, NamedListed DEF Listing
    <2> QED
      BY <1>1, <1>3, <2>1, <2>2
  <1>4. CASE Storage
    BY <1>4, EndedStorage
  <1>5. CASE SavePosts \/ SaveCommits \/ SaveFails
    BY <1>2, <1>5 DEF SavePosts, SaveCommits, SaveFails, browser
  <1>6. CASE Finalizes
    <2> DEFINE r == Op("drop", save.draft, Blank)
    <2>1. /\ save.stage = "answered" /\ UNCHANGED <<shelf, past>>
          /\ late' = Aborted /\ outbox' = TakenBack /\ call' = NoCall /\ pass' = {}
          /\ io' = Stale(io) \o <<r>>
      BY <1>6 DEF Finalizes, Abandons
    <2>2. save.draft \in Ids
      BY <2>1 DEF Window, SaveOK, Save
    <2>3. r \in Request /\ r.op = "drop"
      BY <2>2, OpType, BlankType
    <2>4. \A i \in DOMAIN io : io[i].op \notin {"keep", "drop"}
      BY <2>1 DEF Queue, Staged
    <2> HIDE DEF r
    <2>5. Stored(io') \subseteq Stored(io)
      BY <1>0, <2>1, <2>3, <2>4, NamedDrop DEF Stored
    <2> QED
      BY <2>1, <2>5, EndedAbandons
  <1>7. CASE SaveEnds
    <2>1. UNCHANGED <<shelf, outbox, call, pass>>
      BY <1>7 DEF SaveEnds
    <2>2. CASE ed.entry = None
      BY <1>3, <1>7, <2>1, <2>2 DEF SaveEnds
    <2>3. CASE ed.entry # None
      <3>1. UNCHANGED past /\ (io' = io \/ io' = Left(io))
        BY <1>7, <2>3 DEF SaveEnds
      <3>2. Stored(Left(io)) \subseteq Stored(io)
        BY <1>0, NamedLeft DEF Stored
      <3>3. Over' = Over
        BY <1>0, <3>1, OverSame
      <3> QED
        BY <1>1, <2>1, <3>1, <3>2, <3>3
    <2> QED
      BY <2>2, <2>3
  <1>8. CASE DiscardArrives \/ DiscardFails \/ UndoArrives \/ UndoEnds
    BY <1>2, <1>8 DEF DiscardArrives, DiscardFails, UndoArrives, UndoEnds, browser
  <1>9. CASE DiscardForgets
    <2> DEFINE r == Op("forget", discard.draft, Blank)
    <2>1. /\ discard.stage = "answered" /\ io' = Append(io, r)
          /\ UNCHANGED <<shelf, outbox, call, pass, past>>
      BY <1>9 DEF DiscardForgets
    <2>2. discard.draft \in Ids
      BY <2>1 DEF Window, DiscardOK, Discard
    <2>3. r \in Request /\ r.op = "forget"
      BY <2>2, OpType, BlankType
    <2> HIDE DEF r
    <2>4. Stored(io') \subseteq Stored(io)
      <3>1. Named(Append(io, r), {"store", "clear", "keep"})
              \subseteq Named(io, {"store", "clear", "keep"}) \cup {}
        BY <1>0, <2>3, NamedAppend
      <3> QED
        BY <2>1, <3>1 DEF Stored
    <2>5. Over' = Over
      BY <1>0, <2>1, OverSame
    <2> QED
      BY <1>1, <2>1, <2>4, <2>5
  <1>10. CASE DiscardStarts
    <2>1. /\ late' = Aborted /\ outbox' = TakenBack /\ call' = NoCall /\ pass' = {}
          /\ io' = Stale(io) \o <<>> /\ UNCHANGED <<shelf, past>>
      BY <1>10 DEF DiscardStarts, Abandons
    <2>2. Stale(io) \in Seq(Request)
      BY <1>0, StaleQueue
    <2>3. io' = Stale(io)
      BY <2>1, <2>2
    <2>4. Stored(io') \subseteq Stored(io)
      BY <1>0, <2>3, NamedStale DEF Stored
    <2> QED
      BY <2>1, <2>4, EndedAbandons
  <1>11. CASE Autosaves \/ Closes
    <2>1. PICK closes \in BOOLEAN : Persist(closes)
      BY <1>11 DEF Autosaves, Closes
    <2>2. UNCHANGED <<shelf, outbox, call, pass>>
      BY <2>1 DEF Persist
    <2>3. ASSUME NEW d \in Ids, NEW op \in {"store", "clear"}, NEW t \in Texts,
                 io' = Append(io, [Op(op, d, t) EXCEPT !.closes = closes]),
                 past' = Revives(d)
          PROVE  Ended'
      <3> DEFINE r == [Op(op, d, t) EXCEPT !.closes = closes]
      <3>1. r \in Request /\ r.draft = d
        BY DEF Op, Request
      <3>2. io' = Append(io, r)
        BY <2>3
      <3> HIDE DEF r
      <3> QED
        BY <2>2, <2>3, <3>1, <3>2, EndedRevives
    <2>4. CASE ed.text # Blank
      <3>1. PICK d \in IF ed.draft = NoDraft THEN FreshIds ELSE {ed.draft} :
              /\ io' = Append(io, [Op("store", d, ed.text) EXCEPT !.closes = closes])
              /\ past' = Revives(d)
        BY <2>1, <2>4 DEF Persist
      <3>2. d \in Ids
        BY <1>0
      <3> QED
        BY <1>0, <2>3, <3>1, <3>2
    <2>5. CASE ed.text = Blank /\ ed.draft # NoDraft
      <3>1. /\ io' = Append(io, [Op("clear", ed.draft, Blank) EXCEPT !.closes = closes])
            /\ past' = Revives(ed.draft)
        BY <2>1, <2>5 DEF Persist
      <3> QED
        BY <1>0, <2>3, <2>5, <3>1, BlankType
    <2>6. CASE ed.text = Blank /\ ed.draft = NoDraft
      BY <1>2, <2>1, <2>2, <2>6 DEF Persist
    <2> QED
      BY <2>4, <2>5, <2>6
  <1>12. CASE SaveStarts
    <2>1. PICK d \in IF ed.draft = NoDraft THEN FreshIds ELSE {ed.draft} :
            io' = Append(io, Op("keep", d, ed.text)) /\ past' = Revives(d)
      BY <1>12 DEF SaveStarts
    <2>2. d \in Ids /\ UNCHANGED <<shelf, outbox, call, pass>>
      BY <1>0, <1>12 DEF SaveStarts
    <2>3. Op("keep", d, ed.text) \in Request /\ Op("keep", d, ed.text).draft = d
      BY <1>0, <2>2, OpType
    <2> QED
      BY <2>1, <2>2, <2>3, EndedRevives
  <1>13. CASE \/ CallArrives \/ CallReturns \/ CallFails \/ CallEnds \/ LateArrives
              \/ PassStarts \/ Retries \/ PassEnds
    BY <1>13, EndedCalls
  <1>14. CASE OpensNew \/ OpensEdit
    BY <1>3, <1>14 DEF OpensNew, OpensEdit
  <1>15. CASE Types \/ Reopens \/ Elsewhere
    BY <1>2, <1>15 DEF Types, Reopens, Elsewhere, browser
  <1>16. CASE LoadsDraft
    <2>1. (\E k : past' = [past EXCEPT !.kept = k]) /\ UNCHANGED <<browser, call, pass>>
      BY <1>16 DEF LoadsDraft
    <2>2. Over' = Over
      BY <1>0, <2>1, OverSame
    <2> QED
      BY <1>1, <2>1, <2>2 DEF browser
  <1>17. CASE Reload
    <2>1. /\ io' = <<>> /\ late' = Aborted /\ call' = NoCall /\ pass' = {}
          /\ UNCHANGED <<shelf, outbox, past>>
      BY <1>17 DEF Reload
    <2>2. Stored(io') \subseteq Stored(io)
      BY <2>1, NamedIn DEF Stored
    <2> QED
      BY <2>1, <2>2, EndedAbandons
  <1> QED
    BY <1>2, <1>4, <1>5, <1>6, <1>7, <1>8, <1>9, <1>10, <1>11, <1>12, <1>13, <1>14, <1>15,
       <1>16, <1>17 DEF Next, Saving, Undoing, vars, browser

\* A draft that was saved or discarded is in neither store, whatever flush,
\* failed request or pass over the outbox was under way, unless the editor
\* stored it again.
THEOREM EndedIsForgotten == Spec => []EndedDraftsAreForgotten
  <1> DEFINE I == Window /\ Queue /\ Tables /\ Shelf /\ Ended
  <1>1. Init => I
    <2>1. Init => Ended
      BY DEF Init, Ended, Over
    <2> QED
      BY <2>1, WindowInit, ShelfInit
  <1>2. I /\ [Next]_vars => I'
    BY WindowStep, ShelfStep, EndedStep
  <1>3. I => EndedDraftsAreForgotten
    BY DEF Ended, Over, Members, EndedDraftsAreForgotten
  <1> QED
    BY <1>1, <1>2, <1>3, PTL DEF Spec
=============================================================================

--------------------------- MODULE EditLocks_proofs ---------------------------
(***************************************************************************)
(* The proof that concurrent transactions change the tables as the         *)
(* handlers of WorkingCopies do, one after the other: what a transaction   *)
(* has read is still true when it commits, because of the locks it holds,  *)
(* for any number of transactions.                                         *)
(***************************************************************************)
EXTENDS EditLocks, WorkingCopies_refinement

-----------------------------------------------------------------------------
(* The inductive invariant *)

\* the locks of x
HeldBy(x) == {l \in locks : l.tx = x}

Has(x, r, m)  == [tx |-> x, row |-> r, mode |-> m] \in locks
Owns(x, r)    == Has(x, r, "write") \/ Has(x, r, "all")
OnlyCopies(x) == \A l \in HeldBy(x) : l.row \in Copies

\* where a handler may be
Stages(op) ==
  CASE op = "none"    -> {"idle"}
    [] op = "open"    -> {"rows", "resume", "commit"}
    [] op = "discard" -> {"rows", "sweep", "delete", "commit"}
    [] op = "commit"  -> {"insert", "entry", "commit"}
    [] op = "undo"    -> {"upsert", "fk", "status", "erase", "refs", "cascade", "commit"}
    [] op = "purge"   -> {"refs", "cascade", "commit"}

Ops == {"none", "open", "discard", "commit", "undo", "purge"}
Ats == {"idle", "rows", "resume", "sweep", "delete", "insert", "entry", "upsert", "fk",
        "status", "erase", "refs", "cascade", "commit"}

TxRow == [op : Ops, at : Ats, e : Entries \cup {None}, c : Copies \cup {None},
          t : Token \cup {None}, p : Payload \cup {NoPayload}, base : 0..MaxRevision,
          row : CopyRow, todo : SUBSET Copies]

HeldLock == [tx : Transactions, row : Entries \cup Copies \cup Token, mode : Modes]

Parts == {"entries", "copies", "versions", "added", "removed"}

LocksType ==
  /\ tx \in [Transactions -> TxRow]
  /\ locks \subseteq HeldLock
  /\ DOMAIN out = Transactions /\ out = [x \in Transactions |-> out[x]]
  /\ \A x \in Transactions : DOMAIN out[x] = Parts /\ DOMAIN out[x].copies \subseteq Copies

Wrote(x, es, cs, vs, more, less) ==
  /\ out[x].entries = es /\ out[x].copies = cs /\ out[x].versions = vs
  /\ out[x].added = more /\ out[x].removed = less

Nothing(x) == Wrote(x, <<>>, <<>>, <<>>, {}, {})

\* Opening and discarding: an id that is still free, an entry that was there,
\* and, from its lock on, still is.
Starting(x) ==
  LET e == tx[x].e
      c == tx[x].c
  IN
  /\ e \in Entries /\ c \in Copies /\ Free(c) /\ entries[e].status # "unborn"
  /\ tx[x].at = "rows" => Nothing(x) /\ OnlyCopies(x)
  /\ tx[x].at # "rows" => Has(x, e, "all") /\ Exists(e)

\* what an opening writes, if there is no row to resume
Opening(x) ==
  LET e == tx[x].e
      c == tx[x].c
  IN
  \/ tx[x].at = "rows"
  \/ tx[x].at = "commit" /\ Nothing(x)
  \/ /\ Wrote(x, <<>>, Row(c, EditCopy(e, c)), <<>>, {}, {})
     /\ tx[x].at = "commit" => CopiesOf(e) = {}

\* the rows a discard has taken
Taken(x) == DOMAIN out[x].copies \ {tx[x].c}

Discarding(x) ==
  LET e == tx[x].e
      c == tx[x].c
  IN
  tx[x].at # "rows" =>
    /\ Wrote(x, <<>>, out[x].copies, <<>>, {}, {})
    /\ c \in DOMAIN out[x].copies /\ out[x].copies[c] = EditCopy(e, c)
    /\ \A k \in Taken(x) : /\ k \in Discarded(e) /\ Has(x, k, "all")
                           /\ out[x].copies[k] = Dropped(k)
    /\ tx[x].at = "sweep" => Taken(x) = {}
    /\ tx[x].at = "delete" =>
         /\ Discarded(e) \subseteq tx[x].todo \cup Taken(x)
         /\ \A k \in tx[x].todo : ~Free(k) /\ (Live(k) => k \in Discarded(e))
         /\ tx[x].todo # {}
    /\ tx[x].at = "commit" => Discarded(e) \subseteq Taken(x)

\* a commit that makes an entry
Fresh(x) == tx[x].op = "commit" /\ tx[x].row.entry = None

\* a commit works on the row as it was read, and finds the entry unchanged
Committing(x) ==
  LET e == tx[x].e
      c == tx[x].c
      row == tx[x].row
  IN
  /\ e \in Entries /\ c \in Copies /\ Live(c) /\ Has(x, c, "all") /\ row = copies[c]
  /\ tx[x].p \in Requests \cup {NoPayload}
  /\ \E b \in {0, row.given} : tx[x].base = IF b > 0 THEN b ELSE row.base
  /\ row.draft.type = "edit" => row.draft.entry = row.entry
  /\ row.entry = None => entries[e].status = "unborn" /\ tx[x].at # "entry"
  /\ row.entry # None => row.entry = e /\ tx[x].at # "insert"
  /\ tx[x].at # "commit" => Nothing(x) /\ OnlyCopies(x)
  /\ tx[x].at = "commit" /\ row.entry = None =>
       out[x] = Saved(x, e, [Unborn EXCEPT !.origin = row.draft], "draft")
  /\ tx[x].at = "commit" /\ row.entry # None =>
       /\ Has(x, e, "all") /\ Exists(e)
       /\ tx[x].base \in {0, entries[e].revision} /\ entries[e].revision # MaxRevision
       /\ out[x] = Saved(x, e, entries[e], entries[e].status)

\* an undo has its token
Undoing(x) ==
  LET t == tx[x].t IN
  /\ t \in tokens /\ t.entry = tx[x].e /\ Has(x, t, "all") /\ t \in out[x].removed
  /\ entries[t.entry].status # "unborn"
  /\ t.fresh => tx[x].at \notin {"upsert", "fk", "status"}
  /\ ~t.fresh => tx[x].at \notin {"erase", "refs", "cascade"}
  /\ tx[x].at = "erase" => Wrote(x, <<>>, <<>>, <<>>, {}, {t})

\* it brings the draft back in a row that is there ...
Rewriting(x, k) ==
  /\ k \in Rows(UndoDraft(tx[x].e)) /\ Owns(x, k)
  /\ out[x].copies = Row(k, [copies[k] EXCEPT !.payload = tx[x].t.payload, !.base = 0])

\* ... or in a new one
Brought(e, seen, payload) ==
  [state |-> "live", draft |-> UndoDraft(e), entry |-> e, base |-> 0, given |-> 0,
   seen |-> seen, payload |-> payload]

Bringing(x, seen) ==
  /\ tx[x].c \in Copies /\ Free(tx[x].c) /\ Rows(UndoDraft(tx[x].e)) = {}
  /\ out[x].copies = Row(tx[x].c, Brought(tx[x].e, seen, tx[x].t.payload))

Reviving(x) ==
  LET e == tx[x].e
      t == tx[x].t
  IN
  /\ out[x].versions = <<>> /\ out[x].added = {} /\ out[x].removed = {t}
  /\ tx[x].c # None => Free(tx[x].c)
  /\ tx[x].at # "commit" => out[x].entries = <<>>
  /\ tx[x].at = "upsert" => out[x].copies = <<>>
  /\ tx[x].at = "fk" => Bringing(x, None)
  /\ tx[x].at = "status" => \/ \E k \in Copies : Rewriting(x, k)
                            \/ Bringing(x, None) /\ Has(x, e, "key")
  /\ tx[x].at = "commit" =>
       /\ Has(x, e, "write")
       /\ out[x].entries = Row(e, [entries[e] EXCEPT !.status = t.prev])
       /\ \/ \E k \in Copies : Rewriting(x, k)
          \/ Bringing(x, entries[e].text) /\ Has(x, e, "key")

\* the deletion of an entry nobody references, with all its tokens
Erasing(x) ==
  LET e == tx[x].e IN
  /\ e \in Entries /\ Has(x, e, "all") /\ entries[e].status # "unborn"
  /\ tx[x].op = "purge" => entries[e].status = "trashed" /\ entries[e].deleted = "expired"
  /\ tx[x].at # "refs" => CopiesOf(e) = {}
  /\ tx[x].at # "commit" =>
       Wrote(x, <<>>, <<>>, <<>>, {}, IF tx[x].op = "purge" THEN {} ELSE {tx[x].t})
  /\ tx[x].at = "commit" =>
       /\ Wrote(x, Row(e, [Unborn EXCEPT !.status = "gone"]), <<>>, Row(e, <<>>), {},
                {t \in tokens : t.entry = e})
       /\ \A t \in out[x].removed : Has(x, t, "all")

Resting(x) == tx[x] = Idle /\ out[x] = NoWrites /\ HeldBy(x) = {}

Mine(x) ==
  /\ tx[x].at \in Stages(tx[x].op)
  /\ tx[x].op = "none" => Resting(x)
  /\ tx[x].op \in {"open", "discard"} => Starting(x)
  /\ tx[x].op = "open" => Opening(x)
  /\ tx[x].op = "discard" => Discarding(x)
  /\ tx[x].op = "commit" => Committing(x)
  /\ tx[x].op = "undo" => Undoing(x)
  /\ tx[x].op = "undo" /\ ~tx[x].t.fresh => Reviving(x)
  /\ tx[x].op = "undo" /\ tx[x].t.fresh /\ tx[x].at # "erase" => Erasing(x)
  /\ tx[x].op = "purge" => Erasing(x)

\* x has inserted the draft of its undo
Returns(x) == x \in Inserting(UndoDraft(tx[x].e))

\* New ids are different, and of one draft only one row is inserted at a time.
Apart(x, y) ==
  /\ tx[x].c \in Copies /\ Free(tx[x].c) => tx[y].c # tx[x].c
  /\ Fresh(x) => tx[y].e # tx[x].e
  /\ Returns(x) /\ Returns(y) => tx[x].e # tx[y].e

\* no two transactions hold a row in conflicting modes
Exclusive == \A k, l \in locks : k.row = l.row /\ k.tx # l.tx => ~Conflict(k.mode, l.mode)

\* locked rows are or were there
Real == \A l \in locks : /\ l.row \in Copies => ~Free(l.row)
                         /\ l.row \in Entries => entries[l.row].status # "unborn"

Tables == IInv /\ Numbered

LInv ==
  /\ Tables /\ LocksType /\ Exclusive /\ Real
  /\ \A x \in Transactions : Mine(x)
  /\ \A x, y \in Transactions : x # y => Apart(x, y)

-----------------------------------------------------------------------------
(* What a step of the others leaves true *)

\* the step is not one of y
Frame(y) == tx'[y] = tx[y] /\ out'[y] = out[y] /\ HeldBy(y)' = HeldBy(y)

\* What a transaction relies on: the rows it has locked for itself, the entry
\* whose id it has taken, and no new row or token of an entry it has locked.
Calm(y) ==
  LET e == tx[y].e
      c == tx[y].c
  IN
  /\ \A k \in Copies : Owns(y, k) => copies'[k] = copies[k]
  /\ \A f \in Entries : Owns(y, f) \/ (Fresh(y) /\ f = e) =>
       entries'[f] = entries[f] /\ versions'[f] = versions[f]
  /\ c \in Copies /\ Free(c) => copies'[c] = copies[c]
  /\ \A t \in tokens : Has(y, t, "all") /\ t \in out[y].removed => t \in tokens'
  /\ \A k \in Copies : /\ Free(k)' => Free(k)
                       /\ ~Free(k) /\ Live(k)' => /\ Live(k)
                                                  /\ copies'[k].entry = copies[k].entry
                                                  /\ copies'[k].draft = copies[k].draft
  /\ \A f \in Entries : Has(y, f, "all") =>
       /\ CopiesOf(f)' \subseteq CopiesOf(f)
       /\ \A t \in tokens' : t.entry = f => t \in tokens
  /\ \A f \in Entries : entries[f].status # "unborn" => entries'[f].status # "unborn"
  /\ \A f \in Entries : f = e /\ Returns(y) /\ Rows(UndoDraft(f)) = {} =>
       Rows(UndoDraft(f))' = {}

\* The locks of a transaction are not those of the others.
LEMMA FrameHas ==
  ASSUME NEW y, Frame(y)
  PROVE  /\ \A r, m : Has(y, r, m)' <=> Has(y, r, m)
         /\ \A r : Owns(y, r)' <=> Owns(y, r)
         /\ OnlyCopies(y)' <=> OnlyCopies(y)
  <1>1. \A r, m : Has(y, r, m) <=> [tx |-> y, row |-> r, mode |-> m] \in HeldBy(y)
    BY DEF Has, HeldBy
  <1>2. \A r, m : Has(y, r, m)' <=> [tx |-> y, row |-> r, mode |-> m] \in HeldBy(y)'
    BY DEF Has, HeldBy
  <1>3. \A r, m : Has(y, r, m)' <=> Has(y, r, m)
    BY <1>1, <1>2 DEF Frame
  <1>4. OnlyCopies(y)' <=> OnlyCopies(y)
    BY DEF OnlyCopies, Frame
  <1> QED
    BY <1>3, <1>4 DEF Owns

\* The rows a discard deletes are the rows of the entry: an edit has one.
LEMMA DiscardedRows ==
  ASSUME NEW e \in Entries
  PROVE  /\ IInv => Discarded(e) = CopiesOf(e)
         /\ IInv' => Discarded(e)' = CopiesOf(e)'
  BY ConstantsAssumption DEF IInv, AllLinked, Linked, Discarded, CopiesOf

LEMMA KeepStarting ==
  ASSUME NEW y \in Transactions, Starting(y), Frame(y), Calm(y)
  PROVE  Starting(y)'
  <1> PICK e, c : e = tx[y].e /\ c = tx[y].c
    OBVIOUS
  <1>1. Free(c)' /\ entries'[e].status # "unborn"
    BY DEF Starting, Calm, Free
  <1>2. Nothing(y) => Nothing(y)'
    BY DEF Nothing, Wrote, Frame
  <1>3. tx[y].at # "rows" => Exists(e)'
    BY DEF Starting, Calm, Owns, Exists
  <1>4. tx'[y] = tx[y]
    BY DEF Frame
  <1> QED
    BY <1>1, <1>2, <1>3, <1>4, FrameHas DEF Starting

\* What a handler writes is made from one entry and one copy.
LEMMA SameEditCopy ==
  ASSUME NEW e, NEW c, entries'[e] = entries[e]
  PROVE  EditCopy(e, c)' = EditCopy(e, c)
  BY DEF EditCopy, FormalPayload

LEMMA SameDropped ==
  ASSUME NEW c, copies'[c] = copies[c]
  PROVE  Dropped(c)' = Dropped(c)
  BY DEF Dropped

LEMMA SameSaved ==
  ASSUME NEW x, NEW e, NEW row, NEW prev, tx'[x] = tx[x], versions'[e] = versions[e]
  PROVE  Saved(x, e, row, prev)' = Saved(x, e, row, prev)
  <1>1. \A p : Snapshot(e, p)' = Snapshot(e, p)
    BY DEF Snapshot
  <1> QED
    BY <1>1, Zenon DEF Saved

LEMMA KeepOpening ==
  ASSUME NEW y \in Transactions, Starting(y), Opening(y), Frame(y), Calm(y)
  PROVE  Opening(y)'
  <1>1. CASE tx[y].at = "rows"
    BY <1>1 DEF Opening, Frame
  <1>2. CASE tx[y].at # "rows"
    <2> PICK e, c : e = tx[y].e /\ c = tx[y].c
      OBVIOUS
    <2>1. e \in Entries /\ Has(y, e, "all")
      BY <1>2 DEF Starting
    <2>2. entries'[e] = entries[e] /\ CopiesOf(e)' \subseteq CopiesOf(e)
      BY <2>1 DEF Calm, Owns
    <2>3. EditCopy(e, c)' = EditCopy(e, c)
      BY <2>2, SameEditCopy
    <2>4. Nothing(y)' <=> Nothing(y)
      BY DEF Nothing, Wrote, Frame
    <2>5. tx'[y] = tx[y] /\ out'[y] = out[y]
      BY DEF Frame
    <2> QED
      BY <2>2, <2>3, <2>4, <2>5 DEF Opening, Wrote
  <1> QED
    BY <1>1, <1>2

LEMMA KeepDiscarding ==
  ASSUME NEW y \in Transactions, Starting(y), Discarding(y), Frame(y), Calm(y),
         tx[y].todo \subseteq Copies, IInv, IInv'
  PROVE  Discarding(y)'
  <1> SUFFICES ASSUME tx'[y].at # "rows"
               PROVE  Discarding(y)'
    BY DEF Discarding
  <1> PICK e, c : e = tx[y].e /\ c = tx[y].c
    OBVIOUS
  <1>1. tx'[y] = tx[y] /\ out'[y] = out[y]
    BY DEF Frame
  <1>2. e \in Entries /\ Has(y, e, "all")
    BY <1>1 DEF Starting
  <1>3. entries'[e] = entries[e] /\ CopiesOf(e)' \subseteq CopiesOf(e)
    BY <1>2 DEF Calm, Owns
  <1>4. EditCopy(e, c)' = EditCopy(e, c)
    BY <1>3, SameEditCopy
  <1>5. Discarded(e) = CopiesOf(e) /\ Discarded(e)' = CopiesOf(e)'
    BY <1>2, DiscardedRows
  <1>6. Taken(y)' = Taken(y)
    BY <1>1 DEF Taken
  <1>7. ASSUME NEW k \in Taken(y)
        PROVE  k \in CopiesOf(e)' /\ Has(y, k, "all")' /\ Dropped(k)' = Dropped(k)
    <2>1. k \in CopiesOf(e) /\ Has(y, k, "all")
      BY <1>1, <1>5, <1>7 DEF Discarding
    <2>2. k \in Copies /\ copies'[k] = copies[k]
      BY <2>1 DEF CopiesOf, Calm, Owns
    <2> QED
      BY <2>1, <2>2, FrameHas, SameDropped DEF CopiesOf, Live
  <1>8. Wrote(y, <<>>, out[y].copies, <<>>, {}, {})'
    BY <1>1 DEF Discarding, Wrote
  <1>9. ASSUME NEW k \in tx[y].todo, tx[y].at = "delete"
        PROVE  ~Free(k)' /\ (Live(k)' => k \in CopiesOf(e)')
    <2>1. k \in Copies /\ ~Free(k) /\ (Live(k) => k \in CopiesOf(e))
      BY <1>1, <1>5, <1>9 DEF Discarding
    <2> QED
      BY <2>1 DEF Calm, CopiesOf
  <1>10. tx[y].at = "delete" => Discarding(y)'
    BY <1>1, <1>3, <1>4, <1>5, <1>6, <1>7, <1>8, <1>9 DEF Discarding
  <1>11. tx[y].at # "delete" => Discarding(y)'
    BY <1>1, <1>3, <1>4, <1>5, <1>6, <1>7, <1>8 DEF Discarding
  <1> QED
    BY <1>10, <1>11

LEMMA KeepCommitting ==
  ASSUME NEW y \in Transactions, tx[y].op = "commit", Committing(y), Frame(y), Calm(y)
  PROVE  Committing(y)'
  <1> PICK e, c, row : e = tx[y].e /\ c = tx[y].c /\ row = tx[y].row
    OBVIOUS
  <1>1. tx'[y] = tx[y] /\ out'[y] = out[y]
    BY DEF Frame
  <1>2. copies'[c] = copies[c] /\ Live(c)' /\ Has(y, c, "all")'
    BY FrameHas DEF Committing, Calm, Owns, Live
  <1>3. Nothing(y)' <=> Nothing(y)
    BY <1>1 DEF Nothing, Wrote
  <1>4. OnlyCopies(y)' <=> OnlyCopies(y)
    BY FrameHas
  <1>5. /\ e \in Entries /\ c \in Copies /\ row = copies'[c]
        /\ tx[y].p \in Requests \cup {NoPayload}
        /\ \E b \in {0, row.given} : tx[y].base = IF b > 0 THEN b ELSE row.base
        /\ row.draft.type = "edit" => row.draft.entry = row.entry
        /\ row.entry = None => tx[y].at # "entry"
        /\ row.entry # None => row.entry = e /\ tx[y].at # "insert"
        /\ tx[y].at # "commit" => Nothing(y)' /\ OnlyCopies(y)'
    BY <1>2, <1>3, <1>4 DEF Committing
  <1>6. CASE row.entry = None
    <2>1. entries'[e] = entries[e] /\ versions'[e] = versions[e]
      BY <1>6, <1>5 DEF Calm, Fresh
    <2>2. entries'[e].status = "unborn"
      BY <1>6, <2>1 DEF Committing
    <2>3. ASSUME tx[y].at = "commit"
          PROVE  out'[y] = Saved(y, e, [Unborn EXCEPT !.origin = row.draft], "draft")'
      BY <1>1, <1>6, <2>1, <2>3, SameSaved DEF Committing
    <2> QED
      BY <1>1, <1>2, <1>5, <1>6, <2>2, <2>3 DEF Committing
  <1>7. CASE row.entry # None
    <2> PICK old, status : old = entries[e] /\ status = entries[e].status
      OBVIOUS
    <2>1. ASSUME tx[y].at = "commit"
          PROVE  /\ Has(y, e, "all")' /\ Exists(e)'
                 /\ entries'[e] = old /\ entries'[e].status = status
                 /\ out'[y] = Saved(y, e, old, status)'
      <3>1. Has(y, e, "all") /\ Exists(e)
        BY <1>7, <2>1 DEF Committing
      <3>2. entries'[e] = entries[e] /\ versions'[e] = versions[e]
        BY <1>5, <3>1 DEF Calm, Owns
      <3>3. out[y] = Saved(y, e, old, status)
        BY <1>7, <2>1 DEF Committing
      <3>4. Saved(y, e, old, status)' = Saved(y, e, old, status)
        BY <1>1, <3>2, SameSaved
      <3> QED
        BY <1>1, <3>1, <3>2, <3>3, <3>4, FrameHas DEF Exists
    <2>2. ASSUME tx[y].at = "commit"
          PROVE  tx[y].base \in {0, entries'[e].revision} /\ entries'[e].revision # MaxRevision
      BY <1>7, <2>1, <2>2 DEF Committing
    <2> QED
      BY <1>1, <1>2, <1>5, <1>7, <2>1, <2>2 DEF Committing
  <1> QED
    BY <1>6, <1>7

\* A transaction that brings a new row has inserted it.
LEMMA BringingReturns ==
  ASSUME NEW x \in Transactions, NEW seen, Bringing(x, seen)
  PROVE  Returns(x)
  <1> PICK c, row : c = tx[x].c /\ row = Brought(tx[x].e, seen, tx[x].t.payload)
    OBVIOUS
  <1>1. row.draft = UndoDraft(tx[x].e)
    BY DEF Brought
  <1>2. c \in DOMAIN out[x].copies /\ out[x].copies[c] = row /\ Free(c)
    BY DEF Bringing, Row
  <1> QED
    BY <1>1, <1>2 DEF Returns, Inserting

LEMMA KeepUndoing ==
  ASSUME NEW y \in Transactions, Undoing(y), Frame(y), Calm(y), TypeOK
  PROVE  Undoing(y)'
  <1> PICK t : t = tx[y].t
    OBVIOUS
  <1>1. tx'[y] = tx[y] /\ out'[y] = out[y]
    BY DEF Frame
  <1>2. t \in tokens' /\ Has(y, t, "all")' /\ entries'[t.entry].status # "unborn"
    BY FrameHas DEF Undoing, Calm, TypeOK, Token
  <1> QED
    BY <1>1, <1>2 DEF Undoing, Wrote

\* what an undo brings back is still to bring back
LEMMA KeepRewriting ==
  ASSUME NEW y \in Transactions, NEW k \in Copies, Rewriting(y, k), Frame(y), Calm(y)
  PROVE  Rewriting(y, k)'
  <1> PICK e, d : e = tx[y].e /\ d = UndoDraft(e)
    OBVIOUS
  <1>1. tx'[y] = tx[y] /\ out'[y] = out[y]
    BY DEF Frame
  <1>2. copies'[k] = copies[k] /\ Owns(y, k)'
    BY FrameHas DEF Rewriting, Calm
  <1>3. k \in Rows(d)'
    BY <1>2 DEF Rewriting, Rows, Live
  <1> QED
    BY <1>1, <1>2, <1>3 DEF Rewriting

LEMMA KeepBringing ==
  ASSUME NEW y \in Transactions, tx[y].e \in Entries, NEW seen, Bringing(y, seen),
         Frame(y), Calm(y)
  PROVE  Bringing(y, seen)'
  <1> PICK e, c, d : e = tx[y].e /\ c = tx[y].c /\ d = UndoDraft(e)
    OBVIOUS
  <1>1. tx'[y] = tx[y] /\ out'[y] = out[y]
    BY DEF Frame
  <1>2. Returns(y) /\ Rows(UndoDraft(e)) = {}
    BY BringingReturns DEF Bringing
  <1>3. Rows(UndoDraft(e))' = {} /\ Free(c)'
    BY <1>2 DEF Calm, Bringing, Free
  <1> QED
    BY <1>1, <1>3 DEF Bringing

LEMMA KeepReviving ==
  ASSUME NEW y \in Transactions, tx[y].e \in Entries, tx[y].c \in Copies \cup {None},
         Reviving(y), Frame(y), Calm(y)
  PROVE  Reviving(y)'
  <1> PICK e, c, t, text : /\ e = tx[y].e /\ c = tx[y].c /\ t = tx[y].t
                           /\ text = entries[e].text
    OBVIOUS
  <1>1. tx'[y] = tx[y] /\ out'[y] = out[y]
    BY DEF Frame
  <1>2. c # None => Free(c)'
    BY DEF Reviving, Calm, Free
  <1>3. \A k \in Copies : Rewriting(y, k) => Rewriting(y, k)'
    BY KeepRewriting
  <1>4. \A seen : Bringing(y, seen) => Bringing(y, seen)'
    BY KeepBringing
  <1>5. \A m : Has(y, e, m)' <=> Has(y, e, m)
    BY FrameHas
  <1>6. CASE tx[y].at = "commit"
    <2>1. entries'[e] = entries[e]
      BY <1>6 DEF Reviving, Calm, Owns
    <2>2. \/ \E k \in Copies : Rewriting(y, k)
          \/ Bringing(y, text) /\ Has(y, e, "key")
      BY <1>6 DEF Reviving
    <2>3. \/ \E k \in Copies : Rewriting(y, k)'
          \/ Bringing(y, text)' /\ Has(y, e, "key")'
      BY <1>3, <1>4, <1>5, <2>2
    <2>4. Has(y, e, "write")' /\ entries'[e].text = text
      BY <1>5, <1>6, <2>1 DEF Reviving
    <2> QED
      BY <1>1, <1>2, <1>6, <2>1, <2>3, <2>4 DEF Reviving
  <1>7. CASE tx[y].at # "commit"
    <2>1. tx[y].at = "status" => \/ \E k \in Copies : Rewriting(y, k)'
                                 \/ Bringing(y, None)' /\ Has(y, e, "key")'
      BY <1>3, <1>4, <1>5 DEF Reviving
    <2>2. tx[y].at = "fk" => Bringing(y, None)'
      BY <1>4 DEF Reviving
    <2> QED
      BY <1>1, <1>2, <1>7, <2>1, <2>2 DEF Reviving
  <1> QED
    BY <1>6, <1>7

LEMMA KeepErasing ==
  ASSUME NEW y \in Transactions, Erasing(y), Frame(y), Calm(y)
  PROVE  Erasing(y)'
  <1> PICK e, erased : e = tx[y].e /\ erased = out[y].removed
    OBVIOUS
  <1>1. tx'[y] = tx[y] /\ out'[y] = out[y]
    BY DEF Frame
  <1>2. e \in Entries /\ Has(y, e, "all")
    BY DEF Erasing
  <1>3. /\ entries'[e] = entries[e] /\ CopiesOf(e)' \subseteq CopiesOf(e)
        /\ \A t \in tokens' : t.entry = e => t \in tokens
    BY <1>2 DEF Calm, Owns
  <1>4. \A r : Has(y, r, "all")' <=> Has(y, r, "all")
    BY FrameHas
  <1>5. CASE tx[y].at = "commit"
    <2>1. /\ erased = {t \in tokens : t.entry = e}
          /\ \A t \in erased : Has(y, t, "all")
      BY <1>5 DEF Erasing, Wrote
    <2>2. erased = {t \in tokens' : t.entry = e}
      BY <1>3, <2>1 DEF Calm
    <2> QED
      BY <1>1, <1>2, <1>3, <1>4, <1>5, <2>1, <2>2 DEF Erasing, Wrote
  <1>6. CASE tx[y].at # "commit"
    BY <1>1, <1>2, <1>3, <1>4, <1>6 DEF Erasing, Wrote
  <1> QED
    BY <1>5, <1>6

\* What a transaction knows stays true while the others leave it alone.
LEMMA KeepMine ==
  ASSUME LocksType, NEW y \in Transactions, Mine(y), Frame(y), Calm(y), IInv, IInv'
  PROVE  Mine(y)'
  <1>1. tx'[y] = tx[y] /\ out'[y] = out[y] /\ HeldBy(y)' = HeldBy(y)
    BY DEF Frame
  <1>2. tx[y] \in TxRow
    BY DEF LocksType
  <1>3. TypeOK /\ tx[y].todo \subseteq Copies /\ tx[y].c \in Copies \cup {None}
    BY <1>2 DEF IInv, TxRow
  <1>4. Resting(y)' <=> Resting(y)
    BY <1>1 DEF Resting
  <1>5. Undoing(y) => tx[y].e \in Entries
    BY <1>3 DEF Undoing, TypeOK, Token
  <1>6. /\ tx[y].op \in {"open", "discard"} => Starting(y)'
        /\ tx[y].op = "open" => Opening(y)'
        /\ tx[y].op = "discard" => Discarding(y)'
        /\ tx[y].op = "commit" => Committing(y)'
    BY <1>3, KeepStarting, KeepOpening, KeepDiscarding, KeepCommitting DEF Mine
  <1>7. /\ tx[y].op = "undo" => Undoing(y)'
        /\ tx[y].op = "undo" /\ ~tx[y].t.fresh => Reviving(y)'
        /\ tx[y].op = "undo" /\ tx[y].t.fresh /\ tx[y].at # "erase" => Erasing(y)'
        /\ tx[y].op = "purge" => Erasing(y)'
    BY <1>3, <1>5, KeepUndoing, KeepReviving, KeepErasing DEF Mine
  <1> QED
    BY <1>1, <1>4, <1>6, <1>7 DEF Mine

-----------------------------------------------------------------------------
(* The steps that leave the others calm *)

\* A statement that is not the last of its transaction writes no table.
LEMMA StillCalm ==
  ASSUME UNCHANGED vars, NEW y
  PROVE  Calm(y)
  <1>1. UNCHANGED <<entries, copies, versions, tokens>>
    BY DEF vars
  <1>2. \A f : CopiesOf(f)' = CopiesOf(f)
    BY <1>1 DEF CopiesOf, Live
  <1>3. \A d : Rows(d)' = Rows(d)
    BY <1>1 DEF Rows, Live
  <1>4. \A k \in Copies : (Free(k)' <=> Free(k)) /\ (Live(k)' <=> Live(k))
    BY <1>1 DEF Free, Live
  <1> QED
    BY <1>1, <1>2, <1>3, <1>4 DEF Calm

\* What a handler of one statement does to a row: it rewrites a row that is
\* there, or makes one of no entry, with a draft id nobody is inserting.
StatementWrites(k) ==
  \/ copies'[k] = copies[k]
  \/ /\ Live(k) /\ copies'[k].state # "unused"
     /\ Live(k)' => copies'[k].entry = copies[k].entry /\ copies'[k].draft = copies[k].draft
  \/ /\ Free(k) /\ copies'[k].state # "unused" /\ copies'[k].entry = None
     /\ \A e \in Entries : copies'[k].draft = UndoDraft(e) => Inserting(UndoDraft(e)) = {}

\* A draft that is saved is one row.
LEMMA SaveWrites ==
  ASSUME TypeOK, NEW d \in DraftId, NEW p, SaveDraft(d, p),
         \A e \in Entries : d = UndoDraft(e) => Inserting(UndoDraft(e)) = {}
  PROVE  \A k \in Copies : StatementWrites(k)
  <1> DEFINE row == [Unused EXCEPT !.state = "live", !.draft = d, !.payload = p]
  <1>1. row.state = "live" /\ row.entry = None /\ row.draft = d
    BY DEF Unused
  <1> HIDE DEF row
  <1>2. CASE \E c \in Rows(d) : copies' = [copies EXCEPT ![c].payload = p]
    BY <1>2 DEF StatementWrites, Rows, Live, Free, TypeOK, CopyRow
  <1>3. CASE \E c \in Copies : Free(c) /\ copies' = [copies EXCEPT ![c] = row]
    BY <1>1, <1>3 DEF StatementWrites, TypeOK
  <1> QED
    BY <1>2, <1>3 DEF SaveDraft, row

\* What a handler of one statement does to the tables.
LEMMA StatementTables ==
  ASSUME TypeOK, Statement
  PROVE  /\ UNCHANGED <<versions, tokens, tx, locks, out>>
         /\ \A k \in Copies : StatementWrites(k)
         /\ \A f \in Entries : \/ entries'[f] = entries[f]
                               \/ Exists(f) /\ entries'[f].status # "unborn"
  <1> DEFINE Goal == /\ UNCHANGED <<versions, tokens>>
                     /\ \A k \in Copies : StatementWrites(k)
                     /\ \A f \in Entries : \/ entries'[f] = entries[f]
                                           \/ Exists(f) /\ entries'[f].status # "unborn"
  <1>1. ASSUME NEW d \in Drafts, NEW p \in Requests, SaveDraft(NewDraft(d), p)
        PROVE  Goal
    <2>1. \A e \in Entries : NewDraft(d) # UndoDraft(e)
      BY DEF NewDraft, UndoDraft
    <2>2. \A k \in Copies : StatementWrites(k)
      BY <1>1, <2>1, RowTypes, SaveWrites
    <2> QED
      BY <1>1, <2>2 DEF SaveDraft
  <1>2. ASSUME NEW e \in Entries, NEW p \in Requests, Inserting(UndoDraft(e)) = {},
               SaveDraft(UndoDraft(e), p)
        PROVE  Goal
    <2>1. \A k \in Copies : StatementWrites(k)
      BY <1>2, RowTypes, SaveWrites DEF UndoDraft
    <2> QED
      BY <1>2, <2>1 DEF SaveDraft
  <1>3. ASSUME NEW c \in Copies, NEW p \in Requests, SaveEdit(c, p)
        PROVE  Goal
    BY <1>3 DEF SaveEdit, StatementWrites, Live, TypeOK, CopyRow
  <1>4. ASSUME NEW c \in Copies, NEW p \in Requests, NEW base \in 0..MaxRevision,
               PatchCopy(c, p, base)
        PROVE  Goal
    BY <1>4 DEF PatchCopy, StatementWrites, Live, TypeOK, CopyRow
  <1>5. ASSUME NEW c \in Copies, DeleteCopy(c)
        PROVE  Goal
    BY <1>5, DroppedType DEF DeleteCopy, StatementWrites, Live, TypeOK
  <1>6. ASSUME NEW e \in Entries, NEW n \in DOMAIN versions[e], RestoreVersion(e, n)
        PROVE  Goal
    BY <1>6 DEF RestoreVersion, StatementWrites, Exists, TypeOK, EntryRow
  <1>7. ASSUME NEW e \in Entries, TrashEntry(e) \/ RestoreEntry(e)
        PROVE  Goal
    <2>1. RestoredStatus(e) # "unborn"
      BY DEF RestoredStatus, TypeOK, EntryRow, Statuses, Shown
    <2>2. /\ UNCHANGED <<copies, versions, tokens>>
          /\ Exists(e) /\ entries'[e].status # "unborn"
          /\ \A f \in Entries \ {e} : entries'[f] = entries[f]
      BY <1>7, <2>1 DEF TrashEntry, RestoreEntry, Exists, TypeOK, EntryRow
    <2> QED
      BY <2>2 DEF StatementWrites
  <1> QED
    BY <1>1, <1>2, <1>3, <1>4, <1>5, <1>6, <1>7 DEF Statement

LEMMA StatementCalm ==
  ASSUME LInv, Statement, NEW y \in Transactions
  PROVE  Calm(y)
  <1> PICK e, c : e = tx[y].e /\ c = tx[y].c
    OBVIOUS
  <1>1. TypeOK /\ tx[y] \in TxRow
    BY DEF LInv, Tables, IInv, LocksType
  <1>2. /\ UNCHANGED <<versions, tokens>>
        /\ \A k \in Copies : StatementWrites(k)
        /\ \A f \in Entries : \/ entries'[f] = entries[f]
                              \/ Exists(f) /\ entries'[f].status # "unborn"
    BY <1>1, StatementTables
  <1>3. ASSUME NEW k \in Copies, NEW m \in {"write", "all"}, Has(y, k, m)
        PROVE  copies'[k] = copies[k]
    <2>1. y \in Holders(k, "all")
      BY <1>3 DEF Has, Holders, Conflict
    <2> QED
      BY <2>1 DEF Statement, Unlocked
  <1>4. ASSUME NEW f \in Entries, Owns(y, f)
        PROVE  entries'[f] = entries[f]
    <2>1. y \in Holders(f, "write")
      BY <1>4 DEF Owns, Has, Holders, Conflict
    <2> QED
      BY <2>1 DEF Statement, Unlocked
  <1>5. c \in Copies /\ Free(c) => copies'[c] = copies[c]
    BY DEF Statement, Unlocked, NewCopies
  <1>6. Fresh(y) /\ e \in Entries => entries'[e] = entries[e]
    BY <1>2 DEF LInv, Mine, Committing, Fresh, Exists
  <1>7. \A k \in Copies : /\ Free(k)' => Free(k)
                          /\ ~Free(k) /\ Live(k)' => /\ Live(k)
                                                     /\ copies'[k].entry = copies[k].entry
                                                     /\ copies'[k].draft = copies[k].draft
    BY <1>2 DEF StatementWrites, Free, Live
  <1>8. \A f \in Entries : CopiesOf(f)' \subseteq CopiesOf(f)
    BY <1>2, ConstantsAssumption DEF StatementWrites, Free, Live, CopiesOf
  <1>9. ASSUME e \in Entries, Returns(y), Rows(UndoDraft(e)) = {}, NEW k \in Rows(UndoDraft(e))'
        PROVE  FALSE
    <2>1. k \in Copies /\ copies'[k].draft = UndoDraft(e) /\ Live(k)'
      BY <1>9 DEF Rows, UndoDraft
    <2>2. Inserting(UndoDraft(e)) # {}
      BY <1>9 DEF Returns
    <2>3. k \notin Rows(UndoDraft(e))
      BY <1>9
    <2> QED
      BY <1>2, <1>9, <2>1, <2>2, <2>3 DEF StatementWrites, Rows, Live
  <1>10. \A f \in Entries : entries[f].status # "unborn" => entries'[f].status # "unborn"
    BY <1>2
  <1> QED
    BY <1>2, <1>3, <1>4, <1>5, <1>6, <1>7, <1>8, <1>9, <1>10 DEF Calm, Owns

\* An undo token is not taken away from the undo that has it, and what expires
\* with the retention of an entry does so while nobody is at work.
LEMMA TimeCalm ==
  ASSUME LInv, Time, NEW y \in Transactions
  PROVE  Calm(y)
  <1>1. CASE \E t \in tokens : (\A x \in Transactions : t \notin out[x].removed)
                               /\ TokenExpires(t)
    <2>1. UNCHANGED <<entries, copies, versions>> /\ tokens' \subseteq tokens
          /\ \A t \in tokens : t \in out[y].removed => t \in tokens'
      BY <1>1 DEF TokenExpires
    <2>2. \A f : CopiesOf(f)' = CopiesOf(f)
      BY <2>1 DEF CopiesOf, Live
    <2>3. \A d : Rows(d)' = Rows(d)
      BY <2>1 DEF Rows, Live
    <2>4. \A k \in Copies : (Free(k)' <=> Free(k)) /\ (Live(k)' <=> Live(k))
      BY <2>1 DEF Free, Live
    <2> QED
      BY <2>1, <2>2, <2>3, <2>4 DEF Calm
  <1>2. CASE \E e \in Entries : (\A x \in Transactions : ~Busy(x)) /\ RetentionExpires(e)
    <2>1. tx[y].at = "idle" /\ tx[y] \in TxRow /\ tx[y].at \in Stages(tx[y].op) /\ Mine(y)
      BY <1>2 DEF Busy, LInv, LocksType, Mine
    <2>2. tx[y].op = "none"
      BY <2>1 DEF Stages, TxRow, Ops
    <2>3. \A r, m : ~Has(y, r, m)
      BY <2>1, <2>2 DEF Mine, Resting, Has, HeldBy
    <2>4. ~Fresh(y)
      BY <2>2 DEF Fresh
    <2>5. /\ UNCHANGED <<copies, versions, tokens>>
          /\ \A f \in Entries : entries'[f].status = entries[f].status
      BY <1>2 DEF RetentionExpires, LInv, Tables, IInv, TypeOK, EntryRow
    <2>6. \A d : Rows(d)' = Rows(d)
      BY <2>5 DEF Rows, Live
    <2>7. \A k \in Copies : (Free(k)' <=> Free(k)) /\ (Live(k)' <=> Live(k))
      BY <2>5 DEF Free, Live
    <2> QED
      BY <2>3, <2>4, <2>5, <2>6, <2>7 DEF Calm, Owns
  <1> QED
    BY <1>1, <1>2 DEF Time

-----------------------------------------------------------------------------
(* What a transaction writes *)

\* Only the rows it owns, a row of its own id, and the entry of its own id; no
\* row is unmade, a new row or token of an entry comes with a lock on it.
WritesEntries(x) ==
  /\ \A f \in DOMAIN out[x].entries \cup DOMAIN out[x].versions :
       f = tx[x].e /\ f \in Entries /\ (Owns(x, f) \/ Fresh(x))
  /\ \A f \in DOMAIN out[x].entries : out[x].entries[f].status # "unborn"

WritesCopy(x, k) ==
  LET row == out[x].copies[k] IN
  /\ k \in Copies /\ row.state # "unused"
  /\ \/ /\ Free(k) /\ k = tx[x].c /\ row.entry = tx[x].e
        /\ Has(x, tx[x].e, "key") \/ Has(x, tx[x].e, "all")
        /\ row.draft.type = "edit" \/ row.draft = UndoDraft(tx[x].e)
     \/ /\ Live(k) /\ Owns(x, k)
        /\ row.state = "live" => row.entry = copies[k].entry /\ row.draft = copies[k].draft

WritesTokens(x) ==
  /\ \A t \in out[x].removed : Has(x, t, "all")
  /\ \A t \in out[x].added : t.entry = tx[x].e /\ (Fresh(x) \/ Has(x, tx[x].e, "all"))

Writes(x) ==
  /\ WritesEntries(x) /\ WritesTokens(x)
  /\ \A k \in DOMAIN out[x].copies : WritesCopy(x, k)

LEMMA Rowless == DOMAIN <<>> = {}
  OBVIOUS

LEMMA NothingWritten ==
  ASSUME NEW x, Nothing(x)
  PROVE  Writes(x)
  BY Rowless DEF Nothing, Wrote, Writes, WritesEntries, WritesTokens

\* the payload a commit saves
Final(x) == IF tx[x].p = NoPayload THEN tx[x].row.payload ELSE tx[x].p

LEMMA FinalPayload ==
  ASSUME TypeOK, NEW x \in Transactions, Committing(x)
  PROVE  Final(x) \in Payload /\ Final(x) \in Overlays(tx[x].c)
  BY ConstantsAssumption DEF Committing, Final, Overlays, TypeOK

\* the row it retires, the entry it saves, and the token that takes it back
Retired(old) == [Unused EXCEPT !.state = "dropped", !.draft = old.draft]

SavedEntry(row, p) ==
  [row EXCEPT !.status = p.status, !.kind = p.kind, !.text = p.text, !.revision = @ + 1]

SavedTokens(e, row, prev, p, old) ==
  IF Undoable(p)
  THEN {[entry |-> e, rev |-> row.revision + 1, fresh |-> row.revision = 0,
         prev |-> prev, payload |-> old.payload]}
  ELSE {}

LEMMA SavedParts ==
  ASSUME NEW x, NEW e, NEW row, NEW prev, out[x] = Saved(x, e, row, prev),
         NEW p, p = Final(x), NEW c, c = tx[x].c, NEW old, old = tx[x].row
  PROVE  /\ DOMAIN out[x].entries = {e} /\ DOMAIN out[x].copies = {c}
         /\ DOMAIN out[x].versions = {e} /\ out[x].removed = {}
         /\ out[x].versions[e] = Snapshot(e, p)
         /\ out[x].copies[c] = Retired(old)
         /\ out[x].entries[e] = SavedEntry(row, p)
         /\ out[x].added = SavedTokens(e, row, prev, p, old)
  <1> DEFINE new == SavedEntry(row, p)
             gone == Retired(old)
             ver == Snapshot(e, p)
             added == SavedTokens(e, row, prev, p, old)
  <1>1. out[x] = [entries |-> Row(e, new), copies |-> Row(c, gone),
                  versions |-> Row(e, ver), added |-> added, removed |-> {}]
    BY DEF Saved, Final, Retired, SavedEntry, SavedTokens
  <1> HIDE DEF new, gone, ver, added
  <1>2. /\ out[x].entries = Row(e, new) /\ out[x].copies = Row(c, gone)
        /\ out[x].versions = Row(e, ver) /\ out[x].added = added /\ out[x].removed = {}
    BY <1>1
  <1>3. /\ DOMAIN out[x].entries = {e} /\ DOMAIN out[x].copies = {c}
        /\ DOMAIN out[x].versions = {e}
        /\ out[x].versions[e] = ver /\ out[x].copies[c] = gone
        /\ out[x].entries[e] = new
    BY <1>2 DEF Row
  <1> QED
    BY <1>2, <1>3 DEF new, gone, ver, added

LEMMA EditCopyFields ==
  ASSUME NEW e, NEW c
  PROVE  /\ EditCopy(e, c).state = "live" /\ EditCopy(e, c).entry = e
         /\ EditCopy(e, c).draft = EditDraft(e, c) /\ EditCopy(e, c).draft.type = "edit"
  BY DEF EditCopy, EditDraft

\* an opening writes a new row, a discard also takes the old ones
LEMMA OpeningWrites ==
  ASSUME LocksType, NEW x \in Transactions, tx[x].at = "commit", Starting(x),
         \/ Opening(x)
         \/ Discarding(x)
  PROVE  Writes(x)
  <1> PICK e, c : e = tx[x].e /\ c = tx[x].c
    OBVIOUS
  <1>1. Has(x, e, "all") /\ c \in Copies /\ Free(c)
    BY DEF Starting
  <1>2. CASE Nothing(x)
    BY <1>2, NothingWritten
  <1>3. ASSUME Wrote(x, <<>>, out[x].copies, <<>>, {}, {}),
               \A k \in DOMAIN out[x].copies : WritesCopy(x, k)
        PROVE  Writes(x)
    BY <1>3, Rowless DEF Wrote, Writes, WritesEntries, WritesTokens
  <1>4. ASSUME NEW k, out[x].copies[k] = EditCopy(e, c), k = c
        PROVE  WritesCopy(x, k)
    BY <1>1, <1>4, EditCopyFields DEF WritesCopy
  <1>5. CASE Wrote(x, <<>>, Row(c, EditCopy(e, c)), <<>>, {}, {})
    <2>1. DOMAIN out[x].copies = {c} /\ out[x].copies[c] = EditCopy(e, c)
      BY <1>5 DEF Row, Wrote
    <2> QED
      BY <1>3, <1>4, <1>5, <2>1 DEF Wrote
  <1>6. CASE Discarding(x)
    <2>1. /\ Wrote(x, <<>>, out[x].copies, <<>>, {}, {})
          /\ c \in DOMAIN out[x].copies /\ out[x].copies[c] = EditCopy(e, c)
          /\ \A k \in Taken(x) : /\ k \in Discarded(e) /\ Has(x, k, "all")
                                 /\ out[x].copies[k] = Dropped(k)
      BY <1>6 DEF Discarding
    <2>2. ASSUME NEW k \in Taken(x)
          PROVE  WritesCopy(x, k)
      <3>1. k \in Copies /\ Live(k) /\ Owns(x, k) /\ out[x].copies[k] = Dropped(k)
        BY <2>1 DEF Discarded, CopiesOf, Owns
      <3>2. Dropped(k).state = "dropped"
        BY DEF Dropped, Unused
      <3> QED
        BY <3>1, <3>2 DEF WritesCopy
    <2>3. \A k \in DOMAIN out[x].copies : WritesCopy(x, k)
      BY <1>4, <2>1, <2>2 DEF Taken
    <2> QED
      BY <1>3, <2>1, <2>3
  <1> QED
    BY <1>2, <1>5, <1>6 DEF Opening

LEMMA CommittingWrites ==
  ASSUME TypeOK, NEW x \in Transactions, tx[x].at = "commit", tx[x].op = "commit",
         Committing(x)
  PROVE  Writes(x)
  <1> PICK e, c : e = tx[x].e /\ c = tx[x].c
    OBVIOUS
  <1>1. e \in Entries /\ c \in Copies /\ Live(c) /\ Owns(x, c)
    BY DEF Committing, Owns
  <1>2. ASSUME NEW row \in EntryRow, NEW prev, out[x] = Saved(x, e, row, prev),
               Has(x, e, "all") \/ Fresh(x)
        PROVE  Writes(x)
    <2> PICK p, old : p = Final(x) /\ old = tx[x].row
      OBVIOUS
    <2>1. /\ DOMAIN out[x].entries = {e} /\ DOMAIN out[x].copies = {c}
          /\ DOMAIN out[x].versions = {e} /\ out[x].removed = {}
          /\ out[x].copies[c] = Retired(old)
          /\ out[x].entries[e] = SavedEntry(row, p)
          /\ out[x].added = SavedTokens(e, row, prev, p, old)
      BY <1>2, SavedParts
    <2>2. /\ out[x].copies[c].state = "dropped"
          /\ out[x].entries[e].status = p.status
          /\ \A t \in out[x].added : t.entry = e
      BY <2>1 DEF Unused, Retired, SavedEntry, SavedTokens, EntryRow
    <2>3. p.status # "unborn"
      BY FinalPayload DEF Payload, Statuses, Shown
    <2>4. WritesEntries(x)
      BY <1>1, <1>2, <2>1, <2>2, <2>3 DEF WritesEntries, Owns
    <2>5. WritesCopy(x, c)
      BY <1>1, <2>2 DEF WritesCopy
    <2> QED
      BY <1>2, <2>1, <2>2, <2>4, <2>5 DEF Writes, WritesTokens
  <1>3. CASE tx[x].row.entry = None
    <2>1. [Unborn EXCEPT !.origin = tx[x].row.draft] \in EntryRow
      BY RowTypes DEF Committing, TypeOK, CopyRow, EntryRow
    <2> QED
      BY <1>2, <1>3, <2>1 DEF Committing, Fresh
  <1>4. CASE tx[x].row.entry # None
    BY <1>1, <1>2, <1>4 DEF Committing, TypeOK
  <1> QED
    BY <1>3, <1>4

LEMMA RevivingWrites ==
  ASSUME TypeOK, NEW x \in Transactions, tx[x].at = "commit", Undoing(x), Reviving(x)
  PROVE  Writes(x)
  <1> PICK e, c, t : e = tx[x].e /\ c = tx[x].c /\ t = tx[x].t
    OBVIOUS
  <1>1. t \in Token /\ e = t.entry /\ e \in Entries
    BY DEF Undoing, TypeOK, Token
  <1>2. WritesTokens(x)
    BY DEF Undoing, Reviving, WritesTokens
  <1>3. WritesEntries(x)
    <2>1. /\ out[x].entries = Row(e, [entries[e] EXCEPT !.status = t.prev])
          /\ out[x].versions = <<>> /\ Has(x, e, "write")
      BY DEF Reviving
    <2>2. [entries[e] EXCEPT !.status = t.prev].status = t.prev /\ t.prev # "unborn"
      BY <1>1 DEF Token, Statuses, Shown, TypeOK, EntryRow
    <2> QED
      BY <1>1, <2>1, <2>2, Rowless DEF Row, WritesEntries, Owns
  <1>4. ASSUME NEW k \in Copies, Rewriting(x, k)
        PROVE  \A j \in DOMAIN out[x].copies : WritesCopy(x, j)
    <2> DEFINE row == [copies[k] EXCEPT !.payload = tx[x].t.payload, !.base = 0]
    <2>1. row.state = "live" /\ row.entry = copies[k].entry /\ row.draft = copies[k].draft
      BY <1>4 DEF Rewriting, Rows, Live, TypeOK, CopyRow
    <2>2. out[x].copies = Row(k, row) /\ Live(k) /\ Owns(x, k)
      BY <1>4 DEF Rewriting, Rows
    <2> HIDE DEF row
    <2> QED
      BY <2>1, <2>2 DEF Row, WritesCopy
  <1>5. ASSUME NEW seen, Bringing(x, seen), Has(x, e, "key")
        PROVE  \A j \in DOMAIN out[x].copies : WritesCopy(x, j)
    <2> PICK row : row = Brought(tx[x].e, seen, tx[x].t.payload)
      OBVIOUS
    <2>1. row.state = "live" /\ row.entry = e /\ row.draft = UndoDraft(e)
      BY DEF Brought
    <2>2. DOMAIN out[x].copies = {c} /\ out[x].copies[c] = row /\ Free(c) /\ c \in Copies
      BY <1>5 DEF Bringing, Row
    <2> QED
      BY <1>5, <2>1, <2>2 DEF WritesCopy
  <1>6. \A j \in DOMAIN out[x].copies : WritesCopy(x, j)
    BY <1>4, <1>5 DEF Reviving
  <1> QED
    BY <1>2, <1>3, <1>6 DEF Writes

LEMMA ErasingWrites ==
  ASSUME NEW x \in Transactions, tx[x].at = "commit", Erasing(x)
  PROVE  Writes(x)
  <1> PICK e : e = tx[x].e
    OBVIOUS
  <1>1. /\ e \in Entries /\ Has(x, e, "all") /\ out[x].copies = <<>> /\ out[x].added = {}
        /\ \A t \in out[x].removed : Has(x, t, "all")
        /\ out[x].entries = Row(e, [Unborn EXCEPT !.status = "gone"])
        /\ out[x].versions = Row(e, <<>>)
    BY DEF Erasing, Wrote
  <1>2. [Unborn EXCEPT !.status = "gone"].status = "gone"
    BY DEF Unborn
  <1>3. WritesEntries(x)
    BY <1>1, <1>2 DEF Row, WritesEntries, Owns
  <1> QED
    BY <1>1, <1>3, Rowless DEF Writes, WritesTokens

\* At its commit, every transaction has written what Writes says.
LEMMA CommitWrites ==
  ASSUME TypeOK, LocksType, NEW x \in Transactions, Mine(x), tx[x].at = "commit"
  PROVE  Writes(x)
  <1>1. tx[x].op \in {"open", "discard", "commit", "undo", "purge"}
    BY DEF Mine, Stages, LocksType, TxRow, Ops
  <1>2. CASE tx[x].op \in {"open", "discard"}
    BY <1>2, OpeningWrites DEF Mine
  <1>3. CASE tx[x].op = "commit"
    BY <1>3, CommittingWrites DEF Mine
  <1>4. CASE tx[x].op = "undo" /\ ~tx[x].t.fresh
    BY <1>4, RevivingWrites DEF Mine
  <1>5. CASE tx[x].op = "undo" /\ tx[x].t.fresh
    BY <1>5, ErasingWrites DEF Mine
  <1>6. CASE tx[x].op = "purge"
    BY <1>6, ErasingWrites DEF Mine
  <1> QED
    BY <1>1, <1>2, <1>3, <1>4, <1>5, <1>6

-----------------------------------------------------------------------------
(* A commit leaves the other transactions calm *)

\* The locks of two transactions do not conflict.
LEMMA NoConflict ==
  ASSUME Exclusive, NEW x, NEW y, x # y, NEW r, NEW m, NEW n, Has(x, r, m), Has(y, r, n)
  PROVE  ~Conflict(m, n)
  BY DEF Exclusive, Has

\* Nobody else has a lock on what a transaction owns, nor owns what it has
\* locked in whatever mode.
LEMMA OwnersApart ==
  ASSUME Exclusive, NEW x, NEW y, x # y, NEW r, Owns(y, r)
  PROVE  /\ ~Owns(x, r)
         /\ Has(y, r, "all") => ~Has(x, r, "key") /\ ~Has(x, r, "all")
  BY NoConflict DEF Owns, Conflict

\* A locked row is a row.
LEMMA LockedReal ==
  ASSUME Real, NEW x, NEW r, NEW m, Has(x, r, m)
  PROVE  /\ r \in Copies => ~Free(r)
         /\ r \in Entries => entries[r].status # "unborn"
  BY DEF Real, Has

\* What a commit makes of the tables.
LEMMA CommitTables ==
  ASSUME TypeOK, NEW x, Commit(x)
  PROVE  /\ \A f \in Entries :
              /\ entries'[f] = IF f \in DOMAIN out[x].entries THEN out[x].entries[f]
                               ELSE entries[f]
              /\ versions'[f] = IF f \in DOMAIN out[x].versions THEN out[x].versions[f]
                                ELSE versions[f]
         /\ \A k \in Copies : copies'[k] = IF k \in DOMAIN out[x].copies THEN out[x].copies[k]
                                           ELSE copies[k]
         /\ tokens' = (tokens \ out[x].removed) \cup out[x].added
  BY DEF Commit, Over, TypeOK

LEMMA CommitCalm ==
  ASSUME LInv, NEW x \in Transactions, NEW y \in Transactions, x # y, Commit(x)
  PROVE  Calm(y)
  <1> PICK e, c, d, f : e = tx[x].e /\ c = tx[x].c /\ d = tx[y].c /\ f = tx[y].e
    OBVIOUS
  <1>1. TypeOK /\ LocksType /\ Exclusive /\ Real /\ Mine(x) /\ Mine(y)
    BY DEF LInv, Tables, IInv
  <1>2. Writes(x)
    BY <1>1, CommitWrites DEF Commit
  <1>3. Apart(x, y) /\ Apart(y, x)
    BY DEF LInv
  <1>4. /\ \A g \in Entries :
             /\ entries'[g] = IF g \in DOMAIN out[x].entries THEN out[x].entries[g]
                              ELSE entries[g]
             /\ versions'[g] = IF g \in DOMAIN out[x].versions THEN out[x].versions[g]
                               ELSE versions[g]
        /\ \A k \in Copies : copies'[k] = IF k \in DOMAIN out[x].copies THEN out[x].copies[k]
                                          ELSE copies[k]
        /\ tokens' = (tokens \ out[x].removed) \cup out[x].added
    BY <1>1, CommitTables
  <1>5. ASSUME NEW g \in Entries, g \in DOMAIN out[x].entries \cup DOMAIN out[x].versions
        PROVE  g = e /\ (Owns(x, g) \/ Fresh(x))
    BY <1>2, <1>5 DEF Writes, WritesEntries
  <1>6. ASSUME NEW k \in DOMAIN out[x].copies
        PROVE  WritesCopy(x, k)
    BY <1>2, <1>6 DEF Writes
  <1>7. Fresh(x) => entries[e].status = "unborn"
    BY <1>1 DEF Mine, Fresh, Committing
  <1>8. Fresh(y) => entries[f].status = "unborn"
    BY <1>1 DEF Mine, Fresh, Committing
  <1>9. \A k \in Copies : Owns(y, k) => copies'[k] = copies[k]
    <2> SUFFICES ASSUME NEW k \in Copies, Owns(y, k), k \in DOMAIN out[x].copies
                 PROVE  FALSE
      BY <1>4
    <2>1. ~Owns(x, k) /\ ~Free(k)
      BY <1>1, OwnersApart, LockedReal DEF Owns
    <2> QED
      BY <1>6, <2>1 DEF WritesCopy
  <1>10. \A g \in Entries : Owns(y, g) \/ (Fresh(y) /\ g = f) =>
           entries'[g] = entries[g] /\ versions'[g] = versions[g]
    <2> SUFFICES ASSUME NEW g \in Entries, Owns(y, g) \/ (Fresh(y) /\ g = f),
                        g \in DOMAIN out[x].entries \cup DOMAIN out[x].versions
                 PROVE  FALSE
      BY <1>4
    <2>1. g = e /\ (Owns(x, g) \/ Fresh(x))
      BY <1>5
    <2>2. CASE Owns(y, g)
      <3>1. ~Owns(x, g) /\ entries[g].status # "unborn"
        BY <1>1, <2>2, OwnersApart, LockedReal DEF Owns
      <3> QED
        BY <1>7, <2>1, <3>1
    <2>3. CASE Fresh(y) /\ g = f
      <3>1. ~Fresh(x)
        BY <1>3, <2>1, <2>3 DEF Apart
      <3>2. entries[g].status # "unborn"
        BY <1>1, <2>1, <3>1, LockedReal DEF Owns
      <3> QED
        BY <1>8, <2>3, <3>2
    <2> QED
      BY <2>2, <2>3
  <1>11. d \in Copies /\ Free(d) => copies'[d] = copies[d]
    <2> SUFFICES ASSUME d \in Copies, Free(d), d \in DOMAIN out[x].copies
                 PROVE  FALSE
      BY <1>4
    <2>1. d # c
      BY <1>3 DEF Apart
    <2> QED
      BY <1>6, <2>1 DEF WritesCopy, Live, Free
  <1>12. \A t \in tokens : Has(y, t, "all") /\ t \in out[y].removed => t \in tokens'
    <2> SUFFICES ASSUME NEW t \in tokens, Has(y, t, "all"), t \in out[x].removed
                 PROVE  FALSE
      BY <1>4
    <2>1. Has(x, t, "all")
      BY <1>2 DEF Writes, WritesTokens
    <2> QED
      BY <1>1, <2>1, NoConflict DEF Conflict
  <1>13. \A k \in Copies : /\ Free(k)' => Free(k)
                           /\ ~Free(k) /\ Live(k)' => /\ Live(k)
                                                      /\ copies'[k].entry = copies[k].entry
                                                      /\ copies'[k].draft = copies[k].draft
    BY <1>4, <1>6 DEF WritesCopy, Free, Live
  <1>14. ASSUME NEW g \in Entries, Has(y, g, "all")
         PROVE  /\ CopiesOf(g)' \subseteq CopiesOf(g)
                /\ \A t \in tokens' : t.entry = g => t \in tokens
    <2>1. /\ ~Has(x, g, "key") /\ ~Has(x, g, "all")
          /\ entries[g].status # "unborn"
      BY <1>1, <1>14, OwnersApart, LockedReal DEF Owns
    <2>2. ASSUME NEW k \in Copies, Live(k)', copies'[k].entry = g
          PROVE  Live(k) /\ copies[k].entry = g
      <3>1. CASE k \in DOMAIN out[x].copies /\ Free(k)
        BY <1>4, <1>6, <2>1, <2>2, <3>1 DEF WritesCopy, Live, Free
      <3>2. CASE ~Free(k)
        BY <1>13, <2>2, <3>2
      <3>3. CASE k \notin DOMAIN out[x].copies
        BY <1>4, <2>2, <3>3 DEF Live
      <3> QED
        BY <3>1, <3>2, <3>3
    <2>3. ASSUME NEW t \in out[x].added, t.entry = g
          PROVE  FALSE
      <3>1. g = e /\ (Fresh(x) \/ Has(x, e, "all"))
        BY <1>2, <2>3 DEF Writes, WritesTokens
      <3> QED
        BY <1>7, <2>1, <3>1
    <2> QED
      BY <1>4, <2>2, <2>3 DEF CopiesOf
  <1>15. \A g \in Entries : entries[g].status # "unborn" => entries'[g].status # "unborn"
    BY <1>2, <1>4 DEF Writes, WritesEntries
  <1>16. ASSUME f \in Entries, Returns(y), Rows(UndoDraft(f)) = {},
                NEW k \in Rows(UndoDraft(f))'
         PROVE  FALSE
    <2>1. k \in Copies /\ copies'[k].draft = UndoDraft(f) /\ Live(k)'
      BY <1>16 DEF Rows, UndoDraft
    <2>2. k \notin Rows(UndoDraft(f))
      BY <1>16
    <2>3. k \in DOMAIN out[x].copies /\ Free(k)
      BY <1>4, <1>13, <2>1, <2>2 DEF Rows, Live
    <2>4. /\ out[x].copies[k].draft = UndoDraft(f)
          /\ \/ out[x].copies[k].draft.type = "edit"
             \/ out[x].copies[k].draft = UndoDraft(e)
      BY <1>4, <1>6, <2>1, <2>3 DEF WritesCopy, Live, Free
    <2>5. e = f
      BY <2>4 DEF UndoDraft
    <2>6. x \in Inserting(UndoDraft(e))
      BY <2>1, <2>3, <2>4, <2>5 DEF Inserting
    <2> QED
      BY <1>3, <1>16, <2>5, <2>6 DEF Apart, Returns
  <1> QED
    BY <1>9, <1>10, <1>11, <1>12, <1>13, <1>14, <1>15, <1>16 DEF Calm

-----------------------------------------------------------------------------
(* What every step has in common *)

\* Rows that are there stay.
Aged == /\ \A k \in Copies : Free(k)' => Free(k)
        /\ \A f \in Entries : entries[f].status # "unborn" => entries'[f].status # "unborn"

\* The others are as far apart from x as they were.
ActorApart(x) == \A y \in Transactions \ {x} : Apart(x, y)' /\ Apart(y, x)'

\* x takes no new id, and inserts no draft.
Tame(x) ==
  /\ tx'[x].c \in {tx[x].c, None} /\ tx'[x].e \in {tx[x].e, None}
  /\ Fresh(x)' => Fresh(x) /\ tx'[x].e = tx[x].e
  /\ Returns(x)' => Returns(x) /\ tx'[x].e = tx[x].e

LEMMA StillAged == ASSUME UNCHANGED vars PROVE Aged
  BY DEF vars, Aged, Free

LEMMA TablesStep ==
  ASSUME Tables, [Next]_vars
  PROVE  Tables'
  <1>1. TypeOK'
    BY TypeStep DEF Tables, IInv
  <1>2. CASE Next
    BY <1>1, <1>2, LinkedStep, NumberedStep DEF Tables, IInv
  <1>3. CASE UNCHANGED vars
    BY <1>1, <1>3 DEF Tables, IInv, vars, AllLinked, Linked, Live, Numbered, Exists
  <1> QED
    BY <1>2, <1>3

\* An idle transaction has done nothing.
LEMMA NotBusy ==
  ASSUME LInv, NEW x \in Transactions, ~Busy(x)
  PROVE  Resting(x)
  <1>1. tx[x] \in TxRow /\ tx[x].at = "idle" /\ Mine(x)
    BY DEF LInv, LocksType, Busy
  <1>2. tx[x].op = "none"
    BY <1>1 DEF Mine, Stages, TxRow, Ops
  <1> QED
    BY <1>1, <1>2 DEF Mine

\* A draft that is not inserted now was not inserted before.
LEMMA FrameReturns ==
  ASSUME LocksType, NEW y \in Transactions, Frame(y), Aged, Returns(y)'
  PROVE  Returns(y)
  <1> PICK e, d : e = tx[y].e /\ d = UndoDraft(e)
    OBVIOUS
  <1>1. tx'[y] = tx[y] /\ out'[y] = out[y] /\ DOMAIN out[y].copies \subseteq Copies
    BY DEF Frame, LocksType
  <1>2. y \in Inserting(d)'
    BY <1>1 DEF Returns
  <1>3. y \in Inserting(d)
    BY <1>1, <1>2 DEF Inserting, Aged
  <1> QED
    BY <1>3 DEF Returns

LEMMA FrameFresh ==
  ASSUME NEW y, Frame(y)
  PROVE  Fresh(y)' <=> Fresh(y)
  BY DEF Frame, Fresh

LEMMA OthersApart ==
  ASSUME LInv, Aged, NEW y \in Transactions, NEW z \in Transactions, y # z, Frame(y), Frame(z)
  PROVE  Apart(y, z)'
  <1>1. Apart(y, z) /\ LocksType
    BY DEF LInv
  <1>2. tx'[y] = tx[y] /\ tx'[z] = tx[z]
    BY DEF Frame
  <1>3. tx'[y].c \in Copies /\ Free(tx[y].c)' => tx'[z].c # tx'[y].c
    BY <1>1, <1>2 DEF Apart, Aged, Free
  <1>4. Fresh(y)' => tx'[z].e # tx'[y].e
    BY <1>1, <1>2, FrameFresh DEF Apart
  <1>5. Returns(y)' /\ Returns(z)' => tx'[y].e # tx'[z].e
    BY <1>1, <1>2, FrameReturns DEF Apart
  <1> QED
    BY <1>3, <1>4, <1>5 DEF Apart

LEMMA TameApart ==
  ASSUME LInv, Aged, NEW x \in Transactions, Tame(x), \A y \in Transactions \ {x} : Frame(y)
  PROVE  ActorApart(x)
  <1> SUFFICES ASSUME NEW y \in Transactions, y # x
               PROVE  Apart(x, y)' /\ Apart(y, x)'
    BY DEF ActorApart
  <1>1. Apart(x, y) /\ Apart(y, x) /\ LocksType /\ Mine(y) /\ Frame(y)
    BY DEF LInv
  <1>2. tx'[y] = tx[y]
    BY <1>1 DEF Frame
  <1>3. Fresh(y)' => Fresh(y) /\ tx[y].e \in Entries
    BY <1>1, FrameFresh DEF Mine, Fresh, Committing
  <1>4. Returns(y)' => Returns(y)
    BY <1>1, FrameReturns
  <1>5. None \notin Copies /\ None \notin Entries
    BY ConstantsAssumption
  <1> PICK c, d : c = tx'[x].c /\ d = tx[y].c
    OBVIOUS
  <1>6. c \in Copies => c = tx[x].c
    BY <1>5 DEF Tame
  <1>7. c \in Copies /\ Free(c)' => d # c
    BY <1>1, <1>2, <1>6 DEF Apart, Aged
  <1>8. d \in Copies /\ Free(d)' => c # d
    BY <1>1, <1>2, <1>5 DEF Apart, Aged, Tame
  <1>9. Apart(x, y)'
    BY <1>1, <1>2, <1>4, <1>7 DEF Apart, Tame
  <1>10. Apart(y, x)'
    BY <1>1, <1>2, <1>3, <1>4, <1>5, <1>8 DEF Apart, Tame
  <1> QED
    BY <1>9, <1>10

\* A step of x keeps the invariant if it keeps its own part of it and leaves
\* the others calm.
LEMMA Assemble ==
  ASSUME LInv, NEW x \in Transactions, Tables', Aged, LocksType', Exclusive', Real',
         \A y \in Transactions \ {x} : Frame(y) /\ Calm(y), Mine(x)', ActorApart(x)
  PROVE  LInv'
  <1>1. ASSUME NEW y \in Transactions PROVE Mine(y)'
    <2>1. CASE y = x
      BY <2>1
    <2>2. CASE y # x
      BY <2>2, KeepMine DEF LInv, Tables
    <2> QED
      BY <2>1, <2>2
  <1>2. ASSUME NEW y \in Transactions, NEW z \in Transactions, y # z PROVE Apart(y, z)'
    <2>1. CASE x \in {y, z}
      BY <1>2, <2>1 DEF ActorApart
    <2>2. CASE x \notin {y, z}
      BY <1>2, <2>2, OthersApart
    <2> QED
      BY <2>1, <2>2
  <1> QED
    BY <1>1, <1>2 DEF LInv

\* ... which a step that changes no table does.
LEMMA LocalStep ==
  ASSUME LInv, NEW x \in Transactions, UNCHANGED vars, LocksType', Exclusive', Real',
         \A y \in Transactions \ {x} : Frame(y), Mine(x)', ActorApart(x)
  PROVE  LInv'
  <1>1. Tables'
    BY TablesStep DEF LInv
  <1> QED
    BY <1>1, StillAged, StillCalm, Assemble

\* The end of a transaction.
LEMMA ReleaseStep ==
  ASSUME LInv, NEW x \in Transactions, Release(x), Tables', Aged,
         \A y \in Transactions \ {x} : Calm(y)
  PROVE  LInv'
  <1>1. LocksType /\ Exclusive /\ Real
    BY DEF LInv
  <1>2. tx' = [tx EXCEPT ![x] = Idle] /\ out' = [out EXCEPT ![x] = NoWrites]
        /\ locks' = {l \in locks : l.tx # x}
    BY DEF Release
  <1>3. Idle \in TxRow /\ Idle.op = "none" /\ Idle.at = "idle" /\ Idle.e = None /\ Idle.c = None
    BY RowTypes, ConstantsAssumption DEF Idle, TxRow, Ops, Ats
  <1>4. DOMAIN NoWrites = Parts /\ NoWrites.copies = <<>>
    BY DEF NoWrites, Parts
  <1>5. tx'[x] = Idle /\ out'[x] = NoWrites
        /\ \A y \in Transactions \ {x} : tx'[y] = tx[y] /\ out'[y] = out[y]
    BY <1>1, <1>2 DEF LocksType
  <1>6. ASSUME NEW y \in Transactions \ {x} PROVE Frame(y)
    <2>1. HeldBy(y)' = HeldBy(y)
      BY <1>2 DEF HeldBy
    <2> QED
      BY <1>5, <2>1 DEF Frame
  <1>7. LocksType'
    BY <1>1, <1>2, <1>3, <1>4, <1>5, Rowless DEF LocksType
  <1>8. Exclusive' /\ Real'
    <2>1. \A l \in locks' : l \in locks
      BY <1>2
    <2> QED
      BY <1>1, <2>1 DEF Exclusive, Real, Aged
  <1>9. Mine(x)'
    <2>1. HeldBy(x)' = {}
      BY <1>2 DEF HeldBy
    <2> QED
      BY <1>3, <1>5, <2>1 DEF Mine, Resting, Stages
  <1>10. ~Fresh(x)' /\ ~Returns(x)'
    <2>1. ~Fresh(x)'
      BY <1>3, <1>5 DEF Fresh
    <2>2. ~Returns(x)'
      BY <1>4, <1>5, Rowless DEF Returns, Inserting
    <2> QED
      BY <2>1, <2>2
  <1>11. ActorApart(x)
    BY <1>3, <1>5, <1>6, <1>10, TameApart DEF Tame
  <1> QED
    BY <1>6, <1>7, <1>8, <1>9, <1>11, Assemble

LEMMA RollbackStep ==
  ASSUME LInv, NEW x \in Transactions, Rollback(x)
  PROVE  LInv'
  <1>1. Release(x) /\ UNCHANGED vars
    BY DEF Rollback
  <1>2. Tables'
    BY <1>1, TablesStep DEF LInv
  <1> QED
    BY <1>1, <1>2, StillAged, StillCalm, ReleaseStep

-----------------------------------------------------------------------------
(* Locking *)

\* what may be locked: rows that are there
Present(w) ==
  /\ w.row \in Entries \cup Copies \cup Token /\ w.mode \in Modes
  /\ w.row \in Copies => ~Free(w.row)
  /\ w.row \in Entries => entries[w.row].status # "unborn"

Lockable(x, w) == CanLock(x, w) /\ Present(w)

LEMMA PresentRows ==
  ASSUME NEW r, NEW m \in Modes,
         \/ r \in Copies /\ Live(r)
         \/ r \in Entries /\ entries[r].status # "unborn"
         \/ r \in Token
  PROVE  \A w : w = [row |-> r, mode |-> m] => Present(w)
  <1> SUFFICES ASSUME NEW w, w.row = r, w.mode = m PROVE Present(w)
    OBVIOUS
  <1>1. CASE r \in Copies /\ Live(r)
    BY <1>1, IdsAssumption DEF Present, Live, Free
  <1>2. CASE r \in Entries /\ entries[r].status # "unborn"
    BY <1>2, IdsAssumption DEF Present
  <1>3. CASE r \in Token
    BY <1>3, IdsAssumption DEF Present
  <1> QED
    BY <1>1, <1>2, <1>3

\* A granted lock conflicts with no other, and is its transaction's alone.
LEMMA AcquireLocks ==
  ASSUME LocksType, Exclusive, Real, UNCHANGED vars, NEW x \in Transactions,
         NEW W, \A w \in W : Lockable(x, w), locks' = locks \cup {Grants(x, w) : w \in W}
  PROVE  /\ locks' \subseteq HeldLock /\ Exclusive' /\ Real'
         /\ \A y \in Transactions \ {x} : HeldBy(y)' = HeldBy(y)
         /\ \A l \in HeldBy(x)' : l \in HeldBy(x) \/ \E w \in W : l.row = w.row
         /\ \A r, m : Has(x, r, m) => Has(x, r, m)'
         /\ \A r, m : [row |-> r, mode |-> m] \in W => Has(x, r, m)'
  <1>1. \A w \in W : /\ Grants(x, w) \in HeldLock /\ Grants(x, w).tx = x
                     /\ Grants(x, w).row = w.row /\ Grants(x, w).mode = w.mode
    BY DEF Grants, HeldLock, Lockable, Present
  <1>2. locks' \subseteq HeldLock
    BY <1>1 DEF LocksType
  <1>3. ASSUME NEW w \in W, NEW l \in locks, l.row = w.row, l.tx # x
        PROVE  ~Conflict(l.mode, w.mode)
    <2>1. CanLock(x, w)
      BY DEF Lockable
    <2> QED
      BY <1>3, <2>1 DEF CanLock, Holders
  <1>4. \A m, n : Conflict(m, n) <=> Conflict(n, m)
    BY DEF Conflict
  <1>5. Exclusive'
    <2> SUFFICES ASSUME NEW k \in locks', NEW l \in locks', k.row = l.row, k.tx # l.tx
                 PROVE  ~Conflict(k.mode, l.mode)
      BY DEF Exclusive
    <2>1. CASE k \in locks /\ l \in locks
      BY <2>1 DEF Exclusive
    <2>2. CASE k \notin locks
      BY <1>1, <1>3, <1>4, <2>2
    <2>3. CASE l \notin locks
      BY <1>1, <1>3, <1>4, <2>3
    <2> QED
      BY <2>1, <2>2, <2>3
  <1>6. Real'
    <2>1. \A l \in locks' : /\ l.row \in Copies => ~Free(l.row)
                            /\ l.row \in Entries => entries[l.row].status # "unborn"
      BY <1>1 DEF Real, Lockable, Present
    <2>2. UNCHANGED <<entries, copies>>
      BY DEF vars
    <2> QED
      BY <2>1, <2>2 DEF Real, Free
  <1>7. \A y \in Transactions \ {x} : HeldBy(y)' = HeldBy(y)
    BY <1>1 DEF HeldBy
  <1>8. \A l \in HeldBy(x)' : l \in HeldBy(x) \/ \E w \in W : l.row = w.row
    BY <1>1 DEF HeldBy
  <1>9. \A r, m : Has(x, r, m) => Has(x, r, m)'
    BY DEF Has
  <1>10. ASSUME NEW r, NEW m, [row |-> r, mode |-> m] \in W
         PROVE  Has(x, r, m)'
    <2>1. Grants(x, [row |-> r, mode |-> m]) \in locks'
      BY <1>10
    <2> QED
      BY <2>1 DEF Has, Grants
  <1> QED
    BY <1>2, <1>5, <1>6, <1>7, <1>8, <1>9, <1>10

\* The locks a statement wants.
LEMMA WantedRows ==
  ASSUME NEW x, NEW e, e = tx[x].e
  PROVE  /\ tx[x].at \in {"rows", "delete"} =>
              \A w : w \in Wants(x) <=>
                \E r \in IF tx[x].todo = {} THEN {e} ELSE tx[x].todo :
                  w = [row |-> r, mode |-> "all"]
         /\ tx[x].at \in {"entry", "erase"} => Wants(x) = {[row |-> e, mode |-> "all"]}
         /\ tx[x].at = "resume" => Wants(x) = {}
         /\ tx[x].at = "fk" => Wants(x) = {[row |-> e, mode |-> "key"]}
         /\ tx[x].at = "status" => Wants(x) = {[row |-> e, mode |-> "write"]}
         /\ tx[x].at = "upsert" =>
              Wants(x) = {[row |-> r, mode |-> "write"] : r \in Rows(UndoDraft(e))}
         /\ tx[x].at = "cascade" =>
              Wants(x) = {[row |-> r, mode |-> "all"] : r \in Cascaded(x)}
         /\ tx[x].at \in {"insert", "sweep", "commit", "idle"} => Wants(x) = {}
  <1>1. tx[x].at \in {"rows", "delete"} =>
          \A w : w \in Wants(x) <=>
            \E r \in IF tx[x].todo = {} THEN {e} ELSE tx[x].todo :
              w = [row |-> r, mode |-> "all"]
    BY DEF Wants, Want
  <1>2. /\ tx[x].at = "entry" => Wants(x) = {[row |-> e, mode |-> "all"]}
        /\ tx[x].at = "erase" => Wants(x) = {[row |-> e, mode |-> "all"]}
        /\ tx[x].at = "resume" => Wants(x) = {}
    BY DEF Wants, Want, EntryLock, ResumeLock
  <1>3. /\ tx[x].at = "fk" => Wants(x) = {[row |-> e, mode |-> "key"]}
        /\ tx[x].at = "status" => Wants(x) = {[row |-> e, mode |-> "write"]}
    BY DEF Wants, Want
  <1>4. tx[x].at = "upsert" =>
          Wants(x) = {[row |-> r, mode |-> "write"] : r \in Rows(UndoDraft(e))}
    BY DEF Wants, Want
  <1>5. tx[x].at = "cascade" => Wants(x) = {[row |-> r, mode |-> "all"] : r \in Cascaded(x)}
    BY DEF Wants, Want
  <1>6. tx[x].at \in {"insert", "sweep", "commit", "idle"} => Wants(x) = {}
    BY DEF Wants
  <1> QED
    BY <1>1, <1>2, <1>3, <1>4, <1>5, <1>6

-----------------------------------------------------------------------------
(* A step inside a transaction *)

\* the step is one of x, which changes its own row and writes
Alone(x) == \A y \in Transactions \ {x} : tx'[y] = tx[y] /\ out'[y] = out[y]

OutType ==
  /\ DOMAIN out = Transactions /\ out = [x \in Transactions |-> out[x]]
  /\ \A x \in Transactions : DOMAIN out[x] = Parts /\ DOMAIN out[x].copies \subseteq Copies

LEMMA LocksTyped ==
  /\ LocksType <=> tx \in [Transactions -> TxRow] /\ locks \subseteq HeldLock /\ OutType
  /\ LocksType' <=> tx' \in [Transactions -> TxRow] /\ locks' \subseteq HeldLock /\ OutType'
  BY DEF LocksType, OutType

\* x moves to another statement, and to other rows
Moves(x, at, todo) ==
  /\ tx'[x].at = at /\ tx'[x].todo = todo
  /\ tx'[x].op = tx[x].op /\ tx'[x].e = tx[x].e /\ tx'[x].c = tx[x].c /\ tx'[x].t = tx[x].t
  /\ tx'[x].p = tx[x].p /\ tx'[x].base = tx[x].base /\ tx'[x].row = tx[x].row

LEMMA Moved ==
  ASSUME LocksType, NEW x \in Transactions, NEW at \in Ats, NEW todo \in SUBSET Copies,
         \/ tx' = [tx EXCEPT ![x].todo = todo, ![x].at = at]
         \/ tx' = [tx EXCEPT ![x].at = at] /\ todo = tx[x].todo
         \/ tx' = [tx EXCEPT ![x].todo = todo] /\ at = tx[x].at
  PROVE  /\ tx' \in [Transactions -> TxRow] /\ Moves(x, at, todo)
         /\ \A y \in Transactions \ {x} : tx'[y] = tx[y]
  <1>1. tx[x] \in TxRow /\ tx \in [Transactions -> TxRow]
    BY DEF LocksType
  <1>2. tx'[x] \in TxRow /\ Moves(x, at, todo)
    BY <1>1 DEF TxRow, Moves
  <1>3. \A y \in Transactions \ {x} : tx'[y] = tx[y]
    BY <1>1
  <1> QED
    BY <1>1, <1>2, <1>3

LEMMA WritesSame ==
  ASSUME LocksType, UNCHANGED out
  PROVE  OutType' /\ \A x \in Transactions : out'[x] = out[x]
  BY DEF LocksType, OutType

LEMMA WritesCopies ==
  ASSUME LocksType, NEW x \in Transactions, NEW cs, DOMAIN cs \subseteq Copies,
         out' = [out EXCEPT ![x].copies = cs]
  PROVE  /\ OutType' /\ \A y \in Transactions \ {x} : out'[y] = out[y]
         /\ out'[x].copies = cs /\ out'[x].entries = out[x].entries
         /\ out'[x].versions = out[x].versions /\ out'[x].added = out[x].added
         /\ out'[x].removed = out[x].removed
  BY DEF LocksType, OutType, Parts

LEMMA WritesBoth ==
  ASSUME LocksType, NEW x \in Transactions, NEW es, NEW cs, DOMAIN cs \subseteq Copies,
         out' = [out EXCEPT ![x].entries = es, ![x].copies = cs]
  PROVE  /\ OutType' /\ \A y \in Transactions \ {x} : out'[y] = out[y]
         /\ out'[x].entries = es /\ out'[x].copies = cs
         /\ out'[x].versions = out[x].versions /\ out'[x].added = out[x].added
         /\ out'[x].removed = out[x].removed
  BY DEF LocksType, OutType, Parts

LEMMA WritesAll ==
  ASSUME LocksType, NEW x \in Transactions, NEW w, DOMAIN w = Parts,
         DOMAIN w.copies \subseteq Copies, out' = [out EXCEPT ![x] = w]
  PROVE  /\ OutType' /\ \A y \in Transactions \ {x} : out'[y] = out[y]
         /\ out'[x] = w
  BY DEF LocksType, OutType

\* A step that changes no table, and locks what it may, keeps the invariant if
\* the transaction knows what it should after it.
LEMMA OwnStep ==
  ASSUME LInv, NEW x \in Transactions, UNCHANGED vars, Alone(x),
         tx' \in [Transactions -> TxRow], OutType',
         NEW W, \A w \in W : Lockable(x, w), locks' = locks \cup {Grants(x, w) : w \in W},
         Mine(x)', Tame(x) \/ ActorApart(x)
  PROVE  LInv'
  <1>1. LocksType /\ Exclusive /\ Real
    BY DEF LInv
  <1>2. /\ locks' \subseteq HeldLock /\ Exclusive' /\ Real'
        /\ \A y \in Transactions \ {x} : HeldBy(y)' = HeldBy(y)
    BY <1>1, AcquireLocks
  <1>3. \A y \in Transactions \ {x} : Frame(y)
    BY <1>2 DEF Alone, Frame
  <1>4. LocksType'
    BY <1>2, LocksTyped
  <1>5. ActorApart(x)
    BY <1>3, StillAged, TameApart
  <1> QED
    BY <1>2, <1>3, <1>4, <1>5, LocalStep

\* ... also when it locks nothing.
LEMMA FreeStep ==
  ASSUME LInv, NEW x \in Transactions, UNCHANGED <<vars, locks>>, Alone(x),
         tx' \in [Transactions -> TxRow], OutType', Mine(x)', Tame(x) \/ ActorApart(x)
  PROVE  LInv'
  <1> PICK W : W = {}
    OBVIOUS
  <1>1. locks' = locks \cup {Grants(x, w) : w \in W}
    OBVIOUS
  <1>2. \A w \in W : Lockable(x, w)
    OBVIOUS
  <1> QED
    BY <1>1, <1>2, OwnStep

\* What is locked stays locked.
LEMMA GrantedLocks ==
  ASSUME LInv, NEW x \in Transactions, UNCHANGED vars,
         NEW W, \A w \in W : Lockable(x, w), locks' = locks \cup {Grants(x, w) : w \in W}
  PROVE  /\ \A r, m : Has(x, r, m) => Has(x, r, m)'
         /\ \A r, m : [row |-> r, mode |-> m] \in W => Has(x, r, m)'
         /\ \A l \in HeldBy(x)' : l \in HeldBy(x) \/ \E w \in W : l.row = w.row
  BY AcquireLocks DEF LInv

LEMMA SameLocks ==
  ASSUME UNCHANGED locks, NEW x
  PROVE  /\ \A r, m : Has(x, r, m)' <=> Has(x, r, m)
         /\ HeldBy(x)' = HeldBy(x) /\ OnlyCopies(x)' <=> OnlyCopies(x)
  BY DEF Has, HeldBy, OnlyCopies

\* A handler that stays with its rows takes no new id.
LEMMA MovesTame ==
  ASSUME NEW x \in Transactions, NEW at, NEW todo, Moves(x, at, todo),
         Returns(x)' => Returns(x)
  PROVE  Tame(x)
  BY DEF Tame, Moves, Fresh

\* An insertion that was there.
LEMMA SameReturns ==
  ASSUME NEW x \in Transactions, UNCHANGED vars, tx'[x].e = tx[x].e,
         \/ out'[x].copies = <<>>
         \/ out'[x].copies = out[x].copies
  PROVE  Returns(x)' => Returns(x)
  <1> PICK d : d = UndoDraft(tx[x].e)
    OBVIOUS
  <1>1. \A k : Free(k)' <=> Free(k)
    BY DEF vars, Free
  <1>2. x \in Inserting(d)' => x \in Inserting(d)
    BY <1>1, Rowless DEF Inserting
  <1> QED
    BY <1>2 DEF Returns

-----------------------------------------------------------------------------
(* The arrival of a request *)

\* It brings ids nobody else has taken.
LEMMA BeginApart ==
  ASSUME LInv, NEW x \in Transactions, UNCHANGED vars,
         NEW q, tx'[x] = q, out'[x].copies = <<>>,
         \A y \in Transactions \ {x} : Frame(y),
         q.c \in Copies /\ Free(q.c) => q.c \in NewCopies,
         \/ q.e \in NewEntries
         \/ /\ q.e \in Entries /\ entries[q.e].status # "unborn"
            /\ ~(q.op = "commit" /\ q.row.entry = None)
  PROVE  ActorApart(x)
  <1> SUFFICES ASSUME NEW y \in Transactions, y # x
               PROVE  Apart(x, y)' /\ Apart(y, x)'
    BY DEF ActorApart
  <1>1. Frame(y) /\ tx'[y] = tx[y] /\ Mine(y)
    BY DEF Frame, LInv
  <1> PICK c, e, d, f : c = q.c /\ e = q.e /\ d = tx[y].c /\ f = tx[y].e
    OBVIOUS
  <1>2. \A k \in Copies : Free(k)' <=> Free(k)
    BY DEF vars, Free
  <1>3. ~Returns(x)'
    BY Rowless DEF Returns, Inserting
  <1>4. Fresh(y)' => f \in Entries /\ entries[f].status = "unborn"
    BY <1>1, FrameFresh DEF Mine, Fresh, Committing
  <1>5. c \in NewCopies => c # d
    BY DEF NewCopies
  <1>6. e \in NewEntries => e # f
    BY DEF NewEntries
  <1>7. Apart(x, y)'
    BY <1>1, <1>2, <1>3, <1>5, <1>6 DEF Apart, Fresh
  <1>8. Apart(y, x)'
    BY <1>1, <1>2, <1>3, <1>4, <1>5, <1>6 DEF Apart
  <1> QED
    BY <1>7, <1>8

\* A request that arrives keeps the invariant if its transaction starts as it
\* should.
LEMMA BeginStep ==
  ASSUME LInv, NEW x \in Transactions, NEW W, NEW q \in TxRow, Begin(x, W, q),
         \A w \in W : Present(w),
         OutType', \A y \in Transactions \ {x} : out'[y] = out[y], out'[x].copies = <<>>,
         q.c \in Copies /\ Free(q.c) => q.c \in NewCopies,
         \/ q.e \in NewEntries
         \/ /\ q.e \in Entries /\ entries[q.e].status # "unborn"
            /\ ~(q.op = "commit" /\ q.row.entry = None),
         Mine(x)'
  PROVE  LInv'
  <1>1. LocksType /\ Exclusive /\ Real
    BY DEF LInv
  <1>2. /\ UNCHANGED vars /\ locks' = locks \cup {Grants(x, w) : w \in W}
        /\ \A w \in W : Lockable(x, w)
    BY DEF Begin, Lockable
  <1>3. /\ tx' \in [Transactions -> TxRow] /\ tx'[x] = q
        /\ \A y \in Transactions \ {x} : tx'[y] = tx[y]
    BY <1>1 DEF Begin, LocksType
  <1>4. \A y \in Transactions \ {x} : HeldBy(y)' = HeldBy(y)
    BY <1>1, <1>2, AcquireLocks
  <1>5. ActorApart(x)
    BY <1>2, <1>3, <1>4, BeginApart DEF Frame
  <1> QED
    BY <1>2, <1>3, <1>5, OwnStep DEF Alone

\* what the transaction of a request is at first
LEMMA BeginOwn ==
  ASSUME LInv, NEW x \in Transactions, NEW W, NEW q, Begin(x, W, q)
  PROVE  /\ UNCHANGED vars /\ tx'[x] = q /\ Resting(x) /\ Nothing(x)
         /\ \A r, m : [row |-> r, mode |-> m] \in W => Has(x, r, m)'
         /\ \A l \in HeldBy(x)' : \E w \in W : l.row = w.row
  <1>1. Resting(x)
    BY NotBusy DEF Begin
  <1>2. tx'[x] = q /\ UNCHANGED vars
    BY DEF Begin, LInv, LocksType
  <1>3. Nothing(x)
    BY <1>1 DEF Resting, Nothing, Wrote, NoWrites
  <1>5. ASSUME NEW r, NEW m, [row |-> r, mode |-> m] \in W
        PROVE  Has(x, r, m)'
    <2>1. Grants(x, [row |-> r, mode |-> m]) \in locks'
      BY <1>5 DEF Begin
    <2> QED
      BY <2>1 DEF Has, Grants
  <1>6. \A l \in HeldBy(x)' : \E w \in W : l.row = w.row
    BY <1>1 DEF Begin, Grants, Resting, HeldBy
  <1> QED
    BY <1>1, <1>2, <1>3, <1>5, <1>6

LEMMA IdleType == Idle \in TxRow
  BY RowTypes, ConstantsAssumption DEF Idle, TxRow, Ops, Ats

LEMMA BeginEditStep ==
  ASSUME LInv, NEW x \in Transactions, NEW e \in Entries, NEW op \in {"open", "discard"},
         BeginEdit(x, op, e)
  PROVE  LInv'
  <1>1. PICK c \in NewCopies :
          Begin(x, {}, [Idle EXCEPT !.op = op, !.at = "rows", !.e = e, !.c = c,
                                    !.todo = Discarded(e)])
    BY DEF BeginEdit
  <1> PICK q : q = [Idle EXCEPT !.op = op, !.at = "rows", !.e = e, !.c = c,
                                !.todo = Discarded(e)]
    OBVIOUS
  <1>2. /\ q.op = op /\ q.at = "rows" /\ q.e = e /\ q.c = c /\ q \in TxRow
    <2>1. Discarded(e) \subseteq Copies /\ c \in Copies
      BY DEF Discarded, CopiesOf, NewCopies
    <2> QED
      BY <2>1, IdleType DEF TxRow, Ops, Ats
  <1>3. Begin(x, {}, q) /\ Exists(e) /\ UNCHANGED out
    BY <1>1 DEF BeginEdit
  <1>4. /\ UNCHANGED vars /\ tx'[x] = q /\ Nothing(x) /\ HeldBy(x)' = {}
    BY <1>3, BeginOwn
  <1>5. OutType' /\ \A y \in Transactions : out'[y] = out[y]
    BY <1>3, WritesSame DEF LInv
  <1>6. Free(c)' /\ c \in Copies /\ entries'[e].status # "unborn"
    BY <1>3, <1>4 DEF vars, Free, NewCopies, Exists
  <1>7. Nothing(x)' /\ OnlyCopies(x)'
    BY <1>4, <1>5 DEF Nothing, Wrote, OnlyCopies
  <1>8. Starting(x)' /\ Opening(x)' /\ Discarding(x)'
    BY <1>2, <1>4, <1>6, <1>7 DEF Starting, Opening, Discarding
  <1>9. Mine(x)'
    BY <1>2, <1>4, <1>8 DEF Mine, Stages
  <1> QED
    BY <1>2, <1>3, <1>4, <1>5, <1>9, BeginStep DEF Exists, Nothing, Wrote

LEMMA BeginCommitStep ==
  ASSUME LInv, NEW x \in Transactions, NEW c \in Copies, NEW p \in Requests \cup {NoPayload},
         NEW base \in 0..MaxRevision, BeginCommit(x, c, p, base)
  PROVE  LInv'
  <1>1. PICK e \in IF copies[c].entry = None THEN NewEntries ELSE {copies[c].entry} :
          Begin(x, CopyLock(c),
            [Idle EXCEPT !.op = "commit", !.e = e, !.c = c, !.row = copies[c], !.p = p,
                         !.at = IF copies[c].entry = None THEN "insert" ELSE "entry",
                         !.base = Expected(c, base)])
    BY DEF BeginCommit
  <1> PICK at, expected, row : /\ at = IF copies[c].entry = None THEN "insert" ELSE "entry"
                               /\ expected = Expected(c, base) /\ row = copies[c]
    OBVIOUS
  <1> PICK q : q = [Idle EXCEPT !.op = "commit", !.e = e, !.c = c, !.row = row, !.p = p,
                                !.at = at, !.base = expected]
    OBVIOUS
  <1>2. TypeOK /\ LocksType /\ Live(c)
    BY DEF LInv, Tables, IInv, BeginCommit
  <1>3. row \in CopyRow /\ expected = IF base > 0 THEN base ELSE row.base
    BY <1>2 DEF TypeOK, Expected
  <1>4. e \in Entries
    BY <1>2, <1>3 DEF NewEntries, CopyRow, TypeOK
  <1>5. expected \in 0..MaxRevision /\ at \in Ats
    BY <1>3 DEF CopyRow, Ats
  <1>6. p \in Payload \cup {NoPayload}
    BY ConstantsAssumption
  <1>7. /\ q.op = "commit" /\ q.at = at /\ q.e = e /\ q.c = c /\ q.row = row /\ q.p = p
        /\ q.base = expected /\ q \in TxRow
    BY <1>3, <1>4, <1>5, <1>6, IdleType DEF TxRow, Ops
  <1> PICK W : W = CopyLock(c)
    OBVIOUS
  <1>8. W = {[row |-> c, mode |-> "all"]}
    BY DEF CopyLock, Want
  <1>9. /\ Begin(x, W, q) /\ UNCHANGED out /\ base \in {0, row.given}
        /\ (row.draft.type = "edit" => row.draft.entry = row.entry)
    BY <1>1 DEF BeginCommit
  <1>10. /\ UNCHANGED vars /\ tx'[x] = q /\ Nothing(x) /\ Has(x, c, "all")'
         /\ \A l \in HeldBy(x)' : l.row = c
    <2>1. /\ UNCHANGED vars /\ tx'[x] = q /\ Nothing(x)
          /\ \A r, m : [row |-> r, mode |-> m] \in W => Has(x, r, m)'
          /\ \A l \in HeldBy(x)' : \E w \in W : l.row = w.row
      BY <1>9, BeginOwn
    <2>2. \A w \in W : w.row = c
      BY <1>8
    <2> QED
      BY <1>8, <2>1, <2>2
  <1>11. OutType' /\ \A y \in Transactions : out'[y] = out[y]
    BY <1>2, <1>9, WritesSame
  <1>12. Nothing(x)' /\ OnlyCopies(x)'
    BY <1>10, <1>11 DEF Nothing, Wrote, OnlyCopies
  <1>13. row.entry = None => e \in NewEntries /\ entries[e].status = "unborn"
    BY DEF NewEntries
  <1>14. row.entry # None => e = row.entry /\ entries[e].status # "unborn"
    BY <1>2 DEF TypeOK, Exists
  <1>15. Live(c)' /\ row = copies'[c] /\ entries'[e] = entries[e]
    BY <1>2, <1>10 DEF vars, Live
  <1>16. Committing(x)'
    <2>1. tx'[x] = q /\ at \in {"insert", "entry"} /\ at # "commit"
      BY <1>10
    <2>2. \E b \in {0, row.given} : expected = IF b > 0 THEN b ELSE row.base
      BY <1>3, <1>9
    <2>3. row.entry = None => entries'[e].status = "unborn" /\ at # "entry"
      BY <1>13, <1>15
    <2>4. row.entry # None => row.entry = e /\ at # "insert"
      BY <1>14
    <2> QED
      BY <1>4, <1>7, <1>9, <1>10, <1>12, <1>15, <2>1, <2>2, <2>3, <2>4 DEF Committing
  <1>17. Mine(x)'
    BY <1>7, <1>10, <1>16 DEF Mine, Stages
  <1>18. Live(c) => ~Free(c)
    BY DEF Live, Free
  <1>19. \/ q.e \in NewEntries
         \/ /\ q.e \in Entries /\ entries[q.e].status # "unborn"
            /\ ~(q.op = "commit" /\ q.row.entry = None)
    BY <1>4, <1>7, <1>13, <1>14
  <1>20. /\ q.c \in Copies /\ Free(q.c) => q.c \in NewCopies
         /\ \A w \in W : Present(w)
    BY <1>2, <1>7, <1>8, <1>18, PresentRows DEF Modes
  <1>21. out'[x].copies = <<>>
    BY <1>12 DEF Nothing, Wrote
  <1> QED
    BY <1>7, <1>9, <1>11, <1>17, <1>19, <1>20, <1>21, BeginStep

LEMMA BeginUndoStep ==
  ASSUME LInv, NEW x \in Transactions, NEW t \in tokens, BeginUndo(x, t)
  PROVE  LInv'
  <1>1. PICK c \in IF Rows(UndoDraft(t.entry)) = {} THEN NewCopies ELSE {None} :
          Begin(x, Want({t}, "all"),
            [Idle EXCEPT !.op = "undo", !.e = t.entry, !.c = c, !.t = t,
                         !.at = IF t.fresh THEN "erase" ELSE "upsert"])
    BY DEF BeginUndo
  <1> PICK at, e : e = t.entry /\ at = IF t.fresh THEN "erase" ELSE "upsert"
    OBVIOUS
  <1> PICK q : q = [Idle EXCEPT !.op = "undo", !.e = e, !.c = c, !.t = t, !.at = at]
    OBVIOUS
  <1>2. TypeOK /\ LocksType
    BY DEF LInv, Tables, IInv
  <1>3. t \in Token /\ e \in Entries /\ entries[e].status # "unborn"
    BY <1>2 DEF TypeOK, Token, Exists
  <1>4. c = None \/ (c \in NewCopies /\ c \in Copies /\ Free(c))
    BY DEF NewCopies
  <1>5. /\ q.op = "undo" /\ q.at = at /\ q.e = e /\ q.c = c /\ q.t = t /\ q \in TxRow
    <2>1. at \in Ats /\ q.at = at
      BY IdleType DEF TxRow, Ats
    <2>2. q.op = "undo" /\ q.e = e /\ q.c = c /\ q.t = t
      BY IdleType DEF TxRow
    <2>3. q \in TxRow
      BY <1>3, <1>4, <2>1, IdleType DEF TxRow, Ops
    <2> QED
      BY <2>1, <2>2, <2>3
  <1> PICK W : W = Want({t}, "all")
    OBVIOUS
  <1>6. W = {[row |-> t, mode |-> "all"]}
    BY DEF Want
  <1>7. Begin(x, W, q) /\ out' = [out EXCEPT ![x].removed = {t}]
    BY <1>1 DEF BeginUndo
  <1>8. /\ UNCHANGED vars /\ tx'[x] = q /\ Nothing(x) /\ Has(x, t, "all")'
    BY <1>6, <1>7, BeginOwn
  <1>9. OutType' /\ (\A y \in Transactions \ {x} : out'[y] = out[y])
        /\ Wrote(x, <<>>, <<>>, <<>>, {}, {t})'
    <2>1. OutType' /\ \A y \in Transactions \ {x} : out'[y] = out[y]
      BY <1>2, <1>7 DEF LocksType, OutType, Parts
    <2>2. /\ out'[x].removed = {t} /\ out'[x].entries = out[x].entries
          /\ out'[x].copies = out[x].copies /\ out'[x].versions = out[x].versions
          /\ out'[x].added = out[x].added
      BY <1>2, <1>7 DEF LocksType, Parts
    <2> QED
      BY <1>8, <2>1, <2>2 DEF Nothing, Wrote
  <1>10. UNCHANGED <<entries, copies, tokens>> /\ (c # None => Free(c)')
    BY <1>4, <1>8 DEF vars, Free
  <1>11. Undoing(x)'
    BY <1>3, <1>5, <1>8, <1>9, <1>10 DEF Undoing, Wrote
  <1>12. ~t.fresh => Reviving(x)'
    BY <1>5, <1>8, <1>9, <1>10 DEF Reviving, Wrote
  <1>13. Mine(x)'
    BY <1>5, <1>8, <1>11, <1>12 DEF Mine, Stages
  <1>14. /\ q.c \in Copies /\ Free(q.c) => q.c \in NewCopies
         /\ \A w \in W : Present(w)
    BY <1>3, <1>4, <1>5, <1>6, PresentRows, ConstantsAssumption DEF Modes
  <1>15. /\ q.e \in Entries /\ entries[q.e].status # "unborn"
         /\ ~(q.op = "commit" /\ q.row.entry = None)
    BY <1>3, <1>5
  <1>16. out'[x].copies = <<>>
    BY <1>9 DEF Wrote
  <1> QED
    BY <1>5, <1>7, <1>9, <1>13, <1>14, <1>15, <1>16, BeginStep

LEMMA BeginPurgeStep ==
  ASSUME LInv, NEW x \in Transactions, NEW e \in Entries, BeginPurge(x, e)
  PROVE  LInv'
  <1> PICK q : q = [Idle EXCEPT !.op = "purge", !.at = "refs", !.e = e]
    OBVIOUS
  <1> PICK W : W = Want({e}, "all")
    OBVIOUS
  <1>1. /\ q.op = "purge" /\ q.at = "refs" /\ q.e = e /\ q.c = None /\ q \in TxRow
    <2>1. Idle.c = None
      BY DEF Idle
    <2> QED
      BY <2>1, IdleType DEF TxRow, Ops, Ats
  <1>2. W = {[row |-> e, mode |-> "all"]}
    BY DEF Want
  <1>3. /\ Begin(x, W, q) /\ UNCHANGED out
        /\ entries[e].status = "trashed" /\ entries[e].deleted = "expired"
    BY DEF BeginPurge
  <1>4. /\ UNCHANGED vars /\ tx'[x] = q /\ Nothing(x) /\ Has(x, e, "all")'
    BY <1>2, <1>3, BeginOwn
  <1>5. OutType' /\ \A y \in Transactions : out'[y] = out[y]
    BY <1>3, WritesSame DEF LInv
  <1>6. Erasing(x)'
    BY <1>1, <1>3, <1>4, <1>5 DEF Erasing, Nothing, Wrote, vars
  <1>7. Mine(x)'
    BY <1>1, <1>4, <1>6 DEF Mine, Stages
  <1>8. /\ ~(q.c \in Copies)
        /\ \A w \in W : Present(w)
    BY <1>1, <1>2, <1>3, PresentRows, ConstantsAssumption DEF Modes
  <1>9. out'[x].copies = <<>>
    BY <1>4, <1>5 DEF Nothing, Wrote
  <1> QED
    BY <1>1, <1>3, <1>5, <1>7, <1>8, <1>9, BeginStep

-----------------------------------------------------------------------------
(* Opening and discarding an edit *)

\* what an opening knows of its entry after a step of its own
LEMMA StillStarting ==
  ASSUME UNCHANGED vars, NEW x \in Transactions, Starting(x), NEW at, NEW todo,
         Moves(x, at, todo), at # "rows", NEW e, e = tx[x].e,
         tx[x].at # "rows" \/ (Exists(e) /\ Has(x, e, "all")'),
         \A r, m : Has(x, r, m) => Has(x, r, m)'
  PROVE  Starting(x)'
  <1> PICK c : c = tx[x].c
    OBVIOUS
  <1>1. tx'[x].e = e /\ tx'[x].c = c /\ tx'[x].at = at
    BY DEF Moves
  <1>2. UNCHANGED <<entries, copies>>
    BY DEF vars
  <1>3. e \in Entries /\ c \in Copies /\ Free(c)' /\ entries'[e].status # "unborn"
    BY <1>2 DEF Starting, Free
  <1>4. Has(x, e, "all")' /\ Exists(e)'
    BY <1>2 DEF Starting, Exists
  <1> QED
    BY <1>1, <1>3, <1>4 DEF Starting

LEMMA LockRowStep ==
  ASSUME LInv, NEW x \in Transactions, LockRow(x)
  PROVE  LInv'
  <1>1. PICK w \in Wants(x) :
          /\ w.row \in tx[x].todo /\ CanLock(x, w)
          /\ tx' = [tx EXCEPT ![x].todo = @ \ {w.row}]
          /\ locks' = IF Live(w.row) THEN locks \cup {Grants(x, w)} ELSE locks
    BY DEF LockRow
  <1> PICK todo, r, W : /\ todo = tx[x].todo \ {w.row} /\ r = w.row
                        /\ W = IF Live(w.row) THEN {w} ELSE {}
    OBVIOUS
  <1>2. LocksType /\ Mine(x) /\ tx[x] \in TxRow /\ tx[x].at = "rows"
    BY DEF LInv, LocksType, LockRow
  <1>3. tx[x].op \in {"open", "discard"}
    BY <1>2 DEF Mine, Stages, TxRow, Ops
  <1>4. todo \in SUBSET Copies /\ r \in Copies
    BY <1>1, <1>2 DEF TxRow
  <1>5. tx' = [tx EXCEPT ![x].todo = todo]
    BY <1>1
  <1>6. /\ tx' \in [Transactions -> TxRow] /\ Moves(x, "rows", todo)
        /\ \A y \in Transactions \ {x} : tx'[y] = tx[y]
    <2>1. tx[x].at \in Ats /\ "rows" = tx[x].at
      BY <1>2 DEF Ats
    <2> QED
      BY <1>2, <1>4, <1>5, <2>1, Moved
  <1>7. UNCHANGED vars /\ OutType' /\ \A y \in Transactions : out'[y] = out[y]
    BY <1>2, WritesSame DEF LockRow, vars
  <1>8. w = [row |-> r, mode |-> "all"]
    <2>1. PICK k : w = [row |-> k, mode |-> "all"]
      BY <1>2, WantedRows
    <2> QED
      BY <2>1
  <1>9. /\ locks' = locks \cup {Grants(x, v) : v \in W}
        /\ \A v \in W : Lockable(x, v)
    <2>1. CASE Live(r)
      <3>1. W = {w}
        BY <2>1
      <3>2. Present(w)
        BY <1>4, <1>8, <2>1, PresentRows DEF Modes
      <3> QED
        BY <1>1, <2>1, <3>1, <3>2 DEF Lockable
    <2>2. CASE ~Live(r)
      BY <1>1, <2>2
    <2> QED
      BY <2>1, <2>2
  <1>10. /\ \A l \in HeldBy(x)' : l \in HeldBy(x) \/ \E v \in W : l.row = v.row
    BY <1>7, <1>9, GrantedLocks
  <1>11. \A v \in W : v.row \in Copies
    BY <1>4
  <1>12. Nothing(x) /\ OnlyCopies(x) /\ Starting(x)
    BY <1>2, <1>3 DEF Mine, Starting
  <1>13. Nothing(x)' /\ OnlyCopies(x)'
    BY <1>7, <1>10, <1>11, <1>12 DEF Nothing, Wrote, OnlyCopies
  <1>14. Starting(x)'
    BY <1>6, <1>7, <1>12, <1>13 DEF Starting, Moves, vars, Free
  <1>15. Opening(x)' /\ Discarding(x)'
    BY <1>6 DEF Opening, Discarding, Moves
  <1>16. Mine(x)'
    BY <1>3, <1>6, <1>14, <1>15 DEF Mine, Stages, Moves
  <1>17. Tame(x)
    BY <1>6, <1>7, MovesTame, SameReturns DEF Moves
  <1> QED
    BY <1>6, <1>7, <1>9, <1>16, <1>17, OwnStep DEF Alone

\* its first row written, an opening goes on
LEMMA ReadEntryStep ==
  ASSUME LInv, NEW x \in Transactions, ReadEntry(x)
  PROVE  LInv'
  <1> PICK e, c, W : e = tx[x].e /\ c = tx[x].c /\ W = Wants(x)
    OBVIOUS
  <1> PICK at : at = IF tx[x].op = "open" THEN "resume" ELSE "sweep"
    OBVIOUS
  <1> PICK row, cs : row = EditCopy(e, c) /\ cs = Row(c, row)
    OBVIOUS
  <1>1. LocksType /\ Mine(x) /\ tx[x] \in TxRow /\ tx[x].at = "rows" /\ tx[x].todo = {}
    BY DEF LInv, LocksType, ReadEntry
  <1>2. tx[x].op \in {"open", "discard"}
    BY <1>1 DEF Mine, Stages, TxRow, Ops
  <1>3. CASE ~Exists(e)
    BY <1>3, RollbackStep DEF ReadEntry
  <1>4. CASE Exists(e)
    <2>1. /\ UNCHANGED vars /\ Granted(x) /\ tx' = [tx EXCEPT ![x].at = at]
          /\ out' = [out EXCEPT ![x].copies = cs]
          /\ locks' = locks \cup {Grants(x, w) : w \in W}
      BY <1>4 DEF ReadEntry, Goto, Acquire
    <2>2. /\ Starting(x) /\ Nothing(x) /\ e \in Entries /\ c \in Copies
      BY <1>1, <1>2 DEF Mine, Starting
    <2>3. W = {[row |-> e, mode |-> "all"]}
      <3>1. \A w : w \in W <=> \E r \in {e} : w = [row |-> r, mode |-> "all"]
        BY <1>1, WantedRows
      <3> QED
        BY <3>1
    <2>4. \A w \in W : Lockable(x, w)
      <3>1. \A w \in W : Present(w)
        BY <1>4, <2>2, <2>3, PresentRows DEF Modes, Exists
      <3> QED
        BY <2>1, <3>1 DEF Granted, Lockable
    <2>5. /\ \A r, m : Has(x, r, m) => Has(x, r, m)'
          /\ Has(x, e, "all")'
      <3>1. /\ \A r, m : Has(x, r, m) => Has(x, r, m)'
            /\ \A r, m : [row |-> r, mode |-> m] \in W => Has(x, r, m)'
        BY <2>1, <2>4, GrantedLocks
      <3> QED
        BY <2>3, <3>1
    <2>6. /\ tx' \in [Transactions -> TxRow] /\ Moves(x, at, {})
          /\ \A y \in Transactions \ {x} : tx'[y] = tx[y]
      BY <1>1, <2>1, Moved DEF Ats
    <2>7. DOMAIN cs = {c} /\ cs[c] = row /\ DOMAIN cs \subseteq Copies
      BY <2>2 DEF Row
    <2>8. /\ OutType' /\ \A y \in Transactions \ {x} : out'[y] = out[y]
          /\ Wrote(x, <<>>, cs, <<>>, {}, {})'
      <3>1. /\ OutType' /\ \A y \in Transactions \ {x} : out'[y] = out[y]
            /\ out'[x].copies = cs /\ out'[x].entries = out[x].entries
            /\ out'[x].versions = out[x].versions /\ out'[x].added = out[x].added
            /\ out'[x].removed = out[x].removed
        BY <1>1, <2>1, <2>2, <2>7, WritesCopies
      <3> QED
        BY <2>2, <3>1 DEF Nothing, Wrote
    <2>9. Starting(x)'
      BY <1>4, <2>1, <2>2, <2>5, <2>6, StillStarting
    <2>10. row = EditCopy(e, c)'
      BY <2>1, SameEditCopy DEF vars
    <2>11. /\ tx'[x].at = at /\ tx'[x].e = e /\ tx'[x].c = c /\ tx'[x].op = tx[x].op
           /\ tx'[x].todo = {}
      BY <2>6 DEF Moves
    <2>12. tx[x].op = "open" => Opening(x)'
      <3>1. Row(c, EditCopy(e, c))' = cs
        BY <2>10 DEF Row
      <3> QED
        BY <2>8, <2>11, <3>1 DEF Opening, Wrote
    <2>13. tx[x].op = "discard" => Discarding(x)'
      <3>1. Taken(x)' = {}
        BY <2>7, <2>8, <2>11 DEF Taken, Wrote
      <3>2. Wrote(x, <<>>, out[x].copies, <<>>, {}, {})'
        BY <2>8 DEF Wrote
      <3>3. c \in DOMAIN out'[x].copies /\ out'[x].copies[c] = row
        BY <2>7, <2>8 DEF Wrote
      <3> QED
        BY <2>10, <2>11, <3>1, <3>2, <3>3 DEF Discarding
    <2>14. Mine(x)'
      BY <1>2, <2>9, <2>11, <2>12, <2>13 DEF Mine, Stages
    <2>15. ~Returns(x)'
      <3>1. row.draft # UndoDraft(e)
        BY EditCopyFields DEF UndoDraft
      <3>2. x \notin Inserting(UndoDraft(e))'
        BY <2>7, <2>8, <3>1 DEF Inserting, Wrote
      <3> QED
        BY <2>11, <3>2 DEF Returns
    <2>16. Tame(x)
      BY <2>6, <2>15, MovesTame
    <2> QED
      BY <2>1, <2>4, <2>6, <2>8, <2>14, <2>16, OwnStep DEF Alone
  <1> QED
    BY <1>3, <1>4

LEMMA Goes ==
  ASSUME LocksType, NEW x \in Transactions, NEW at \in Ats, Goto(x, at)
  PROVE  /\ tx' \in [Transactions -> TxRow] /\ \E todo \in SUBSET Copies : Moves(x, at, todo)
         /\ \A y \in Transactions \ {x} : tx'[y] = tx[y]
  <1> PICK todo : todo = tx[x].todo
    OBVIOUS
  <1>1. todo \in SUBSET Copies
    BY DEF LocksType, TxRow
  <1> QED
    BY <1>1, Moved DEF Goto

LEMMA ResumeStep ==
  ASSUME LInv, NEW x \in Transactions, Resume(x)
  PROVE  LInv'
  <1> PICK e, c : e = tx[x].e /\ c = tx[x].c
    OBVIOUS
  <1> PICK row, cs : row = EditCopy(e, c) /\ cs = Row(c, row)
    OBVIOUS
  <1>1. LocksType /\ Mine(x) /\ tx[x] \in TxRow /\ tx[x].at = "resume"
    BY DEF LInv, LocksType, Resume
  <1>2. tx[x].op = "open"
    BY <1>1 DEF Mine, Stages, TxRow, Ops
  <1>3. Starting(x) /\ Wrote(x, <<>>, cs, <<>>, {}, {}) /\ e \in Entries
    BY <1>1, <1>2 DEF Mine, Opening, Starting
  <1>4. UNCHANGED <<vars, locks>>
    <2>1. Wants(x) = {}
      BY <1>1, WantedRows
    <2> QED
      BY <2>1 DEF Resume, Acquire
  <1>5. /\ tx' \in [Transactions -> TxRow] /\ \E todo : Moves(x, "commit", todo)
        /\ \A y \in Transactions \ {x} : tx'[y] = tx[y]
    <2>1. "commit" \in Ats
      BY DEF Ats
    <2> QED
      BY <1>1, <2>1, Goes DEF Resume
  <1> PICK todo : Moves(x, "commit", todo)
    BY <1>5
  <1>6. tx'[x].at = "commit" /\ tx'[x].e = e /\ tx'[x].c = c /\ tx'[x].op = "open"
    BY <1>2 DEF Moves
  <1>7. Starting(x)'
    <2>1. \A r, m : Has(x, r, m) => Has(x, r, m)'
      BY <1>4, SameLocks
    <2> QED
      BY <1>1, <1>3, <1>4, <2>1, StillStarting
  <1>8. CASE CopiesOf(e) = {}
    <2>1. UNCHANGED out
      BY <1>8 DEF Resume
    <2>2. OutType' /\ \A y \in Transactions : out'[y] = out[y]
      BY <1>1, <2>1, WritesSame
    <2>3. row = EditCopy(e, c)' /\ CopiesOf(e)' = {}
      BY <1>4, <1>8, SameEditCopy DEF vars, CopiesOf, Live
    <2>4. Row(c, EditCopy(e, c))' = cs
      BY <2>3 DEF Row
    <2>5. Opening(x)'
      BY <1>3, <1>6, <2>2, <2>3, <2>4 DEF Opening, Wrote
    <2>6. Mine(x)'
      BY <1>6, <1>7, <2>5 DEF Mine, Stages
    <2>7. Tame(x)
      BY <1>4, <1>6, <2>2, MovesTame, SameReturns
    <2> QED
      BY <1>4, <1>5, <2>2, <2>6, <2>7, FreeStep DEF Alone
  <1>9. CASE CopiesOf(e) # {}
    <2>1. out' = [out EXCEPT ![x] = NoWrites]
      BY <1>9 DEF Resume
    <2>2. DOMAIN NoWrites = Parts /\ DOMAIN NoWrites.copies \subseteq Copies
      BY Rowless DEF NoWrites, Parts
    <2>3. /\ OutType' /\ \A y \in Transactions \ {x} : out'[y] = out[y]
          /\ out'[x] = NoWrites
      BY <1>1, <2>1, <2>2, WritesAll
    <2>4. Nothing(x)' /\ out'[x].copies = <<>>
      BY <2>3 DEF Nothing, Wrote, NoWrites
    <2>5. Opening(x)'
      BY <1>6, <2>4 DEF Opening
    <2>6. Mine(x)'
      BY <1>6, <1>7, <2>5 DEF Mine, Stages
    <2>7. Tame(x)
      BY <1>4, <1>6, <2>4, MovesTame, SameReturns
    <2> QED
      BY <1>4, <1>5, <2>3, <2>6, <2>7, FreeStep DEF Alone
  <1> QED
    BY <1>8, <1>9

LEMMA SweepStep ==
  ASSUME LInv, NEW x \in Transactions, Sweep(x)
  PROVE  LInv'
  <1> PICK e, c, cs : e = tx[x].e /\ c = tx[x].c /\ cs = out[x].copies
    OBVIOUS
  <1> PICK todo, at : /\ todo = Discarded(e)
                      /\ at = IF todo = {} THEN "commit" ELSE "delete"
    OBVIOUS
  <1>1. LocksType /\ Mine(x) /\ tx[x] \in TxRow /\ tx[x].at = "sweep"
    BY DEF LInv, LocksType, Sweep
  <1>2. tx[x].op = "discard"
    BY <1>1 DEF Mine, Stages, TxRow, Ops
  <1>3. Starting(x) /\ Discarding(x) /\ e \in Entries
    BY <1>1, <1>2 DEF Mine, Starting
  <1>4. UNCHANGED <<vars, locks, out>> /\ tx' = [tx EXCEPT ![x].todo = todo, ![x].at = at]
    BY DEF Sweep, vars
  <1>5. /\ tx' \in [Transactions -> TxRow] /\ Moves(x, at, todo)
        /\ \A y \in Transactions \ {x} : tx'[y] = tx[y]
    <2>1. at \in Ats /\ todo \in SUBSET Copies
      BY DEF Ats, Discarded, CopiesOf
    <2> QED
      BY <1>1, <1>4, <2>1, Moved
  <1>6. OutType' /\ \A y \in Transactions : out'[y] = out[y]
    BY <1>1, <1>4, WritesSame
  <1>7. /\ tx'[x].at = at /\ tx'[x].e = e /\ tx'[x].c = c /\ tx'[x].op = "discard"
        /\ tx'[x].todo = todo
    BY <1>2, <1>5 DEF Moves
  <1>8. \A r, m : Has(x, r, m) => Has(x, r, m)'
    BY <1>4, SameLocks
  <1>9. Starting(x)'
    BY <1>1, <1>3, <1>4, <1>5, <1>8, StillStarting
  <1>10. EditCopy(e, c)' = EditCopy(e, c) /\ Discarded(e)' = todo
    BY <1>4, SameEditCopy DEF vars, Discarded, CopiesOf, Live
  <1>11. /\ Wrote(x, <<>>, cs, <<>>, {}, {}) /\ c \in DOMAIN cs /\ cs[c] = EditCopy(e, c)
         /\ Taken(x) = {}
    BY <1>1, <1>3 DEF Discarding
  <1>12. Taken(x)' = {} /\ Wrote(x, <<>>, out[x].copies, <<>>, {}, {})'
    BY <1>6, <1>7, <1>11 DEF Taken, Wrote
  <1>13. \A k \in todo : ~Free(k)' /\ Live(k)
    BY <1>4 DEF Discarded, CopiesOf, Live, Free, vars
  <1>14. Discarding(x)'
    BY <1>6, <1>7, <1>10, <1>11, <1>12, <1>13 DEF Discarding
  <1>15. Mine(x)'
    BY <1>7, <1>9, <1>14 DEF Mine, Stages
  <1>16. Tame(x)
    BY <1>4, <1>5, <1>6, <1>7, MovesTame, SameReturns
  <1> QED
    BY <1>4, <1>5, <1>6, <1>15, <1>16, FreeStep DEF Alone

\* A row is taken: it is locked, and no longer waited for.
LEMMA DeleteRowStep ==
  ASSUME LInv, NEW x \in Transactions, DeleteRow(x)
  PROVE  LInv'
  <1> PICK e, c, cs, rest : /\ e = tx[x].e /\ c = tx[x].c /\ cs = out[x].copies
                            /\ rest = tx[x].todo
    OBVIOUS
  <1>1. LocksType /\ Mine(x) /\ tx[x] \in TxRow /\ tx[x].at = "delete"
    BY DEF LInv, LocksType, DeleteRow
  <1>2. tx[x].op = "discard"
    BY <1>1 DEF Mine, Stages, TxRow, Ops
  <1>3. Starting(x) /\ Discarding(x) /\ e \in Entries /\ Free(c) /\ c \in Copies
    BY <1>1, <1>2 DEF Mine, Starting
  <1>4. PICK w \in Wants(x) :
          /\ CanLock(x, w)
          /\ tx' = [tx EXCEPT ![x].todo = @ \ {w.row},
                              ![x].at = IF tx[x].todo = {w.row} THEN "commit" ELSE "delete"]
          /\ IF Live(w.row)
             THEN /\ locks' = locks \cup {Grants(x, w)}
                  /\ out' = [out EXCEPT ![x].copies = With(@, w.row, Dropped(w.row))]
             ELSE UNCHANGED <<locks, out>>
    BY DEF DeleteRow
  <1>5. PICK r \in rest : w = [row |-> r, mode |-> "all"]
    <2>1. rest # {}
      BY <1>1, <1>3 DEF Discarding
    <2> QED
      BY <1>1, <2>1, WantedRows
  <1> PICK todo, at, W : /\ todo = rest \ {r}
                         /\ at = IF rest = {r} THEN "commit" ELSE "delete"
                         /\ W = IF Live(r) THEN {w} ELSE {}
    OBVIOUS
  <1>6. w.row = r /\ todo \in SUBSET Copies /\ at \in Ats /\ r \in Copies
    BY <1>1, <1>5 DEF TxRow, Ats
  <1>7. /\ ~Free(r) /\ (Live(r) => r \in Discarded(e)) /\ r # c
        /\ \A k \in rest : ~Free(k) /\ (Live(k) => k \in Discarded(e))
        /\ Discarded(e) \subseteq rest \cup Taken(x)
    BY <1>1, <1>3 DEF Discarding
  <1>8. /\ tx' \in [Transactions -> TxRow] /\ Moves(x, at, todo)
        /\ \A y \in Transactions \ {x} : tx'[y] = tx[y]
    <2>1. tx' = [tx EXCEPT ![x].todo = todo, ![x].at = at]
      BY <1>4, <1>6
    <2> QED
      BY <1>1, <1>6, <2>1, Moved
  <1>9. UNCHANGED vars
    BY DEF DeleteRow
  <1>10. locks' = locks \cup {Grants(x, v) : v \in W} /\ \A v \in W : Lockable(x, v)
    <2>1. CASE Live(r)
      <3>1. W = {w}
        BY <2>1
      <3>2. Present(w)
        BY <1>5, <1>6, <2>1, PresentRows DEF Modes
      <3> QED
        BY <1>4, <1>6, <2>1, <3>1, <3>2 DEF Lockable
    <2>2. CASE ~Live(r)
      BY <1>4, <1>6, <2>2
    <2> QED
      BY <2>1, <2>2
  <1>11. /\ \A k, m : Has(x, k, m) => Has(x, k, m)'
         /\ Live(r) => Has(x, r, "all")'
    <2>1. /\ \A k, m : Has(x, k, m) => Has(x, k, m)'
          /\ \A k, m : [row |-> k, mode |-> m] \in W => Has(x, k, m)'
      BY <1>9, <1>10, GrantedLocks
    <2> QED
      BY <1>5, <2>1
  <1>12. /\ tx'[x].at = at /\ tx'[x].e = e /\ tx'[x].c = c /\ tx'[x].op = "discard"
         /\ tx'[x].todo = todo
    BY <1>2, <1>8 DEF Moves
  <1>12a. PICK ds : ds = IF Live(r) THEN With(cs, r, Dropped(r)) ELSE cs
    OBVIOUS
  <1>13. DOMAIN cs \subseteq Copies /\ Wrote(x, <<>>, cs, <<>>, {}, {})
         /\ c \in DOMAIN cs /\ cs[c] = EditCopy(e, c)
    BY <1>1, <1>3 DEF Discarding, LocksType
  <1>14. /\ DOMAIN ds = IF Live(r) THEN DOMAIN cs \cup {r} ELSE DOMAIN cs
         /\ Live(r) => ds[r] = Dropped(r)
         /\ \A k \in DOMAIN cs : k # r \/ ~Live(r) => ds[k] = cs[k]
    BY <1>12a DEF With
  <1>15. /\ OutType' /\ \A y \in Transactions \ {x} : out'[y] = out[y]
         /\ Wrote(x, <<>>, ds, <<>>, {}, {})'
    <2>1. CASE Live(r)
      <3>1. out' = [out EXCEPT ![x].copies = ds]
        BY <1>4, <1>6, <1>12a, <2>1
      <3>2. DOMAIN ds \subseteq Copies
        BY <1>6, <1>13, <1>14, <2>1
      <3>3. /\ OutType' /\ \A y \in Transactions \ {x} : out'[y] = out[y]
            /\ out'[x].copies = ds /\ out'[x].entries = out[x].entries
            /\ out'[x].versions = out[x].versions /\ out'[x].added = out[x].added
            /\ out'[x].removed = out[x].removed
        BY <1>1, <3>1, <3>2, WritesCopies
      <3> QED
        BY <1>13, <3>3 DEF Wrote
    <2>2. CASE ~Live(r)
      BY <1>1, <1>4, <1>6, <1>12a, <1>13, <2>2, WritesSame DEF Wrote
    <2> QED
      BY <2>1, <2>2
  <1>16. Starting(x)'
    BY <1>1, <1>3, <1>8, <1>9, <1>11, StillStarting DEF Ats
  <1>17. /\ EditCopy(e, c)' = EditCopy(e, c) /\ Discarded(e)' = Discarded(e)
         /\ \A k : Dropped(k)' = Dropped(k) /\ (Free(k)' <=> Free(k)) /\ (Live(k)' <=> Live(k))
    BY <1>9 DEF vars, Discarded, CopiesOf, Live, Free, Dropped, EditCopy, FormalPayload
  <1>18. Taken(x)' = IF Live(r) THEN Taken(x) \cup {r} ELSE Taken(x)
    BY <1>7, <1>12, <1>14, <1>15 DEF Taken, Wrote
  <1>19. ASSUME NEW k \in Taken(x)'
         PROVE  k \in Discarded(e) /\ Has(x, k, "all")' /\ ds[k] = Dropped(k)
    <2>1. CASE k \in Taken(x)
      <3>1. k \in Discarded(e) /\ Has(x, k, "all") /\ cs[k] = Dropped(k) /\ k \in DOMAIN cs
        BY <1>1, <1>3, <2>1 DEF Discarding, Taken
      <3> QED
        BY <1>11, <1>14, <3>1
    <2>2. CASE k \notin Taken(x)
      BY <1>7, <1>11, <1>14, <1>18, <1>19, <2>2
    <2> QED
      BY <2>1, <2>2
  <1>20. Live(r) \/ r \notin Discarded(e)
    BY DEF Discarded, CopiesOf
  <1>21. Discarded(e) \subseteq todo \cup Taken(x)'
    BY <1>7, <1>18, <1>20
  <1>22. c \in DOMAIN ds /\ ds[c] = EditCopy(e, c)
    BY <1>7, <1>13, <1>14
  <1>23. Discarding(x)'
    <2>1. out'[x].copies = ds /\ Wrote(x, <<>>, out[x].copies, <<>>, {}, {})'
      BY <1>15 DEF Wrote
    <2>2. \A k \in Taken(x)' : /\ k \in Discarded(e)' /\ Has(x, k, "all")'
                               /\ ds[k] = Dropped(k)'
      BY <1>17, <1>19
    <2>3. \A k \in todo : ~Free(k)' /\ (Live(k)' => k \in Discarded(e)')
      BY <1>7, <1>17
    <2>4. Discarded(e)' \subseteq todo \cup Taken(x)'
      BY <1>17, <1>21
    <2>5. at = "delete" => todo # {}
      BY <1>5
    <2>6. at # "sweep" /\ (at = "commit" => todo = {})
      OBVIOUS
    <2> QED
      BY <1>12, <1>17, <1>22, <2>1, <2>2, <2>3, <2>4, <2>5, <2>6 DEF Discarding
  <1>24. Mine(x)'
    BY <1>12, <1>16, <1>23 DEF Mine, Stages
  <1>25. ~Returns(x)'
    <2>1. ASSUME NEW k \in DOMAIN ds, Free(k)
          PROVE  ds[k].draft # UndoDraft(e)
      <3>1. k = c
        BY <1>7, <1>13, <1>14, <1>15, <1>18, <1>19, <2>1 
        DEF Taken, Wrote, Discarded, CopiesOf, Live, Free
      <3> QED
        BY <1>22, <3>1, EditCopyFields DEF UndoDraft
    <2>2. x \notin Inserting(UndoDraft(e))'
      BY <1>15, <1>17, <2>1 DEF Inserting, Wrote
    <2> QED
      BY <1>12, <2>2 DEF Returns
  <1>26. Tame(x)
    BY <1>8, <1>25, MovesTame
  <1> QED
    BY <1>8, <1>9, <1>10, <1>15, <1>24, <1>26, OwnStep DEF Alone

-----------------------------------------------------------------------------
(* Committing a working copy *)

\* What a commit saves depends on its request and on the row it read.
LEMMA SavedAlike ==
  ASSUME NEW x, NEW at, NEW todo, Moves(x, at, todo), NEW e, NEW row, NEW prev,
         versions' = versions
  PROVE  Saved(x, e, row, prev)' = Saved(x, e, row, prev)
  <1>1. \A p : Snapshot(e, p)' = Snapshot(e, p)
    BY DEF Snapshot
  <1>2. tx'[x].p = tx[x].p /\ tx'[x].row = tx[x].row /\ tx'[x].c = tx[x].c
    BY DEF Moves
  <1> QED
    BY <1>1, <1>2, Zenon DEF Saved

LEMMA SavedShape ==
  ASSUME NEW x, NEW e, NEW row, NEW prev, NEW c, c = tx[x].c
  PROVE  /\ DOMAIN Saved(x, e, row, prev) = Parts
         /\ DOMAIN Saved(x, e, row, prev).copies = {c}
  BY DEF Saved, Parts, Row

\* The entry is saved: what the transaction knows of it at its commit.
LEMMA SaveStep ==
  ASSUME LInv, NEW x \in Transactions, tx[x].op = "commit", tx[x].at # "commit",
         UNCHANGED vars, Goto(x, "commit"),
         NEW W, \A w \in W : Lockable(x, w), locks' = locks \cup {Grants(x, w) : w \in W},
         NEW e, e = tx[x].e, NEW row, NEW prev,
         out' = [out EXCEPT ![x] = Saved(x, e, row, prev)],
         \/ /\ tx[x].row.entry = None
            /\ row = [Unborn EXCEPT !.origin = tx[x].row.draft] /\ prev = "draft"
         \/ /\ tx[x].row.entry # None /\ row = entries[e] /\ prev = entries[e].status
            /\ [row |-> e, mode |-> "all"] \in W /\ Exists(e)
            /\ tx[x].base \in {0, entries[e].revision} /\ entries[e].revision # MaxRevision
  PROVE  LInv'
  <1> PICK c, old, p, b : c = tx[x].c /\ old = tx[x].row /\ p = tx[x].p /\ b = tx[x].base
    OBVIOUS
  <1>1. LocksType /\ Committing(x) /\ TypeOK
    BY DEF LInv, Mine, Tables, IInv
  <1>2. /\ tx' \in [Transactions -> TxRow] /\ \E todo : Moves(x, "commit", todo)
        /\ \A y \in Transactions \ {x} : tx'[y] = tx[y]
    <2>1. "commit" \in Ats
      BY DEF Ats
    <2> QED
      BY <1>1, <2>1, Goes
  <1> PICK todo : Moves(x, "commit", todo)
    BY <1>2
  <1>3. /\ tx'[x].at = "commit" /\ tx'[x].e = e /\ tx'[x].c = c /\ tx'[x].op = "commit"
        /\ tx'[x].row = old /\ tx'[x].p = p /\ tx'[x].base = b
    BY DEF Moves
  <1>4. UNCHANGED <<entries, copies, versions>>
    BY DEF vars
  <1> PICK new : new = Saved(x, e, row, prev)
    OBVIOUS
  <1>5. new = Saved(x, e, row, prev)'
    BY <1>4, SavedAlike
  <1>6. c \in Copies /\ Live(c) /\ Has(x, c, "all") /\ old = copies[c]
    BY <1>1 DEF Committing
  <1>7. DOMAIN new = Parts /\ DOMAIN new.copies = {c}
    BY SavedShape
  <1>8. /\ OutType' /\ \A y \in Transactions \ {x} : out'[y] = out[y]
        /\ out'[x] = new
    <2>1. DOMAIN new.copies \subseteq Copies
      BY <1>6, <1>7
    <2> QED
      BY <1>1, <1>7, <2>1, WritesAll, ZenonT(30)
  <1>9. /\ \A r, m : Has(x, r, m) => Has(x, r, m)'
        /\ \A r, m : [row |-> r, mode |-> m] \in W => Has(x, r, m)'
    BY GrantedLocks
  <1>10. Live(c)' /\ old = copies'[c] /\ Has(x, c, "all")'
    BY <1>4, <1>6, <1>9 DEF Live
  <1>11. /\ e \in Entries /\ p \in Requests \cup {NoPayload}
         /\ \E base \in {0, old.given} : b = IF base > 0 THEN base ELSE old.base
         /\ old.draft.type = "edit" => old.draft.entry = old.entry
         /\ old.entry # None => old.entry = e
         /\ old.entry = None => entries[e].status = "unborn"
    BY <1>1 DEF Committing
  <1>12. CASE old.entry = None
    <2>1. new = Saved(x, e, [Unborn EXCEPT !.origin = old.draft], "draft")'
      BY <1>5, <1>12
    <2>2. entries'[e].status = "unborn"
      BY <1>4, <1>11, <1>12
    <2> QED
      <3>1. Committing(x)'
        BY <1>3, <1>6, <1>8, <1>10, <1>11, <1>12, <2>1, <2>2, ZenonT(30) DEF Committing
      <3>2. Mine(x)'
        BY <1>3, <3>1 DEF Mine, Stages
      <3>3. ~Returns(x)'
        BY <1>3, <1>4, <1>6, <1>7, <1>8 DEF Returns, Inserting, Live, Free
      <3>4. Tame(x)
        BY <3>3, MovesTame
      <3> QED
        BY <1>2, <1>8, <3>2, <3>4, OwnStep DEF Alone
  <1>13. CASE old.entry # None
    <2>1. /\ row = entries[e] /\ prev = entries[e].status /\ Exists(e) /\ Has(x, e, "all")'
          /\ b \in {0, entries[e].revision} /\ entries[e].revision # MaxRevision
      BY <1>9, <1>13
    <2>2. /\ row = entries'[e] /\ prev = entries'[e].status /\ Exists(e)'
          /\ b \in {0, entries'[e].revision} /\ entries'[e].revision # MaxRevision
      BY <1>4, <2>1 DEF Exists
    <2>3. new = Saved(x, e, entries[e], entries[e].status)'
      BY <1>5, <2>2
    <2> QED
      <3>1. Committing(x)'
        BY <1>3, <1>6, <1>8, <1>10, <1>11, <1>13, <2>1, <2>2, <2>3, ZenonT(30) DEF Committing
      <3>2. Mine(x)'
        BY <1>3, <3>1 DEF Mine, Stages
      <3>3. ~Returns(x)'
        BY <1>3, <1>4, <1>6, <1>7, <1>8 DEF Returns, Inserting, Live, Free
      <3>4. Tame(x)
        BY <3>3, MovesTame
      <3> QED
        BY <1>2, <1>8, <3>2, <3>4, OwnStep DEF Alone
  <1> QED
    BY <1>12, <1>13

LEMMA InsertEntryStep ==
  ASSUME LInv, NEW x \in Transactions, InsertEntry(x)
  PROVE  LInv'
  <1> PICK e, row : e = tx[x].e /\ row = [Unborn EXCEPT !.origin = tx[x].row.draft]
    OBVIOUS
  <1>1. LocksType /\ Mine(x) /\ tx[x] \in TxRow /\ tx[x].at = "insert"
    BY DEF LInv, LocksType, InsertEntry
  <1>2. tx[x].op = "commit"
    BY <1>1 DEF Mine, Stages, TxRow, Ops
  <1>3. tx[x].row.entry = None
    BY <1>1, <1>2 DEF Mine, Committing
  <1> PICK W : W = {}
    OBVIOUS
  <1>4. /\ UNCHANGED vars /\ locks' = locks \cup {Grants(x, w) : w \in W}
        /\ Goto(x, "commit") /\ out' = [out EXCEPT ![x] = Saved(x, e, row, "draft")]
    BY DEF InsertEntry, vars
  <1>5. \A w \in W : Lockable(x, w)
    OBVIOUS
  <1> QED
    BY <1>1, <1>2, <1>3, <1>4, <1>5, SaveStep DEF Unborn

LEMMA UpdateEntryStep ==
  ASSUME LInv, NEW x \in Transactions, UpdateEntry(x)
  PROVE  LInv'
  <1> PICK e, row, prev, W : /\ e = tx[x].e /\ row = entries[e] /\ prev = entries[e].status
                             /\ W = Wants(x)
    OBVIOUS
  <1>1. LocksType /\ Mine(x) /\ tx[x] \in TxRow /\ tx[x].at = "entry" /\ Granted(x)
    BY DEF LInv, LocksType, UpdateEntry
  <1>2. tx[x].op = "commit"
    BY <1>1 DEF Mine, Stages, TxRow, Ops
  <1>3. tx[x].row.entry # None /\ e \in Entries
    BY <1>1, <1>2 DEF Mine, Committing
  <1>4. CASE Rollback(x)
    BY <1>4, RollbackStep
  <1>5. CASE ~Rollback(x)
    <2>1. /\ Exists(e) /\ tx[x].base \in {0, entries[e].revision}
          /\ entries[e].revision # MaxRevision
          /\ UNCHANGED vars /\ locks' = locks \cup {Grants(x, w) : w \in W}
          /\ Goto(x, "commit") /\ out' = [out EXCEPT ![x] = Saved(x, e, row, prev)]
      BY <1>5 DEF UpdateEntry, Acquire
    <2>2. W = {[row |-> e, mode |-> "all"]}
      BY <1>1, WantedRows
    <2>3. \A w \in W : Lockable(x, w)
      <3>1. \A w \in W : Present(w)
        BY <1>3, <2>1, <2>2, PresentRows DEF Modes, Exists
      <3> QED
        BY <1>1, <3>1 DEF Granted, Lockable
    <2> QED
      BY <1>1, <1>2, <1>3, <2>1, <2>2, <2>3, SaveStep
  <1> QED
    BY <1>4, <1>5

-----------------------------------------------------------------------------
(* Undo *)

\* what an undo knows of its token after a step of its own
LEMMA StillUndoing ==
  ASSUME UNCHANGED vars, NEW x \in Transactions, Undoing(x), NEW at, NEW todo,
         Moves(x, at, todo), NEW t, t = tx[x].t,
         \/ ~t.fresh /\ at \in {"fk", "status", "commit"}
         \/ t.fresh /\ at \in {"refs", "cascade", "commit"},
         t \in out'[x].removed,
         \A r, m : Has(x, r, m) => Has(x, r, m)'
  PROVE  Undoing(x)'
  <1>1. tx'[x].at = at /\ tx'[x].t = t /\ tx'[x].e = tx[x].e
    BY DEF Moves
  <1>2. UNCHANGED <<entries, tokens>>
    BY DEF vars
  <1>3. Has(x, t, "all")'
    BY DEF Undoing
  <1> QED
    BY <1>1, <1>2, <1>3 DEF Undoing

\* a handler that does not make entries, before and after
LEMMA NotFresh ==
  ASSUME NEW x, tx[x].op # "commit", tx'[x].op = tx[x].op
  PROVE  ~Fresh(x) /\ ~Fresh(x)'
  BY DEF Fresh

\* The draft is brought back in the row that is there.
LEMMA RewriteStep ==
  ASSUME LInv, NEW x \in Transactions, UpsertCopy(x), NEW e, e = tx[x].e,
         NEW k \in Rows(UndoDraft(e)),
         NEW row, row = [copies[k] EXCEPT !.payload = tx[x].t.payload, !.base = 0],
         out' = [out EXCEPT ![x].copies = Row(k, row)], Goto(x, "status")
  PROVE  LInv'
  <1> PICK c, t, cs, W : /\ c = tx[x].c /\ t = tx[x].t /\ cs = Row(k, row)
                         /\ W = Wants(x)
    OBVIOUS
  <1>1. LocksType /\ Mine(x) /\ tx[x] \in TxRow /\ tx[x].at = "upsert"
    BY DEF LInv, LocksType, UpsertCopy
  <1>2. tx[x].op = "undo"
    BY <1>1 DEF Mine, Stages, TxRow, Ops
  <1>3. Undoing(x) /\ ~t.fresh /\ Reviving(x)
    BY <1>1, <1>2 DEF Mine, Undoing
  <1>4. UNCHANGED vars /\ Granted(x) /\ locks' = locks \cup {Grants(x, w) : w \in W}
    BY DEF UpsertCopy, Acquire
  <1>5. W = {[row |-> r, mode |-> "write"] : r \in Rows(UndoDraft(e))}
    BY <1>1, WantedRows
  <1>6. \A w \in W : Lockable(x, w)
    <2>1. ASSUME NEW r \in Rows(UndoDraft(e))
          PROVE  \A w : w = [row |-> r, mode |-> "write"] => Present(w)
      BY PresentRows DEF Modes, Rows
    <2> QED
      BY <1>4, <1>5, <2>1 DEF Granted, Lockable
  <1>7. /\ \A r, m : Has(x, r, m) => Has(x, r, m)'
        /\ Has(x, k, "write")'
    <2>1. /\ \A r, m : Has(x, r, m) => Has(x, r, m)'
          /\ \A r, m : [row |-> r, mode |-> m] \in W => Has(x, r, m)'
      BY <1>4, <1>6, GrantedLocks
    <2> QED
      BY <1>5, <2>1
  <1>8. /\ tx' \in [Transactions -> TxRow] /\ \E todo : Moves(x, "status", todo)
        /\ \A y \in Transactions \ {x} : tx'[y] = tx[y]
    <2>1. "status" \in Ats
      BY DEF Ats
    <2> QED
      BY <1>1, <2>1, Goes
  <1> PICK todo : Moves(x, "status", todo)
    BY <1>8
  <1>9. /\ tx'[x].at = "status" /\ tx'[x].e = e /\ tx'[x].c = c /\ tx'[x].op = "undo"
        /\ tx'[x].t = t
    BY <1>2 DEF Moves
  <1>10. k \in Copies /\ Live(k) /\ DOMAIN cs = {k} /\ DOMAIN cs \subseteq Copies
    BY DEF Rows, Row
  <1>11. /\ OutType' /\ \A y \in Transactions \ {x} : out'[y] = out[y]
         /\ out'[x].copies = cs /\ out'[x].entries = out[x].entries
         /\ out'[x].versions = out[x].versions /\ out'[x].added = out[x].added
         /\ out'[x].removed = out[x].removed
    BY <1>1, <1>10, WritesCopies
  <1>12. UNCHANGED <<entries, copies, tokens>>
    BY <1>4 DEF vars
  <1>13. Rewriting(x, k)'
    <2>1. k \in Rows(UndoDraft(e))' /\ Owns(x, k)'
      BY <1>7, <1>12 DEF Rows, Live, Owns
    <2>2. row = [copies'[k] EXCEPT !.payload = t.payload, !.base = 0]
      BY <1>12
    <2>3. out'[x].copies = Row(k, [copies'[k] EXCEPT !.payload = t.payload, !.base = 0])
      BY <1>11, <2>2 DEF Row
    <2> QED
      BY <1>9, <2>1, <2>3 DEF Rewriting
  <1>14. Undoing(x)'
    <2>1. t \in out'[x].removed
      BY <1>3, <1>11 DEF Undoing
    <2> QED
      BY <1>3, <1>4, <1>7, <2>1, StillUndoing
  <1>15. Reviving(x)'
    <2>1. /\ out[x].versions = <<>> /\ out[x].added = {} /\ out[x].removed = {t}
          /\ out[x].entries = <<>> /\ (c # None => Free(c))
      BY <1>1, <1>3 DEF Reviving
    <2>2. c # None => Free(c)'
      BY <1>12, <2>1 DEF Free
    <2> QED
      BY <1>9, <1>10, <1>11, <1>13, <2>1, <2>2 DEF Reviving
  <1>16. Mine(x)'
    BY <1>3, <1>9, <1>14, <1>15 DEF Mine, Stages
  <1>17. ~Returns(x)'
    BY <1>9, <1>10, <1>11, <1>12 DEF Returns, Inserting, Live, Free
  <1>18. Tame(x)
    BY <1>17, MovesTame
  <1> QED
    BY <1>4, <1>6, <1>8, <1>11, <1>16, <1>18, OwnStep DEF Alone

\* The draft is brought back in a new row: nobody else is inserting it.
LEMMA BringStep ==
  ASSUME LInv, NEW x \in Transactions, UpsertCopy(x), NEW e, e = tx[x].e,
         NEW c, c = tx[x].c, c # None, Rows(UndoDraft(e)) = {},
         NEW row, row = Brought(e, None, tx[x].t.payload),
         out' = [out EXCEPT ![x].copies = Row(c, row)], Goto(x, "fk")
  PROVE  LInv'
  <1> PICK t, cs, W : /\ t = tx[x].t /\ cs = Row(c, row) /\ W = Wants(x)
    OBVIOUS
  <1>1. LocksType /\ Mine(x) /\ tx[x] \in TxRow /\ tx[x].at = "upsert"
    BY DEF LInv, LocksType, UpsertCopy
  <1>2. tx[x].op = "undo"
    BY <1>1 DEF Mine, Stages, TxRow, Ops
  <1>3. Undoing(x) /\ ~t.fresh /\ Reviving(x)
    BY <1>1, <1>2 DEF Mine, Undoing
  <1>4. UNCHANGED vars /\ locks' = locks \cup {Grants(x, w) : w \in W}
    BY DEF UpsertCopy, Acquire
  <1>5. W = {}
    BY <1>1, WantedRows
  <1>6. UNCHANGED locks
    BY <1>4, <1>5
  <1>7. \A r, m : Has(x, r, m) => Has(x, r, m)'
    BY <1>6, SameLocks
  <1>8. /\ tx' \in [Transactions -> TxRow] /\ \E todo : Moves(x, "fk", todo)
        /\ \A y \in Transactions \ {x} : tx'[y] = tx[y]
    <2>1. "fk" \in Ats
      BY DEF Ats
    <2> QED
      BY <1>1, <2>1, Goes
  <1> PICK todo : Moves(x, "fk", todo)
    BY <1>8
  <1>9. /\ tx'[x].at = "fk" /\ tx'[x].e = e /\ tx'[x].c = c /\ tx'[x].op = "undo"
        /\ tx'[x].t = t
    BY <1>2 DEF Moves
  <1>10. c \in Copies /\ Free(c) /\ DOMAIN cs = {c} /\ DOMAIN cs \subseteq Copies
    BY <1>1, <1>3 DEF Reviving, TxRow, Row
  <1>11. /\ OutType' /\ \A y \in Transactions \ {x} : out'[y] = out[y]
         /\ out'[x].copies = cs /\ out'[x].entries = out[x].entries
         /\ out'[x].versions = out[x].versions /\ out'[x].added = out[x].added
         /\ out'[x].removed = out[x].removed
    BY <1>1, <1>10, WritesCopies
  <1>12. UNCHANGED <<entries, copies, tokens>>
    BY <1>4 DEF vars
  <1>13. Bringing(x, None)'
    <2>1. Rows(UndoDraft(e))' = {} /\ Free(c)'
      BY <1>10, <1>12 DEF Rows, Live, Free
    <2>2. row = Brought(e, None, t.payload)
      OBVIOUS
    <2> QED
      BY <1>9, <1>10, <1>11, <2>1, <2>2 DEF Bringing
  <1>14. Undoing(x)'
    <2>1. t \in out'[x].removed
      BY <1>3, <1>11 DEF Undoing
    <2> QED
      BY <1>3, <1>4, <1>7, <2>1, StillUndoing
  <1>15. Reviving(x)'
    <2>1. /\ out[x].versions = <<>> /\ out[x].added = {} /\ out[x].removed = {t}
          /\ out[x].entries = <<>>
      BY <1>1, <1>3 DEF Reviving
    <2>2. Free(c)'
      BY <1>10, <1>12 DEF Free
    <2> QED
      BY <1>9, <1>11, <1>13, <2>1, <2>2 DEF Reviving
  <1>16. Mine(x)'
    BY <1>3, <1>9, <1>14, <1>15 DEF Mine, Stages
  <1>17. ActorApart(x)
    <2> SUFFICES ASSUME NEW y \in Transactions, y # x
                 PROVE  Apart(x, y)' /\ Apart(y, x)'
      BY DEF ActorApart
    <2>1. Frame(y)
      BY <1>6, <1>8, <1>11 DEF Frame, HeldBy
    <2>2. Apart(x, y) /\ Apart(y, x) /\ tx'[y] = tx[y]
      BY <2>1 DEF LInv, Frame
    <2>3. ~Fresh(x)' /\ (Fresh(y)' <=> Fresh(y))
      BY <1>2, <1>9, <2>1, NotFresh, FrameFresh
    <2>4. Returns(y)' => tx[y].e # e
      <3>1. Returns(y)' => Returns(y)
        BY <1>1, <1>4, <2>1, StillAged, FrameReturns
      <3>2. y \notin Inserting(UndoDraft(e))
        BY DEF UpsertCopy
      <3> QED
        BY <3>1, <3>2 DEF Returns
    <2>5. \A j \in Copies : Free(j)' <=> Free(j)
      BY <1>12 DEF Free
    <2>6. Apart(x, y)'
      BY <1>9, <2>2, <2>3, <2>4, <2>5 DEF Apart
    <2>7. Apart(y, x)'
      BY <1>9, <2>2, <2>3, <2>4, <2>5 DEF Apart
    <2> QED
      BY <2>6, <2>7
  <1> QED
    BY <1>4, <1>6, <1>8, <1>11, <1>16, <1>17, FreeStep DEF Alone

\* the row as the statement makes it
LEMMA BroughtRow ==
  ASSUME NEW e, NEW p, NEW d, d = UndoDraft(e), NEW r,
         r = [Unused EXCEPT !.state = "live", !.draft = d, !.entry = e, !.payload = p]
  PROVE  r = Brought(e, None, p)
  <1>1. /\ DOMAIN r = {"state", "draft", "entry", "base", "given", "seen", "payload"}
        /\ r = [k \in DOMAIN r |-> r[k]]
    BY DEF Unused
  <1>2. /\ r.state = "live" /\ r.draft = d /\ r.entry = e /\ r.base = 0 /\ r.given = 0
        /\ r.seen = None /\ r.payload = p
    BY DEF Unused
  <1>3. r = [state |-> "live", draft |-> d, entry |-> e, base |-> 0, given |-> 0,
             seen |-> None, payload |-> p]
    BY ONLY <1>1, <1>2
  <1> QED
    BY <1>3 DEF Brought

LEMMA UpsertCopyStep ==
  ASSUME LInv, NEW x \in Transactions, UpsertCopy(x)
  PROVE  LInv'
  <1> PICK e, c, p : e = tx[x].e /\ c = tx[x].c /\ p = tx[x].t.payload
    OBVIOUS
  <1>1. CASE \E k \in Rows(UndoDraft(e)) :
               /\ out' = [out EXCEPT ![x].copies =
                    Row(k, [copies[k] EXCEPT !.payload = tx[x].t.payload, !.base = 0])]
               /\ Goto(x, "status")
    <2>1. PICK k \in Rows(UndoDraft(e)) :
            /\ out' = [out EXCEPT ![x].copies =
                 Row(k, [copies[k] EXCEPT !.payload = tx[x].t.payload, !.base = 0])]
            /\ Goto(x, "status")
      BY <1>1
    <2>2. PICK row : row = [copies[k] EXCEPT !.payload = tx[x].t.payload, !.base = 0]
      OBVIOUS
    <2>3. out' = [out EXCEPT ![x].copies = Row(k, row)] /\ Goto(x, "status")
      BY <2>1, <2>2
    <2> QED
      BY <2>2, <2>3, RewriteStep
  <1>2. CASE /\ Rows(UndoDraft(e)) = {} /\ c # None
             /\ out' = [out EXCEPT ![x].copies =
                  Row(c, [Unused EXCEPT !.state = "live", !.draft = UndoDraft(e), !.entry = e,
                                        !.payload = p])]
             /\ Goto(x, "fk")
    <2>1. PICK row : row = [Unused EXCEPT !.state = "live", !.draft = UndoDraft(e),
                                          !.entry = e, !.payload = p]
      OBVIOUS
    <2>2. row = Brought(e, None, p)
      BY <2>1, BroughtRow
    <2>3. out' = [out EXCEPT ![x].copies = Row(c, row)]
      BY <1>2, <2>1
    <2>4. Rows(UndoDraft(e)) = {} /\ c # None /\ Goto(x, "fk")
      BY <1>2
    <2> QED
      BY <2>2, <2>3, <2>4, BringStep
  <1> QED
    BY <1>1, <1>2 DEF UpsertCopy

LEMMA CheckEntryStep ==
  ASSUME LInv, NEW x \in Transactions, CheckEntry(x)
  PROVE  LInv'
  <1> PICK e, c, t, W : e = tx[x].e /\ c = tx[x].c /\ t = tx[x].t /\ W = Wants(x)
    OBVIOUS
  <1>1. LocksType /\ Mine(x) /\ tx[x] \in TxRow /\ tx[x].at = "fk" /\ Granted(x)
    BY DEF LInv, LocksType, CheckEntry
  <1>2. tx[x].op = "undo"
    BY <1>1 DEF Mine, Stages, TxRow, Ops
  <1>3. Undoing(x) /\ ~t.fresh /\ Reviving(x)
    BY <1>1, <1>2 DEF Mine, Undoing
  <1>4. CASE ~Exists(e)
    BY <1>4, RollbackStep DEF CheckEntry
  <1>5. CASE Exists(e)
    <2>1. /\ UNCHANGED <<vars, out>> /\ Goto(x, "status")
          /\ locks' = locks \cup {Grants(x, w) : w \in W}
      BY <1>5 DEF CheckEntry, Acquire, vars
    <2>2. W = {[row |-> e, mode |-> "key"]}
      BY <1>1, WantedRows
    <2>3. e \in Entries
      <3>1. tx[x].e \in Entries \cup {None} /\ t \in tokens /\ t.entry = e
        BY <1>1, <1>3 DEF TxRow, Undoing
      <3> QED
        BY <3>1 DEF LInv, Tables, IInv, TypeOK, Token
    <2>4. \A w \in W : Lockable(x, w)
      <3>1. \A w \in W : Present(w)
        BY <1>5, <2>2, <2>3, PresentRows DEF Modes, Exists
      <3> QED
        BY <1>1, <3>1 DEF Granted, Lockable
    <2>5. /\ \A r, m : Has(x, r, m) => Has(x, r, m)'
          /\ Has(x, e, "key")'
      <3>1. /\ \A r, m : Has(x, r, m) => Has(x, r, m)'
            /\ \A r, m : [row |-> r, mode |-> m] \in W => Has(x, r, m)'
        BY <2>1, <2>4, GrantedLocks
      <3> QED
        BY <2>2, <3>1
    <2>6. /\ tx' \in [Transactions -> TxRow] /\ \E todo : Moves(x, "status", todo)
          /\ \A y \in Transactions \ {x} : tx'[y] = tx[y]
      <3>1. "status" \in Ats
        BY DEF Ats
      <3> QED
        BY <1>1, <2>1, <3>1, Goes
    <2> PICK todo : Moves(x, "status", todo)
      BY <2>6
    <2>7. /\ tx'[x].at = "status" /\ tx'[x].e = e /\ tx'[x].c = c /\ tx'[x].op = "undo"
          /\ tx'[x].t = t
      BY <1>2 DEF Moves
    <2>8. OutType' /\ \A y \in Transactions : out'[y] = out[y]
      BY <1>1, <2>1, WritesSame
    <2>9. UNCHANGED <<entries, copies, tokens>>
      BY <2>1 DEF vars
    <2>10. Undoing(x)'
      <3>1. t \in out'[x].removed
        BY <1>3, <2>8 DEF Undoing
      <3> QED
        BY <1>3, <2>1, <2>5, <3>1, StillUndoing
    <2>11. Bringing(x, None)'
      <3>1. Bringing(x, None)
        BY <1>1, <1>3 DEF Reviving
      <3>2. Rows(UndoDraft(e))' = {} /\ Free(c)' /\ c \in Copies
        BY <2>9, <3>1 DEF Bringing, Rows, Live, Free
      <3> QED
        BY <2>7, <2>8, <3>1, <3>2 DEF Bringing
    <2>12. Reviving(x)'
      <3>1. /\ out[x].versions = <<>> /\ out[x].added = {} /\ out[x].removed = {t}
            /\ out[x].entries = <<>>
        BY <1>1, <1>3 DEF Reviving
      <3>2. Free(c)'
        BY <2>7, <2>11 DEF Bringing
      <3> QED
        BY <2>5, <2>7, <2>8, <2>11, <3>1, <3>2 DEF Reviving
    <2>13. Mine(x)'
      BY <1>3, <2>7, <2>10, <2>12 DEF Mine, Stages
    <2>14. Tame(x)
      BY <2>1, <2>7, <2>8, MovesTame, SameReturns
    <2> QED
      BY <2>1, <2>4, <2>6, <2>8, <2>13, <2>14, OwnStep DEF Alone
  <1> QED
    BY <1>4, <1>5

\* The new row learns what the entry says now, a row that was there does not.
LEMMA SeenRow ==
  ASSUME NEW e, NEW p, NEW text, NEW r,
         r = [Brought(e, None, p) EXCEPT !.seen = text]
  PROVE  r = Brought(e, text, p)
  <1> PICK d : d = UndoDraft(e)
    OBVIOUS
  <1>1. /\ DOMAIN r = {"state", "draft", "entry", "base", "given", "seen", "payload"}
        /\ r = [k \in DOMAIN r |-> r[k]]
    BY DEF Brought
  <1>2. /\ r.state = "live" /\ r.draft = d /\ r.entry = e /\ r.base = 0 /\ r.given = 0
        /\ r.seen = text /\ r.payload = p
    BY DEF Brought
  <1>3. r = [state |-> "live", draft |-> d, entry |-> e, base |-> 0, given |-> 0,
             seen |-> text, payload |-> p]
    BY ONLY <1>1, <1>2
  <1> QED
    BY <1>3 DEF Brought

LEMMA PutBackStep ==
  ASSUME LInv, NEW x \in Transactions, PutBack(x)
  PROVE  LInv'
  <1> PICK e, c, t, W : e = tx[x].e /\ c = tx[x].c /\ t = tx[x].t /\ W = Wants(x)
    OBVIOUS
  <1> PICK old, text, cs : old = entries[e] /\ text = old.text /\ cs = out[x].copies
    OBVIOUS
  <1>es. PICK es : es = Row(e, [old EXCEPT !.status = t.prev])
    OBVIOUS
  <1>ds. PICK ds : ds = [k \in DOMAIN cs |-> IF Free(k) THEN [cs[k] EXCEPT !.seen = text]
                                            ELSE cs[k]]
    OBVIOUS
  <1>1. LocksType /\ Mine(x) /\ tx[x] \in TxRow /\ tx[x].at = "status" /\ Granted(x)
    BY DEF LInv, LocksType, PutBack
  <1>2. tx[x].op = "undo"
    BY <1>1 DEF Mine, Stages, TxRow, Ops
  <1>3. Undoing(x) /\ ~t.fresh /\ Reviving(x)
    BY <1>1, <1>2 DEF Mine, Undoing
  <1>4. /\ UNCHANGED vars /\ Goto(x, "commit")
        /\ locks' = locks \cup {Grants(x, w) : w \in W}
    BY DEF PutBack, Acquire
  <1>5. W = {[row |-> e, mode |-> "write"]}
    BY <1>1, WantedRows
  <1>6. e \in Entries /\ entries[e].status # "unborn"
    <2>1. t \in tokens /\ t.entry = e
      BY <1>3 DEF Undoing
    <2> QED
      BY <1>3, <2>1 DEF LInv, Tables, IInv, TypeOK, Token, Undoing
  <1>7. \A w \in W : Lockable(x, w)
    <2>1. \A w \in W : Present(w)
      BY <1>5, <1>6, PresentRows DEF Modes
    <2> QED
      BY <1>1, <2>1 DEF Granted, Lockable
  <1>8. /\ \A r, m : Has(x, r, m) => Has(x, r, m)'
        /\ Has(x, e, "write")'
    <2>1. /\ \A r, m : Has(x, r, m) => Has(x, r, m)'
          /\ \A r, m : [row |-> r, mode |-> m] \in W => Has(x, r, m)'
      BY <1>4, <1>7, GrantedLocks
    <2> QED
      BY <1>5, <2>1
  <1>9. /\ tx' \in [Transactions -> TxRow] /\ \E todo : Moves(x, "commit", todo)
        /\ \A y \in Transactions \ {x} : tx'[y] = tx[y]
    <2>1. "commit" \in Ats
      BY DEF Ats
    <2> QED
      BY <1>1, <1>4, <2>1, Goes
  <1> PICK todo : Moves(x, "commit", todo)
    BY <1>9
  <1>10. /\ tx'[x].at = "commit" /\ tx'[x].e = e /\ tx'[x].c = c /\ tx'[x].op = "undo"
         /\ tx'[x].t = t
    BY <1>2 DEF Moves
  <1>11. UNCHANGED <<entries, copies, tokens>>
    BY <1>4 DEF vars
  <1>12. DOMAIN cs \subseteq Copies /\ DOMAIN ds \subseteq Copies
    BY <1>1, <1>ds DEF LocksType
  <1>13. /\ OutType' /\ \A y \in Transactions \ {x} : out'[y] = out[y]
         /\ out'[x].entries = es /\ out'[x].copies = ds
         /\ out'[x].versions = out[x].versions /\ out'[x].added = out[x].added
         /\ out'[x].removed = out[x].removed
    <2>1. out' = [out EXCEPT ![x].entries = es, ![x].copies = ds]
      BY <1>1, <1>es, <1>ds DEF PutBack, LocksType, Parts
    <2> QED
      BY <1>1, <1>12, <2>1, WritesBoth
  <1>14. Undoing(x)'
    <2>1. t \in out'[x].removed
      BY <1>3, <1>13 DEF Undoing
    <2> QED
      BY <1>3, <1>4, <1>8, <2>1, StillUndoing
  <1>15. ASSUME NEW k \in Copies, Rewriting(x, k)
         PROVE  ~Returns(x)' /\ Rewriting(x, k)'
    <2>2. PICK row : row = [copies[k] EXCEPT !.payload = t.payload, !.base = 0]
      OBVIOUS
    <2>3. k \in Rows(UndoDraft(e)) /\ Owns(x, k) /\ cs = Row(k, row)
      BY <1>15, <2>2 DEF Rewriting
    <2>4. Live(k) /\ ~Free(k)
      BY <2>3 DEF Rows, Live, Free
    <2>5. ds = cs
      BY <1>ds, <2>3, <2>4 DEF Row
    <2>6. Rewriting(x, k)'
      <3>1. k \in Rows(UndoDraft(e))' /\ Owns(x, k)'
        BY <1>8, <1>11, <2>3 DEF Rows, Live, Owns
      <3>2. row = [copies'[k] EXCEPT !.payload = t.payload, !.base = 0]
        BY <1>11, <2>2
      <3>3. out'[x].copies = Row(k, [copies'[k] EXCEPT !.payload = t.payload, !.base = 0])
        BY <1>13, <2>3, <2>5, <3>2
      <3> QED
        BY <1>10, <3>1, <3>3 DEF Rewriting
    <2>7. ~Returns(x)'
      BY <1>10, <1>11, <1>13, <2>3, <2>4, <2>5 DEF Returns, Inserting, Free, Row
    <2> QED
      BY <2>6, <2>7
  <1>16. ASSUME Bringing(x, None), Has(x, e, "key")
         PROVE  Returns(x) /\ Bringing(x, text)' /\ Has(x, e, "key")'
    <2>1. PICK row : row = Brought(e, None, t.payload)
      OBVIOUS
    <2>2. /\ c \in Copies /\ Free(c) /\ Rows(UndoDraft(e)) = {} /\ cs = Row(c, row)
      BY <1>16, <2>1 DEF Bringing
    <2>3. PICK seen : seen = [row EXCEPT !.seen = text]
      OBVIOUS
    <2>4. ds = Row(c, seen)
      BY <1>ds, <2>2, <2>3 DEF Row
    <2>5. seen = Brought(e, text, t.payload)
      BY <2>1, <2>3, SeenRow
    <2>6. Bringing(x, text)'
      <3>1. Rows(UndoDraft(e))' = {} /\ Free(c)'
        BY <1>11, <2>2 DEF Rows, Live, Free
      <3> QED
        BY <1>10, <1>13, <2>2, <2>4, <2>5, <3>1 DEF Bringing
    <2>7. Returns(x)
      BY <1>16, BringingReturns
    <2> QED
      BY <1>8, <1>16, <2>6, <2>7
  <1>17. /\ Returns(x)' => Returns(x)
         /\ \/ \E k \in Copies : Rewriting(x, k)'
            \/ Bringing(x, text)' /\ Has(x, e, "key")'
    BY <1>1, <1>3, <1>15, <1>16 DEF Reviving
  <1>18. Reviving(x)'
    <2>1. /\ out[x].versions = <<>> /\ out[x].added = {} /\ out[x].removed = {t}
          /\ (c # None => Free(c))
      BY <1>1, <1>3 DEF Reviving
    <2>2. /\ c # None => Free(c)'
          /\ text = entries'[e].text
      BY <1>11, <2>1 DEF Free
    <2>3. old = entries'[e]
      BY <1>11
    <2>4. out'[x].entries = Row(e, [entries'[e] EXCEPT !.status = t.prev])
      BY <1>es, <1>13, <2>3
    <2>5. \/ \E k \in Copies : Rewriting(x, k)'
          \/ Bringing(x, entries[e].text)' /\ Has(x, e, "key")'
      BY <1>17, <2>2
    <2> QED
      BY <1>8, <1>10, <1>13, <2>1, <2>2, <2>4, <2>5 DEF Reviving
  <1>19. Mine(x)'
    BY <1>3, <1>10, <1>14, <1>18 DEF Mine, Stages
  <1>20. Tame(x)
    BY <1>17, MovesTame
  <1> QED
    BY <1>4, <1>7, <1>9, <1>13, <1>19, <1>20, OwnStep DEF Alone

-----------------------------------------------------------------------------
(* Deleting an entry *)

\* where the deletion of an entry is at
LEMMA ErasingOps ==
  ASSUME LInv, NEW x \in Transactions, tx[x].at \in {"refs", "cascade"}
  PROVE  /\ Erasing(x) /\ tx[x].op \in {"undo", "purge"}
         /\ tx[x].op = "undo" => Undoing(x) /\ tx[x].t.fresh
  <1>1. Mine(x) /\ tx[x] \in TxRow
    BY DEF LInv, LocksType
  <1>2. tx[x].op \in {"undo", "purge"}
    BY <1>1 DEF Mine, Stages, TxRow, Ops
  <1> QED
    BY <1>1, <1>2 DEF Mine, Undoing

LEMMA LockErasedStep ==
  ASSUME LInv, NEW x \in Transactions, LockErased(x)
  PROVE  LInv'
  <1> PICK e, t, W : e = tx[x].e /\ t = tx[x].t /\ W = Wants(x)
    OBVIOUS
  <1>1. LocksType /\ Mine(x) /\ tx[x] \in TxRow /\ tx[x].at = "erase" /\ Granted(x)
    BY DEF LInv, LocksType, LockErased
  <1>2. tx[x].op = "undo"
    BY <1>1 DEF Mine, Stages, TxRow, Ops
  <1>3. Undoing(x) /\ t.fresh /\ t \in tokens /\ t.entry = e /\ entries[e].status # "unborn"
        /\ Wrote(x, <<>>, <<>>, <<>>, {}, {t})
    BY <1>1, <1>2 DEF Mine, Undoing
  <1>4. /\ UNCHANGED <<vars, out>> /\ Goto(x, "refs")
        /\ locks' = locks \cup {Grants(x, w) : w \in W}
    BY DEF LockErased, Acquire, vars
  <1>5. W = {[row |-> e, mode |-> "all"]}
    BY <1>1, WantedRows
  <1>6. e \in Entries
    BY <1>3 DEF LInv, Tables, IInv, TypeOK, Token
  <1>7. \A w \in W : Lockable(x, w)
    <2>1. \A w \in W : Present(w)
      BY <1>3, <1>5, <1>6, PresentRows DEF Modes
    <2> QED
      BY <1>1, <2>1 DEF Granted, Lockable
  <1>8. /\ \A r, m : Has(x, r, m) => Has(x, r, m)'
        /\ Has(x, e, "all")'
    <2>1. /\ \A r, m : Has(x, r, m) => Has(x, r, m)'
          /\ \A r, m : [row |-> r, mode |-> m] \in W => Has(x, r, m)'
      BY <1>4, <1>7, GrantedLocks
    <2> QED
      BY <1>5, <2>1
  <1>9. /\ tx' \in [Transactions -> TxRow] /\ \E todo : Moves(x, "refs", todo)
        /\ \A y \in Transactions \ {x} : tx'[y] = tx[y]
    <2>1. "refs" \in Ats
      BY DEF Ats
    <2> QED
      BY <1>1, <1>4, <2>1, Goes
  <1> PICK todo : Moves(x, "refs", todo)
    BY <1>9
  <1>10. /\ tx'[x].at = "refs" /\ tx'[x].e = e /\ tx'[x].op = "undo" /\ tx'[x].t = t
    BY <1>2 DEF Moves
  <1>11. OutType' /\ \A y \in Transactions : out'[y] = out[y]
    BY <1>1, <1>4, WritesSame
  <1>12. Undoing(x)'
    <2>1. t \in out'[x].removed
      BY <1>3, <1>11 DEF Undoing
    <2> QED
      BY <1>3, <1>4, <1>8, <2>1, StillUndoing
  <1>13. Erasing(x)'
    <2>1. entries'[e].status # "unborn"
      BY <1>3, <1>4 DEF vars
    <2> QED
      BY <1>3, <1>6, <1>8, <1>10, <1>11, <2>1 DEF Erasing, Wrote
  <1>14. Mine(x)'
    BY <1>3, <1>10, <1>12, <1>13 DEF Mine, Stages
  <1>15. Tame(x)
    BY <1>4, <1>10, <1>11, MovesTame, SameReturns
  <1> QED
    BY <1>4, <1>7, <1>9, <1>11, <1>14, <1>15, OwnStep DEF Alone

LEMMA CheckReferencesStep ==
  ASSUME LInv, NEW x \in Transactions, CheckReferences(x)
  PROVE  LInv'
  <1> PICK e, t, op, W : e = tx[x].e /\ t = tx[x].t /\ op = tx[x].op /\ W = {}
    OBVIOUS
  <1>1. LocksType /\ Erasing(x) /\ tx[x].at = "refs" /\ op \in {"undo", "purge"}
        /\ (op = "undo" => Undoing(x) /\ t.fresh)
    BY ErasingOps DEF LInv, CheckReferences
  <1>2. CASE Rollback(x)
    BY <1>2, RollbackStep
  <1>3. CASE ~Rollback(x)
    <2>1. /\ CopiesOf(e) = {} /\ Goto(x, "cascade") /\ UNCHANGED <<vars, locks, out>>
      BY <1>3 DEF CheckReferences, vars
    <2>2. \A r, m : Has(x, r, m) => Has(x, r, m)'
      BY <2>1, SameLocks
    <2>3. /\ tx' \in [Transactions -> TxRow] /\ \E todo : Moves(x, "cascade", todo)
          /\ \A y \in Transactions \ {x} : tx'[y] = tx[y]
      <3>1. "cascade" \in Ats
        BY DEF Ats
      <3> QED
        BY <1>1, <2>1, <3>1, Goes
    <2> PICK todo : Moves(x, "cascade", todo)
      BY <2>3
    <2>4. /\ tx'[x].at = "cascade" /\ tx'[x].e = e /\ tx'[x].op = op /\ tx'[x].t = t
      BY DEF Moves
    <2>5. OutType' /\ \A y \in Transactions : out'[y] = out[y]
      BY <1>1, <2>1, WritesSame
    <2>6. op = "undo" => Undoing(x)'
      <3> SUFFICES ASSUME op = "undo" PROVE Undoing(x)'
        OBVIOUS
      <3>1. t \in out'[x].removed
        BY <1>1, <2>5 DEF Undoing
      <3> QED
        BY <1>1, <2>1, <2>2, <3>1, StillUndoing
    <2>7. Erasing(x)'
      <3>1. UNCHANGED entries /\ CopiesOf(e)' = {}
        BY <2>1 DEF vars, CopiesOf, Live
      <3>2. e \in Entries /\ Has(x, e, "all")' /\ entries[e].status # "unborn"
            /\ (op = "purge" => entries[e].status = "trashed" /\ entries[e].deleted = "expired")
            /\ Wrote(x, <<>>, <<>>, <<>>, {}, IF op = "purge" THEN {} ELSE {t})
        BY <1>1, <2>2 DEF Erasing
      <3> QED
        BY <2>4, <2>5, <3>1, <3>2 DEF Erasing, Wrote
    <2>8. Mine(x)'
      BY <1>1, <2>4, <2>6, <2>7 DEF Mine, Stages
    <2>9. Tame(x)
      BY <2>1, <2>4, <2>5, MovesTame, SameReturns
    <2> QED
      BY <2>1, <2>3, <2>5, <2>8, <2>9, FreeStep DEF Alone
  <1> QED
    BY <1>2, <1>3

\* All tokens of the entry are taken, with their locks.
LEMMA CascadeStep ==
  ASSUME LInv, NEW x \in Transactions, Cascade(x)
  PROVE  LInv'
  <1> PICK e, t, op, W, rest, less : /\ e = tx[x].e /\ t = tx[x].t /\ op = tx[x].op
                                     /\ W = Wants(x) /\ rest = Cascaded(x)
                                     /\ less = out[x].removed
    OBVIOUS
  <1>new. PICK w : w = [out[x] EXCEPT !.entries = Row(e, [Unborn EXCEPT !.status = "gone"]),
                                      !.versions = Row(e, <<>>), !.removed = less \cup rest]
    OBVIOUS
  <1>1. LocksType /\ Erasing(x) /\ tx[x].at = "cascade" /\ op \in {"undo", "purge"}
        /\ (op = "undo" => Undoing(x) /\ t.fresh) /\ Granted(x)
    BY ErasingOps DEF LInv, Cascade
  <1>2. /\ UNCHANGED vars /\ Goto(x, "commit")
        /\ locks' = locks \cup {Grants(x, v) : v \in W}
    BY DEF Cascade, Acquire
  <1>3. W = {[row |-> r, mode |-> "all"] : r \in rest} /\ rest \subseteq tokens
    BY <1>1, WantedRows DEF Cascaded
  <1>4. tokens \subseteq Token
    BY DEF LInv, Tables, IInv, TypeOK
  <1>5. \A v \in W : Lockable(x, v)
    <2>1. ASSUME NEW r \in rest
          PROVE  \A v : v = [row |-> r, mode |-> "all"] => Present(v)
      BY <1>3, <1>4, PresentRows DEF Modes
    <2> QED
      BY <1>1, <1>3, <2>1 DEF Granted, Lockable
  <1>6. /\ \A r, m : Has(x, r, m) => Has(x, r, m)'
        /\ \A r \in rest : Has(x, r, "all")'
    <2>1. /\ \A r, m : Has(x, r, m) => Has(x, r, m)'
          /\ \A r, m : [row |-> r, mode |-> m] \in W => Has(x, r, m)'
      BY <1>2, <1>5, GrantedLocks
    <2> QED
      BY <1>3, <2>1
  <1>7. /\ tx' \in [Transactions -> TxRow] /\ \E todo : Moves(x, "commit", todo)
        /\ \A y \in Transactions \ {x} : tx'[y] = tx[y]
    <2>1. "commit" \in Ats
      BY DEF Ats
    <2> QED
      BY <1>1, <1>2, <2>1, Goes
  <1> PICK todo : Moves(x, "commit", todo)
    BY <1>7
  <1>8. /\ tx'[x].at = "commit" /\ tx'[x].e = e /\ tx'[x].op = op /\ tx'[x].t = t
    BY DEF Moves
  <1>9. /\ Wrote(x, <<>>, <<>>, <<>>, {}, IF op = "purge" THEN {} ELSE {t})
        /\ e \in Entries /\ Has(x, e, "all") /\ entries[e].status # "unborn"
        /\ (op = "purge" => entries[e].status = "trashed" /\ entries[e].deleted = "expired")
        /\ CopiesOf(e) = {}
    BY <1>1 DEF Erasing
  <1>10. DOMAIN out[x] = Parts
    BY <1>1 DEF LocksType
  <1>11. /\ w.entries = Row(e, [Unborn EXCEPT !.status = "gone"])
         /\ w.versions = Row(e, <<>>) /\ w.removed = less \cup rest
         /\ w.copies = <<>> /\ w.added = {} /\ DOMAIN w = Parts
    BY <1>9, <1>10, <1>new DEF Parts, Wrote
  <1>12. /\ OutType' /\ \A y \in Transactions \ {x} : out'[y] = out[y]
         /\ out'[x] = w
    <2>1. out' = [out EXCEPT ![x] = w]
      BY <1>1, <1>new DEF Cascade, LocksType, Parts
    <2>2. DOMAIN w.copies \subseteq Copies
      BY <1>11, Rowless
    <2> QED
      BY <1>1, <1>11, <2>1, <2>2, WritesAll
  <1>13. less \cup rest = {s \in tokens : s.entry = e}
    <2>1. less \subseteq {s \in tokens : s.entry = e}
      BY <1>1, <1>9 DEF Wrote, Undoing
    <2> QED
      BY <2>1 DEF Cascaded
  <1>14. \A s \in less \cup rest : Has(x, s, "all")'
    <2>1. \A s \in less : Has(x, s, "all")
      BY <1>1, <1>9 DEF Wrote, Undoing
    <2> QED
      BY <1>6, <2>1
  <1>15. op = "undo" => Undoing(x)'
    <2> SUFFICES ASSUME op = "undo" PROVE Undoing(x)'
      OBVIOUS
    <2>1. t \in out'[x].removed
      BY <1>1, <1>11, <1>12 DEF Undoing
    <2> QED
      BY <1>1, <1>2, <1>6, <2>1, StillUndoing
  <1>16. Erasing(x)'
    <2>1. UNCHANGED <<entries, tokens>> /\ CopiesOf(e)' = {}
      BY <1>2, <1>9 DEF vars, CopiesOf, Live
    <2>2. Wrote(x, Row(e, [Unborn EXCEPT !.status = "gone"]), <<>>, Row(e, <<>>), {},
                {s \in tokens : s.entry = e})'
      BY <1>8, <1>11, <1>12, <1>13, <2>1 DEF Wrote, Row, Unborn
    <2>3. Has(x, e, "all")'
      BY <1>6, <1>9
    <2> QED
      BY <1>8, <1>9, <1>11, <1>12, <1>13, <1>14, <2>1, <2>2, <2>3 DEF Erasing
  <1>17. Mine(x)'
    BY <1>1, <1>8, <1>15, <1>16 DEF Mine, Stages
  <1>18. Tame(x)
    BY <1>2, <1>8, <1>11, <1>12, MovesTame, SameReturns
  <1> QED
    BY <1>2, <1>5, <1>7, <1>12, <1>17, <1>18, OwnStep DEF Alone

-----------------------------------------------------------------------------
(* Handlers of one statement, and time *)

\* A step outside the transactions keeps the invariant if they stay calm.
LEMMA OutsideStep ==
  ASSUME LInv, UNCHANGED <<tx, locks, out>>, [Next]_vars, Aged,
         \A y \in Transactions : Calm(y)
  PROVE  LInv'
  <1>1. LocksType /\ Exclusive /\ Real /\ IInv
    BY DEF LInv, Tables
  <1>2. Tables'
    BY TablesStep DEF LInv
  <1>3. \A y \in Transactions : Frame(y)
    BY DEF Frame, HeldBy
  <1>4. LocksType'
    <2>1. OutType'
      BY <1>1, WritesSame
    <2> QED
      BY <1>1, <2>1, LocksTyped
  <1>5. Exclusive' /\ Real'
    BY <1>1 DEF Exclusive, Real, Aged
  <1>6. \A y \in Transactions : Mine(y)'
    BY <1>1, <1>2, <1>3, KeepMine DEF LInv, Tables
  <1>7. \A y, z \in Transactions : y # z => Apart(y, z)'
    BY <1>3, OthersApart
  <1> QED
    BY <1>2, <1>4, <1>5, <1>6, <1>7 DEF LInv

LEMMA StatementNext == Statement => Next
  BY DEF Statement, Next

LEMMA TimeNext == Time => Next
  BY DEF Time, Next

LEMMA StatementStep ==
  ASSUME LInv, Statement
  PROVE  LInv'
  <1>1. /\ UNCHANGED <<versions, tokens, tx, locks, out>>
        /\ \A k \in Copies : StatementWrites(k)
        /\ \A f \in Entries : \/ entries'[f] = entries[f]
                              \/ Exists(f) /\ entries'[f].status # "unborn"
    BY StatementTables DEF LInv, Tables, IInv
  <1>2. Aged
    BY <1>1 DEF Aged, StatementWrites, Free, Live
  <1> QED
    BY <1>1, <1>2, StatementNext, StatementCalm, OutsideStep

LEMMA TimeStep ==
  ASSUME LInv, Time
  PROVE  LInv'
  <1>1. TypeOK
    BY DEF LInv, Tables, IInv
  <1>2. UNCHANGED <<copies, tx, locks, out>>
        /\ \A f \in Entries : entries'[f].status = entries[f].status
    <2>1. ASSUME NEW t \in tokens, TokenExpires(t)
          PROVE  UNCHANGED <<entries, copies>>
      BY <2>1 DEF TokenExpires
    <2>2. ASSUME NEW e \in Entries, RetentionExpires(e)
          PROVE  UNCHANGED copies /\ \A f \in Entries : entries'[f].status = entries[f].status
      BY <1>1, <2>2 DEF RetentionExpires, TypeOK, EntryRow
    <2> QED
      BY <2>1, <2>2 DEF Time
  <1>3. Aged
    BY <1>2 DEF Aged, Free
  <1> QED
    BY <1>2, <1>3, TimeNext, TimeCalm, OutsideStep

-----------------------------------------------------------------------------
(* A commit is one step of the handler *)

LEMMA OverNone ==
  ASSUME NEW D, NEW S, NEW g \in [D -> S], NEW f, DOMAIN f = {}
  PROVE  Over(f, g) = g
  BY DEF Over

\* The tables of a commit whose writes are known.
LEMMA CommitNothing ==
  ASSUME TypeOK, NEW x \in Transactions, Commit(x)
  PROVE  /\ DOMAIN out[x].entries = {} => entries' = entries
         /\ DOMAIN out[x].versions = {} => versions' = versions
         /\ DOMAIN out[x].copies = {} => copies' = copies
  BY OverNone DEF TypeOK, Commit

LEMMA CommitRow ==
  ASSUME TypeOK, NEW x \in Transactions, Commit(x)
  PROVE  /\ \A e \in Entries : \A row :
              DOMAIN out[x].entries = {e} /\ out[x].entries[e] = row =>
                entries' = [entries EXCEPT ![e] = row]
         /\ \A e \in Entries : \A row :
              DOMAIN out[x].versions = {e} /\ out[x].versions[e] = row =>
                versions' = [versions EXCEPT ![e] = row]
         /\ \A c \in Copies : \A row :
              DOMAIN out[x].copies = {c} /\ out[x].copies[c] = row =>
                copies' = [copies EXCEPT ![c] = row]
  <1> PICK es, cs, vs : es = out[x].entries /\ cs = out[x].copies /\ vs = out[x].versions
    OBVIOUS
  <1>1. /\ entries \in [Entries -> EntryRow] /\ copies \in [Copies -> CopyRow]
        /\ versions \in [Entries -> Seq(Texts)]
    BY DEF TypeOK
  <1>2. entries' = Over(es, entries) /\ copies' = Over(cs, copies) /\ versions' = Over(vs, versions)
    BY DEF Commit
  <1>3. \A e \in Entries : \A row :
          DOMAIN es = {e} /\ es[e] = row => entries' = [entries EXCEPT ![e] = row]
    BY <1>1, <1>2 DEF Over
  <1>4. \A e \in Entries : \A row :
          DOMAIN vs = {e} /\ vs[e] = row => versions' = [versions EXCEPT ![e] = row]
    BY <1>1, <1>2 DEF Over
  <1>5. \A c \in Copies : \A row :
          DOMAIN cs = {c} /\ cs[c] = row => copies' = [copies EXCEPT ![c] = row]
    BY <1>1, <1>2 DEF Over
  <1> QED
    BY <1>3, <1>4, <1>5

LEMMA CommitOpening ==
  ASSUME LInv, NEW x \in Transactions, Commit(x), tx[x].op = "open"
  PROVE  [Next]_vars
  <1> PICK e, c : e = tx[x].e /\ c = tx[x].c
    OBVIOUS
  <1>1. TypeOK /\ tx[x].at = "commit" /\ Starting(x) /\ Opening(x)
    BY DEF LInv, Tables, IInv, Mine, Commit
  <1>2. e \in Entries /\ c \in Copies /\ Free(c) /\ Exists(e)
    BY <1>1 DEF Starting
  <1>3. tokens' = (tokens \ out[x].removed) \cup out[x].added
    BY DEF Commit
  <1>4. CASE Nothing(x)
    BY <1>1, <1>3, <1>4, CommitNothing, Rowless DEF Nothing, Wrote, vars
  <1>5. CASE ~Nothing(x)
    <2>1. PICK row : row = EditCopy(e, c)
      OBVIOUS
    <2>2. Wrote(x, <<>>, Row(c, row), <<>>, {}, {}) /\ CopiesOf(e) = {}
      BY <1>1, <1>5, <2>1 DEF Opening
    <2>3. UNCHANGED <<entries, versions, tokens>>
      BY <1>1, <1>3, <2>2, CommitNothing, Rowless DEF Wrote
    <2>4. copies' = [copies EXCEPT ![c] = row]
      <3>1. DOMAIN out[x].copies = {c} /\ out[x].copies[c] = row
        BY <2>2 DEF Wrote, Row
      <3> QED
        BY <1>1, <1>2, <3>1, CommitRow
    <2>5. OpenEdit(e)
      BY <1>2, <2>1, <2>2, <2>3, <2>4 DEF OpenEdit
    <2> QED
      BY <1>2, <2>5 DEF Next
  <1> QED
    BY <1>4, <1>5

LEMMA CommitDiscarding ==
  ASSUME LInv, NEW x \in Transactions, Commit(x), tx[x].op = "discard"
  PROVE  [Next]_vars
  <1> PICK e, c : e = tx[x].e /\ c = tx[x].c
    OBVIOUS
  <1>1. TypeOK /\ tx[x].at = "commit" /\ Starting(x) /\ Discarding(x)
    BY DEF LInv, Tables, IInv, Mine, Commit
  <1>2. e \in Entries /\ c \in Copies /\ Free(c) /\ Exists(e)
    BY <1>1 DEF Starting
  <1>3. /\ Wrote(x, <<>>, out[x].copies, <<>>, {}, {})
        /\ c \in DOMAIN out[x].copies /\ out[x].copies[c] = EditCopy(e, c)
        /\ \A k \in Taken(x) : k \in Discarded(e) /\ out[x].copies[k] = Dropped(k)
        /\ Discarded(e) \subseteq Taken(x)
    BY <1>1 DEF Discarding
  <1>4. \A k : k \in DOMAIN out[x].copies <=> k = c \/ k \in Discarded(e)
    BY <1>3 DEF Taken
  <1>5. UNCHANGED <<entries, versions, tokens>>
    BY <1>1, <1>3, CommitNothing, Rowless DEF Wrote, Commit
  <1>6. copies' = [k \in Copies |-> IF k \in DOMAIN out[x].copies THEN out[x].copies[k]
                                    ELSE copies[k]]
    BY <1>1 DEF Commit, Over, TypeOK
  <1>7. c \notin Discarded(e)
    BY <1>2 DEF Discarded, CopiesOf, Live, Free
  <1>8. copies' = [k \in Copies |-> IF k = c THEN EditCopy(e, c)
                                    ELSE IF k \in Discarded(e) THEN Dropped(k)
                                    ELSE copies[k]]
    <2>1. \A k \in Copies : (IF k \in DOMAIN out[x].copies THEN out[x].copies[k] ELSE copies[k])
                              = (IF k = c THEN EditCopy(e, c)
                                 ELSE IF k \in Discarded(e) THEN Dropped(k) ELSE copies[k])
      BY <1>3, <1>4, <1>7 DEF Taken
    <2> QED
      BY <1>6, <2>1
  <1>9. DiscardEdit(e)
    BY <1>2, <1>5, <1>8 DEF DiscardEdit
  <1> QED
    BY <1>2, <1>9 DEF Next

\* the row of a saved draft, and the entry, are those of the handler
MadeEntry(d, p) ==
  [status |-> p.status, kind |-> p.kind, text |-> p.text, revision |-> 1,
   prev |-> None, deleted |-> "no", origin |-> d]

LEMMA MadeAsNew ==
  ASSUME NEW d, NEW p, NEW old, old = Unborn,
         NEW new, new = [old EXCEPT !.status = p.status, !.kind = p.kind, !.text = p.text,
                                    !.revision = 1, !.origin = d]
  PROVE  new = MadeEntry(d, p)
  <1> DEFINE Fields == {"status", "kind", "text", "revision", "prev", "deleted", "origin"}
  <1>1. old = [status |-> "unborn", kind |-> "note", text |-> None, revision |-> 0,
               prev |-> None, deleted |-> "no", origin |-> NoDraft]
    BY DEF Unborn
  <1>2. DOMAIN new = Fields /\ new = [k \in Fields |-> new[k]]
    BY <1>1
  <1>3. /\ new.status = p.status /\ new.kind = p.kind /\ new.text = p.text
        /\ new.revision = 1 /\ new.prev = None /\ new.deleted = "no" /\ new.origin = d
    BY <1>1
  <1> QED
    BY ONLY <1>2, <1>3 DEF MadeEntry

LEMMA SavedAsNew ==
  ASSUME NEW d, NEW p, NEW row, row = [Unborn EXCEPT !.origin = d],
         NEW new, new = SavedEntry(row, p)
  PROVE  new = MadeEntry(d, p)
  <1> DEFINE Fields == {"status", "kind", "text", "revision", "prev", "deleted", "origin"}
  <1>1. row = [status |-> "unborn", kind |-> "note", text |-> None, revision |-> 0,
               prev |-> None, deleted |-> "no", origin |-> d]
    BY DEF Unborn
  <1>2. new = [row EXCEPT !.status = p.status, !.kind = p.kind, !.text = p.text,
                          !.revision = @ + 1]
    BY DEF SavedEntry
  <1>3. DOMAIN new = Fields /\ new = [k \in Fields |-> new[k]]
    BY ONLY <1>1, <1>2
  <1>4. /\ new.status = p.status /\ new.kind = p.kind /\ new.text = p.text
        /\ new.revision = 1 /\ new.prev = None /\ new.deleted = "no" /\ new.origin = d
    BY ONLY <1>1, <1>2
  <1> QED
    BY ONLY <1>3, <1>4 DEF MadeEntry

LEMMA CommitMaking ==
  ASSUME LInv, NEW x \in Transactions, Commit(x), tx[x].op = "commit", tx[x].row.entry = None
  PROVE  [Next]_vars
  <1> PICK e, c, p, old, d : /\ e = tx[x].e /\ c = tx[x].c /\ p = Final(x)
                             /\ old = tx[x].row /\ d = tx[x].row.draft
    OBVIOUS
  <1>row. PICK row : row = [Unborn EXCEPT !.origin = d]
    OBVIOUS
  <1>1. TypeOK /\ AllLinked /\ Committing(x) /\ tx[x].at = "commit"
    BY DEF LInv, Tables, IInv, Mine, Commit
  <1>2. /\ e \in Entries /\ c \in Copies /\ Live(c) /\ old = copies[c]
        /\ entries[e].status = "unborn" /\ old.entry = None /\ d = copies[c].draft
    BY <1>1 DEF Committing
  <1>3. p \in Payload /\ p \in Overlays(c)
    BY <1>1, FinalPayload
  <1>4. d.type # "edit"
    BY <1>1, <1>2 DEF AllLinked, Linked
  <1>5. row \in EntryRow /\ row.revision = 0
    <2>1. d \in DraftId
      BY <1>1, <1>2 DEF TypeOK, CopyRow
    <2> QED
      BY <1>row, <2>1, RowTypes DEF EntryRow, Unborn
  <1>prev. PICK prev : prev = "draft"
    OBVIOUS
  <1>6. out[x] = Saved(x, e, row, prev)
    BY <1>1, <1>2, <1>row, <1>prev DEF Committing
  <1>new. PICK new, gone, ver, more :
            /\ new = SavedEntry(row, p) /\ gone = Retired(old)
            /\ ver = Snapshot(e, p) /\ more = SavedTokens(e, row, prev, p, old)
    OBVIOUS
  <1>7. /\ entries' = [entries EXCEPT ![e] = new] /\ copies' = [copies EXCEPT ![c] = gone]
        /\ versions' = [versions EXCEPT ![e] = ver]
        /\ tokens' = tokens \cup more
        /\ gone = Dropped(c)
    <2>1. /\ DOMAIN out[x].entries = {e} /\ DOMAIN out[x].copies = {c}
          /\ DOMAIN out[x].versions = {e} /\ out[x].removed = {}
          /\ out[x].versions[e] = ver /\ out[x].copies[c] = gone
          /\ out[x].entries[e] = new /\ out[x].added = more
      BY <1>6, <1>new, SavedParts
    <2>2. /\ entries' = [entries EXCEPT ![e] = new] /\ copies' = [copies EXCEPT ![c] = gone]
          /\ versions' = [versions EXCEPT ![e] = ver]
      BY <1>1, <1>2, <2>1, CommitRow
    <2>3. tokens' = tokens \cup more
      BY <2>1 DEF Commit
    <2>4. gone = Dropped(c)
      BY <1>2, <1>new DEF Retired, Dropped
    <2> QED
      BY <2>2, <2>3, <2>4
  <1>8. tokens' = IF Undoable(p)
                  THEN tokens \cup {[entry |-> e, rev |-> 1, fresh |-> TRUE,
                                     prev |-> "draft", payload |-> copies[c].payload]}
                  ELSE tokens
    <2>1. row.revision + 1 = 1 /\ (row.revision = 0) = TRUE
      BY <1>5
    <2>2. more = IF Undoable(p)
                 THEN {[entry |-> e, rev |-> 1, fresh |-> TRUE, prev |-> "draft",
                        payload |-> copies[c].payload]}
                 ELSE {}
      BY <1>2, <1>new, <1>prev, <2>1 DEF SavedTokens
    <2> QED
      BY <1>7, <2>2
  <1>9. entries' = [entries EXCEPT ![e] =
          [Unborn EXCEPT !.status = p.status, !.kind = p.kind, !.text = p.text,
                         !.revision = 1, !.origin = copies[c].draft]]
    <2>1. new = MadeEntry(d, p)
      BY <1>row, <1>new, SavedAsNew
    <2>2. new = [Unborn EXCEPT !.status = p.status, !.kind = p.kind, !.text = p.text,
                               !.revision = 1, !.origin = d]
      BY <2>1, MadeAsNew
    <2> QED
      BY <1>2, <1>7, <2>2
  <1>10. CommitNew(c, e, p)
    BY <1>2, <1>3, <1>4, <1>7, <1>8, <1>9, <1>new DEF CommitNew
  <1> QED
    BY <1>2, <1>3, <1>10 DEF Next

LEMMA CommitUpdating ==
  ASSUME LInv, NEW x \in Transactions, Commit(x), tx[x].op = "commit", tx[x].row.entry # None
  PROVE  [Next]_vars
  <1> PICK e, c, p, old, d : /\ e = tx[x].e /\ c = tx[x].c /\ p = Final(x)
                             /\ old = tx[x].row /\ d = tx[x].row.draft
    OBVIOUS
  <1>row. PICK row, prev : row = entries[e] /\ prev = entries[e].status
    OBVIOUS
  <1>1. TypeOK /\ Numbered /\ Committing(x) /\ tx[x].at = "commit"
    BY DEF LInv, Tables, IInv, Mine, Commit
  <1>2. /\ e \in Entries /\ c \in Copies /\ Live(c) /\ old = copies[c] /\ old.entry = e
        /\ old.entry # None /\ (copies[c].draft.type = "edit" => copies[c].draft.entry = e)
    BY <1>1 DEF Committing
  <1>3. p \in Payload /\ p \in Overlays(c)
    BY <1>1, FinalPayload
  <1>4. /\ Exists(e) /\ tx[x].base \in {0, entries[e].revision}
        /\ entries[e].revision # MaxRevision
        /\ out[x] = Saved(x, e, row, prev)
    BY <1>1, <1>2, <1>row DEF Committing
  <1>5. PICK base \in {0, copies[c].given} : tx[x].base = IF base > 0 THEN base ELSE copies[c].base
    BY <1>1, <1>2 DEF Committing
  <1>6. /\ base \in 0..MaxRevision /\ entries[e].revision < MaxRevision
        /\ row \in EntryRow /\ row.revision > 0
    BY <1>1, <1>2, <1>4, <1>row, ConstantsAssumption
    DEF TypeOK, CopyRow, EntryRow, Numbered
  <1>new. PICK new, gone, ver, more :
            /\ new = SavedEntry(row, p) /\ gone = Retired(old)
            /\ ver = Snapshot(e, p) /\ more = SavedTokens(e, row, prev, p, old)
    OBVIOUS
  <1>7. /\ entries' = [entries EXCEPT ![e] = new] /\ copies' = [copies EXCEPT ![c] = gone]
        /\ versions' = [versions EXCEPT ![e] = ver]
        /\ tokens' = tokens \cup more
        /\ gone = Dropped(c)
    <2>1. /\ DOMAIN out[x].entries = {e} /\ DOMAIN out[x].copies = {c}
          /\ DOMAIN out[x].versions = {e} /\ out[x].removed = {}
          /\ out[x].versions[e] = ver /\ out[x].copies[c] = gone
          /\ out[x].entries[e] = new /\ out[x].added = more
      BY <1>4, <1>new, SavedParts
    <2>2. /\ entries' = [entries EXCEPT ![e] = new] /\ copies' = [copies EXCEPT ![c] = gone]
          /\ versions' = [versions EXCEPT ![e] = ver]
      BY <1>1, <1>2, <2>1, CommitRow
    <2>3. tokens' = tokens \cup more
      BY <2>1 DEF Commit
    <2>4. gone = Dropped(c)
      BY <1>2, <1>new DEF Retired, Dropped
    <2> QED
      BY <2>2, <2>3, <2>4
  <1>8. tokens' = IF Undoable(p)
                  THEN tokens \cup {[entry |-> e, rev |-> entries[e].revision + 1,
                                     fresh |-> FALSE, prev |-> entries[e].status,
                                     payload |-> copies[c].payload]}
                  ELSE tokens
    <2>1. (row.revision = 0) = FALSE
      BY <1>6 DEF EntryRow
    <2>2. more = IF Undoable(p)
                 THEN {[entry |-> e, rev |-> entries[e].revision + 1, fresh |-> FALSE,
                        prev |-> entries[e].status, payload |-> copies[c].payload]}
                 ELSE {}
      BY <1>2, <1>new, <1>row, <2>1 DEF SavedTokens
    <2> QED
      BY <1>7, <2>2
  <1>9. entries' = [entries EXCEPT ![e].status = p.status, ![e].kind = p.kind,
                                   ![e].text = p.text, ![e].revision = @ + 1]
    <2>1. entries \in [Entries -> EntryRow]
      BY <1>1 DEF TypeOK
    <2>2. new = [row EXCEPT !.status = p.status, !.kind = p.kind, !.text = p.text,
                            !.revision = @ + 1]
      BY <1>new DEF SavedEntry
    <2> QED
      BY <1>2, <1>7, <1>row, <2>1, <2>2 DEF EntryRow
  <1>10. CommitEdit(c, p, base)
    BY <1>2, <1>3, <1>4, <1>5, <1>6, <1>7, <1>8, <1>9, <1>new DEF CommitEdit, Expected
  <1> QED
    BY <1>2, <1>3, <1>6, <1>10 DEF Next

\* the row an undo rewrites
LEMMA RewrittenRow ==
  ASSUME TypeOK, NEW k \in Copies, NEW payload, NEW row,
         row = [copies[k] EXCEPT !.payload = payload, !.base = 0],
         copies' = [copies EXCEPT ![k] = row]
  PROVE  copies' = [copies EXCEPT ![k].payload = payload, ![k].base = 0]
  BY DEF TypeOK, CopyRow

LEMMA CommitReviving ==
  ASSUME LInv, NEW x \in Transactions, Commit(x), tx[x].op = "undo", ~tx[x].t.fresh
  PROVE  [Next]_vars
  <1> PICK e, c, t, payload, d : /\ e = tx[x].e /\ c = tx[x].c /\ t = tx[x].t
                                 /\ payload = tx[x].t.payload /\ d = UndoDraft(e)
    OBVIOUS
  <1>1. TypeOK /\ Undoing(x) /\ Reviving(x) /\ tx[x].at = "commit"
    BY DEF LInv, Tables, IInv, Mine, Commit
  <1>2. t \in tokens /\ t \in Token /\ t.entry = e /\ e \in Entries /\ ~t.fresh
        /\ t.payload = payload
    BY <1>1 DEF Undoing, TypeOK, Token
  <1>3. /\ out[x].versions = <<>> /\ out[x].added = {} /\ out[x].removed = {t}
        /\ out[x].entries = Row(e, [entries[e] EXCEPT !.status = t.prev])
    BY <1>1 DEF Reviving
  <1>4. versions' = versions /\ tokens' = tokens \ {t}
    BY <1>1, <1>3, CommitNothing, Rowless DEF Commit
  <1>5. entries' = [entries EXCEPT ![e].status = t.prev]
    <2>1. entries' = Over(out[x].entries, entries) /\ entries \in [Entries -> EntryRow]
      BY <1>1 DEF Commit, TypeOK
    <2>2. /\ DOMAIN out[x].entries = {e}
          /\ out[x].entries[e] = [entries[e] EXCEPT !.status = t.prev]
      BY <1>3 DEF Row
    <2>3. \A f \in Entries : entries'[f] = IF f = e THEN [entries[e] EXCEPT !.status = t.prev]
                                           ELSE entries[f]
      BY <2>1, <2>2 DEF Over
    <2>4. entries' = [f \in Entries |-> entries'[f]]
      BY <2>1 DEF Over
    <2> QED
      BY <1>2, <2>1, <2>3, <2>4
  <1>6. \E k \in Copies : UndoCopy(t, k)
    <2>1. CASE \E k \in Copies : Rewriting(x, k)
      <3>1. PICK k \in Copies : Rewriting(x, k)
        BY <2>1
      <3>row. PICK row : row = [copies[k] EXCEPT !.payload = payload, !.base = 0]
        OBVIOUS
      <3>2. k \in Rows(d) /\ out[x].copies = Row(k, row)
        BY <3>1, <3>row DEF Rewriting
      <3>3. DOMAIN out[x].copies = {k} /\ out[x].copies[k] = row
        BY <3>2 DEF Row
      <3>4. copies' = [copies EXCEPT ![k] = row]
        BY <1>1, <3>3, CommitRow
      <3>5. copies' = [copies EXCEPT ![k].payload = payload, ![k].base = 0]
        BY <1>1, <3>row, <3>4, RewrittenRow
      <3> QED
        BY <1>2, <3>2, <3>5 DEF UndoCopy
    <2>2. CASE Bringing(x, entries[e].text)
      <3>old. PICK old, new, seen : /\ old = Unused /\ seen = entries[e].text
                                    /\ new = [old EXCEPT !.state = "live", !.draft = d,
                                                !.entry = e, !.seen = seen, !.payload = payload]
        OBVIOUS
      <3>1. c \in Copies /\ Free(c) /\ Rows(d) = {}
        BY <2>2 DEF Bringing
      <3>2. out[x].copies = Row(c, Brought(e, seen, payload))
        BY <2>2, <3>old DEF Bringing
      <3>3. new = Brought(e, seen, payload)
        <4> DEFINE Fields == {"state", "draft", "entry", "base", "given", "seen", "payload"}
        <4>1. old = [state |-> "unused", draft |-> NoDraft, entry |-> None, base |-> 0,
                     given |-> 0, seen |-> None, payload |-> NoPayload]
          BY <3>old DEF Unused
        <4>2. DOMAIN new = Fields /\ new = [k \in Fields |-> new[k]]
          BY <3>old, <4>1
        <4>3. /\ new.state = "live" /\ new.draft = UndoDraft(e) /\ new.entry = e
              /\ new.base = 0 /\ new.given = 0 /\ new.seen = seen /\ new.payload = payload
          BY <3>old, <4>1
        <4> QED
          BY ONLY <4>2, <4>3 DEF Brought
      <3>4. DOMAIN out[x].copies = {c} /\ out[x].copies[c] = new
        BY <3>2, <3>3 DEF Row
      <3>5. copies' = [copies EXCEPT ![c] = new]
        BY <1>1, <3>1, <3>4, CommitRow
      <3> QED
        BY <1>2, <3>1, <3>5, <3>old DEF UndoCopy
    <2> QED
      BY <1>1, <2>1, <2>2 DEF Reviving
  <1>7. UndoEdit(t)
    BY <1>2, <1>4, <1>5, <1>6 DEF UndoEdit
  <1> QED
    BY <1>2, <1>7 DEF Next

LEMMA CommitErasing ==
  ASSUME LInv, NEW x \in Transactions, Commit(x),
         tx[x].op = "purge" \/ (tx[x].op = "undo" /\ tx[x].t.fresh)
  PROVE  [Next]_vars
  <1> PICK e : e = tx[x].e
    OBVIOUS
  <1>gone. PICK gone, none : gone = [Unborn EXCEPT !.status = "gone"] /\ none = <<>>
    OBVIOUS
  <1>1. TypeOK /\ Erasing(x) /\ tx[x].at = "commit"
    BY DEF LInv, Tables, IInv, Mine, Commit
  <1>2. /\ e \in Entries /\ CopiesOf(e) = {}
        /\ Wrote(x, Row(e, gone), <<>>, Row(e, none), {}, {t \in tokens : t.entry = e})
    BY <1>1, <1>gone DEF Erasing
  <1>3. /\ DOMAIN out[x].entries = {e} /\ out[x].entries[e] = gone
        /\ DOMAIN out[x].versions = {e} /\ out[x].versions[e] = none
        /\ DOMAIN out[x].copies = {}
    BY <1>2, Rowless DEF Wrote, Row
  <1>4. /\ entries' = [entries EXCEPT ![e] = gone] /\ versions' = [versions EXCEPT ![e] = none]
        /\ copies' = copies
    BY <1>1, <1>2, <1>3, CommitNothing, CommitRow
  <1>5. tokens' = {t \in tokens : t.entry # e}
    BY <1>2 DEF Commit, Wrote
  <1>6. Erase(e)
    BY <1>2, <1>4, <1>5, <1>gone DEF Erase, Unreferenced
  <1>7. CASE tx[x].op = "purge"
    <2>1. PurgeEntry(e)
      BY <1>1, <1>6, <1>7 DEF Erasing, PurgeEntry
    <2> QED
      BY <1>2, <2>1 DEF Next
  <1>8. CASE tx[x].op = "undo" /\ tx[x].t.fresh
    <2>1. tx[x].t \in tokens /\ tx[x].t.entry = e
      BY <1>8 DEF LInv, Mine, Undoing
    <2>2. UndoCreate(tx[x].t)
      BY <1>6, <1>8, <2>1 DEF UndoCreate
    <2> QED
      BY <2>1, <2>2 DEF Next
  <1> QED
    BY <1>7, <1>8

\* What a transaction commits is one step of its handler.
LEMMA CommitNext ==
  ASSUME LInv, NEW x \in Transactions, Commit(x)
  PROVE  [Next]_vars
  <1>1. tx[x].op \in {"open", "discard", "commit", "undo", "purge"}
    BY DEF LInv, LocksType, TxRow, Ops, Mine, Stages, Commit
  <1> QED
    BY <1>1, CommitOpening, CommitDiscarding, CommitMaking, CommitUpdating, CommitReviving,
       CommitErasing

LEMMA CommitStep ==
  ASSUME LInv, NEW x \in Transactions, Commit(x)
  PROVE  LInv'
  <1>1. TypeOK /\ Writes(x)
    BY CommitWrites DEF LInv, Tables, IInv, Commit
  <1>2. Tables'
    BY CommitNext, TablesStep DEF LInv
  <1>3. Aged
    BY <1>1, CommitTables DEF Aged, Free, Writes, WritesEntries, WritesCopy
  <1>4. \A y \in Transactions \ {x} : Calm(y)
    BY CommitCalm
  <1> QED
    BY <1>2, <1>3, <1>4, ReleaseStep DEF Commit

-----------------------------------------------------------------------------
(* The invariant holds *)

LEMMA LocksStart == LocksInit => LInv
  <1> SUFFICES ASSUME LocksInit PROVE LInv
    OBVIOUS
  <1>1. Init /\ locks = {} /\ \A x \in Transactions : tx[x] = Idle /\ out[x] = NoWrites
    BY DEF LocksInit
  <1>2. Tables
    <2>1. TypeOK
      BY <1>1, TypeInit
    <2>2. AllLinked
      BY <1>1 DEF Init, AllLinked, Linked, Live, Unused
    <2>3. Numbered
      BY <1>1 DEF Init, Numbered, Exists, Unborn
    <2> QED
      BY <2>1, <2>2, <2>3 DEF Tables, IInv
  <1>3. Idle \in TxRow /\ Idle.op = "none" /\ Idle.at = "idle" /\ Idle.c = None
        /\ Idle.row = Unused
    BY RowTypes, ConstantsAssumption DEF Idle, TxRow, Ops, Ats
  <1>4. DOMAIN NoWrites = Parts /\ NoWrites.copies = <<>>
    BY DEF NoWrites, Parts
  <1>5. LocksType
    <2>1. tx \in [Transactions -> TxRow]
      BY <1>3 DEF LocksInit
    <2>2. DOMAIN out = Transactions /\ out = [x \in Transactions |-> out[x]]
      BY DEF LocksInit
    <2> QED
      BY <1>1, <1>4, <2>1, <2>2, Rowless DEF LocksType
  <1>6. Exclusive /\ Real
    BY <1>1 DEF Exclusive, Real
  <1>7. \A x \in Transactions : Mine(x)
    BY <1>1, <1>3 DEF Mine, Resting, HeldBy, Stages
  <1>8. ASSUME NEW x \in Transactions, NEW y \in Transactions
        PROVE  Apart(x, y)
    <2>1. ~Fresh(x) /\ tx[x].c \notin Copies
      BY <1>1, <1>3, ConstantsAssumption DEF Fresh
    <2>2. ~Returns(x)
      BY <1>1, <1>4, Rowless DEF Returns, Inserting
    <2> QED
      BY <2>1, <2>2 DEF Apart
  <1> QED
    BY <1>2, <1>5, <1>6, <1>7, <1>8 DEF LInv

LEMMA ArriveStep ==
  ASSUME LInv, NEW x \in Transactions, Arrive(x)
  PROVE  LInv'
  <1>1. ASSUME NEW e \in Entries, BeginOpen(x, e) \/ BeginDiscard(x, e) \/ BeginPurge(x, e)
        PROVE  LInv'
    BY <1>1, BeginEditStep, BeginPurgeStep DEF BeginOpen, BeginDiscard
  <1>2. ASSUME NEW c \in Copies, NEW p \in Requests \cup {NoPayload},
               NEW base \in 0..MaxRevision, BeginCommit(x, c, p, base)
        PROVE  LInv'
    BY <1>2, BeginCommitStep
  <1>3. ASSUME NEW t \in tokens, BeginUndo(x, t)
        PROVE  LInv'
    BY <1>3, BeginUndoStep
  <1> QED
    BY <1>1, <1>2, <1>3 DEF Arrive

LEMMA RunStep ==
  ASSUME LInv, NEW x \in Transactions, Run(x)
  PROVE  LInv'
  BY LockRowStep, ReadEntryStep, ResumeStep, SweepStep, DeleteRowStep, InsertEntryStep,
     UpdateEntryStep, UpsertCopyStep, CheckEntryStep, PutBackStep, LockErasedStep,
     CheckReferencesStep, CascadeStep, CommitStep DEF Run

LEMMA LocksStep == LInv /\ [LocksNext]_locksVars => LInv'
  <1>1. ASSUME LInv, NEW x \in Transactions, Abort(x)
        PROVE  LInv'
    BY <1>1, RollbackStep DEF Abort
  <1>2. ASSUME LInv, UNCHANGED locksVars
        PROVE  LInv'
    <2>1. UNCHANGED vars /\ UNCHANGED <<tx, locks, out>>
      BY <1>2 DEF locksVars
    <2> QED
      BY <1>2, <2>1, StillAged, StillCalm, OutsideStep
  <1> QED
    BY <1>1, <1>2, ArriveStep, RunStep, StatementStep, TimeStep DEF LocksNext

\* However the statements of concurrent transactions interleave, what each has
\* read and written is still so when it commits: its locks keep the others away.
THEOREM LocksInductive == LocksSpec => []LInv
  BY LocksStart, LocksStep, PTL DEF LocksSpec

-----------------------------------------------------------------------------
(* Every transaction is atomic *)

\* Every step of the locks is a step of the handlers, or none.
LEMMA LocksRefine == LInv /\ [LocksNext]_locksVars => [Next]_vars
  <1>1. ASSUME NEW x \in Transactions, Arrive(x)
        PROVE  UNCHANGED vars
    BY <1>1 DEF Arrive, BeginOpen, BeginDiscard, BeginEdit, BeginPurge, BeginCommit,
                BeginUndo, Begin
  <1>2. ASSUME NEW x \in Transactions, Run(x), ~Commit(x)
        PROVE  UNCHANGED vars
    BY <1>2 DEF Run, LockRow, ReadEntry, Resume, Sweep, DeleteRow, InsertEntry, UpdateEntry,
                UpsertCopy, CheckEntry, PutBack, LockErased, CheckReferences, Cascade,
                Rollback, vars
  <1>3. ASSUME NEW x \in Transactions, Abort(x)
        PROVE  UNCHANGED vars
    BY <1>3 DEF Abort, Rollback
  <1>4. ASSUME UNCHANGED locksVars
        PROVE  UNCHANGED vars
    BY <1>4 DEF locksVars
  <1> QED
    BY <1>1, <1>2, <1>3, <1>4, CommitNext, StatementNext, TimeNext DEF LocksNext

\* The statements of concurrent transactions, interleaved in whatever way,
\* change the tables as the handlers do one after the other.
THEOREM TransactionsAreAtomic == LocksSpec => Atomic
  <1>1. LocksInit => Init
    BY DEF LocksInit
  <1> QED
    BY <1>1, LocksInductive, LocksRefine, PTL DEF LocksSpec, Atomic, Spec

\* So what the editors are promised holds of the statements as well: no commit
\* that runs beside others overwrites a text its editor was not shown, and none
\* of the rows an opening, a discard or an undo inserts beside others brings a
\* retired edit back, or a second one.
THEOREM PromiseUnderLocks ==
  LocksSpec => KeepsPromise /\ NoLostUpdate /\ RetiredEditsStayRetired /\ []OneEditPerEntry
  BY TransactionsAreAtomic, PromiseKept, NoUpdateIsLost, RetiredStaysRetired, EditsStayApart
  DEF Atomic

-----------------------------------------------------------------------------
(* Who waits for whom *)

\* Opening and committing wait for an entry only while they hold no entry.
LEMMA WaitsWithCopies ==
  ASSUME LInv, NEW x \in Transactions, NEW y, Waits(x, y), tx[x].op \in {"open", "commit"}
  PROVE  OnlyCopies(x)
  <1>1. tx[x].at \in Stages(tx[x].op) /\ Mine(x)
    BY DEF LInv, Mine
  <1>2. tx[x].at \in {"rows", "resume", "insert", "entry", "commit"}
        /\ (tx[x].at = "rows" => tx[x].op = "open")
        /\ (tx[x].at = "entry" => tx[x].op = "commit")
    BY <1>1 DEF Stages
  <1>3. tx[x].at \in {"resume", "insert", "commit"} => Wants(x) = {}
    BY WantedRows
  <1>4. tx[x].at \in {"rows", "entry"}
    BY <1>2, <1>3 DEF Waits
  <1> QED
    BY <1>1, <1>2, <1>4 DEF Mine, Starting, Committing

\* A commit and the opening of an edit, or another commit, never wait for each
\* other, however many transactions run: each locks the working copies first,
\* and a commit then waits for the entry alone.
THEOREM NoDeadlockOfCommits == LocksSpec => []OpenAndCommitNeverDeadlock
  <1>1. ASSUME LInv PROVE LocksOK
    <2>1. ASSUME NEW x \in Transactions, ~Busy(x)
          PROVE  out[x] = NoWrites /\ \A l \in locks : l.tx # x
      BY <1>1, <2>1, NotBusy DEF Resting, HeldBy
    <2> QED
      BY <1>1, <2>1 DEF LocksOK, LInv, Exclusive
  <1>2. ASSUME LInv, NEW x \in Transactions, NEW y \in Transactions,
               tx[x].op \in {"open", "commit"}, tx[y].op = "commit",
               Waits(x, y), Waits(y, x)
        PROVE  FALSE
    <2>e. PICK e : e = tx[y].e
      OBVIOUS
    <2>1. OnlyCopies(x)
      BY <1>2, WaitsWithCopies
    <2>2. Mine(y) /\ tx[y].at \in {"insert", "entry", "commit"} /\ e \in Entries
      BY <1>2, <2>e DEF LInv, Mine, Stages, Committing
    <2>3. /\ tx[y].at \in {"insert", "commit"} => Wants(y) = {}
          /\ tx[y].at = "entry" => Wants(y) = {[row |-> e, mode |-> "all"]}
      BY <2>e, WantedRows
    <2>4. \E l \in locks : l.row = e /\ l.tx = x
      BY <1>2, <2>2, <2>3 DEF Waits, Holders
    <2> QED
      BY <2>1, <2>2, <2>4, IdsAssumption DEF OnlyCopies, HeldBy
  <1>3. LInv => OpenAndCommitNeverDeadlock
    BY <1>1, <1>2 DEF OpenAndCommitNeverDeadlock, Deadlocked
  <1> QED
    BY <1>3, LocksInductive, PTL
=============================================================================

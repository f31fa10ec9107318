------------------------------ MODULE EditLocks ------------------------------
(***************************************************************************)
(* The statements inside the transactions of WorkingCopies.                *)
(*                                                                         *)
(* The handlers with several statements run them one by one, at READ       *)
(* COMMITTED: a statement sees what was committed when it starts, takes    *)
(* the row locks it needs, and waits for those others hold.  What a        *)
(* transaction writes stays in `out` until it commits.  Handlers of one    *)
(* statement, and the passing of time, are the actions of WorkingCopies,   *)
(* once no lock is in their way.                                           *)
(*                                                                         *)
(* Any transaction may be rolled back at any statement: the client goes    *)
(* away (r.Context()), the process dies, or the server's deadlock detector *)
(* picks it.                                                               *)
(***************************************************************************)
EXTENDS WorkingCopies   \* whose tables are the committed ones

CONSTANT Transactions   \* those that run at one time

\* A row is named by its id: those of the tables are different.
ASSUME IdsAssumption ==
  /\ Entries \cap Copies = {} /\ Token \cap (Entries \cup Copies) = {}
  /\ None \notin Token

VARIABLES
  tx,      \* what each transaction is at
  locks,   \* the row locks they hold
  out      \* what they have written

locksVars == <<vars, tx, locks, out>>

-----------------------------------------------------------------------------
(* Locks *)

\* FOR KEY SHARE, UPDATE of other columns, and FOR UPDATE or DELETE
Modes == {"key", "write", "all"}

Conflict(m, n) == "all" \in {m, n} \/ (m = "write" /\ n = "write")

\* rows are named by the id of their entry or copy, or by the token
Holders(r, m) == {l.tx : l \in {k \in locks : k.row = r /\ Conflict(k.mode, m)}}

CanLock(x, w) == Holders(w.row, w.mode) \subseteq {x}

NoWrites == [entries |-> <<>>, copies |-> <<>>, versions |-> <<>>,
             added |-> {}, removed |-> {}]

\* the rows f writes over the table g
Over(f, g) == [k \in DOMAIN g |-> IF k \in DOMAIN f THEN f[k] ELSE g[k]]

Row(k, row) == [j \in {k} |-> row]

\* ... and one more row
With(f, k, row) == [j \in DOMAIN f \cup {k} |-> IF j = k THEN row ELSE f[j]]

-----------------------------------------------------------------------------
(* Transactions *)

\* op: the handler; at: its next statement; e, c, t: the entry, copy and token
\* it is about; p, base: the request; row: the copy as it was read; todo: the
\* rows its statement has still to lock
Idle == [op |-> "none", at |-> "idle", e |-> None, c |-> None, t |-> None,
         p |-> NoPayload, base |-> 0, row |-> Unused, todo |-> {}]

Busy(x) == tx[x].at # "idle"

\* ids for new rows; a request for which the bounded sets have none left does
\* not arrive
NewCopies  == {c \in Copies : Free(c)} \ {tx[x].c : x \in Transactions}
NewEntries == {e \in Entries : entries[e].status = "unborn"} \ {tx[x].e : x \in Transactions}

Want(rows, m) == {[row |-> r, mode |-> m] : r \in rows}
Grants(x, w)  == [tx |-> x, row |-> w.row, mode |-> w.mode]

\* mutant: an earlier version read the copy without locking it
CopyUnlocked(c) == {}

\* SELECT ... FOR UPDATE of the copy to commit
CopyLock(c) == Want({c}, "all")

\* SELECT ... FOR UPDATE of the entry a commit updates
EntryLock(x) == Want({tx[x].e}, "all")

\* mutant: FOR UPDATE here as well
ResumeLocked(x) == Want(CopiesOf(tx[x].e), "all")

\* the row to resume is read without a lock
ResumeLock(x) == {}

\* the other tokens of an entry, which its deletion takes along
Cascaded(x) == {t \in tokens : t.entry = tx[x].e} \ out[x].removed

\* the rows, and how, the next statement locks
Wants(x) ==
  CASE tx[x].at \in {"rows", "delete"} -> IF tx[x].todo = {} THEN Want({tx[x].e}, "all")
                                          ELSE Want(tx[x].todo, "all")
    [] tx[x].at = "entry"   -> EntryLock(x)
    [] tx[x].at = "erase"   -> Want({tx[x].e}, "all")
    [] tx[x].at = "resume"  -> ResumeLock(x)
    [] tx[x].at = "upsert"  -> Want(Rows(UndoDraft(tx[x].e)), "write")
    [] tx[x].at = "fk"      -> Want({tx[x].e}, "key")
    [] tx[x].at = "status"  -> Want({tx[x].e}, "write")
    [] tx[x].at = "refs"    -> Want(CopiesOf(tx[x].e), "key")
    [] tx[x].at = "cascade" -> Want(Cascaded(x), "all")
    [] OTHER -> {}

\* the statement gets all its locks
Granted(x) == \A w \in Wants(x) : CanLock(x, w)
Acquire(x) == locks' = locks \cup {Grants(x, w) : w \in Wants(x)}

LocksInit ==
  /\ Init
  /\ tx = [x \in Transactions |-> Idle]
  /\ locks = {}
  /\ out = [x \in Transactions |-> NoWrites]

\* a transaction that waits for its first lock holds nothing yet: it starts
\* when it gets it
Begin(x, wants, request) ==
  /\ ~Busy(x) /\ \A w \in wants : CanLock(x, w)
  /\ tx' = [tx EXCEPT ![x] = request]
  /\ locks' = locks \cup {Grants(x, w) : w \in wants}
  /\ UNCHANGED vars

Goto(x, at) == tx' = [tx EXCEPT ![x].at = at]

Release(x) ==
  /\ tx' = [tx EXCEPT ![x] = Idle]
  /\ locks' = {l \in locks : l.tx # x}
  /\ out' = [out EXCEPT ![x] = NoWrites]

\* mutant: an early return that leaves the transaction open
RollbackForgotten(x) ==
  /\ tx' = [tx EXCEPT ![x] = Idle]
  /\ UNCHANGED <<entries, copies, versions, tokens, locks, out>>

\* defer tx.Rollback()
Rollback(x) == Release(x) /\ UNCHANGED vars

\* COMMIT, and the answer to the client
Commit(x) ==
  /\ tx[x].at = "commit"
  /\ entries' = Over(out[x].entries, entries)
  /\ copies' = Over(out[x].copies, copies)
  /\ versions' = Over(out[x].versions, versions)
  /\ tokens' = (tokens \ out[x].removed) \cup out[x].added
  /\ Release(x)

Abort(x) == Busy(x) /\ Rollback(x)

-----------------------------------------------------------------------------
(* Opening and discarding an edit *)

\* the handler looks the entry up before it starts the transaction
BeginEdit(x, op, e) ==
  /\ Exists(e)
  /\ \E c \in NewCopies :
       Begin(x, {}, [Idle EXCEPT !.op = op, !.at = "rows", !.e = e, !.c = c,
                                 !.todo = Discarded(e)])
  /\ UNCHANGED out

BeginOpen(x, e)    == BeginEdit(x, "open", e)
BeginDiscard(x, e) == BeginEdit(x, "discard", e)

\* one row after the other, in any order; a row that is gone by now is skipped
LockRow(x) ==
  /\ tx[x].at = "rows"
  /\ \E w \in Wants(x) :
       /\ w.row \in tx[x].todo /\ CanLock(x, w)
       /\ tx' = [tx EXCEPT ![x].todo = @ \ {w.row}]
       /\ locks' = IF Live(w.row) THEN locks \cup {Grants(x, w)} ELSE locks
  /\ UNCHANGED <<entries, copies, versions, tokens, out>>

\* the formal row; the new copy is made from what it says now
ReadEntry(x) ==
  LET e == tx[x].e IN
  /\ tx[x].at = "rows" /\ tx[x].todo = {} /\ Granted(x)
  /\ IF ~Exists(e) THEN Rollback(x)
     ELSE /\ out' = [out EXCEPT ![x].copies = Row(tx[x].c, EditCopy(e, tx[x].c))]
          /\ Goto(x, IF tx[x].op = "open" THEN "resume" ELSE "sweep")
          /\ Acquire(x)
          /\ UNCHANGED vars

\* an edit is resumed, or the new copy inserted
Resume(x) ==
  /\ tx[x].at = "resume" /\ Granted(x)
  /\ out' = IF CopiesOf(tx[x].e) = {} THEN out ELSE [out EXCEPT ![x] = NoWrites]
  /\ Goto(x, "commit")
  /\ Acquire(x)
  /\ UNCHANGED vars

\* the DELETE of a discard finds its rows with a snapshot of its own ...
Sweep(x) ==
  /\ tx[x].at = "sweep"
  /\ tx' = [tx EXCEPT ![x].todo = Discarded(tx[x].e),
                      ![x].at = IF Discarded(tx[x].e) = {} THEN "commit" ELSE "delete"]
  /\ UNCHANGED <<entries, copies, versions, tokens, locks, out>>

\* ... and may wait for rows it had not locked before
DeleteRow(x) ==
  /\ tx[x].at = "delete"
  /\ \E w \in Wants(x) :
       /\ CanLock(x, w)
       /\ tx' = [tx EXCEPT ![x].todo = @ \ {w.row},
                           ![x].at = IF tx[x].todo = {w.row} THEN "commit" ELSE "delete"]
       /\ IF Live(w.row)
          THEN /\ locks' = locks \cup {Grants(x, w)}
               /\ out' = [out EXCEPT ![x].copies = With(@, w.row, Dropped(w.row))]
          ELSE UNCHANGED <<locks, out>>
  /\ UNCHANGED vars

-----------------------------------------------------------------------------
(* Committing a working copy *)

\* p = NoPayload inherits the stored payload; without the copy, or with one
\* of another entry, the answer is 409
BeginCommit(x, c, p, base) ==
  /\ Live(c) /\ base \in {0, copies[c].given}
  /\ copies[c].draft.type = "edit" => copies[c].draft.entry = copies[c].entry
  /\ \E e \in IF copies[c].entry = None THEN NewEntries ELSE {copies[c].entry} :
       Begin(x, CopyLock(c),
         [Idle EXCEPT !.op = "commit", !.e = e, !.c = c, !.row = copies[c], !.p = p,
                      !.at = IF copies[c].entry = None THEN "insert" ELSE "entry",
                      !.base = Expected(c, base)])
  /\ UNCHANGED out

\* what a commit leaves in the tables: the entry, a version, an undo token, and
\* no copy any more
Saved(x, e, row, prev) ==
  LET p == IF tx[x].p = NoPayload THEN tx[x].row.payload ELSE tx[x].p IN
  [entries |-> Row(e, [row EXCEPT !.status = p.status, !.kind = p.kind,
                                  !.text = p.text, !.revision = @ + 1]),
   copies |-> Row(tx[x].c, [Unused EXCEPT !.state = "dropped", !.draft = tx[x].row.draft]),
   versions |-> Row(e, Snapshot(e, p)),
   added |-> IF Undoable(p)
             THEN {[entry |-> e, rev |-> row.revision + 1, fresh |-> row.revision = 0,
                    prev |-> prev, payload |-> tx[x].row.payload]}
             ELSE {},
   removed |-> {}]

InsertEntry(x) ==
  /\ tx[x].at = "insert"
  /\ out' = [out EXCEPT ![x] =
       Saved(x, tx[x].e, [Unborn EXCEPT !.origin = tx[x].row.draft], "draft")]
  /\ Goto(x, "commit")
  /\ UNCHANGED <<entries, copies, versions, tokens, locks>>

UpdateEntry(x) ==
  LET e == tx[x].e IN
  /\ tx[x].at = "entry" /\ Granted(x)
  /\ IF \/ ~Exists(e)
        \/ tx[x].base \notin {0, entries[e].revision}
        \/ entries[e].revision = MaxRevision
     THEN Rollback(x)
     ELSE /\ out' = [out EXCEPT ![x] = Saved(x, e, entries[e], entries[e].status)]
          /\ Goto(x, "commit")
          /\ Acquire(x)
          /\ UNCHANGED vars

-----------------------------------------------------------------------------
(* Undo *)

\* DELETE ... RETURNING: the second undo with a token waits, and finds nothing
BeginUndo(x, t) ==
  /\ t \in tokens
  /\ \E c \in IF Rows(UndoDraft(t.entry)) = {} THEN NewCopies ELSE {None} :
       Begin(x, Want({t}, "all"),
         [Idle EXCEPT !.op = "undo", !.e = t.entry, !.c = c, !.t = t,
                      !.at = IF t.fresh THEN "erase" ELSE "upsert"])
  /\ out' = [out EXCEPT ![x].removed = {t}]

\* transactions that inserted a row with this draft id, and have not committed
Inserting(d) == {x \in Transactions : \E c \in DOMAIN out[x].copies :
                   Free(c) /\ out[x].copies[c].draft = d}

UpsertCopy(x) ==
  LET d == UndoDraft(tx[x].e) IN
  /\ tx[x].at = "upsert" /\ Granted(x) /\ Inserting(d) = {}
  /\ \/ \E c \in Rows(d) :
          /\ out' = [out EXCEPT ![x].copies =
               Row(c, [copies[c] EXCEPT !.payload = tx[x].t.payload, !.base = 0])]
          /\ Goto(x, "status")
     \/ /\ Rows(d) = {} /\ tx[x].c # None
        /\ out' = [out EXCEPT ![x].copies =
             Row(tx[x].c, [Unused EXCEPT !.state = "live", !.draft = d, !.entry = tx[x].e,
                                      !.payload = tx[x].t.payload])]
        /\ Goto(x, "fk")
  /\ Acquire(x)
  /\ UNCHANGED vars

\* the foreign key of the inserted row
CheckEntry(x) ==
  /\ tx[x].at = "fk" /\ Granted(x)
  /\ IF ~Exists(tx[x].e) THEN Rollback(x)
     ELSE Goto(x, "status") /\ Acquire(x) /\ UNCHANGED <<entries, copies, versions, tokens, out>>

\* the old status; seen is history, as of now
PutBack(x) ==
  LET e == tx[x].e IN
  /\ tx[x].at = "status" /\ Granted(x)
  /\ out' = [out EXCEPT
       ![x].entries = Row(e, [entries[e] EXCEPT !.status = tx[x].t.prev]),
       ![x].copies = [c \in DOMAIN @ |->
         IF Free(c) THEN [@[c] EXCEPT !.seen = entries[e].text] ELSE @[c]]]
  /\ Goto(x, "commit")
  /\ Acquire(x)
  /\ UNCHANGED vars

-----------------------------------------------------------------------------
(* Deleting an entry: purge, and the undo of its creation *)

BeginPurge(x, e) ==
  /\ entries[e].status = "trashed" /\ entries[e].deleted = "expired"
  /\ Begin(x, Want({e}, "all"), [Idle EXCEPT !.op = "purge", !.at = "refs", !.e = e])
  /\ UNCHANGED out

LockErased(x) ==
  /\ tx[x].at = "erase" /\ Granted(x)
  /\ Goto(x, "refs")
  /\ Acquire(x)
  /\ UNCHANGED <<entries, copies, versions, tokens, out>>

\* the foreign key of entry_working_copies refuses, or lets the entry go
CheckReferences(x) ==
  /\ tx[x].at = "refs"
  /\ \/ CopiesOf(tx[x].e) = {} /\ Goto(x, "cascade")
                                 /\ UNCHANGED <<entries, copies, versions, tokens, locks, out>>
     \/ \E w \in Wants(x) : CanLock(x, w) /\ Rollback(x)

Cascade(x) ==
  LET e == tx[x].e IN
  /\ tx[x].at = "cascade" /\ Granted(x)
  /\ out' = [out EXCEPT ![x].entries = Row(e, [Unborn EXCEPT !.status = "gone"]),
                        ![x].versions = Row(e, <<>>),
                        ![x].removed = @ \cup Cascaded(x)]
  /\ Goto(x, "commit")
  /\ Acquire(x)
  /\ UNCHANGED vars

-----------------------------------------------------------------------------
(* Handlers of one statement, and time *)

\* the statement waits for the locks on the rows it writes, and a new row gets
\* an id of its own
Unlocked ==
  /\ \A c \in Copies : copies'[c] # copies[c] =>
       Holders(c, "all") = {} /\ (Free(c) => c \in NewCopies)
  /\ \A e \in Entries : entries'[e] # entries[e] => Holders(e, "write") = {}

Statement ==
  /\ \/ \E d \in Drafts, p \in Requests : SaveDraft(NewDraft(d), p)
     \/ \E e \in Entries, p \in Requests :
          Inserting(UndoDraft(e)) = {} /\ SaveDraft(UndoDraft(e), p)
     \/ \E c \in Copies, p \in Requests : SaveEdit(c, p)
     \/ \E c \in Copies, p \in Requests, base \in 0..MaxRevision : PatchCopy(c, p, base)
     \/ \E c \in Copies : DeleteCopy(c)
     \/ \E e \in Entries : \E n \in DOMAIN versions[e] : RestoreVersion(e, n)
     \/ \E e \in Entries : TrashEntry(e) \/ RestoreEntry(e)
  /\ Unlocked
  /\ UNCHANGED <<tx, locks, out>>

\* expires_at is compared with the start of the transaction, so a token that
\* was taken has not expired; no transaction lasts thirty days
Time ==
  /\ \/ \E t \in tokens : (\A x \in Transactions : t \notin out[x].removed) /\ TokenExpires(t)
     \/ \E e \in Entries : (\A x \in Transactions : ~Busy(x)) /\ RetentionExpires(e)
  /\ UNCHANGED <<tx, locks, out>>

-----------------------------------------------------------------------------
Arrive(x) ==
  \/ \E e \in Entries : BeginOpen(x, e) \/ BeginDiscard(x, e) \/ BeginPurge(x, e)
  \/ \E c \in Copies, p \in Requests \cup {NoPayload}, base \in 0..MaxRevision :
       BeginCommit(x, c, p, base)
  \/ \E t \in tokens : BeginUndo(x, t)

Run(x) ==
  \/ LockRow(x) \/ ReadEntry(x) \/ Resume(x) \/ Sweep(x) \/ DeleteRow(x)
  \/ InsertEntry(x) \/ UpdateEntry(x)
  \/ UpsertCopy(x) \/ CheckEntry(x) \/ PutBack(x)
  \/ LockErased(x) \/ CheckReferences(x) \/ Cascade(x)
  \/ Commit(x)

LocksNext ==
  \/ \E x \in Transactions : Arrive(x)
  \/ \E x \in Transactions : Run(x)
  \/ \E x \in Transactions : Abort(x)
  \/ Statement
  \/ Time

LocksSpec == LocksInit /\ [][LocksNext]_locksVars

-----------------------------------------------------------------------------
(* Waiting *)

\* x waits for a lock y holds, or for the unique key y is inserting
Waits(x, y) ==
  /\ x # y
  /\ \/ \E w \in Wants(x) : y \in Holders(w.row, w.mode)
     \/ tx[x].at = "upsert" /\ y \in Inserting(UndoDraft(tx[x].e))

Deadlocked(x, y) == Waits(x, y) /\ Waits(y, x)

\* deadlock_timeout passes and the server picks a victim
DetectDeadlock(x) == (\E y \in Transactions : Deadlocked(x, y)) /\ Rollback(x)

\* A statement that can run does; one that waits for a lock is queued for it,
\* and gets it in the end; deadlocks are detected.
Fairness ==
  /\ \A x \in Transactions : SF_locksVars(Run(x))
  /\ WF_locksVars(\E x \in Transactions : DetectDeadlock(x))

FairSpec == LocksSpec /\ Fairness

-----------------------------------------------------------------------------
(* Properties *)

\* Transactions hold locks and have uncommitted writes only while they run,
\* and no two of them hold the same row in conflicting modes.
LocksOK ==
  /\ \A x \in Transactions : ~Busy(x) => out[x] = NoWrites /\ \A l \in locks : l.tx # x
  /\ \A k, l \in locks : k.row = l.row /\ k.tx # l.tx => ~Conflict(k.mode, l.mode)

\* However the statements of concurrent handlers interleave, each transaction
\* changes the tables as the single step of WorkingCopies for its handler does
\* (or not at all): the row locks are enough.
Atomic == Spec

\* Locks are held as LocksOK says, and a commit and the opening of an edit never
\* wait for each other: both lock the working copies before the entry.
OpenAndCommitNeverDeadlock ==
  LocksOK /\ \A x, y \in Transactions :
    tx[x].op \in {"open", "commit"} /\ tx[y].op = "commit" => ~Deadlocked(x, y)

\* Every request is answered: no handler waits for a lock for ever.
EveryRequestEnds == \A x \in Transactions : Busy(x) ~> ~Busy(x)

\* Opening, discarding and committing take their locks in the order working
\* copy, entry: none holds the entry and waits for a copy held by another that
\* waits for the entry.
OneLockOrder ==
  \A x, y \in Transactions :
    tx[x].op \in {"open", "discard", "commit"} /\ tx[y].op \in {"open", "discard", "commit"} =>
      ~ (/\ Deadlocked(x, y)
         /\ \E w \in Wants(x) : w.row \in Entries)
=============================================================================

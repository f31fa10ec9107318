----------------------------- MODULE MCEditLocks -----------------------------
(* Small instances of EditLocks for TLC: one entry, a note or an article.    *)
EXTENDS EditLocks

CONSTANTS t1, t2

VARIABLE kind   \* of everything that is saved in a behaviour

NotePublic    == [text |-> t1, kind |-> "note", status |-> "public"]
ArticlePublic == [text |-> t1, kind |-> "article", status |-> "public"]

\* notes can be undone, articles have versions to restore
Payloads == {NotePublic, ArticlePublic}

OneKind ==
  /\ \A e \in Entries : entries[e].status = "unborn" \/ entries[e].kind = kind
  /\ \A c \in Copies : copies[c].payload = NoPayload \/ copies[c].payload.kind = kind
  /\ \A x \in Transactions : tx[x].p = NoPayload \/ tx[x].p.kind = kind

MCInit == LocksInit /\ kind \in {"note", "article"}
MCNext == LocksNext /\ UNCHANGED kind /\ OneKind'
MCSpec == MCInit /\ [][MCNext]_<<locksVars, kind>> /\ Fairness
=============================================================================

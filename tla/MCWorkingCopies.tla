--------------------------- MODULE MCWorkingCopies ---------------------------
(* Small instances of WorkingCopies for TLC. *)
EXTENDS WorkingCopies, TLC

CONSTANTS t1, t2

NotePublic    == [text |-> t1, kind |-> "note", status |-> "public"]
ArticlePublic == [text |-> t2, kind |-> "article", status |-> "public"]
ArticleDraft  == [text |-> t1, kind |-> "article", status |-> "draft"]

\* a published note can be undone, an article keeps versions; of both texts
MCRequests == {NotePublic, ArticlePublic, ArticleDraft}

Symmetry == Permutations(Entries) \cup Permutations(Copies)
=============================================================================

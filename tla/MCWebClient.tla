----------------------------- MODULE MCWebClient -----------------------------
(* Small instances of the parts of WebClient for TLC. *)
EXTENDS WebClient, TLC

CONSTANTS e1, e2, e3, u1, u2, m1, m2   \* entries, uploads, items

Symmetry == Permutations({u1, u2}) \cup Permutations({m1, m2})

\* assets of today, past, to come, of many years, and one that is not valid
MCPeriods == {<<20000, 20000>>, <<19600, 19999>>, <<20001, 20031>>, <<19990, 32000>>,
              <<20005, 20001>>}

MCMonths == 1..3
MCThisDay == <<1, 2>>
MCRecorded == {<<1, 1>>, <<1, 2>>, <<2, 1>>, <<3, 2>>}
MCDays == 0..4

\* two spellings of one tag, and another
MCTags == {<<"go", 0>>, <<"go", 1>>, <<"py", 0>>}
MCSuggestions == <<<<"go", 0>>, <<"py", 0>>>>

\* documents of few lines of every kind, and longer ones of the kinds that have ends
MCDocuments ==
  LET raw    == {"blank", "raw", "rawEnd", "comment", "commentEnd"}
      code   == {"fence", "long", "tilde", "lang", "inline"}
      behind == {"remark", "fence", "blank", "inline"}
  IN  UNION {[1..n -> Protected!Kinds] : n \in 1..3}
        \cup [1..4 -> raw \cup {"text"}] \cup [1..5 -> raw] \cup [1..4 -> code]
        \cup [1..6 -> behind]
=============================================================================

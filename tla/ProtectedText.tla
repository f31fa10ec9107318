--------------------------- MODULE ProtectedText ---------------------------
(***************************************************************************)
(* What the rich text editor does to Markdown it has no words for          *)
(* (app/admin/markdown-compat.ts): blocks of it are replaced by tokens     *)
(* before a text is edited, and put back when it is saved.                 *)
(* A line is represented by what the scanner sees in it, with code spans   *)
(* masked:                                                                 *)
(*   "blank", "text", "row" (with a |), "cont" (indented by four),         *)
(*   "fence" (```), "long" (````), "tilde" (~~~), "lang" (``` and a word), *)
(*   "info" (``` and several words),                                       *)
(*   "raw" and "rawEnd" (<pre> and </pre>, or a processing instruction),   *)
(*   "comment" and "commentEnd" (only the opening, only the closing),      *)
(*   "remark" (a whole comment),                                           *)
(*   "note" (a footnote definition), "open" and "close" (a directive),     *)
(*   "math" (a line with $$ only), "delim" (below an aligned table's head),*)
(*   "inline" (a tag, a footnote mark or a template in a line of text).    *)
(***************************************************************************)
EXTENDS Integers, Sequences, FiniteSetsExt, SequencesExt

CONSTANTS
  Documents,   \* the sequences of lines to be edited
  MaxEdits     \* bound: what the author does in the editor

VARIABLES
  doc,       \* the lines of the text that was opened
  ranges,    \* the protected ranges, in order
  shown,     \* what the editor has: lines and tokens
  wanted,    \* history: the lines the author means, in the editor's pieces
  edits

textVars == <<doc, ranges, shown, wanted, edits>>

Span(a, b) == [first |-> a, last |-> b]
Token(k)    == <<"token", k>>
Line(x)     == <<"line", x>>

-----------------------------------------------------------------------------
\* The scanner.  d is the document, i the line it is at.

\* the lines that can open a code block, and those that can close the one that x
\* opens: the same mark, as long at least, and nothing after it
FenceLines == {"fence", "long", "tilde", "lang", "info"}
Fenced(x)  == x \in FenceLines
Closers(x) == IF x \in {"long", "tilde"} THEN {x} ELSE {"fence", "long"}

\* the first line from i on that is one of kinds, or else e
FirstFrom(d, i, kinds, e) ==
  LET s == {j \in i..Len(d) : d[j] \in kinds} IN IF s = {} THEN e ELSE Min(s)

\* the last line of the run that begins at i: each next one is in kinds
RunEnd(d, i, kinds) ==
  Max({j \in i..Len(d) : \A m \in (i + 1)..j : d[m] \in kinds})

Kinds == FenceLines \cup
         {"blank", "text", "row", "cont", "raw", "rawEnd", "comment", "commentEnd", "remark",
          "note", "open", "close", "math", "delim", "inline"}
NotBlank == Kinds \ {"blank"}

FenceEnd(d, i)   == FirstFrom(d, i + 1, Closers(d[i]), Len(d))
RawEnd(d, i)     == FirstFrom(d, i, {"rawEnd"}, Len(d))
DirectiveEnd(d, i) == FirstFrom(d, i + 1, {"close"}, i)
MathEnd(d, i)    == FirstFrom(d, i + 1, {"math"}, i)
TableEnd(d, i)   == RunEnd(d, i + 1, {"row", "delim"})

\* mutant: only the line itself is looked at
CommentHere(d, i) == IF d[i] \in {"comment", "remark"} THEN i ELSE 0

\* a comment that begins in this block of lines; 0: none
CommentStart(d, i) ==
  LET s == {j \in i..Len(d) : /\ d[j] \in {"comment", "remark"}
                              /\ \A m \in i..j : d[m] # "blank" /\ ~Fenced(d[m])}
  IN  IF s = {} THEN 0 ELSE Min(s)

\* it goes on to the next blank line, over fences too
CommentEnd(d, i) == RunEnd(d, FirstFrom(d, i, {"commentEnd", "remark"}, Len(d)), NotBlank)

\* a footnote goes on with the indented lines below it
FootnoteEnd(d, i) ==
  Max({i} \cup {j \in i..RunEnd(d, i, {"cont", "blank"}) : d[j] = "cont"})

\* a block that is kept as it is wherever it ends: its last line, 0 if there is none
SpecialEnd(d, i) ==
  IF Fenced(d[i]) THEN FenceEnd(d, i)
  ELSE IF d[i] = "raw" THEN RawEnd(d, i)
  ELSE IF CommentStart(d, i) # 0 THEN CommentEnd(d, CommentStart(d, i))
  ELSE CASE d[i] = "note" -> FootnoteEnd(d, i)
         [] d[i] = "open" -> DirectiveEnd(d, i)
         [] d[i] = "math" -> MathEnd(d, i)
         [] OTHER -> IF i < Len(d) /\ d[i + 1] = "delim" THEN TableEnd(d, i) ELSE 0

\* a paragraph ends before a fence and with the raw block that begins in it
ParagraphEnd(d, i) == RunEnd(d, i, NotBlank \ (FenceLines \cup {"raw"}))

ProtectsBlock(d, i, e) == \E j \in i..e : d[j] \in {"inline", "rawEnd", "note", "open", "close"}

\* the block that begins at line i: its last line, and whether it is protected
Block(d, i) ==
  LET e == ParagraphEnd(d, i)
      nested == e < Len(d) /\ d[e + 1] = "raw"
  IN  IF SpecialEnd(d, i) # 0
      THEN [last |-> SpecialEnd(d, i), kept |-> ~Fenced(d[i]) \/ d[i] = "info"]
      ELSE IF nested THEN [last |-> RawEnd(d, e + 1), kept |-> TRUE]
      ELSE [last |-> e, kept |-> ProtectsBlock(d, i, e)]

\* from each line on, the ranges of the blocks that begin there or later
Scans(d) ==
  LET from[i \in 1..(Len(d) + 1)] ==
        IF i > Len(d) THEN <<>>
        ELSE IF d[i] = "blank" THEN from[i + 1]
        ELSE (IF Block(d, i).kept THEN <<Span(i, Block(d, i).last)>> ELSE <<>>)
               \o from[Block(d, i).last + 1]
  IN  from
Scan(d) == Scans(d)[1]

-----------------------------------------------------------------------------
Lines(d, a, b) == [i \in 1..(b - a + 1) |-> Line(d[a + i - 1])]
Source(k)      == Lines(doc, ranges[k].first, ranges[k].last)

\* up to the end of each range: the lines before the range, and its token
Outputs(d, r) ==
  LET output[k \in 0..Len(r)] ==
        IF k = 0 THEN <<>>
        ELSE output[k - 1] \o Lines(d, IF k = 1 THEN 1 ELSE r[k - 1].last + 1, r[k].first - 1)
                           \o <<Token(k)>>
  IN  output

\* prepareMarkdownForNovel: and the lines after the last range
Prepared(d, r) ==
  Outputs(d, r)[Len(r)] \o Lines(d, IF r = <<>> THEN 1 ELSE r[Len(r)].last + 1, Len(d))

\* the first place of the k-th token has its source
Put(text, k) ==
  LET at == {i \in DOMAIN text : text[i] = Token(k)}
  IN  IF at = {} THEN text ELSE [text EXCEPT ![Min(at)] = <<"source", k>>]

Texts(s) ==
  LET text[k \in 0..Len(ranges)] == IF k = 0 THEN s ELSE Put(text[k - 1], k) IN text

\* restoreMarkdownFromNovel: each token is replaced where it is first found
Restored(s) ==
  LET text == Texts(s)[Len(ranges)]
  IN  FlattenSeq([i \in DOMAIN s |-> IF text[i][1] = "source" THEN Source(text[i][2])
                                     ELSE <<text[i]>>])

TextInit ==
  /\ doc \in Documents /\ ranges = Scan(doc) /\ shown = Prepared(doc, ranges)
  /\ wanted = [i \in DOMAIN shown |-> IF shown[i][1] = "token" THEN Source(shown[i][2])
                                      ELSE <<shown[i]>>]
  /\ edits = 0

Edit == edits < MaxEdits /\ edits' = edits + 1 /\ UNCHANGED <<doc, ranges>>

Deletes(i) == Edit /\ shown' = RemoveAt(shown, i) /\ wanted' = RemoveAt(wanted, i)

Types(i) ==
  /\ Edit /\ shown' = InsertAt(shown, i, Line("typed"))
  /\ wanted' = InsertAt(wanted, i, <<Line("typed")>>)

Swapped(s, i, j) == [s EXCEPT ![i] = s[j], ![j] = s[i]]
Moves(i, j) == Edit /\ i < j /\ shown' = Swapped(shown, i, j) /\ wanted' = Swapped(wanted, i, j)

TextNext == \E i \in DOMAIN shown : Deletes(i) \/ Types(i) \/ \E j \in DOMAIN shown : Moves(i, j)
TextSpec == TextInit /\ [][TextNext]_textVars

-----------------------------------------------------------------------------
Covering(i) == {k \in DOMAIN ranges : ranges[k].first <= i /\ i <= ranges[k].last}
Covered(i)  == Covering(i) # {}

\* how Markdown reads the text with the tokens, which the editor is given: after the
\* first i lines of d, the line that opened the code block they end in; 0: none
Reading(d) ==
  LET open[i \in 0..Len(d)] ==
        IF i = 0 THEN 0
        ELSE IF Covered(i) THEN open[i - 1]
        ELSE IF open[i - 1] = 0 THEN IF Fenced(d[i]) THEN i ELSE 0
        ELSE IF d[i] \in Closers(d[open[i - 1]]) THEN 0 ELSE open[i - 1]
  IN  open
InCode(i) == Reading(doc)[i - 1] # 0

Unsupported == {"inline", "raw", "rawEnd", "comment", "remark", "note", "open", "close", "info"}

\* what ends another block
Enders == {"commentEnd", "remark", "close", "math", "fence", "long", "tilde"}

(* What the editor cannot show is not lost in it: every line with such a   *)
(* construct is in one of the protected ranges or in a code block of the   *)
(* text the editor is given, everything between the two ends of a raw      *)
(* block is in a range, the ranges do not overlap, a text that is not      *)
(* edited is saved as it was, and after any edit that leaves a token whole *)
(* or takes it away the saved text has exactly the lines that were meant.  *)
(* Code is as Markdown reads that text, not the author's: a comment takes  *)
(* the lines below it into its range, an opening fence among them          *)
(* (markdown-compat.ts:199-209), and then what was behind the closing one  *)
(* is in a code block that this one opens, where the editor shows it as    *)
(* code and keeps it.  A raw block that begins in a block of another kind, *)
(* which ends first, is the exception: it is protected as far as that      *)
(* block only.                                                             *)
EditingIsLossless ==
  /\ \A i \in DOMAIN doc : doc[i] \in Unsupported => Covered(i) \/ InCode(i)
  /\ \A i, j \in DOMAIN doc :
       i < j /\ doc[i] = "raw" /\ Covered(i) /\ (\A m \in i..(j - 1) : doc[m] # "rawEnd")
         => Covered(j) \/ \E k \in Covering(i), m \in 1..j :
                           k \in Covering(m) /\ doc[m] \in Enders
  /\ \A k \in DOMAIN ranges : ranges[k].first <= ranges[k].last
                              /\ (k > 1 => ranges[k - 1].last < ranges[k].first)
  /\ Restored(shown) = FlattenSeq(wanted)
  /\ edits = 0 => Restored(shown) = Lines(doc, 1, Len(doc))
=============================================================================

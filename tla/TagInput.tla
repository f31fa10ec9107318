------------------------------ MODULE TagInput ------------------------------
(***************************************************************************)
(* The field for the tags of an entry (app/admin/TagInput.tsx): an input   *)
(* for a new tag with a list of suggestions, and an input that opens in    *)
(* the place of a tag to change it.  Events are what the browser sends:    *)
(* the focus leaves one input before it is on another or on a button.      *)
(***************************************************************************)
EXTENDS Integers, Sequences

CONSTANTS
  Tags,         \* <<name, spelling>>: spellings of a name differ in case only
  Blank,        \* no text, or nothing but white space
  Suggestions   \* a sequence of tags used before

VARIABLES
  values,      \* the tags of the entry, kept by the editor
  draft,       \* the text of the input for a new tag
  editing,     \* the place of the tag being changed and the text; index 0: none
  open,        \* the list of suggestions
  active,      \* the highlighted suggestion; 0: none
  focus,       \* "draft", "edit" or "elsewhere"
  composing,   \* an input method is composing a character
  closing,     \* the timer that closes the list
  target       \* history: the tag the open edit was opened on, the one it is on, and
               \* whether that is another one because the editor put it there

tagVars == <<values, draft, editing, open, active, focus, composing, closing, target>>

NoEdit == [index |-> 0, text |-> Blank]
For(t) == [opened |-> t, on |-> t, displaced |-> FALSE]

Names(s) == {s[i][1] : i \in DOMAIN s}

\* dedupeTags: of the first n tags, the first one with each name; no blank ones
Fronts(s) ==
  LET front[n \in 0..Len(s)] ==
        IF n = 0 THEN <<>>
        ELSE IF s[n] = Blank \/ s[n][1] \in Names(front[n - 1]) THEN front[n - 1]
        ELSE Append(front[n - 1], s[n])
  IN  front
Deduped(s) == Fronts(s)[Len(s)]

Without(s, i) == [j \in 1..(Len(s) - 1) |-> IF j < i THEN s[j] ELSE s[j + 1]]

\* the tags an editor can hold
Clean == {s \in UNION {[1..n -> Tags] : n \in 0..3} : Deduped(s) = s}

\* the suggestions that are no tags yet and match what is typed
Filtered == SelectSeq(Suggestions,
              LAMBDA t : t[1] \notin Names(values) /\ (draft = Blank \/ draft[1] = t[1]))

TagInit ==
  /\ values \in {<<>>} \cup {<<t>> : t \in Tags} /\ draft = Blank /\ editing = NoEdit
  /\ open = FALSE /\ active = 0 /\ focus = "elsewhere" /\ composing = FALSE /\ closing = FALSE
  /\ target = For(Blank)

Room == Len(values) < 3

-----------------------------------------------------------------------------
\* Changing a tag in its place.

StartsEditing(i) ==
  /\ focus = "elsewhere" /\ editing.index # i
  /\ editing' = [index |-> i, text |-> values[i]] /\ target' = For(values[i]) /\ focus' = "edit"
  /\ UNCHANGED <<values, draft, open, active, composing, closing>>

Clicks ==
  /\ focus = "elsewhere" /\ editing.index \in DOMAIN values /\ focus' = "edit"
  /\ UNCHANGED <<values, draft, editing, open, active, composing, closing, target>>

TypesEdit(t) ==
  /\ focus = "edit" /\ editing' = [editing EXCEPT !.text = t]
  /\ UNCHANGED <<values, draft, open, active, focus, composing, closing, target>>

\* Enter, or the focus leaves: a blank text takes the tag away
CommitsEdit ==
  /\ focus = "edit" /\ focus' = "elsewhere"
  /\ values' = IF editing.text = Blank THEN Deduped(Without(values, editing.index))
               ELSE Deduped([values EXCEPT ![editing.index] = editing.text])
  /\ editing' = NoEdit /\ target' = For(Blank) /\ composing' = FALSE
  /\ UNCHANGED <<draft, open, active, closing>>

CancelsEdit ==
  /\ focus = "edit" /\ ~composing /\ focus' = "elsewhere" /\ editing' = NoEdit /\ target' = For(Blank)
  /\ UNCHANGED <<values, draft, open, active, composing, closing>>

\* mutant: the edit stays where it was
StaysThere(i) == IF editing.index = i THEN NoEdit ELSE editing

\* an open edit moves with its tag
AfterRemoval(i) ==
  IF editing.index = i THEN NoEdit
  ELSE IF i < editing.index THEN [editing EXCEPT !.index = @ - 1] ELSE editing

Removes(i) ==
  /\ values' = Without(values, i) /\ editing' = AfterRemoval(i)
  /\ target' = IF editing.index = i THEN For(Blank) ELSE target

RemovesTag(i) ==
  /\ focus = "elsewhere" /\ Removes(i)
  /\ UNCHANGED <<draft, open, active, focus, composing, closing>>

\* Composing goes on in whichever input has the focus.
Composes ==
  /\ focus # "elsewhere" /\ composing' = ~composing
  /\ UNCHANGED <<values, draft, editing, open, active, focus, closing, target>>

-----------------------------------------------------------------------------
\* The input for a new tag.

Enters ==
  /\ focus = "elsewhere" /\ focus' = "draft" /\ closing' = FALSE /\ open' = TRUE /\ active' = 0
  /\ UNCHANGED <<values, draft, editing, composing, target>>

Leaves ==
  /\ focus = "draft" /\ focus' = "elsewhere" /\ closing' = TRUE /\ composing' = FALSE
  /\ UNCHANGED <<values, draft, editing, open, active, target>>

Closes ==
  /\ closing /\ closing' = FALSE /\ open' = FALSE /\ active' = 0
  /\ UNCHANGED <<values, draft, editing, focus, composing, target>>

Types(t) ==
  /\ focus = "draft" /\ draft' = t /\ open' = TRUE /\ active' = 0
  /\ UNCHANGED <<values, editing, focus, composing, closing, target>>

Key == focus = "draft" /\ ~composing

Escapes ==
  /\ Key /\ open /\ open' = FALSE /\ active' = 0
  /\ UNCHANGED <<values, draft, editing, focus, composing, closing, target>>

\* the arrows go round
Moves ==
  /\ Key /\ Filtered # <<>> /\ open' = TRUE
  /\ \/ active' = IF active < Len(Filtered) THEN active + 1 ELSE 1
     \/ active' = IF active <= 1 THEN Len(Filtered) ELSE active - 1
  /\ UNCHANGED <<values, draft, editing, focus, composing, closing, target>>

Commits(t) == values' = Deduped(Append(values, t)) /\ draft' = Blank

\* a suggestion is clicked, or highlighted when Enter is pressed; the focus stays
TakesSuggestion ==
  /\ focus = "draft" /\ open /\ Room
  /\ \E i \in DOMAIN Filtered : Commits(Filtered[i])
  /\ open' = FALSE /\ active' = 0 /\ closing' = FALSE
  /\ UNCHANGED <<editing, focus, composing, target>>

CommitsDraft ==
  /\ Key /\ Room /\ ~(open /\ active \in DOMAIN Filtered)
  /\ Commits(draft)
  /\ UNCHANGED <<editing, open, active, focus, composing, closing, target>>

\* Backspace in an empty input takes the last tag away
Backspaces ==
  /\ Key /\ draft = Blank /\ values # <<>> /\ Removes(Len(values))
  /\ UNCHANGED <<draft, open, active, focus, composing, closing>>

-----------------------------------------------------------------------------
\* The editor puts other tags in, as when a save is undone.  The input of an
\* edit belongs to a tag and a place: for another tag there it is a new input
\* that does not have the focus, with the text of the old one.
Replaced(s) ==
  /\ s # values /\ values' = s
  /\ LET same == editing.index \in DOMAIN s /\ editing.index \in DOMAIN values
                 /\ s[editing.index] = values[editing.index]
     IN  /\ focus' = IF focus = "edit" /\ ~same THEN "elsewhere" ELSE focus
         /\ target' = IF same THEN target
                      ELSE IF editing.index \notin DOMAIN s THEN For(Blank)
                      ELSE [target EXCEPT !.on = s[editing.index], !.displaced = TRUE]
  /\ UNCHANGED <<draft, editing, open, active, composing, closing>>

TagNext ==
  \/ \E i \in DOMAIN values : StartsEditing(i) \/ RemovesTag(i)
  \/ \E t \in Tags \cup {Blank} : TypesEdit(t) \/ Types(t)
  \/ Clicks \/ CommitsEdit \/ CancelsEdit \/ Composes \/ Enters \/ Leaves \/ Closes
  \/ Escapes \/ Moves \/ TakesSuggestion \/ CommitsDraft \/ Backspaces
  \/ \E s \in Clean : Replaced(s)
TagSpec == TagInit /\ [][TagNext]_tagVars

-----------------------------------------------------------------------------
(* Whatever is typed, taken, edited and removed in whatever order, an entry *)
(* has no tag twice and no blank one, an open edit stays on its tag when    *)
(* others are removed or added, so that it never changes another, and the   *)
(* list of suggestions does not stay open behind a field that is left.      *)
(* Excepted is an edit that is open when the editor puts another tag in its *)
(* place: the code keeps the place (TagInput.tsx:217), and the edit that is *)
(* taken up again changes that tag instead; it stays on that one then.      *)
TagsAreWhatWasMeant ==
  /\ Deduped(values) = values
  /\ editing.index \in DOMAIN values /\ target.on # Blank =>
       values[editing.index] = IF target.displaced THEN target.on ELSE target.opened
  /\ open => focus = "draft" \/ closing
=============================================================================

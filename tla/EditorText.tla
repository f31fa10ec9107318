----------------------------- MODULE EditorText -----------------------------
(***************************************************************************)
(* One text in two places: the state of the writing page and the editor    *)
(* that is mounted in it, rich (app/admin/NovelMarkdownEditorClient.tsx)   *)
(* or plain Markdown (app/admin/MarkdownSourceEditor.tsx).  The editor     *)
(* reports what is typed with onChange; what the page has set reaches the  *)
(* editor with a render and then an effect, between which events may come. *)
(* A text is what was put in and the keys typed since; own says that it is *)
(* still in the author's notation and not in that of the rich editor.      *)
(***************************************************************************)
EXTENDS Naturals

CONSTANTS
  Bases,      \* texts that the page can put in: a draft, an entry, nothing
  MaxEvents   \* bound: keys, insertions, texts put in and switches

VARIABLES
  text,       \* the state of the page: markdown
  rendered,   \* the markdown the editor was last rendered with
  due,        \* its effect has not run yet
  mode,       \* "rich" or "markdown"
  ready,      \* the editor exists and has registered its handle
  first,      \* initialMarkdownRef
  content, source, dirty,   \* of the editor: the document, sourceRef, dirtyRef
  events, typed, rich, late   \* history

textVars == <<text, rendered, due, mode, ready, first, content, source, dirty, events, typed,
              rich, late>>

Put(b)    == [base |-> b, own |-> TRUE, keys |-> {}]
Novel(t)  == [t EXCEPT !.own = FALSE]
With(t,k) == [t EXCEPT !.keys = @ \cup {k}]

TextInit ==
  \E b \in Bases :
    /\ text = Put(b) /\ rendered = text /\ first = text /\ content = text /\ source = text
    /\ due = FALSE /\ mode = "rich" /\ ready = FALSE /\ dirty = FALSE
    /\ events = 0 /\ typed = {} /\ rich = FALSE /\ late = FALSE

Event == events < MaxEvents /\ events' = events + 1

-----------------------------------------------------------------------------
\* getMarkdown of the handle; while there is none the rendered text is read
GetMarkdown ==
  IF ~ready THEN rendered ELSE IF mode = "rich" /\ dirty THEN Novel(content) ELSE source

\* a key that finds the editor without what the page has, or with an effect
\* still to run
Note(k) ==
  /\ typed' = typed \cup {k} /\ rich' = (rich \/ mode = "rich")
  /\ late' = (late \/ due \/ source # text)

\* onUpdate of the rich editor; an insertion at the cursor is one too
TypesRich ==
  /\ mode = "rich" /\ ready /\ Event /\ Note(events)
  /\ content' = With(content, events) /\ source' = Novel(content') /\ dirty' = TRUE
  /\ text' = source'
  /\ UNCHANGED <<rendered, due, mode, ready, first>>

\* a key in the text area is rendered at once
TypesSource ==
  /\ mode = "markdown" /\ Event /\ Note(events)
  /\ content' = With(content, events) /\ source' = content'
  /\ text' = source' /\ rendered' = source' /\ due' = FALSE
  /\ UNCHANGED <<mode, ready, first, dirty>>

\* insertMarkdownAtSelection, when an upload has been prepared
InsertsSource ==
  /\ mode = "markdown" /\ Event /\ Note(events)
  /\ content' = With(source, events) /\ source' = content' /\ text' = source'
  /\ UNCHANGED <<rendered, due, mode, ready, first, dirty>>

\* applyMarkdown: a draft is opened, an edit undone, a placeholder replaced
Applies(b) ==
  /\ Event /\ text' = Put(b)
  /\ IF ready THEN content' = Put(b) /\ source' = Put(b) /\ dirty' = FALSE
     ELSE UNCHANGED <<content, source, dirty>>
  /\ typed' = {} /\ rich' = FALSE /\ late' = FALSE
  /\ UNCHANGED <<rendered, due, mode, ready, first>>

-----------------------------------------------------------------------------
\* effects that wait are run before the next render
Renders ==
  /\ ~due /\ rendered # text /\ rendered' = text /\ due' = TRUE
  /\ UNCHANGED <<text, mode, ready, first, content, source, dirty, events, typed, rich, late>>

\* the effect on [markdown]
TakesProp ==
  /\ due /\ due' = FALSE
  /\ IF ready /\ rendered # source
     THEN content' = rendered /\ source' = rendered /\ dirty' = FALSE
     ELSE UNCHANGED <<content, source, dirty>>
  /\ UNCHANGED <<text, rendered, mode, ready, first, events, typed, rich, late>>

\* mutant: the text the editor was mounted with
MountedWith == first

\* the effect on [editor] puts in the text it was mounted with, the one on
\* [markdown] runs after it and puts in what has been rendered since
Opened == rendered

\* the rich editor has been loaded and created
GetsReady ==
  /\ mode = "rich" /\ ~ready /\ ready' = TRUE
  /\ content' = Opened /\ source' = Opened /\ dirty' = FALSE /\ due' = FALSE
  /\ UNCHANGED <<text, rendered, mode, first, events, typed, rich, late>>

Switches ==
  /\ ~due /\ Event
  /\ mode' = IF mode = "rich" THEN "markdown" ELSE "rich"
  /\ ready' = (mode' = "markdown")
  /\ first' = rendered /\ content' = rendered /\ source' = rendered /\ dirty' = FALSE
  /\ UNCHANGED <<text, rendered, due, typed, rich, late>>

-----------------------------------------------------------------------------
TextNext ==
  \/ TypesRich \/ TypesSource \/ InsertsSource \/ Renders \/ TakesProp \/ GetsReady \/ Switches
  \/ \E b \in Bases : Applies(b)
TextSpec == TextInit /\ [][TextNext]_textVars

-----------------------------------------------------------------------------
Settled == ready /\ ~due /\ text = rendered

(* However keys, insertions, loading, switches and texts put in by the page *)
(* overlap, once all has settled the editor shows and would save the text   *)
(* the page has; and unless a key came between a render and its effect, no  *)
(* key is lost and a text that was not touched in the rich editor stays in  *)
(* the author's own notation.                                               *)
EditorAndPageAgree ==
  /\ Settled => /\ GetMarkdown = text
                /\ content.base = text.base /\ content.keys = text.keys
  /\ late \/ (text.keys = typed /\ (rich \/ text.own))
=============================================================================

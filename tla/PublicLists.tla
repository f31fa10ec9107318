---------------------------- MODULE PublicLists ----------------------------
(***************************************************************************)
(* The public lists that grow with "load more": the timeline of the home   *)
(* page, which is also refreshed after a change made in this window        *)
(* (app/HomeTimeline.tsx, lib/timeline.js), and the lists of a category, a *)
(* tag and a search.  A page of the list is one day, of which every entry  *)
(* has one of its own, and one hit of a search; the cursor names the last  *)
(* entry of a page.  The timeline shows of a private entry that there is   *)
(* one, and does not name it.                                              *)
(***************************************************************************)
EXTENDS Naturals, Sequences

CONSTANTS
  Entries,
  Days,        \* of the entries, later is newer and is listed first; 0: not published
  NoCursor,
  MaxChanges   \* bound: what the author, the reader and the network do

VARIABLES
  list,     \* which list: "timeline", "category", "tag" or "search"
  day,      \* the server: the day of each entry
  private,  \* the server: the entries that only the timeline hints at
  items,    \* what is listed: <<entry, day, whether it has an id>>
  cursor,   \* the entry the next page follows, as it was then
  loading,  \* "off", or the request of load more
  refresh,  \* the timeline's request for the first page
  changes, touched, gap   \* history

listVars == <<list, day, private, items, cursor, loading, refresh, changes, touched, gap>>

NoRequest == [state |-> "off", after |-> NoCursor, items |-> <<>>, next |-> NoCursor,
              moved |-> FALSE]   \* moved: history, its cursor was given another day
Failed    == [NoRequest EXCEPT !.state = "failed"]

\* the entries of the list, those after a day, and the newest of some
Public    == {e \in Entries : day[e] # 0 /\ (list = "timeline" \/ e \notin private)}
After(d)  == {e \in Public : day[e] < d}
Newest(s) == CHOOSE e \in s : \A o \in s : day[o] <= day[e]

\* the first page of the entries in s
PageOf(r, s) ==
  IF s = {} THEN [r EXCEPT !.state = "answered"]
  ELSE LET e == Newest(s)
       IN  [r EXCEPT !.state = "answered", !.items = <<<<e, day[e], e \notin private>>>>,
                     !.next = IF After(day[e]) = {} THEN NoCursor ELSE <<e, day[e]>>]

\* a cursor whose entry is not in the list any more is refused; the search takes
\* no cursor at all: its statement then has a parameter it does not use, and takes
\* the id for a date
Page(r) ==
  IF r.after = NoCursor THEN PageOf(r, Public)
  ELSE IF list = "search" \/ r.after[1] \notin Public THEN Failed
  ELSE PageOf(r, After(day[r.after[1]]))

ListInit ==
  /\ list \in {"timeline", "category", "tag", "search"}
  /\ day \in [Entries -> Days] /\ \A e, o \in Entries : e # o /\ day[e] # 0 => day[e] # day[o]
  /\ private \in SUBSET Entries
  /\ LET first == Page(NoRequest)
     IN  items = first.items /\ cursor = first.next
  /\ loading = NoRequest /\ refresh = NoRequest
  /\ changes = 0 /\ touched = {} /\ gap = FALSE

Change == changes < MaxChanges /\ changes' = changes + 1

-----------------------------------------------------------------------------
\* the author publishes, withdraws or dates an entry, makes it private or public
Edits ==
  /\ Change
  /\ \E e \in Entries :
       /\ touched' = touched \cup {e}
       /\ \/ \E d \in Days : /\ d = 0 \/ \A o \in Entries : day[o] # d
                           /\ day' = [day EXCEPT ![e] = d] /\ UNCHANGED private
          \/ private' = (private \ {e}) \cup ({e} \ private) /\ UNCHANGED day
  /\ UNCHANGED <<list, items, cursor, loading, refresh, gap>>

LoadsMore ==
  /\ cursor # NoCursor /\ loading.state = "off"
  /\ loading' = [NoRequest EXCEPT !.state = "asked", !.after = cursor]
  /\ UNCHANGED <<list, day, private, items, cursor, refresh, changes, touched, gap>>

MoreServed ==
  /\ loading.state = "asked"
  /\ loading' = [Page(loading) EXCEPT !.moved = loading.after[1] \in touched]
  /\ UNCHANGED <<list, day, private, items, cursor, refresh, changes, touched, gap>>

\* the event that public content changed, seen by the home page only
Refreshes ==
  /\ list = "timeline" /\ refresh.state = "off" /\ Change
  /\ refresh' = [NoRequest EXCEPT !.state = "asked"]
  /\ UNCHANGED <<list, day, private, items, cursor, loading, touched, gap>>

RefreshServed ==
  /\ refresh.state = "asked" /\ refresh' = Page(refresh)
  /\ UNCHANGED <<list, day, private, items, cursor, loading, changes, touched, gap>>

NetworkFails ==
  /\ Change
  /\ \/ loading.state = "asked" /\ loading' = Failed /\ UNCHANGED refresh
     \/ refresh.state = "asked" /\ refresh' = Failed /\ UNCHANGED loading
  /\ UNCHANGED <<list, day, private, items, cursor, touched, gap>>

Listed(s) == {s[i] : i \in DOMAIN s}

\* mutant: the page is put at the end
Appended(s, page) == s \o page

\* mergeTimelineDays looks for the entry's id in its day, the category in the whole
\* list, a tag and a search do not look
Known(s, page) ==
  \E x \in Listed(page), y \in Listed(s) :
    (list = "timeline" /\ x[3] /\ y = x) \/ (list = "category" /\ y[1] = x[1])
\* a page has one entry at most
Merged(s, page) == IF Known(s, page) THEN s ELSE s \o page

\* getTimeline answers a failure with an empty page that has no cursor; the
\* others keep the list and its cursor for another try
MoreArrives ==
  /\ loading.state \in {"answered", "failed"} /\ loading' = NoRequest
  /\ IF loading.state = "failed" /\ list # "timeline" THEN UNCHANGED <<items, cursor, gap>>
     ELSE /\ items' = Merged(items, loading.items) /\ cursor' = loading.next
          /\ gap' = (gap \/ loading.state = "failed" \/ loading.moved \/ loading.after # cursor)
  /\ UNCHANGED <<list, day, private, refresh, changes, touched>>

RefreshArrives ==
  /\ refresh.state \in {"answered", "failed"} /\ refresh' = NoRequest
  /\ items' = refresh.items /\ cursor' = refresh.next
  /\ gap' = (refresh.state = "failed")
  /\ UNCHANGED <<list, day, private, loading, changes, touched>>

-----------------------------------------------------------------------------
ListNext == \/ Edits \/ LoadsMore \/ MoreServed \/ Refreshes \/ RefreshServed \/ NetworkFails
            \/ MoreArrives \/ RefreshArrives
ListSpec == ListInit /\ [][ListNext]_listVars

-----------------------------------------------------------------------------
Names == {x[1] : x \in Listed(items)}

(* However changes, refreshes and failures fall between the pages, a list  *)
(* shows no entry twice in its day (in a category not at all), and leaves  *)
(* none out: an entry nobody touched is listed when an older one is, and   *)
(* at the end of the list all are.  It is not so in the timeline after a   *)
(* page that failed, or that was asked for before a refresh had shortened  *)
(* the list and arrived after it, nor when the entry the cursor names was  *)
(* changed; and a private entry, which the timeline hints at without an    *)
(* id, can be there twice (public_handlers.go:42-44, timeline.js:15-18).   *)
(* A search never gets to its end: its first page is all it ever shows,    *)
(* for the server refuses its cursor (public_handlers.go:395-405).         *)
ListIsWhole ==
  /\ \A i, j \in DOMAIN items : i # j =>
       /\ list = "timeline" => items[i] # items[j] \/ ~items[i][3]
       /\ list = "category" => items[i][1] # items[j][1]
  /\ \A e \in Public \ touched :
       \/ e \in Names \/ gap
       \/ cursor # NoCursor /\ \A o \in Names \ touched : day[o] > day[e]

(* HomeTimeline.tsx:118 tells the reader that a page could not be loaded   *)
(* and to try again: the cursor that names the page must still be there.   *)
FailedLoadKeepsCursor ==
  [][loading.state = "failed" /\ loading'.state = "off" => cursor' = cursor]_listVars
=============================================================================

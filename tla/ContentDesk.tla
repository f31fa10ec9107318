---------------------------- MODULE ContentDesk ----------------------------
(***************************************************************************)
(* The administration's content desk (app/admin/entries/page.tsx) in one   *)
(* window: the list of entries with its filter, the versions of an entry,  *)
(* the media library, the exports and the calendar.  Every list is asked   *)
(* for on its own, and the answers arrive in any order or not at all.      *)
(***************************************************************************)
EXTENDS Naturals, FiniteSets

CONSTANTS
  Entries,
  Filters, All,   \* the choices of status, and the one of all entries
  Nothing,     \* no entry selected, nothing shown
  MaxAsks,     \* bound: requests under way at a time
  MaxClicks    \* bound: what the user does and what the worker publishes

VARIABLES
  desk,      \* section, filter, selectedId and busy of the page; due: the filter's
             \* effect is still to ask
  shown,     \* the lists it holds: entries (by their filter), versions (by their entry)
  library,   \* the media the page holds, and those MediaPanel holds once it is there
  heat,      \* the calendar panel: what is chosen and what is counted
  jobs,      \* the exports shown
  asks,      \* requests
  store,     \* the server: publish state of the two pages of media, number of exports
  click      \* history: clicks, the last version restored, whether the list of
             \* versions is mixed with another entry, and was when one was restored

deskVars == <<desk, shown, library, heat, jobs, asks, store, click>>

Pages    == 1..2                      \* of the media library, one item each
Unseen   == [p \in Pages |-> "unseen"]
NoPanel  == [on |-> FALSE, items |-> Unseen, more |-> FALSE, loading |-> FALSE]
Choice   == [year : 1..2, drafts : BOOLEAN]
Year1    == [year |-> 1, drafts |-> FALSE]
\* run: how often the panel's effect ran; asked: its last run has asked
HeatOff(n) == [on |-> FALSE, chosen |-> Year1, counted |-> Year1, loading |-> TRUE,
               run |-> n, asked |-> FALSE]

Asked(kind, about) == [kind |-> kind, about |-> about, answer |-> Nothing]

DeskInit ==
  /\ desk = [section |-> "entries", filter |-> All, selected |-> Nothing, busy |-> TRUE,
              due |-> FALSE]
  /\ shown = [entries |-> Nothing, versions |-> Nothing]
  /\ library = [items |-> Unseen, more |-> FALSE, panel |-> NoPanel]
  /\ heat = HeatOff(0) /\ jobs = {} /\ asks = {Asked("entries", All)}
  /\ store = [media |-> [p \in Pages |-> "pending"], exports |-> 0]
  /\ click = [n |-> 0, restored |-> <<Nothing, Nothing>>, mixed |-> FALSE, excused |-> FALSE]

Clicks == click.n < MaxClicks /\ click' = [click EXCEPT !.n = @ + 1]

Ask(kind, about)   == Cardinality(asks) < MaxAsks /\ asks' = asks \cup {Asked(kind, about)}

\* a panel lives as long as its section is shown and the page is not busy; the
\* media panel takes the page's list when it appears, and never again
NewPanel(d, l) ==
  [l EXCEPT !.panel =
     IF d.section # "media" \/ d.busy THEN NoPanel
     ELSE IF l.panel.on THEN l.panel
     ELSE [NoPanel EXCEPT !.on = TRUE, !.items = l.items, !.more = l.more]]
NewHeat(d) == IF d.section # "calendar" \/ d.busy THEN HeatOff(heat.run)
              ELSE IF heat.on THEN heat ELSE [HeatOff(heat.run + 1) EXCEPT !.on = TRUE]

\* the page with d, and its panels
Shows(d, l) == desk' = d /\ library' = NewPanel(d, l) /\ heat' = NewHeat(d)

-----------------------------------------------------------------------------
(* The server: it answers what it holds when it is asked, or fails *)

Content(r) ==
  CASE r.kind = "media"   -> <<store.media[1], TRUE>>
    [] r.kind = "more"    -> <<store.media[2], FALSE>>
    [] r.kind = "exports" -> <<store.exports>>
    [] r.kind = "create"  -> <<store.exports + 1>>
    [] OTHER              -> <<0>>
Error == <<>>

Answers ==
  /\ \E r \in asks :
       /\ r.answer = Nothing
       /\ \/ /\ asks' = (asks \ {r}) \cup {[r EXCEPT !.answer = Content(r)]}
             /\ store' = [store EXCEPT
                  !.exports = IF r.kind = "create" THEN @ + 1 ELSE @,
                  !.media = [p \in Pages |-> IF r.kind = "retry" /\ r.about = <<p>>
                                             THEN "pending" ELSE @[p]]]
             /\ UNCHANGED click
          \/ Clicks /\ asks' = (asks \ {r}) \cup {[r EXCEPT !.answer = Error]}
             /\ UNCHANGED store
  /\ UNCHANGED <<desk, shown, library, heat, jobs>>

\* the worker publishes to the image host, and fails
PublishFails ==
  /\ Clicks /\ \E p \in Pages : /\ store.media[p] = "pending"
                                /\ store' = [store EXCEPT !.media[p] = "failed"]
  /\ UNCHANGED <<desk, shown, library, heat, jobs, asks>>

Received(kind) == {r \in asks : r.kind = kind /\ r.answer # Nothing}
Takes(r)       == asks' = asks \ {r}
Good(r)        == r.answer # Error

-----------------------------------------------------------------------------
(* Entries: loadEntries, mutateEntry *)

LoadsEntries(kind, f, due) ==
  /\ Ask(kind, f) /\ Shows([desk EXCEPT !.filter = f, !.busy = TRUE, !.due = due], library)
  /\ UNCHANGED <<shown, jobs, store>>

\* the choice asks for the entries, and the effect of the new filter asks again
ChangesFilter == Clicks /\ \E f \in Filters \ {desk.filter} : LoadsEntries("entries", f, TRUE)
LoadsAgain    == desk.due /\ LoadsEntries("again", desk.filter, FALSE) /\ UNCHANGED click

\* whichever request ends first ends the page's busy state
EntriesArrive ==
  /\ \E r \in Received("entries") \cup Received("again") :
       /\ Takes(r) /\ shown' = [shown EXCEPT !.entries = IF Good(r) THEN r.about ELSE @]
  /\ Shows([desk EXCEPT !.busy = FALSE], library)
  /\ UNCHANGED <<jobs, store, click>>

Idle == ~desk.busy

Mutates ==
  /\ Clicks /\ Idle /\ desk.section \in {"entries", "trash"} /\ shown.entries # Nothing
  /\ Ask("mutate", desk.filter) /\ Shows([desk EXCEPT !.busy = TRUE], library)
  /\ UNCHANGED <<shown, jobs, store>>

\* then the list is asked for again, with the filter of the click
Mutated ==
  /\ \E r \in Received("mutate") :
       /\ asks' = (asks \ {r}) \cup IF Good(r) THEN {Asked("entries", r.about)} ELSE {}
       /\ Shows([desk EXCEPT !.busy = Good(r)], library)
  /\ UNCHANGED <<shown, jobs, store, click>>

-----------------------------------------------------------------------------
(* Versions: loadVersions, restoreVersion, returnToEntries *)

\* nothing is cleared: until the answer the list of the entry before is shown
LoadsVersions ==
  /\ Clicks /\ Idle /\ desk.section \in {"entries", "trash"}
  /\ \E e \in Entries : Ask("versions", e)
                        /\ Shows([desk EXCEPT !.selected = e, !.section = "versions"], library)
  /\ UNCHANGED <<shown, jobs, store>>

VersionsArrive ==
  /\ \E r \in Received("versions") :
       /\ Takes(r) /\ shown' = [shown EXCEPT !.versions = IF Good(r) THEN r.about ELSE @]
       /\ click' = [click EXCEPT !.mixed = IF ~Good(r) THEN @
                       ELSE r.about # desk.selected \/ desk.section # "versions"]
  /\ UNCHANGED <<desk, library, heat, jobs, store>>

\* mutant: the list stays
KeepsVersions(s) == s
ClearsVersions(s) == [s EXCEPT !.versions = Nothing]

ReturnsToEntries ==
  /\ click.n < MaxClicks /\ Idle /\ desk.section = "versions"
  /\ click' = [click EXCEPT !.n = @ + 1, !.mixed = FALSE]
  /\ Shows([desk EXCEPT !.section = "entries", !.selected = Nothing], library)
  /\ shown' = ClearsVersions(shown)
  /\ UNCHANGED <<jobs, asks, store>>

RestoresVersion ==
  /\ click.n < MaxClicks /\ Idle /\ desk.section = "versions" /\ shown.versions # Nothing
  /\ click' = [click EXCEPT !.n = @ + 1, !.restored = <<desk.selected, shown.versions>>,
                            !.excused = click.mixed]
  /\ Ask("restore", desk.selected) /\ Shows([desk EXCEPT !.busy = TRUE], library)
  /\ UNCHANGED <<shown, jobs, store>>

Restored ==
  /\ \E r \in Received("restore") : Takes(r)
  /\ Shows([desk EXCEPT !.busy = FALSE], library)
  /\ UNCHANGED <<shown, jobs, store, click>>

-----------------------------------------------------------------------------
(* The other sections: loadSection, exports, media *)

\* a tab leaves the versions as they are; the open exports are polled every five
\* seconds, which asks the same as their tab
OpensSection ==
  /\ click.n < MaxClicks
  /\ \E s \in {"entries", "trash", "media", "exports", "calendar"} :
       /\ Shows([desk EXCEPT !.section = s], library)
       /\ IF s \in {"media", "exports"} THEN Ask(s, Nothing) ELSE UNCHANGED asks
  /\ click' = [click EXCEPT !.n = @ + 1, !.mixed = @ \/ shown.versions # Nothing]
  /\ UNCHANGED <<shown, jobs, store>>

MediaArrives ==
  /\ \E r \in Received("media") :
       /\ Takes(r)
       /\ library' = IF Good(r) THEN [library EXCEPT !.items = [Unseen EXCEPT ![1] = r.answer[1]],
                                                     !.more = r.answer[2]]
                                ELSE library
  /\ UNCHANGED <<desk, shown, heat, jobs, store, click>>

LoadsMoreMedia ==
  /\ Clicks /\ library.panel.more /\ ~library.panel.loading /\ Ask("more", Nothing)
  /\ library' = [library EXCEPT !.panel.loading = TRUE]
  /\ UNCHANGED <<desk, shown, heat, jobs, store>>

MoreMediaArrives ==
  /\ \E r \in Received("more") :
       /\ Takes(r)
       /\ library' = IF ~library.panel.loading THEN library
                     ELSE IF ~Good(r) THEN [library EXCEPT !.panel.loading = FALSE]
                     ELSE [library EXCEPT !.panel.items[2] = r.answer[1],
                             !.panel.more = r.answer[2], !.panel.loading = FALSE]
  /\ UNCHANGED <<desk, shown, heat, jobs, store, click>>

RetriesPublish ==
  /\ Clicks /\ \E p \in Pages : library.panel.items[p] = "failed" /\ Ask("retry", <<p>>)
  /\ UNCHANGED <<desk, shown, library, heat, jobs, store>>

PublishRetried ==
  /\ \E r \in Received("retry") :
       /\ Takes(r)
       /\ library' = IF Good(r) /\ library.panel.items[r.about[1]] # "unseen"
                     THEN [library EXCEPT !.panel.items[r.about[1]] = "pending"] ELSE library
  /\ UNCHANGED <<desk, shown, heat, jobs, store, click>>

ExportsArrive ==
  /\ \E r \in Received("exports") : Takes(r) /\ jobs' = IF Good(r) THEN 1..r.answer[1] ELSE jobs
  /\ UNCHANGED <<desk, shown, library, heat, store, click>>

CreatesExport ==
  /\ Clicks /\ Idle /\ desk.section = "exports" /\ Ask("create", Nothing)
  /\ Shows([desk EXCEPT !.busy = TRUE], library)
  /\ UNCHANGED <<shown, jobs, store>>

ExportCreated ==
  /\ \E r \in Received("create") : Takes(r) /\ jobs' = IF Good(r) THEN jobs \cup {r.answer[1]} ELSE jobs
  /\ Shows([desk EXCEPT !.busy = FALSE], library)
  /\ UNCHANGED <<shown, store, click>>

-----------------------------------------------------------------------------
(* AdminCalendarPanel: its effect asks whenever the choice has changed, and *)
(* cancels the answer of the choice before                                  *)

HeatAsks ==
  /\ heat.on /\ ~heat.asked /\ Ask("calendar", <<heat.chosen, heat.run>>)
  /\ heat' = [heat EXCEPT !.asked = TRUE]
  /\ UNCHANGED <<desk, shown, library, jobs, store, click>>

Chooses ==
  /\ heat.on /\ Clicks
  /\ \E c \in Choice : /\ c # heat.chosen
                       /\ heat' = [heat EXCEPT !.chosen = c, !.loading = TRUE,
                                     !.run = @ + 1, !.asked = FALSE]
  /\ UNCHANGED <<desk, shown, library, jobs, asks, store>>

NotCancelled(r) == heat.on /\ r.about[2] = heat.run

HeatArrives ==
  /\ \E r \in Received("calendar") :
       /\ Takes(r)
       /\ heat' = IF NotCancelled(r)
                  THEN [heat EXCEPT !.counted = IF Good(r) THEN r.about[1] ELSE heat.chosen,
                                    !.loading = FALSE]
                  ELSE heat
  /\ UNCHANGED <<desk, shown, library, jobs, store, click>>

-----------------------------------------------------------------------------
DeskNext ==
  \/ Answers \/ PublishFails \/ ChangesFilter \/ LoadsAgain \/ EntriesArrive \/ Mutates \/ Mutated
  \/ LoadsVersions \/ VersionsArrive \/ ReturnsToEntries \/ RestoresVersion \/ Restored
  \/ OpensSection \/ MediaArrives \/ LoadsMoreMedia \/ MoreMediaArrives
  \/ RetriesPublish \/ PublishRetried \/ ExportsArrive \/ CreatesExport
  \/ ExportCreated \/ HeatAsks \/ Chooses \/ HeatArrives
DeskSpec == DeskInit /\ [][DeskNext]_deskVars

-----------------------------------------------------------------------------
(* The version that is restored is one of those the user looks at: the     *)
(* list on the screen is of the entry that is restored.  In two orders it  *)
(* is not, for the code has no guard there: an answer that comes when      *)
(* another entry was chosen, or none, is shown all the same                *)
(* (page.tsx:63-64), and a tab leaves the list where it is (:47).  What    *)
(* they mix is excepted, until an answer is for the entry that is chosen,  *)
(* or the page's own button has cleared the list.                          *)
RestoresWhatIsShown == click.restored[1] = click.restored[2] \/ click.excused

(* The numbers of the calendar belong to the year and the choice of drafts *)
(* above them, in whatever order the answers come.                         *)
CalendarIsOfItsYear == heat.on /\ ~heat.loading => heat.counted = heat.chosen

(* README.md:35 says a failed publication is shown in the media library    *)
(* with a way to try again.  The panel takes the page's list when it       *)
(* appears, which is before the list was answered, and never again.        *)
MediaLibraryShowsFailures ==
  \A p \in Pages : library.panel.on /\ library.items[p] = "failed"
                    => library.panel.items[p] # "unseen"
=============================================================================

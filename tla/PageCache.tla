----------------------------- MODULE PageCache -----------------------------
(***************************************************************************)
(* What the browser keeps of the public site for reading offline: the      *)
(* service worker (public/sw.js), which answers the fetches of the pages,  *)
(* and the eviction of pages a confirmed change has made old               *)
(* (lib/cache-invalidation.ts).  A page is represented by the version of   *)
(* the public content it was made from.                                    *)
(***************************************************************************)
EXTENDS Naturals, FiniteSets

CONSTANTS
  Missing,     \* nothing is cached or shown
  MaxVersion,  \* bound: changes of the public content
  MaxTurns     \* bound: what readers, network and browser do

\* one page of each kind the worker treats differently; "about" stands for the
\* pages that are not in the list of mutable ones
Pages     == {"home", "article", "about", "image", "asset"}
Mutable   == {"home", "article"}
AppShell  == {"home"}
Navigated == {"home", "article", "about"}

VARIABLES
  content,   \* the version of the public content
  worker,    \* "none", "installing", "active", or "leaving": unregistered, but
             \* in control of the open pages until they reload
  cache,     \* the version cached of each page
  fetches,   \* the requests the worker answers
  messages,  \* CACHE_INVALIDATE messages and what each found
  shown,     \* the last answer of the worker
  turns, floor, late   \* history

cacheVars == <<content, worker, cache, fetches, messages, shown, turns, floor, late>>

NoShown == [page |-> Missing, version |-> 0, wanted |-> 0, from |-> "none", late |-> FALSE]

CacheInit ==
  /\ content = 1 /\ worker = "none" /\ cache = [p \in Pages |-> Missing]
  /\ fetches = {} /\ messages = {} /\ shown = NoShown
  /\ turns = 0
  /\ floor = 0     \* the newest change whose eviction is done
  /\ late = {}     \* the cached pages that were put away too late to be evicted

Turn == turns < MaxTurns /\ turns' = turns + 1

-----------------------------------------------------------------------------
\* registering and updating the worker; development builds take it away
Registers ==
  /\ worker \in {"none", "leaving"} /\ Turn /\ worker' = "installing"
  /\ UNCHANGED <<content, cache, fetches, messages, shown, floor, late>>

\* install caches the application shell or fails as a whole, activate deletes
\* the caches of other releases
Activates ==
  /\ worker = "installing"
  /\ \/ worker' = "active" /\ cache' = [p \in Pages |-> IF p \in AppShell THEN content ELSE cache[p]]
        /\ late' = late \ AppShell
     \/ worker' = "none" /\ UNCHANGED <<cache, late>>
  /\ UNCHANGED <<content, fetches, messages, shown, turns, floor>>

RemovesWorker ==
  /\ worker = "active" /\ Turn /\ worker' = "leaving"
  /\ cache' = [p \in Pages |-> Missing] /\ late' = {}
  /\ UNCHANGED <<content, fetches, messages, shown, floor>>

Reloads ==
  /\ worker = "leaving" /\ worker' = "none"
  /\ UNCHANGED <<content, cache, fetches, messages, shown, turns, floor, late>>

-----------------------------------------------------------------------------
\* an immutable asset is answered from the cache without a request; an image
\* is answered from the cache too, and requested all the same
FromCache(p) == p \in {"image", "asset"} /\ cache[p] # Missing

Fetches(p) ==
  /\ worker \in {"active", "leaving"} /\ Turn
  /\ fetches' = IF p = "asset" /\ FromCache(p) THEN fetches
                ELSE fetches \cup {[id |-> turns, page |-> p, asked |-> floor, version |-> 0,
                                    quiet |-> FromCache(p), state |-> "asked", late |-> FALSE]}
  /\ shown' = IF FromCache(p)
              THEN [page |-> p, version |-> cache[p], wanted |-> floor, from |-> "cache",
                    late |-> p \in late]
              ELSE shown
  /\ UNCHANGED <<content, worker, cache, messages, floor, late>>

Put(f, g) == fetches' = (fetches \ {f}) \cup {g}

\* the server answers with what it has then
Served(f) ==
  /\ f.state = "asked" /\ Put(f, [f EXCEPT !.state = "answered", !.version = content])
  /\ UNCHANGED <<content, worker, cache, messages, shown, turns, floor, late>>

\* storeResponse: the answer is shown and, unless it is private, put away later
Arrives(f) ==
  /\ f.state = "answered"
  /\ \/ Put(f, [f EXCEPT !.state = "storing"])
     \/ fetches' = fetches \ {f}    \* no-store, private, or an asset that is not immutable
  /\ shown' = IF f.quiet THEN shown
              ELSE [page |-> f.page, version |-> f.version, wanted |-> f.asked, from |-> "network",
                    late |-> FALSE]
  /\ UNCHANGED <<content, worker, cache, messages, turns, floor, late>>

Stored(f) ==
  /\ f.state = "storing" /\ fetches' = fetches \ {f}
  /\ cache' = [cache EXCEPT ![f.page] = f.version]
  /\ late' = IF f.late THEN late \cup {f.page} ELSE late \ {f.page}
  /\ UNCHANGED <<content, worker, messages, shown, turns, floor>>

\* networkFirst: the cached page, and the home page when a page was opened
Fallback(f) == IF cache[f.page] = Missing /\ f.page \in Navigated THEN "home" ELSE f.page

NetworkFails(f) ==
  /\ f.state = "asked" /\ Turn /\ fetches' = fetches \ {f}
  /\ shown' = IF f.quiet THEN shown
              ELSE IF f.page \in {"image", "asset"} \/ cache[Fallback(f)] = Missing
              THEN [NoShown EXCEPT !.from = "error"]
              ELSE [page |-> Fallback(f), version |-> cache[Fallback(f)], wanted |-> f.asked,
                    from |-> "cache", late |-> Fallback(f) \in late]
  /\ UNCHANGED <<content, worker, cache, messages, floor, late>>

-----------------------------------------------------------------------------
\* a mutation the server has confirmed; the message waits for a worker that is
\* ready and is posted to it
Changes ==
  /\ content < MaxVersion /\ content' = content + 1
  /\ \/ messages' = messages \cup {[version |-> content', state |-> "posted", keys |-> {}]}
     \/ UNCHANGED messages         \* made in another browser
  /\ UNCHANGED <<worker, cache, fetches, shown, turns, floor, late>>

\* the answer f, from before the change of m, is still to be put away
Overtaken(f, m) == f.state \in {"answered", "storing"} /\ f.version < m.version

ReadsKeys(m) ==
  /\ m.state = "posted" /\ worker \in {"active", "leaving"}
  /\ messages' = (messages \ {m}) \cup
       {[m EXCEPT !.state = "deleting", !.keys = {p \in Pages : cache[p] # Missing}]}
  /\ fetches' = {[f EXCEPT !.late = @ \/ Overtaken(f, m)] : f \in fetches}   \* history
  /\ UNCHANGED <<content, worker, cache, shown, turns, floor, late>>

\* mutant: nothing is evicted
NoneEvicted(keys) == {}

Evicted(keys) == (keys \cap Mutable) \ AppShell

Evicts(m) ==
  /\ m.state = "deleting" /\ messages' = messages \ {m}
  /\ cache' = [p \in Pages |-> IF p \in Evicted(m.keys) THEN Missing ELSE cache[p]]
  /\ floor' = IF m.version > floor THEN m.version ELSE floor
  /\ late' = late \ Evicted(m.keys)
  /\ UNCHANGED <<content, worker, fetches, shown, turns>>

-----------------------------------------------------------------------------
CacheNext ==
  \/ Registers \/ Activates \/ RemovesWorker \/ Reloads \/ Changes
  \/ \E p \in Pages : Fetches(p)
  \/ \E f \in fetches : Served(f) \/ Arrives(f) \/ Stored(f) \/ NetworkFails(f)
  \/ \E m \in messages : ReadsKeys(m) \/ Evicts(m)
CacheSpec == CacheInit /\ [][CacheNext]_cacheVars

-----------------------------------------------------------------------------
(* After an eviction is done, no page it was for is cached, or shown to a   *)
(* reader who asks for it then, as it was before the change, however        *)
(* requests, stores and evictions overlap.  One order breaks that: an       *)
(* answer from before the change, not yet put away when the worker looks    *)
(* into its cache (sw.js:15), is put away after the eviction.  That copy,   *)
(* and what is shown of it, is excepted until the page is stored again or   *)
(* evicted; so is the home page, which is never evicted and also stands in  *)
(* for a page that cannot be loaded.                                        *)
EvictedStaysAway ==
  \A p \in Mutable \ AppShell :
    /\ p \in late \/ cache[p] = Missing \/ cache[p] >= floor
    /\ shown.page = p => shown.late \/ shown.version >= shown.wanted
=============================================================================

---------------------------- MODULE MediaUploads ----------------------------
(***************************************************************************)
(* The attachments of the web editor (apps/web/app/admin/useMediaUploads   *)
(* and what surrounds it): a file is uploaded while its placeholder        *)
(* media://<upload> stands in the text; the placeholder becomes            *)
(* media://<media> when the server has the file.  The queue is kept in     *)
(* IndexedDB, so that another page can take the uploads up again.          *)
(*                                                                         *)
(* The transfer of the bytes is one step here, ResumableUpload has it.     *)
(***************************************************************************)
EXTENDS Naturals, Sequences

CONSTANTS
  Uploads, Media, None,
  MaxMoves,  \* bound: what the user does and how often the store fails
  MaxRefs,   \* bound: times a reference stands in a text
  Failures   \* what may fail: "network", "storage", "reload"

VARIABLES
  texts, shown,  \* two drafts: how often each reference stands in them; the one in the editor
  list,          \* the window's uploads
  job,           \* uploadMedia under way, as long as uploadControllers has it
  cancelled,     \* cancelledUploads
  chain, queue,  \* writes to IndexedDB not yet done, and "media-queue" itself
  rec,           \* recoverUploads
  page,          \* mounted, with the media capability; or "closed"
  media, deletes,  \* the server's items, and DELETE requests under way
  user, excused  \* history: what the user did; placeholders nobody promises to keep

vars == <<texts, shown, list, job, cancelled, chain, queue, rec, page, media, deletes,
          user, excused>>

Refs     == Uploads \cup Media
NoItem   == [status |-> "none", media |-> None]
NoRecord == [status |-> "none", media |-> None, file |-> FALSE]
NoJob    == [at |-> "off", media |-> None]
NoRecovery == [stage |-> "off", ran |-> {}, need |-> [u \in Uploads |-> 0],
               read |-> [u \in Uploads |-> NoRecord]]
Busy     == {"queued", "uploading"}

Init ==
  /\ texts = [i \in 1..2 |-> [r \in Refs |-> 0]] /\ shown = 1
  /\ list = [u \in Uploads |-> NoItem] /\ job = [u \in Uploads |-> NoJob]
  /\ cancelled = {} /\ chain = [u \in Uploads |-> <<>>]
  /\ queue = [u \in Uploads |-> NoRecord] /\ rec = NoRecovery /\ page = "closed"
  /\ media = [m \in Media |-> "none"] /\ deletes = {}
  /\ user = [moves |-> 0, chosen |-> {}, gone |-> {}] /\ excused = {}

Mounted == page # "closed"
Enabled == page = "writable"
Moves   == user.moves < MaxMoves /\ user' = [user EXCEPT !.moves = @ + 1]
Idle    == \A u \in Uploads : job[u].at = "off"

-----------------------------------------------------------------------------
(* References in the text (media-utils.js) *)

text == texts[shown]
Writes(t) == texts' = [texts EXCEPT ![shown] = t]

\* replaceMediaOccurrence: only the first one
Replaced(t, r, s) ==
  IF t[r] = 0 THEN t ELSE [t EXCEPT ![r] = @ - 1, ![s] = IF @ < MaxRefs THEN @ + 1 ELSE @]
\* removeMediaReferences of both ids
Removed(t, i, u) == [r \in Refs |-> IF r \in {u, i.media} THEN 0 ELSE t[r]]
Inserted(t, u) == IF t[u] > 0 THEN t ELSE [t EXCEPT ![u] = 1]

-----------------------------------------------------------------------------
(* The queue in IndexedDB: one chain of writes for each upload *)

Put(i, file) == [op |-> "put", status |-> i.status, media |-> i.media, file |-> file]
Delete       == [op |-> "delete", status |-> "none", media |-> None, file |-> FALSE]
Queues(u, op) == chain' = [chain EXCEPT ![u] = Append(@, op)]

Deleting(u) == \E i \in DOMAIN chain[u] : chain[u][i].op = "delete"

\* a recovery that waits for the chains counts what it still waits for
Waits(u) == [rec EXCEPT !.need[u] = IF @ > 0 THEN @ - 1 ELSE 0]

\* persistMediaQueueItem keeps the file if it fits the quota.  A read of the
\* store is answered before the writes that were asked for after it
QueueWrites(u) ==
  /\ chain[u] # <<>> /\ rec.stage # "read"
  /\ LET o == Head(chain[u]) IN
     \/ /\ o.op = "put"
        /\ \E f \in {o.file, FALSE} :
             queue' = [queue EXCEPT ![u] = [status |-> o.status, media |-> o.media, file |-> f]]
        /\ UNCHANGED <<excused, user>>
     \/ /\ o.op = "delete"
        /\ queue' = [queue EXCEPT ![u] = NoRecord]
        /\ UNCHANGED <<excused, user>>
     \/ /\ "storage" \in Failures /\ user.moves < MaxMoves
        /\ user' = [user EXCEPT !.moves = @ + 1, !.gone = @ \ {u}]
        /\ excused' = excused \cup {u, o.media}
        /\ UNCHANGED queue
  /\ chain' = [chain EXCEPT ![u] = Tail(@)]
  /\ rec' = Waits(u)
  /\ UNCHANGED <<texts, shown, list, job, cancelled, page, media, deletes>>

-----------------------------------------------------------------------------
(* uploadMedia *)

\* its effects up to the first request: the item is queued, in the list and in
\* IndexedDB, and its placeholder is in the text; not if it runs already or is
\* being deleted
Startable(u) == job[u].at = "off" /\ ~Deleting(u)
Queued == [status |-> "queued", media |-> None]

Begins(u) ==
  /\ Startable(u)
  /\ list' = [list EXCEPT ![u] = Queued]
  /\ job' = [job EXCEPT ![u] = [NoJob EXCEPT !.at = "ticket"]]
  /\ cancelled' = cancelled \ {u}
  /\ Queues(u, Put(Queued, TRUE))
  /\ Writes(Inserted(text, u))
  /\ rec' = IF rec.stage = "off" THEN rec ELSE [rec EXCEPT !.ran = @ \cup {u}]

\* files are chosen, dropped or pasted
Chooses ==
  /\ Enabled /\ user.moves < MaxMoves
  /\ \E u \in Uploads \ user.chosen :
       Begins(u) /\ user' = [user EXCEPT !.moves = @ + 1, !.chosen = @ \cup {u}]
  /\ UNCHANGED <<shown, queue, page, media, deletes, excused>>

\* the user gives the file again
Retries ==
  /\ Enabled /\ Moves
  /\ \E u \in Uploads : list[u].status = "failed" /\ Begins(u)
  /\ UNCHANGED <<shown, queue, page, media, deletes, excused>>

Shows(u, i) == list' = [list EXCEPT ![u] = IF @ = NoItem THEN @ ELSE i]

\* the server makes a new item for every ticket
TicketArrives(u) ==
  /\ job[u].at = "ticket" /\ u \notin cancelled
  /\ \E m \in Media :
       LET i == [status |-> "uploading", media |-> m] IN
       /\ media[m] = "none"
       /\ media' = [media EXCEPT ![m] = "uploading"]
       /\ job' = [job EXCEPT ![u] = [at |-> "transfer", media |-> m]]
       /\ Shows(u, i)
       /\ Queues(u, Put(i, TRUE))
  /\ UNCHANGED <<texts, shown, cancelled, queue, rec, page, deletes, user, excused>>

\* the bytes are sent and the server finalizes the item
Transfers(u) ==
  /\ job[u].at = "transfer" /\ u \notin cancelled
  /\ media[job[u].media] = "uploading"
  /\ media' = [media EXCEPT ![job[u].media] = "ready"]
  /\ job' = [job EXCEPT ![u].at = "answered"]
  /\ UNCHANGED <<texts, shown, list, cancelled, chain, queue, rec, page, deletes, user, excused>>

Completes(u) ==
  /\ job[u].at = "answered" /\ u \notin cancelled
  /\ LET i == [status |-> "ready", media |-> job[u].media] IN
     /\ Writes(Replaced(text, u, i.media))
     /\ Shows(u, i)
     /\ Queues(u, Put(i, FALSE))
  /\ job' = [job EXCEPT ![u] = NoJob]
  /\ UNCHANGED <<shown, cancelled, queue, rec, page, media, deletes, user, excused>>

ForgetsFailed(i) == Delete  \* mutant
\* a failed upload is kept, without its file
KeepsFailed(i) == Put(i, FALSE)

Fails(u) ==
  /\ u \notin cancelled /\ "network" \in Failures /\ job[u].at # "off"
  /\ LET i == [status |-> "failed", media |-> job[u].media] IN
     Shows(u, i) /\ Queues(u, KeepsFailed(i))
  /\ job' = [job EXCEPT ![u] = NoJob]
  /\ UNCHANGED <<texts, shown, cancelled, queue, rec, page, media, deletes, user, excused>>

\* the signal has aborted its request
Stops(u) ==
  /\ u \in cancelled /\ job[u].at # "off"
  /\ job' = [job EXCEPT ![u] = NoJob]
  /\ UNCHANGED <<texts, shown, list, cancelled, chain, queue, rec, page, media, deletes, user,
                 excused>>

-----------------------------------------------------------------------------
(* Taking an attachment away *)

\* deleteServerMedia is a request of its own
Asks(m) == deletes' = IF m = None THEN deletes ELSE deletes \cup {m}

Takes(u) ==
  /\ user.moves < MaxMoves
  /\ user' = [user EXCEPT !.moves = @ + 1, !.gone = @ \cup {u}]
  /\ Writes(Removed(text, list[u], u))
  /\ list' = [list EXCEPT ![u] = NoItem]
  /\ Queues(u, Delete)
  /\ excused' = excused \cup {u}

CancelsUpload ==
  /\ Mounted
  /\ \E u \in Uploads :
       /\ list[u].status \in Busy
       /\ Takes(u) /\ Asks(list[u].media)
       /\ cancelled' = cancelled \cup {u}
  /\ UNCHANGED <<shown, job, queue, rec, page, media>>

\* the item of an attachment that is ready stays on the server
Dropped(i) == IF i.status = "failed" THEN i.media ELSE None

RemovesUpload ==
  /\ Mounted
  /\ \E u \in Uploads :
       /\ list[u].status \in {"ready", "failed"}
       /\ Takes(u) /\ Asks(Dropped(list[u]))
  /\ UNCHANGED <<shown, job, cancelled, queue, rec, page, media>>

DeleteArrives ==
  /\ \E m \in deletes :
       /\ media' = [media EXCEPT ![m] = IF @ \in {"uploading", "ready"} THEN "deleted" ELSE @]
       /\ deletes' = deletes \ {m}
  /\ UNCHANGED <<texts, shown, list, job, cancelled, chain, queue, rec, page, user, excused>>

-----------------------------------------------------------------------------
(* recoverUploads: when the page can write, and whenever its callback changes *)

RecoveryStarts ==
  /\ page \in {"writable", "readonly"} /\ rec.stage = "off" /\ Idle
  /\ rec' = IF \A u \in Uploads : chain[u] = <<>>
            THEN [NoRecovery EXCEPT !.stage = "read", !.read = queue]
            ELSE [NoRecovery EXCEPT !.stage = "wait", !.need = [u \in Uploads |-> Len(chain[u])]]
  /\ UNCHANGED <<texts, shown, list, job, cancelled, chain, queue, page, media, deletes, user,
                 excused>>

\* no upload may have begun during an await
RecoveryReads ==
  /\ rec.stage = "wait" /\ \A u \in Uploads : rec.need[u] = 0
  /\ rec' = IF Idle THEN [rec EXCEPT !.stage = "read", !.read = queue] ELSE NoRecovery
  /\ UNCHANGED <<texts, shown, list, job, cancelled, chain, queue, page, media, deletes, user,
                 excused>>

\* what is shown of a record: an upload that cannot go on has failed
Found(u) == rec.read[u].status # "none" /\ ~Deleting(u)
Goes(r)  == r.status \in Busy /\ r.file /\ Enabled
Item(r)  == [status |-> IF r.status \in Busy /\ ~Goes(r) THEN "failed" ELSE r.status,
             media |-> r.media]

\* a placeholder of a finished upload is repaired, that of one that goes on is
\* put in if it is not in the text; every item belongs to one upload
Repaired(t, found) ==
  LET done == {u \in found : rec.read[u].status = "ready" /\ t[u] > 0} IN
  [r \in Refs |->
     IF r \in done THEN t[r] - 1
     ELSE IF r \in found /\ t[r] = 0 /\ Goes(rec.read[r]) THEN 1
     ELSE IF t[r] < MaxRefs /\ \E u \in done : rec.read[u].media = r THEN t[r] + 1
     ELSE t[r]]

RecoveryShows ==
  /\ rec.stage = "read" /\ Idle
  /\ LET found == {u \in Uploads : Found(u)}
         going == {u \in found : Goes(rec.read[u])} IN
     /\ list' = [u \in Uploads |-> IF u \in going THEN Queued
                                   ELSE IF u \in found THEN Item(rec.read[u]) ELSE NoItem]
     /\ job' = [u \in Uploads |-> IF u \in going THEN [NoJob EXCEPT !.at = "ticket"] ELSE NoJob]
     /\ cancelled' = cancelled \ going
     /\ chain' = [u \in Uploads |->
          chain[u] \o (IF u \in found THEN <<Put(Item(rec.read[u]), rec.read[u].file)>> ELSE <<>>)
                   \o (IF u \in going THEN <<Put(Queued, TRUE)>> ELSE <<>>)]
     /\ Writes(Repaired(text, found))
  /\ excused' = excused \cup rec.ran \cup {list[u].media : u \in rec.ran}
  /\ rec' = NoRecovery
  /\ UNCHANGED <<shown, queue, page, media, deletes, user>>

RecoveryEnds ==
  /\ rec.stage = "read" /\ ~Idle
  /\ rec' = NoRecovery
  /\ UNCHANGED <<texts, shown, list, job, cancelled, chain, queue, page, media, deletes, user,
                 excused>>

-----------------------------------------------------------------------------
(* The page and its drafts *)

\* the capability is asked once; until then nothing is accepted
Mounts ==
  /\ page = "closed" /\ Moves
  /\ page' = "checking"
  /\ UNCHANGED <<texts, shown, list, job, cancelled, chain, queue, rec, media, deletes, excused>>

CapabilityArrives ==
  /\ page = "checking" /\ page' \in {"writable", "readonly"}
  /\ UNCHANGED <<texts, shown, list, job, cancelled, chain, queue, rec, media, deletes, user,
                 excused>>

\* the hook is gone with all its uploads; the chains are the module's
Leaves ==
  /\ page' = "closed" /\ rec' = NoRecovery /\ cancelled' = {}
  /\ list' = [u \in Uploads |-> NoItem] /\ job' = [u \in Uploads |-> NoJob]

Unmounts ==
  /\ Mounted /\ Moves /\ Leaves
  /\ UNCHANGED <<texts, shown, chain, queue, media, deletes, excused>>

\* what was not yet written is lost
Reloads ==
  /\ "reload" \in Failures /\ Mounted /\ user.moves < MaxMoves /\ Leaves
  /\ chain' = [u \in Uploads |-> <<>>]
  /\ LET unwritten == {u \in Uploads : chain[u] # <<>>} IN
     /\ excused' = excused \cup unwritten
                            \cup UNION {{chain[u][i].media : i \in DOMAIN chain[u]} : u \in Uploads}
     /\ user' = [user EXCEPT !.moves = @ + 1, !.gone = @ \ unwritten]
  /\ deletes' \in SUBSET deletes
  /\ UNCHANGED <<texts, shown, queue, media>>

\* mediaStillProcessing locks the other drafts and the save
Processing == \E u \in Uploads : list[u].status \in Busy \/ (list[u] # NoItem /\ text[u] > 0)

LoadsDraft ==
  /\ Mounted /\ Moves /\ ~Processing
  /\ shown' = 3 - shown
  /\ UNCHANGED <<texts, list, job, cancelled, chain, queue, rec, page, media, deletes, excused>>

\* the server takes a text only when all it refers to is ready
Saves ==
  /\ Mounted /\ Moves /\ ~Processing
  /\ \A r \in Refs : text[r] > 0 => r \in Media /\ media[r] = "ready"
  /\ Writes([r \in Refs |-> 0])
  /\ UNCHANGED <<shown, list, job, cancelled, chain, queue, rec, page, media, deletes, excused>>

\* a reference is copied or erased in the text itself
Edits ==
  /\ Mounted /\ Moves
  /\ \E r \in Refs :
       /\ text[r] > 0
       /\ \E n \in 0..MaxRefs : n # text[r] /\ Writes([text EXCEPT ![r] = n])
  /\ UNCHANGED <<shown, list, job, cancelled, chain, queue, rec, page, media, deletes, excused>>

UploadSteps == \E u \in Uploads :
  TicketArrives(u) \/ Transfers(u) \/ Completes(u) \/ Fails(u) \/ Stops(u) \/ QueueWrites(u)

Next ==
  \/ UploadSteps \/ DeleteArrives
  \/ Chooses \/ Retries \/ CancelsUpload \/ RemovesUpload
  \/ RecoveryStarts \/ RecoveryReads \/ RecoveryShows \/ RecoveryEnds
  \/ Mounts \/ CapabilityArrives \/ Unmounts \/ Reloads
  \/ LoadsDraft \/ Saves \/ Edits

Spec == Init /\ [][Next]_vars

-----------------------------------------------------------------------------
(* Properties *)

\* A placeholder in a draft has an upload behind it, in the list or in
\* IndexedDB, that can go on, be tried again or be taken away; unless the user
\* took it away already or the store lost it.
PlaceholderIsBacked == \A u \in Uploads \ excused :
  texts[1][u] + texts[2][u] > 0 =>
    \/ list[u] # NoItem \/ queue[u] # NoRecord
    \/ \E i \in DOMAIN chain[u] : chain[u][i].op = "put"

\* A reference to an item of the server stays usable: no cancel, removal, retry
\* or recovery deletes an item that a text refers to.
ReferencesUsable == \A m \in Media \ excused, i \in 1..2 : texts[i][m] > 0 => media[m] = "ready"

\* An attachment the user cancelled or removed is forgotten for good once its
\* writes are done: neither the request that was under way nor a recovery that
\* had read the queue before writes it back.
TakenAwayStaysGone == \A u \in user.gone :
  list[u] = NoItem /\ (chain[u] = <<>> => queue[u] = NoRecord)
=============================================================================

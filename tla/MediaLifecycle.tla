--------------------------- MODULE MediaLifecycle ---------------------------
(***************************************************************************)
(* A media item from its upload ticket to the removal of its file: the     *)
(* upload endpoints of the API (media_handlers.go), the references that    *)
(* saved entries hold on it (commit_database.go, undo_handlers.go), the    *)
(* job table, the worker that deletes files, sweeps abandoned uploads and  *)
(* publishes copies on the external image host (cmd/worker), and the       *)
(* settings of that host (integration_settings.go).                        *)
(*                                                                         *)
(* The API and the worker share the database and the media directory and   *)
(* nothing else.  A step is one statement, one file operation or one call  *)
(* of the host, wherever the other process can act in between; row locks   *)
(* are the guards of the steps that wait for them.                         *)
(***************************************************************************)
EXTENDS Naturals, FiniteSets

CONSTANTS
  Media,         \* ids of media rows; an id is never used twice
  Entries,       \* entries that may refer to media
  Public,        \* public images the host accepts (CanPublish)
  Targets,       \* accounts on image hosts: endpoint, workspace and token
  Failures,      \* what may fail: see FailureKinds
  MaxAttempts,   \* runs of a job that keeps failing (5 in the code)
  MaxRevision,   \* bound: saves of the host's settings
  None

\* The worker may die, or one of these steps of its may fail.
FailureKinds == {"crash", "sweep", "sweep_row", "trash", "remove", "row", "upload", "record"}

ASSUME MediaAssumption ==
  /\ Public \subseteq Media
  /\ None \notin Targets
  /\ Failures \subseteq FailureKinds
  /\ MaxAttempts \in Nat \ {0}
  /\ MaxRevision \in Nat \ {0}

VARIABLES
  status,        \* media.status; "none" before the row, "gone" after it
  file,          \* the file <id>-upload in the media directory
  lost,          \* history: items whose deletion failed after their file was removed
  publish,       \* the external_* columns and provider_key
  upload,        \* the request that holds the upload lock of the media item
  retry,         \* the revision a retry-publish request has read, 0 for none
  refs,          \* committed rows of media_refs
  saving,        \* the transaction of the save in progress, per entry
  jobs,          \* queued jobs
  stuck,         \* publish jobs left "running" by a worker that died
  worker,        \* what the only worker is doing
  settings,      \* the row external_image_host of integration_settings
  probed,        \* the targets whose test has passed
  host           \* the copies that the targets serve

rowVars   == <<status, publish>>
fileVars  == <<file, lost>>
apiVars   == <<upload, retry>>
entryVars == <<refs, saving>>
jobVars   == <<jobs, stuck>>
hostVars  == <<settings, probed, host>>
vars == <<status, file, lost, publish, upload, retry, refs, saving,
          jobs, stuck, worker, settings, probed, host>>

Revisions == 1..MaxRevision
NoRevision == 0

Job == [type : {"media_delete", "publish_media"}, media : Media,
        revision : Revisions \cup {NoRevision}, attempts : 0..MaxAttempts]
NoJob == [type |-> "none"]
Sweep(m) == [type |-> "sweep", media |-> m]

NoSettings  == [revision |-> NoRevision, target |-> None, enabled |-> FALSE,
                verified |-> FALSE, sync |-> FALSE]
Unpublished == [state |-> "not_requested", revision |-> NoRevision, key |-> None]
NoUpload    == [by |-> "nobody", plan |-> NoRevision]
NoSave      == [step |-> "idle", media |-> {}]
Polling     == [step |-> "poll", job |-> NoJob, batch |-> {}, client |-> NoSettings]

-----------------------------------------------------------------------------
(***************************************************************************)
(* Job table and row locks                                                 *)
(***************************************************************************)
Deletion(m) == [type |-> "media_delete", media |-> m,
                revision |-> NoRevision, attempts |-> 0]
Publication(m, r) == [type |-> "publish_media", media |-> m,
                      revision |-> r, attempts |-> 0]

\* A publish job that the unique index jobs_publish_media_active_uq counts.
Active(m, r) ==
  \E j \in jobs \cup stuck \cup {worker.job} :
     j.type = "publish_media" /\ j.media = m /\ j.revision = r

\* INSERT ... ON CONFLICT DO NOTHING.
QueuePublish(m, r) ==
  jobs' = IF Active(m, r) THEN jobs ELSE jobs \cup {Publication(m, r)}

\* mutant: the row is marked, the job is forgotten
NoDeletions(M) == {}

Deletions(M) == {Deletion(m) : m \in M}

\* mutant: a SELECT without FOR UPDATE
NoRowLock(m) == FALSE

\* The worker's SELECT ... FOR UPDATE on the row of m.
WorkerLocks(m) == worker.step \in {"trash", "remove", "row"} /\ worker.job.media = m

\* The key-share lock that the foreign key of an uncommitted reference takes.
KeyShared(m) == \E e \in Entries : saving[e].step = "referred" /\ m \in saving[e].media

Referenced(m, r) == \E e \in Entries : <<e, m>> \in r

\* mutant: the UPDATE has no condition on the status
UnreferencedInAnyState(m, r) == ~Referenced(m, r)

Droppable(m, r) == status[m] = "ready" /\ ~Referenced(m, r)

\* queueMediaDeleteTx for every media item in M, where r are the references
\* the transaction leaves.
QueueDeletions(M, r) ==
  LET dropped == {m \in M : Droppable(m, r)}
  IN /\ \A m \in M : ~WorkerLocks(m)
     /\ status' = [m \in Media |-> IF m \in dropped THEN "deleting" ELSE status[m]]
     /\ jobs' = jobs \cup Deletions(dropped)

-----------------------------------------------------------------------------
(***************************************************************************)
(* Uploads (API).  The mutex and the advisory lock let one PATCH, finalize *)
(* or DELETE request at a time work on a media item; the worker takes      *)
(* neither.                                                                *)
(***************************************************************************)
Ticket(m) ==
  /\ status[m] = "none"
  /\ status' = [status EXCEPT ![m] = "uploading"]
  /\ UNCHANGED <<fileVars, publish, apiVars, entryVars, jobVars, worker, hostVars>>

PatchReads(m) ==
  /\ upload[m].by = "nobody"
  /\ status[m] = "uploading"
  /\ file[m] # "whole"
  /\ upload' = [upload EXCEPT ![m].by = "patch"]
  /\ UNCHANGED <<rowVars, fileVars, retry, entryVars, jobVars, worker, hostVars>>

\* The file is opened with O_CREATE: it comes back if it was swept meanwhile.
PatchWrites(m) ==
  /\ upload[m].by = "patch"
  /\ \E size \in {"part", "whole"} : file' = [file EXCEPT ![m] = size]
  /\ upload' = [upload EXCEPT ![m] = NoUpload]
  /\ UNCHANGED <<rowVars, lost, retry, entryVars, jobVars, worker, hostVars>>

\* externalPublishPlan: the revision to publish with, or none.
Plan(m) == IF m \in Public /\ settings.enabled /\ settings.verified
           THEN settings.revision ELSE NoRevision

FinalizeReads(m) ==
  /\ upload[m].by = "nobody"
  /\ status[m] = "uploading"
  /\ file[m] = "whole"
  /\ upload' = [upload EXCEPT ![m] = [by |-> "finalize", plan |-> Plan(m)]]
  /\ UNCHANGED <<rowVars, fileVars, retry, entryVars, jobVars, worker, hostVars>>

\* mutant: the UPDATE has no condition on the status
AnyStatus(m) == TRUE

StillUploading(m) == status[m] = "uploading"

FinalizeWrites(m) ==
  /\ upload[m].by = "finalize"
  /\ StillUploading(m)
  /\ LET r == upload[m].plan
     IN /\ status' = [status EXCEPT ![m] = "ready"]
        /\ IF r = NoRevision
           THEN UNCHANGED <<publish, jobs>>
           ELSE /\ publish' = [publish EXCEPT ![m].state = "pending", ![m].revision = r]
                /\ QueuePublish(m, r)
  /\ upload' = [upload EXCEPT ![m] = NoUpload]
  /\ UNCHANGED <<fileVars, retry, entryVars, stuck, worker, hostVars>>

\* The client went away, the lock timed out, or the row is no longer uploading.
UploadAborts(m) ==
  /\ upload[m].by # "nobody"
  /\ upload' = [upload EXCEPT ![m] = NoUpload]
  /\ UNCHANGED <<rowVars, fileVars, retry, entryVars, jobVars, worker, hostVars>>

DeleteMedia(m) ==
  /\ upload[m].by = "nobody"
  /\ status[m] \in {"uploading", "ready"}
  /\ ~KeyShared(m)
  /\ ~Referenced(m, refs)
  /\ status' = [status EXCEPT ![m] = "deleting"]
  /\ jobs' = jobs \cup Deletions({m})
  /\ UNCHANGED <<fileVars, publish, apiVars, entryVars, stuck, worker, hostVars>>

\* retry-publish reads the row and the settings before its transaction.
RetryReads(m) ==
  /\ retry[m] = NoRevision
  /\ status[m] = "ready"
  /\ Plan(m) # NoRevision
  /\ publish[m].state \notin {"pending", "publishing"}
  /\ retry' = [retry EXCEPT ![m] = Plan(m)]
  /\ UNCHANGED <<rowVars, fileVars, upload, entryVars, jobVars, worker, hostVars>>

RetryWrites(m) ==
  /\ retry[m] # NoRevision
  /\ ~WorkerLocks(m)
  /\ publish' = IF status[m] = "gone" THEN publish
                ELSE [publish EXCEPT ![m].state = "pending", ![m].revision = retry[m]]
  /\ QueuePublish(m, retry[m])
  /\ retry' = [retry EXCEPT ![m] = NoRevision]
  /\ UNCHANGED <<status, fileVars, upload, entryVars, stuck, worker, hostVars>>

-----------------------------------------------------------------------------
(***************************************************************************)
(* References of entries                                                   *)
(***************************************************************************)
\* INSERT INTO media_refs ... SELECT ... WHERE status = 'ready': what the
\* statement sees.
SaveReads(e, M) ==
  /\ saving[e].step = "idle"
  /\ \A m \in M : status[m] = "ready"
  /\ saving' = [saving EXCEPT ![e] = [step |-> "read", media |-> M]]
  /\ UNCHANGED <<rowVars, fileVars, apiVars, refs, jobVars, worker, hostVars>>

\* The foreign key of the new references: it waits for a lock on the row and
\* fails when the row is gone.
SaveRefers(e) ==
  /\ saving[e].step = "read"
  /\ \A m \in saving[e].media : status[m] # "gone" /\ ~WorkerLocks(m)
  /\ saving' = [saving EXCEPT ![e].step = "referred"]
  /\ UNCHANGED <<rowVars, fileVars, apiVars, refs, jobVars, worker, hostVars>>

SaveCommits(e) ==
  /\ saving[e].step = "referred"
  /\ LET M    == saving[e].media
         left == {p \in refs : p[1] # e} \cup ({e} \X M)
     IN /\ QueueDeletions({m \in Media : <<e, m>> \in refs} \ M, left)
        /\ refs' = left
  /\ saving' = [saving EXCEPT ![e] = NoSave]
  /\ UNCHANGED <<publish, fileVars, apiVars, stuck, worker, hostVars>>

SaveAborts(e) ==
  /\ saving[e].step # "idle"
  /\ saving' = [saving EXCEPT ![e] = NoSave]
  /\ UNCHANGED <<rowVars, fileVars, apiVars, refs, jobVars, worker, hostVars>>

\* DELETE FROM entries cascades to media_refs.
EntryGoes(e) ==
  /\ saving[e].step = "idle"
  /\ refs' = {p \in refs : p[1] # e}

\* The purge of the API and the worker's purge of expired trash.
PurgeEntry(e) ==
  /\ EntryGoes(e)
  /\ QueueDeletions({m \in Media : <<e, m>> \in refs}, refs')
  /\ UNCHANGED <<publish, fileVars, apiVars, saving, stuck, worker, hostVars>>

\* The undo of a creation deletes the entry and queues nothing.
UndoCreate(e) ==
  /\ EntryGoes(e)
  /\ UNCHANGED <<rowVars, fileVars, apiVars, saving, jobVars, worker, hostVars>>

-----------------------------------------------------------------------------
(***************************************************************************)
(* Settings of the image host                                              *)
(***************************************************************************)
\* The result of the last test outlives a save that keeps the target.
SaveSettings(t) ==
  /\ settings.revision < MaxRevision
  /\ \E enabled, sync \in BOOLEAN :
        settings' = [revision |-> settings.revision + 1, target |-> t, enabled |-> enabled,
                     verified |-> settings.verified /\ settings.target = t, sync |-> sync]
  /\ UNCHANGED <<rowVars, fileVars, apiVars, entryVars, jobVars, worker, probed, host>>

\* The test is made with the target of the request, saved or not; its result
\* goes to the row of the saved settings.
ProbePasses(t) ==
  /\ probed' = probed \cup {t}
  /\ settings' = [settings EXCEPT !.verified = settings.revision # NoRevision]
  /\ UNCHANGED <<rowVars, fileVars, apiVars, entryVars, jobVars, worker, host>>

\* mutant: the revision of the job is not compared
UsableAtAnyRevision(r) == settings.enabled /\ settings.verified

\* loadWorkerImageClientConfig succeeds for a job of revision r.
Usable(r) ==
  /\ settings.enabled /\ settings.verified
  /\ r = NoRevision \/ settings.revision = r

-----------------------------------------------------------------------------
(***************************************************************************)
(* The worker: one loop, one job at a time                                 *)
(***************************************************************************)
Goes(step) == worker' = [worker EXCEPT !.step = step]
At(step, m) == worker.step = step /\ worker.job.media = m

\* cleanupAbandonedUploads, its transaction: any row that still uploads may
\* be a day old.
SweepMarks(M) ==
  /\ worker.step = "poll"
  /\ M # {} /\ \A m \in M : status[m] = "uploading"
  /\ status' = [m \in Media |-> IF m \in M THEN "deleting" ELSE status[m]]
  /\ worker' = [worker EXCEPT !.step = "sweep", !.batch = M]
  /\ UNCHANGED <<fileVars, publish, apiVars, entryVars, jobVars, hostVars>>

SweepRemoves(m) ==
  /\ worker.step = "sweep" /\ m \in worker.batch
  /\ file' = [file EXCEPT ![m] = "none"]
  /\ worker' = [worker EXCEPT !.step = "sweep_row", !.job = Sweep(m), !.batch = @ \ {m}]
  /\ UNCHANGED <<rowVars, lost, apiVars, entryVars, jobVars, hostVars>>

SweepSkips(m) ==
  /\ "sweep" \in Failures
  /\ worker.step = "sweep" /\ m \in worker.batch
  /\ worker' = [worker EXCEPT !.batch = @ \ {m}]
  /\ UNCHANGED <<rowVars, fileVars, apiVars, entryVars, jobVars, hostVars>>

SweepDeletes(m) ==
  /\ At("sweep_row", m)
  /\ status' = [status EXCEPT ![m] = "gone"]
  /\ worker' = [worker EXCEPT !.step = "sweep", !.job = NoJob]
  /\ UNCHANGED <<fileVars, publish, apiVars, entryVars, jobVars, hostVars>>

SweepEnds ==
  /\ \/ worker.step = "sweep" /\ worker.batch = {}
     \/ worker.step = "sweep_row" /\ "sweep_row" \in Failures
  /\ worker' = Polling
  /\ UNCHANGED <<rowVars, fileVars, apiVars, entryVars, jobVars, hostVars>>

Claim(j) ==
  /\ worker.step = "poll"
  /\ j \in jobs
  /\ jobs' = jobs \ {j}
  /\ worker' = [worker EXCEPT !.step = j.type, !.job = [j EXCEPT !.attempts = @ + 1]]
  /\ UNCHANGED <<rowVars, fileVars, apiVars, entryVars, stuck, hostVars>>

Retried(j) == j.attempts < MaxAttempts

JobEnds ==
  /\ worker.step \in {"done", "failed"}
  /\ jobs' = IF worker.step = "failed" /\ Retried(worker.job)
             THEN jobs \cup {worker.job} ELSE jobs
  /\ worker' = Polling
  /\ UNCHANGED <<rowVars, fileVars, apiVars, entryVars, stuck, hostVars>>

\* The job stays "running"; nobody looks at such a job again, but the unique
\* index still counts a publish job.
Crash ==
  /\ "crash" \in Failures
  /\ worker.step # "poll"
  /\ stuck' = IF worker.job.type = "publish_media"
              THEN stuck \cup {[worker.job EXCEPT !.attempts = 0]} ELSE stuck
  /\ worker' = Polling
  /\ UNCHANGED <<rowVars, fileVars, apiVars, entryVars, jobs, hostVars>>

\* A step of the job under way fails; its transaction is rolled back.
StepFails ==
  /\ worker.step \in Failures \cap {"trash", "remove", "row", "record"}
  /\ lost' = IF worker.step = "row" THEN lost \cup {worker.job.media} ELSE lost
  /\ Goes("failed")
  /\ UNCHANGED <<rowVars, file, apiVars, entryVars, jobVars, hostVars>>

-----------------------------------------------------------------------------
(***************************************************************************)
(* deleteMediaJob                                                          *)
(***************************************************************************)
StillReferenced(m) == Referenced(m, refs)

\* mutant: the job is done, the item stays marked
LeftDeleting(m) == UNCHANGED status

PutBack(m) == status' = [status EXCEPT ![m] = "ready"]

DeletionLocks(m) ==
  /\ At("media_delete", m)
  /\ ~KeyShared(m)
  /\ \/ /\ status[m] # "deleting"
        /\ Goes("done") /\ UNCHANGED status
     \/ /\ status[m] = "deleting" /\ StillReferenced(m)
        /\ PutBack(m) /\ Goes("done")
     \/ /\ status[m] = "deleting" /\ ~StillReferenced(m)
        /\ Goes(IF publish[m].key # None THEN "trash" ELSE "remove") /\ UNCHANGED status
  /\ UNCHANGED <<fileVars, publish, apiVars, entryVars, jobVars, hostVars>>

\* mutant: an error of the host is logged and forgotten
TrashErrorIgnored(m) == TRUE

\* The remote copy is gone, or its deletion is switched off.
Trashed(m) == ~settings.sync \/ Usable(publish[m].revision)

\* trashExternalMedia.  A target that does not know the key answers that it
\* updated nothing, which the client takes for success.
DeletionTrashes(m) ==
  /\ At("trash", m)
  /\ worker' = [worker EXCEPT !.step = IF Trashed(m) THEN "remove" ELSE "failed",
                              !.client = settings]
  /\ host' = IF settings.sync /\ Usable(publish[m].revision)
             THEN host \ {<<settings.target, m>>} ELSE host
  /\ UNCHANGED <<rowVars, fileVars, apiVars, entryVars, jobVars, settings, probed>>

DeletionRemoves(m) ==
  /\ At("remove", m)
  /\ file' = [file EXCEPT ![m] = "none"]
  /\ Goes("row")
  /\ UNCHANGED <<rowVars, lost, apiVars, entryVars, jobVars, hostVars>>

DeletionEnds(m) ==
  /\ At("row", m)
  /\ status' = [status EXCEPT ![m] = "gone"]
  /\ Goes("done")
  /\ UNCHANGED <<fileVars, publish, apiVars, entryVars, jobVars, hostVars>>

-----------------------------------------------------------------------------
(***************************************************************************)
(* publishMediaJob                                                         *)
(***************************************************************************)
PublicationLoads(m) ==
  /\ At("publish_media", m)
  /\ worker' = [worker EXCEPT
       !.step = IF status[m] = "gone" THEN "failed"
                ELSE IF publish[m].state = "published" \/ status[m] # "ready" THEN "done"
                ELSE IF Usable(worker.job.revision) THEN "claim" ELSE "failed",
       !.client = settings]
  /\ UNCHANGED <<rowVars, fileVars, apiVars, entryVars, jobVars, hostVars>>

PublicationClaims(m) ==
  /\ At("claim", m)
  /\ IF status[m] = "ready" /\ publish[m].state \in {"pending", "failed", "publishing"}
     THEN publish' = [publish EXCEPT ![m].state = "publishing"] /\ Goes("upload")
     ELSE UNCHANGED publish /\ Goes("done")
  /\ UNCHANGED <<status, fileVars, apiVars, entryVars, jobVars, hostVars>>

PublicationUploads(m) ==
  /\ At("upload", m)
  /\ file[m] = "whole"
  /\ host' = host \cup {<<worker.client.target, m>>}
  /\ Goes("record")
  /\ UNCHANGED <<rowVars, fileVars, apiVars, entryVars, jobVars, settings, probed>>

\* The host may have stored the copy before the request timed out.
UploadFails(m) ==
  /\ At("upload", m)
  /\ "upload" \in Failures \/ file[m] # "whole"
  /\ host' \in {host, host \cup {<<worker.client.target, m>>}}
  /\ Goes("mark")
  /\ UNCHANGED <<rowVars, fileVars, apiVars, entryVars, jobVars, settings, probed>>

PublicationMarks(m) ==
  /\ At("mark", m)
  /\ publish' = [publish EXCEPT ![m].state = "failed"]
  /\ Goes("failed")
  /\ UNCHANGED <<status, fileVars, apiVars, entryVars, jobVars, hostVars>>

PublicationRecords(m) ==
  /\ At("record", m)
  /\ publish' = [publish EXCEPT ![m].state = "published", ![m].key = worker.client.target]
  /\ Goes("done")
  /\ UNCHANGED <<status, fileVars, apiVars, entryVars, jobVars, hostVars>>

-----------------------------------------------------------------------------
Init ==
  /\ status = [m \in Media |-> "none"]
  /\ file = [m \in Media |-> "none"] /\ lost = {}
  /\ publish = [m \in Media |-> Unpublished]
  /\ upload = [m \in Media |-> NoUpload]
  /\ retry = [m \in Media |-> NoRevision]
  /\ refs = {}
  /\ saving = [e \in Entries |-> NoSave]
  /\ jobs = {} /\ stuck = {}
  /\ worker = Polling
  /\ settings = NoSettings
  /\ probed = {} /\ host = {}

Api(m) ==
  \/ Ticket(m) \/ PatchReads(m) \/ PatchWrites(m)
  \/ FinalizeReads(m) \/ FinalizeWrites(m) \/ UploadAborts(m)
  \/ DeleteMedia(m) \/ RetryReads(m) \/ RetryWrites(m)

SaveEnds(e) == SaveRefers(e) \/ SaveCommits(e) \/ SaveAborts(e)
Entry(e) ==
  \/ \E M \in SUBSET Media : SaveReads(e, M)
  \/ SaveEnds(e) \/ PurgeEntry(e) \/ UndoCreate(e)

Sweeps == SweepEnds \/ \E m \in Media : SweepRemoves(m) \/ SweepDeletes(m)
Works(m) ==
  \/ DeletionLocks(m) \/ DeletionTrashes(m) \/ DeletionRemoves(m) \/ DeletionEnds(m)
  \/ PublicationLoads(m) \/ PublicationClaims(m) \/ PublicationUploads(m)
  \/ PublicationMarks(m) \/ PublicationRecords(m)

Next ==
  \/ \E m \in Media : Api(m) \/ Works(m) \/ SweepSkips(m) \/ UploadFails(m)
  \/ \E e \in Entries : Entry(e)
  \/ \E M \in SUBSET Media : SweepMarks(M)
  \/ \E j \in jobs : Claim(j)
  \/ Sweeps \/ JobEnds \/ Crash \/ StepFails
  \/ \E t \in Targets : SaveSettings(t) \/ ProbePasses(t)

Spec == Init /\ [][Next]_vars

-----------------------------------------------------------------------------
(***************************************************************************)
(* Safety                                                                  *)
(***************************************************************************)
Settings == [revision : 0..MaxRevision, target : Targets \cup {None},
             enabled : BOOLEAN, verified : BOOLEAN, sync : BOOLEAN]
Steps == {"poll", "sweep", "sweep_row", "media_delete", "trash", "remove", "row",
          "publish_media", "claim", "upload", "mark", "record", "done", "failed"}

\* Every variable keeps its type; no job is run more often than MaxAttempts.
TypeOK ==
  /\ status \in [Media -> {"none", "uploading", "ready", "deleting", "gone"}]
  /\ file \in [Media -> {"none", "part", "whole"}]
  /\ lost \subseteq Media
  /\ publish \in [Media ->
       [state : {"not_requested", "pending", "publishing", "published", "failed"},
        revision : 0..MaxRevision, key : Targets \cup {None}]]
  /\ upload \in [Media -> [by : {"nobody", "patch", "finalize"}, plan : 0..MaxRevision]]
  /\ retry \in [Media -> 0..MaxRevision]
  /\ refs \subseteq Entries \X Media
  /\ saving \in [Entries -> [step : {"idle", "read", "referred"}, media : SUBSET Media]]
  /\ jobs \subseteq Job
  /\ stuck \subseteq Job
  /\ worker \in [step : Steps, job : Job \cup {NoJob} \cup {Sweep(m) : m \in Media},
                  batch : SUBSET Media, client : Settings]
  /\ settings \in Settings
  /\ probed \subseteq Targets
  /\ host \subseteq Targets \X Media

\* The types hold, and a media item that the API serves has its whole file,
\* whatever uploads, the sweep, deletions and saves do at the same time,
\* wherever the worker dies and whichever step of it fails.  (finalize trusts a
\* status it read without a lock; deleteMediaJob puts an item back to ready.)
\* One kind of item is excepted: when the DELETE of the row fails, the file is
\* already gone, and the job that tries again puts the item back to ready
\* without it if an entry has come to refer to it meanwhile.
ReadyHasFile ==
  TypeOK /\ \A m \in Media : status[m] = "ready" => file[m] = "whole" \/ m \in lost

\* A queued deletion still has something to delete: an item is never queued
\* for deletion twice.
QueuedDeletionIsDue ==
  \A j \in jobs : j.type = "media_delete" => status[j.media] = "deleting"

\* While no step of the worker fails, the file of every referenced item stays,
\* also the file of an item that was dropped by one entry while another entry
\* was taking it up.
ReferencedFileIsKept == \A p \in refs : file[p[2]] = "whole"

\* The job uploads with the settings of the revision in its payload
\* (ADR-013: an old job never runs silently with a new token).
UsesItsRevision ==
  worker.step = "upload" => worker.client.revision = worker.job.revision

Removed(m) == file[m] = "whole" /\ file'[m] # "whole"

\* The worker never removes a file that an entry refers to, although it checks
\* the references long before it removes the file.
RemovesOnlyUnreferenced == [][\A m \in Media : Removed(m) => ~Referenced(m, refs)]_vars

\* With syncDeletes the original goes only after the copy (ADR-013: when the
\* host fails the local original is not deleted).
OriginalOutlivesCopy ==
  [][\A m \in Media :
       /\ Removed(m)
       /\ publish[m].key # None /\ publish[m].key = worker.client.target
       => ~worker.client.sync \/ <<publish[m].key, m>> \notin host]_vars

-----------------------------------------------------------------------------
(***************************************************************************)
(* Liveness: the worker's loop goes on, its jobs are taken in the order of *)
(* run_at, and a transaction of the API ends.                              *)
(***************************************************************************)
TakesDeletion(m) == \E j \in jobs : j.type = "media_delete" /\ j.media = m /\ Claim(j)

FairSpec ==
  /\ Spec
  /\ WF_vars(Sweeps) /\ WF_vars(JobEnds)
  /\ \A m \in Media : WF_vars(Works(m)) /\ SF_vars(TakesDeletion(m))
  /\ \A e \in Entries : WF_vars(SaveEnds(e))

\* An item marked for deletion is deleted, or goes back to ready.
DroppedMediaSettles ==
  \A m \in Media : status[m] = "deleting" ~> status[m] \in {"ready", "gone"}

\* The file of an item that an entry refers to is never gone, and the item is
\* served again although another request had marked it for deletion.
ReferencedMediaIsServed ==
  []ReferencedFileIsKept /\ \A e \in Entries, m \in Media :
     <<e, m>> \in refs ~> status[m] = "ready" \/ <<e, m>> \notin refs

-----------------------------------------------------------------------------
(***************************************************************************)
(* What the documents say and the code does not do                         *)
(***************************************************************************)
\* ADR-013: a failed publication can be retried.  An item that waits for its
\* publication has a job, as retry-publish queues none for it.
WaitingHasJob ==
  \A m \in Media :
     status[m] = "ready" /\ publish[m].state \in {"pending", "publishing"} =>
       \E j \in jobs \cup {worker.job} : j.type = "publish_media" /\ j.media = m

\* ADR-008: nothing is published before the test of the saved settings passed.
UsesProbedTarget == worker.step = "upload" => worker.client.target \in probed

=============================================================================

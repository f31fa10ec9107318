------------------------- MODULE MediaLifecycle_proofs -------------------------
(***************************************************************************)
(* Proofs about MediaLifecycle, for every number of items, entries and     *)
(* targets, and for every set of failures: what the API serves has its     *)
(* file, but for what a deletion lost, a queued deletion is due, the       *)
(* worker removes no file that an entry refers to, and a job uses the      *)
(* settings it was queued under.                                           *)
(***************************************************************************)
EXTENDS MediaLifecycle, TLAPS

-----------------------------------------------------------------------------
(* The invariant: types *)

PublishRow == [state : {"not_requested", "pending", "publishing", "published", "failed"},
               revision : 0..MaxRevision, key : Targets \cup {None}]
UploadRow  == [by : {"nobody", "patch", "finalize"}, plan : 0..MaxRevision]

RowsOK ==
  /\ status \in [Media -> {"none", "uploading", "ready", "deleting", "gone"}]
  /\ file \in [Media -> {"none", "part", "whole"}]
  /\ lost \subseteq Media
  /\ publish \in [Media -> PublishRow]

ApiOK ==
  /\ upload \in [Media -> UploadRow]
  /\ retry \in [Media -> 0..MaxRevision]

EntriesOK ==
  /\ refs \subseteq Entries \X Media
  /\ saving \in [Entries -> [step : {"idle", "read", "referred"}, media : SUBSET Media]]

QueueOK == jobs \subseteq Job /\ stuck \subseteq Job

AnyJob == Job \cup {NoJob} \cup {Sweep(m) : m \in Media}

WorkerOK == worker \in [step : Steps, job : AnyJob, batch : SUBSET Media, client : Settings]

HostOK == settings \in Settings /\ probed \subseteq Targets /\ host \subseteq Targets \X Media

LEMMA TypeParts ==
  TypeOK <=> RowsOK /\ ApiOK /\ EntriesOK /\ QueueOK /\ WorkerOK /\ HostOK
  BY DEF TypeOK, PublishRow, UploadRow, RowsOK, ApiOK, EntriesOK, QueueOK, AnyJob, WorkerOK, HostOK

DeletionSteps == {"media_delete", "trash", "remove", "row"}
PublicationSteps == {"publish_media", "claim", "upload", "mark", "record"}

\* The step of the worker tells what its job is.
JobSteps ==
  /\ worker.step \in {"poll", "sweep"} => worker.job = NoJob
  /\ worker.step = "sweep_row" => \E m \in Media : worker.job = Sweep(m)
  /\ worker.step \notin {"poll", "sweep", "sweep_row"} => worker.job \in Job
  /\ worker.step \in DeletionSteps => worker.job.type = "media_delete"
  /\ worker.step \in PublicationSteps => worker.job.type = "publish_media"

\* A queued job may run again.
Attempts == \A j \in jobs : j.attempts < MaxAttempts

\* What is uploaded goes to a target, with the settings of the job's revision.
Planned ==
  /\ settings.enabled => settings.target \in Targets
  /\ \A j \in jobs : j.type = "publish_media" => j.revision # NoRevision
  /\ worker.job.type = "publish_media" => worker.job.revision # NoRevision
  /\ worker.step \in {"claim", "upload"} =>
       worker.client.target \in Targets /\ worker.client.revision = worker.job.revision

WorkOK == QueueOK /\ WorkerOK /\ JobSteps /\ Attempts

-----------------------------------------------------------------------------
(* Types *)

LEMMA JobFields ==
  ASSUME NEW j \in Job
  PROVE  /\ j.type \in {"media_delete", "publish_media"} /\ j.media \in Media
         /\ j.revision \in 0..MaxRevision /\ j.attempts \in 0..MaxAttempts
  BY MediaAssumption DEF Job, Revisions, NoRevision

LEMMA CountedJob ==
  ASSUME NEW j \in Job, j.attempts < MaxAttempts
  PROVE  [j EXCEPT !.attempts = @ + 1] \in Job
  BY MediaAssumption DEF Job

LEMMA ResetJob ==
  ASSUME NEW j \in Job
  PROVE  [j EXCEPT !.attempts = 0] \in Job
  BY MediaAssumption DEF Job

\* What a worker that is not under way at a job has for one.
LEMMA OtherJobs ==
  /\ NoJob.type = "none" /\ \A m : Sweep(m).type = "sweep" /\ Sweep(m).media = m
  /\ Polling = [step |-> "poll", job |-> NoJob, batch |-> {}, client |-> NoSettings]
  BY DEF NoJob, Sweep, Polling

LEMMA NoSettingsOK == NoSettings \in Settings
  BY MediaAssumption DEF NoSettings, Settings, NoRevision

LEMMA PollingOK ==
  ASSUME worker' = Polling
  PROVE  WorkerOK' /\ JobSteps'
  BY NoSettingsOK DEF WorkerOK, JobSteps, Polling, AnyJob, Steps, DeletionSteps, PublicationSteps

\* A worker that goes on with its job.
LEMMA GoesOn ==
  ASSUME WorkerOK, JobSteps, NEW s \in Steps, NEW c \in Settings,
         worker' = [worker EXCEPT !.step = s, !.client = c],
         \/ worker.step \in DeletionSteps /\ s \in DeletionSteps \cup {"done", "failed"}
         \/ worker.step \in PublicationSteps /\ s \in PublicationSteps \cup {"done", "failed"}
  PROVE  WorkerOK' /\ JobSteps'
  BY DEF WorkerOK, JobSteps, DeletionSteps, PublicationSteps

LEMMA GoesTo ==
  ASSUME WorkerOK, JobSteps, NEW s \in Steps, Goes(s),
         \/ worker.step \in DeletionSteps /\ s \in DeletionSteps \cup {"done", "failed"}
         \/ worker.step \in PublicationSteps /\ s \in PublicationSteps \cup {"done", "failed"}
  PROVE  WorkerOK' /\ JobSteps'
  BY DEF Goes, WorkerOK, JobSteps, DeletionSteps, PublicationSteps

LEMMA RowEdits ==
  /\ NoUpload \in UploadRow
  /\ \A r \in 0..MaxRevision, by \in {"patch", "finalize"} : [by |-> by, plan |-> r] \in UploadRow
  /\ \A row \in UploadRow : row.plan \in 0..MaxRevision /\ [row EXCEPT !.by = "patch"] \in UploadRow
  /\ \A row \in PublishRow, r \in 0..MaxRevision :
       [row EXCEPT !.state = "pending", !.revision = r] \in PublishRow
  /\ \A row \in PublishRow, s \in {"publishing", "failed"} :
       [row EXCEPT !.state = s] \in PublishRow
  /\ \A row \in PublishRow, t \in Targets \cup {None} :
       [row EXCEPT !.state = "published", !.key = t] \in PublishRow
  <1>1. NoUpload \in UploadRow
    BY MediaAssumption DEF NoUpload, NoRevision, UploadRow
  <1>2. \A r \in 0..MaxRevision, by \in {"patch", "finalize"} : [by |-> by, plan |-> r] \in UploadRow
    BY DEF UploadRow
  <1>3. \A row \in UploadRow : row.plan \in 0..MaxRevision /\ [row EXCEPT !.by = "patch"] \in UploadRow
    BY DEF UploadRow
  <1>4. \A row \in PublishRow, r \in 0..MaxRevision :
          [row EXCEPT !.state = "pending", !.revision = r] \in PublishRow
    BY DEF PublishRow
  <1>5. \A row \in PublishRow, s \in {"publishing", "failed"} :
          [row EXCEPT !.state = s] \in PublishRow
    BY DEF PublishRow
  <1>6. \A row \in PublishRow, t \in Targets \cup {None} :
          [row EXCEPT !.state = "published", !.key = t] \in PublishRow
    BY DEF PublishRow
  <1> QED
    BY <1>1, <1>2, <1>3, <1>4, <1>5, <1>6

\* Every step keeps the types of the rows, of the API, of the entries and of
\* the host.
LEMMA RowsStep == TypeOK /\ WorkOK /\ Planned /\ Next => RowsOK' /\ ApiOK' /\ EntriesOK' /\ HostOK'
  <1> SUFFICES ASSUME TypeOK, WorkOK, Planned, Next PROVE RowsOK' /\ ApiOK' /\ EntriesOK' /\ HostOK'
    OBVIOUS
  <1> DEFINE Goal == RowsOK' /\ ApiOK' /\ EntriesOK' /\ HostOK'
  <1>0. RowsOK /\ ApiOK /\ EntriesOK /\ WorkerOK /\ HostOK
    BY TypeParts
  <1> USE <1>0, MediaAssumption DEF rowVars, fileVars, apiVars, entryVars, hostVars
  <1>1. ASSUME NEW m \in Media, Ticket(m) PROVE Goal
    BY <1>1 DEF Ticket, RowsOK, ApiOK, EntriesOK, HostOK
  <1>2. ASSUME NEW m \in Media, PatchReads(m) \/ PatchWrites(m) PROVE Goal
    <2>1. CASE PatchReads(m)
      BY RowEdits, <2>1 DEF PatchReads, RowsOK, ApiOK, EntriesOK, HostOK
    <2>2. CASE PatchWrites(m)
      BY RowEdits, <2>2 DEF PatchWrites, RowsOK, ApiOK, EntriesOK, HostOK
    <2> QED
      BY <1>2, <2>1, <2>2
  <1>3. ASSUME NEW m \in Media PROVE Plan(m) \in 0..MaxRevision
    BY DEF Plan, NoRevision, HostOK, Settings
  <1>4. ASSUME NEW m \in Media, FinalizeReads(m) \/ UploadAborts(m) PROVE Goal
    <2>1. CASE FinalizeReads(m)
      BY <1>3, RowEdits, <2>1 DEF FinalizeReads, RowsOK, ApiOK, EntriesOK, HostOK
    <2>2. CASE UploadAborts(m)
      BY <1>3, RowEdits, <2>2 DEF UploadAborts, RowsOK, ApiOK, EntriesOK, HostOK
    <2> QED
      BY <1>4, <2>1, <2>2
  <1>5. ASSUME NEW m \in Media, FinalizeWrites(m) PROVE Goal
    <2>1. ApiOK' /\ EntriesOK' /\ HostOK'
      BY <1>5, RowEdits DEF FinalizeWrites, ApiOK, EntriesOK, HostOK
    <2>2. RowsOK'
      <3>1. upload[m].plan \in 0..MaxRevision
        BY RowEdits DEF ApiOK
      <3>2. publish' \in [Media -> PublishRow]
        <4>1. CASE UNCHANGED publish
          BY <4>1 DEF RowsOK
        <4>2. CASE publish' = [publish EXCEPT ![m].state = "pending", ![m].revision = upload[m].plan]
          BY <3>1, <4>2, RowEdits DEF RowsOK
        <4> QED
          BY <1>5, <4>1, <4>2 DEF FinalizeWrites
      <3> QED
        BY <1>5, <3>2 DEF FinalizeWrites, RowsOK
    <2> QED
      BY <2>1, <2>2
  <1>6. ASSUME NEW m \in Media, DeleteMedia(m) PROVE Goal
    BY <1>6 DEF DeleteMedia, RowsOK, ApiOK, EntriesOK, HostOK
  <1>7. ASSUME NEW m \in Media, RetryReads(m) PROVE Goal
    BY <1>3, <1>7 DEF RetryReads, RowsOK, ApiOK, EntriesOK, HostOK
  <1>8. ASSUME NEW m \in Media, RetryWrites(m) PROVE Goal
    <2>1. ApiOK' /\ EntriesOK' /\ HostOK'
      BY <1>8 DEF RetryWrites, NoRevision, ApiOK, EntriesOK, HostOK
    <2>2. RowsOK'
      BY <1>8, RowEdits DEF RetryWrites, RowsOK, ApiOK
    <2> QED
      BY <2>1, <2>2
  <1>9. ASSUME NEW M, NEW r, QueueDeletions(M, r)
        PROVE  status' \in [Media -> {"none", "uploading", "ready", "deleting", "gone"}]
    BY <1>9 DEF QueueDeletions, RowsOK
  <1>10. ASSUME NEW e \in Entries, Entry(e) PROVE Goal
    <2>1. ASSUME NEW M \in SUBSET Media, SaveReads(e, M) PROVE Goal
      BY <2>1 DEF SaveReads, RowsOK, ApiOK, EntriesOK, HostOK
    <2>2. CASE SaveRefers(e) \/ SaveAborts(e)
      BY <2>2 DEF SaveRefers, SaveAborts, NoSave, RowsOK, ApiOK, EntriesOK, HostOK
    <2>3. CASE SaveCommits(e)
      <3>1. ApiOK' /\ EntriesOK' /\ HostOK'
        BY <2>3 DEF SaveCommits, NoSave, ApiOK, EntriesOK, HostOK
      <3> QED
        BY <1>9, <2>3, <3>1 DEF SaveCommits, RowsOK
    <2>4. CASE PurgeEntry(e)
      <3>1. ApiOK' /\ EntriesOK' /\ HostOK'
        BY <2>4 DEF PurgeEntry, EntryGoes, ApiOK, EntriesOK, HostOK
      <3> QED
        BY <1>9, <2>4, <3>1 DEF PurgeEntry, RowsOK
    <2>5. CASE UndoCreate(e)
      BY <2>5 DEF UndoCreate, EntryGoes, RowsOK, ApiOK, EntriesOK, HostOK
    <2> QED
      BY <1>10, <2>1, <2>2, <2>3, <2>4, <2>5 DEF Entry, SaveEnds
  <1>11. ASSUME NEW t \in Targets, SaveSettings(t) \/ ProbePasses(t) PROVE Goal
    <2>1. RowsOK' /\ ApiOK' /\ EntriesOK'
      BY <1>11 DEF SaveSettings, ProbePasses, RowsOK, ApiOK, EntriesOK
    <2>2. HostOK'
      <3>1. CASE SaveSettings(t)
        BY <3>1 DEF SaveSettings, HostOK, Settings
      <3>2. CASE ProbePasses(t)
        BY <3>2 DEF ProbePasses, HostOK, Settings
      <3> QED
        BY <1>11, <3>1, <3>2
    <2> QED
      BY <2>1, <2>2
  <1>12. ASSUME NEW M \in SUBSET Media, SweepMarks(M) PROVE Goal
    BY <1>12 DEF SweepMarks, RowsOK, ApiOK, EntriesOK, HostOK
  <1>13. ASSUME NEW m \in Media, SweepRemoves(m) \/ SweepDeletes(m) PROVE Goal
    BY <1>13 DEF SweepRemoves, SweepDeletes, RowsOK, ApiOK, EntriesOK, HostOK
  <1>14. CASE SweepEnds \/ JobEnds \/ Crash \/ StepFails
    <2>1. CASE StepFails
      <3>1. worker.step = "row" => worker.job.media \in Media
        BY JobFields DEF WorkOK, JobSteps
      <3> QED
        BY <2>1, <3>1 DEF StepFails, RowsOK, ApiOK, EntriesOK, HostOK
    <2>2. CASE ~StepFails
      BY <1>14, <2>2 DEF SweepEnds, JobEnds, Crash, RowsOK, ApiOK, EntriesOK, HostOK
    <2> QED
      BY <2>1, <2>2
  <1>15. ASSUME NEW m \in Media, SweepSkips(m) PROVE Goal
    BY <1>15 DEF SweepSkips, RowsOK, ApiOK, EntriesOK, HostOK
  <1>16. ASSUME NEW j \in jobs, Claim(j) PROVE Goal
    BY <1>16 DEF Claim, RowsOK, ApiOK, EntriesOK, HostOK
  <1>17. ASSUME NEW m \in Media, DeletionLocks(m) PROVE Goal
    BY <1>17 DEF DeletionLocks, PutBack, RowsOK, ApiOK, EntriesOK, HostOK
  <1>18. ASSUME NEW m \in Media, DeletionTrashes(m) PROVE Goal
    BY <1>18 DEF DeletionTrashes, RowsOK, ApiOK, EntriesOK, HostOK
  <1>19. ASSUME NEW m \in Media, DeletionRemoves(m) \/ DeletionEnds(m) PROVE Goal
    BY <1>19 DEF DeletionRemoves, DeletionEnds, RowsOK, ApiOK, EntriesOK, HostOK
  <1>20. ASSUME NEW m \in Media,
                PublicationLoads(m) \/ PublicationClaims(m) \/ PublicationMarks(m)
         PROVE  Goal
    <2>1. CASE PublicationLoads(m)
      BY RowEdits, <2>1 DEF PublicationLoads, RowsOK, ApiOK, EntriesOK, HostOK
    <2>2. CASE PublicationClaims(m)
      <3>1. publish' = publish \/ publish' = [publish EXCEPT ![m].state = "publishing"]
        BY <2>2 DEF PublicationClaims
      <3>2. publish' \in [Media -> PublishRow]
        <4>1. CASE publish' = publish
          BY <4>1 DEF RowsOK
        <4>2. CASE publish' = [publish EXCEPT ![m].state = "publishing"]
          BY <4>2, RowEdits DEF RowsOK
        <4> QED
          BY <3>1, <4>1, <4>2
      <3> QED
        BY <2>2, <3>2 DEF PublicationClaims, RowsOK, ApiOK, EntriesOK, HostOK
    <2>3. CASE PublicationMarks(m)
      BY RowEdits, <2>3 DEF PublicationMarks, RowsOK, ApiOK, EntriesOK, HostOK
    <2> QED
      BY <1>20, <2>1, <2>2, <2>3
  <1>a. worker.client.target \in Targets \cup {None}
    BY DEF WorkerOK, Settings
  <1>21. ASSUME NEW m \in Media, PublicationUploads(m) \/ UploadFails(m) PROVE Goal
    <2>1. worker.client.target \in Targets
      BY <1>21 DEF PublicationUploads, UploadFails, At, Planned
    <2>2. RowsOK' /\ ApiOK' /\ EntriesOK' /\ UNCHANGED <<settings, probed>>
      BY <1>21 DEF PublicationUploads, UploadFails, RowsOK, ApiOK, EntriesOK
    <2>3. host' \in {host, host \cup {<<worker.client.target, m>>}}
      BY <1>21 DEF PublicationUploads, UploadFails
    <2> QED
      BY <2>1, <2>2, <2>3 DEF HostOK
  <1>22. ASSUME NEW m \in Media, PublicationRecords(m) PROVE Goal
    BY <1>22, <1>a, RowEdits DEF PublicationRecords, RowsOK, ApiOK, EntriesOK, HostOK
  <1>23. ASSUME NEW m \in Media, Api(m) PROVE Goal
    BY <1>1, <1>2, <1>4, <1>5, <1>6, <1>7, <1>8, <1>23 DEF Api
  <1>24. ASSUME NEW m \in Media, Works(m) PROVE Goal
    BY <1>17, <1>18, <1>19, <1>20, <1>21, <1>22, <1>24 DEF Works
  <1>25. CASE Sweeps
    BY <1>13, <1>14, <1>25 DEF Sweeps
  <1> QED
    BY <1>10, <1>11, <1>12, <1>14, <1>15, <1>16, <1>21, <1>23, <1>24, <1>25 DEF Next

\* Work goes on as it is, and new jobs are queued.
LEMMA Queues ==
  ASSUME WorkOK, Planned, UNCHANGED <<stuck, worker, settings>>,
         \A j \in jobs' : \/ j \in jobs
                          \/ /\ j \in Job /\ j.attempts < MaxAttempts
                             /\ j.type = "publish_media" => j.revision # NoRevision
  PROVE  WorkOK' /\ Planned'
  <1>1. QueueOK' /\ Attempts'
    BY DEF WorkOK, QueueOK, Attempts
  <1>2. WorkerOK' /\ JobSteps'
    BY DEF WorkOK, WorkerOK, JobSteps
  <1>3. Planned'
    BY DEF Planned
  <1> QED
    BY <1>1, <1>2, <1>3 DEF WorkOK

LEMMA NewJobsWait ==
  ASSUME NEW m \in Media
  PROVE  /\ Deletion(m) \in Job /\ Deletion(m).attempts < MaxAttempts
         /\ Deletion(m).type = "media_delete" /\ Deletion(m).media = m
         /\ \A r \in Revisions :
              /\ Publication(m, r) \in Job /\ Publication(m, r).attempts < MaxAttempts
              /\ Publication(m, r).type = "publish_media" /\ Publication(m, r).media = m
              /\ Publication(m, r).revision = r /\ r # NoRevision
  BY MediaAssumption DEF Job, Deletion, Publication, Revisions, NoRevision

LEMMA QueuesDeletions ==
  ASSUME WorkOK, Planned, NEW M \in SUBSET Media, UNCHANGED <<stuck, worker, settings>>,
         jobs' = jobs \cup Deletions(M)
  PROVE  WorkOK' /\ Planned'
  BY Queues, NewJobsWait DEF Deletions

LEMMA QueuesPublication ==
  ASSUME WorkOK, Planned, NEW m \in Media, NEW r \in Revisions,
         UNCHANGED <<stuck, worker, settings>>, QueuePublish(m, r)
  PROVE  WorkOK' /\ Planned'
  BY Queues, NewJobsWait DEF QueuePublish

LEMMA NothingQueued ==
  ASSUME WorkOK, Planned, UNCHANGED <<jobs, stuck, worker, settings>>
  PROVE  WorkOK' /\ Planned'
  BY Queues

\* The worker takes a step at its job.
LEMMA WorkerGoes ==
  ASSUME WorkOK, Planned, UNCHANGED <<jobs, stuck, settings>>, NEW s \in Steps, Goes(s),
         \/ worker.step \in DeletionSteps /\ s \in DeletionSteps \cup {"done", "failed"}
         \/ worker.step \in PublicationSteps /\ s \in {"record", "mark", "done", "failed"}
         \/ worker.step = "claim" /\ s = "upload"
  PROVE  WorkOK' /\ Planned'
  <1>1. WorkerOK' /\ JobSteps'
    BY GoesTo DEF WorkOK, PublicationSteps
  <1>2. /\ worker'.job = worker.job /\ worker'.client = worker.client /\ worker'.step = s
    BY DEF Goes, WorkOK, WorkerOK
  <1>3. Planned'
    BY <1>2 DEF Planned, DeletionSteps, PublicationSteps
  <1> QED
    BY <1>1, <1>3 DEF WorkOK, QueueOK, Attempts

LEMMA WorkerPolls ==
  ASSUME WorkOK, Planned, QueueOK', Attempts', UNCHANGED settings, worker' = Polling,
         \A j \in jobs' : j \in jobs \/ j = worker.job
  PROVE  WorkOK' /\ Planned'
  <1>1. Planned'
    BY OtherJobs DEF Planned
  <1> QED
    BY <1>1, PollingOK DEF WorkOK

\* Every step of the API keeps what is known of the work.
LEMMA ApiWork ==
  ASSUME TypeOK, WorkOK, Planned, NEW m \in Media, Api(m)
  PROVE  WorkOK' /\ Planned'
  <1> USE DEF hostVars, jobVars
  <1>1. CASE FinalizeWrites(m)
    <2>1. upload[m].plan \in 0..MaxRevision
      BY DEF TypeOK
    <2>2. CASE upload[m].plan = NoRevision
      BY <1>1, <2>2, NothingQueued DEF FinalizeWrites
    <2>3. CASE upload[m].plan # NoRevision
      <3>1. upload[m].plan \in Revisions
        BY <2>1, <2>3, MediaAssumption DEF Revisions, NoRevision
      <3> QED
        BY <1>1, <2>3, <3>1, QueuesPublication DEF FinalizeWrites
    <2> QED
      BY <2>2, <2>3
  <1>2. CASE RetryWrites(m)
    <2>1. retry[m] \in Revisions
      BY <1>2, MediaAssumption DEF TypeOK, RetryWrites, Revisions, NoRevision
    <2> QED
      BY <1>2, <2>1, QueuesPublication DEF RetryWrites
  <1>3. CASE DeleteMedia(m)
    BY <1>3, QueuesDeletions DEF DeleteMedia
  <1>4. CASE Ticket(m) \/ PatchReads(m) \/ PatchWrites(m) \/ FinalizeReads(m)
             \/ UploadAborts(m) \/ RetryReads(m)
    BY <1>4, NothingQueued DEF Ticket, PatchReads, PatchWrites, FinalizeReads, UploadAborts, RetryReads
  <1> QED
    BY <1>1, <1>2, <1>3, <1>4 DEF Api

\* So does every step of a save.
LEMMA EntryWork ==
  ASSUME TypeOK, WorkOK, Planned, NEW e \in Entries, Entry(e)
  PROVE  WorkOK' /\ Planned'
  <1> USE DEF hostVars, jobVars
  <1>1. CASE (\E M \in SUBSET Media : SaveReads(e, M)) \/ SaveRefers(e) \/ SaveAborts(e)
             \/ UndoCreate(e)
    BY <1>1, NothingQueued DEF SaveReads, SaveRefers, SaveAborts, UndoCreate
  <1>2. ASSUME NEW M \in SUBSET Media, NEW r, QueueDeletions(M, r), UNCHANGED <<stuck, worker, settings>>
        PROVE  WorkOK' /\ Planned'
    <2>1. {m \in M : Droppable(m, r)} \in SUBSET Media
      OBVIOUS
    <2> QED
      BY <1>2, <2>1, QueuesDeletions DEF QueueDeletions
  <1>3. CASE SaveCommits(e)
    <2> DEFINE M == {m \in Media : <<e, m>> \in refs} \ saving[e].media
               r == {p \in refs : p[1] # e} \cup ({e} \X saving[e].media)
    <2>1. M \in SUBSET Media /\ QueueDeletions(M, r)
      BY <1>3 DEF SaveCommits
    <2>2. UNCHANGED <<stuck, worker, settings>>
      BY <1>3 DEF SaveCommits
    <2> QED
      BY <1>2, <2>1, <2>2
  <1>4. CASE PurgeEntry(e)
    <2> DEFINE M == {m \in Media : <<e, m>> \in refs}
    <2>1. M \in SUBSET Media /\ \E r : QueueDeletions(M, r)
      BY <1>4 DEF PurgeEntry
    <2>2. UNCHANGED <<stuck, worker, settings>>
      BY <1>4 DEF PurgeEntry
    <2> QED
      BY <1>2, <2>1, <2>2
  <1> QED
    BY <1>1, <1>3, <1>4 DEF Entry, SaveEnds

\* So does every step of the worker.
LEMMA SweepWork ==
  ASSUME TypeOK, WorkOK, Planned,
         \/ \E M \in SUBSET Media : SweepMarks(M)
         \/ \E m \in Media : SweepSkips(m)
         \/ Sweeps
  PROVE  WorkOK' /\ Planned'
  <1> USE DEF hostVars, jobVars
  <1>1. ASSUME NEW M \in SUBSET Media, SweepMarks(M) PROVE WorkOK' /\ Planned'
    BY <1>1, OtherJobs DEF SweepMarks, WorkOK, QueueOK, WorkerOK, Steps, JobSteps, DeletionSteps,
                PublicationSteps, Attempts, Planned
  <1>2. ASSUME NEW m \in Media, SweepSkips(m) PROVE WorkOK' /\ Planned'
    BY <1>2 DEF SweepSkips, WorkOK, QueueOK, WorkerOK, JobSteps, DeletionSteps,
                PublicationSteps, Attempts, Planned
  <1>3. ASSUME NEW m \in Media, SweepRemoves(m) PROVE WorkOK' /\ Planned'
    BY <1>3, OtherJobs DEF SweepRemoves, WorkOK, QueueOK, WorkerOK, AnyJob, Steps, JobSteps,
                DeletionSteps, PublicationSteps, Attempts, Planned
  <1>4. ASSUME NEW m \in Media, SweepDeletes(m) PROVE WorkOK' /\ Planned'
    BY <1>4, OtherJobs DEF SweepDeletes, At, WorkOK, QueueOK, WorkerOK, AnyJob, Steps, JobSteps,
                DeletionSteps, PublicationSteps, Attempts, Planned
  <1>5. CASE SweepEnds
    BY <1>5, WorkerPolls DEF SweepEnds, WorkOK, QueueOK, Attempts
  <1> QED
    BY <1>1, <1>2, <1>3, <1>4, <1>5 DEF Sweeps

LEMMA LoopWork ==
  ASSUME TypeOK, WorkOK, Planned, (\E j \in jobs : Claim(j)) \/ JobEnds \/ Crash \/ StepFails
  PROVE  WorkOK' /\ Planned'
  <1> USE DEF hostVars, jobVars
  <1>1. ASSUME NEW j \in jobs, Claim(j) PROVE WorkOK' /\ Planned'
    <2> DEFINE k == [j EXCEPT !.attempts = @ + 1]
    <2>1. j \in Job /\ j.attempts < MaxAttempts
      BY DEF WorkOK, QueueOK, Attempts
    <2>2. k \in Job /\ k.type = j.type /\ k.media = j.media /\ k.revision = j.revision
      BY <2>1, CountedJob DEF Job
    <2>3. j.type \in {"media_delete", "publish_media"}
      BY <2>1, JobFields
    <2>4. /\ worker'.step = j.type /\ worker'.job = k /\ WorkerOK'
      BY <1>1, <2>2, <2>3 DEF Claim, WorkOK, WorkerOK, AnyJob, Steps
    <2>5. JobSteps'
      BY <2>2, <2>3, <2>4 DEF JobSteps, DeletionSteps, PublicationSteps
    <2>6. QueueOK' /\ Attempts'
      BY <1>1 DEF Claim, WorkOK, QueueOK, Attempts
    <2>7. Planned'
      BY <1>1, <2>2, <2>3, <2>4 DEF Claim, Planned
    <2> QED
      BY <2>4, <2>5, <2>6, <2>7 DEF WorkOK
  <1>2. CASE JobEnds
    <2>1. worker.job \in Job
      BY <1>2 DEF JobEnds, WorkOK, JobSteps
    <2>2. QueueOK' /\ Attempts'
      BY <1>2, <2>1 DEF JobEnds, Retried, WorkOK, QueueOK, Attempts
    <2> QED
      BY <1>2, <2>2, WorkerPolls DEF JobEnds
  <1>3. CASE Crash
    <2>1. worker.job.type = "publish_media" => worker.job \in Job
      BY OtherJobs DEF WorkOK, JobSteps
    <2>2. QueueOK' /\ Attempts'
      BY <1>3, <2>1, ResetJob DEF Crash, WorkOK, QueueOK, Attempts
    <2> QED
      BY <1>3, <2>2, WorkerPolls DEF Crash
  <1>4. CASE StepFails
    BY <1>4, WorkerGoes DEF StepFails, Steps, DeletionSteps, PublicationSteps
  <1> QED
    BY <1>1, <1>2, <1>3, <1>4

LEMMA DeletionWork ==
  ASSUME TypeOK, WorkOK, Planned, NEW m \in Media,
         DeletionLocks(m) \/ DeletionTrashes(m) \/ DeletionRemoves(m) \/ DeletionEnds(m)
  PROVE  WorkOK' /\ Planned'
  <1> USE DEF hostVars, jobVars
  <1>1. CASE DeletionLocks(m)
    <2>1. PICK s \in {"done", "trash", "remove"} : Goes(s)
      BY <1>1 DEF DeletionLocks
    <2> QED
      BY <1>1, <2>1, WorkerGoes DEF DeletionLocks, At, Steps, DeletionSteps
  <1>2. CASE DeletionTrashes(m)
    <2>1. PICK s \in {"remove", "failed"} : worker' = [worker EXCEPT !.step = s, !.client = settings]
      BY <1>2 DEF DeletionTrashes
    <2>2. WorkerOK' /\ JobSteps'
      BY <1>2, <2>1, GoesOn DEF DeletionTrashes, At, Steps, DeletionSteps, WorkOK, TypeOK
    <2>3. Planned'
      BY <1>2, <2>1 DEF DeletionTrashes, Planned, WorkOK, WorkerOK
    <2> QED
      BY <1>2, <2>2, <2>3 DEF DeletionTrashes, WorkOK, QueueOK, Attempts
  <1>3. CASE DeletionRemoves(m)
    BY <1>3, WorkerGoes DEF DeletionRemoves, At, Steps, DeletionSteps
  <1>4. CASE DeletionEnds(m)
    BY <1>4, WorkerGoes DEF DeletionEnds, At, Steps, DeletionSteps
  <1> QED
    BY <1>1, <1>2, <1>3, <1>4

LEMMA PublicationWork ==
  ASSUME TypeOK, WorkOK, Planned, NEW m \in Media,
         \/ PublicationLoads(m) \/ PublicationClaims(m) \/ PublicationUploads(m)
         \/ UploadFails(m) \/ PublicationMarks(m) \/ PublicationRecords(m)
  PROVE  WorkOK' /\ Planned'
  <1> USE DEF hostVars, jobVars
  <1>1. CASE PublicationLoads(m)
    <2>1. PICK s \in {"claim", "done", "failed"} :
            /\ worker' = [worker EXCEPT !.step = s, !.client = settings]
            /\ s = "claim" => Usable(worker.job.revision)
      BY <1>1 DEF PublicationLoads
    <2>2. WorkerOK' /\ JobSteps'
      BY <1>1, <2>1, GoesOn DEF PublicationLoads, At, Steps, PublicationSteps, WorkOK, TypeOK
    <2>3. worker'.step = s /\ worker'.client = settings /\ worker'.job = worker.job
      BY <2>1 DEF WorkOK, WorkerOK
    <2>4. worker.job.revision # NoRevision
      BY <1>1 DEF PublicationLoads, At, WorkOK, JobSteps, PublicationSteps, Planned
    <2>5. Planned'
      BY <1>1, <2>1, <2>3, <2>4 DEF PublicationLoads, Planned, Usable
    <2> QED
      BY <1>1, <2>2, <2>5 DEF PublicationLoads, WorkOK, QueueOK, Attempts
  <1>2. CASE PublicationClaims(m)
    BY <1>2, WorkerGoes DEF PublicationClaims, At, Steps, PublicationSteps
  <1>3. CASE PublicationUploads(m)
    BY <1>3, WorkerGoes DEF PublicationUploads, At, Steps, PublicationSteps
  <1>4. CASE UploadFails(m)
    BY <1>4, WorkerGoes DEF UploadFails, At, Steps, PublicationSteps
  <1>5. CASE PublicationMarks(m)
    BY <1>5, WorkerGoes DEF PublicationMarks, At, Steps, PublicationSteps
  <1>6. CASE PublicationRecords(m)
    BY <1>6, WorkerGoes DEF PublicationRecords, At, Steps, PublicationSteps
  <1> QED
    BY <1>1, <1>2, <1>3, <1>4, <1>5, <1>6

LEMMA SettingsWork ==
  ASSUME TypeOK, WorkOK, Planned, NEW t \in Targets, SaveSettings(t) \/ ProbePasses(t)
  PROVE  WorkOK' /\ Planned'
  <1>1. WorkOK'
    BY DEF SaveSettings, ProbePasses, jobVars, WorkOK, QueueOK, WorkerOK, JobSteps, Attempts
  <1>2. UNCHANGED <<jobs, worker>>
    BY DEF SaveSettings, ProbePasses, jobVars
  <1>3. settings'.enabled => settings'.target \in Targets
    <2>1. CASE SaveSettings(t)
      BY <2>1 DEF SaveSettings
    <2>2. CASE ProbePasses(t)
      <3>1. settings'.enabled = settings.enabled /\ settings'.target = settings.target
        BY <2>2 DEF ProbePasses, TypeOK, Settings
      <3> QED
        BY <3>1 DEF Planned
    <2> QED
      BY <2>1, <2>2
  <1> QED
    BY <1>1, <1>2, <1>3 DEF Planned

\* Every step keeps the types and what is known of the work.
LEMMA WorkStep ==
  TypeOK /\ WorkOK /\ Planned /\ Next => TypeOK' /\ WorkOK' /\ Planned'
  <1> SUFFICES ASSUME TypeOK, WorkOK, Planned, Next PROVE TypeOK' /\ WorkOK' /\ Planned'
    OBVIOUS
  <1>1. WorkOK' /\ Planned'
    BY ApiWork, EntryWork, SweepWork, LoopWork, DeletionWork, PublicationWork, SettingsWork
    DEF Next, Works
  <1>2. RowsOK' /\ ApiOK' /\ EntriesOK' /\ HostOK'
    BY RowsStep
  <1>3. (RowsOK /\ ApiOK /\ EntriesOK /\ QueueOK /\ WorkerOK /\ HostOK => TypeOK)'
    BY DEF TypeOK, PublishRow, UploadRow, RowsOK, ApiOK, EntriesOK, QueueOK, AnyJob, WorkerOK, HostOK
  <1> QED
    BY <1>1, <1>2, <1>3 DEF WorkOK

-----------------------------------------------------------------------------
(* The invariant: an item, its file, its references and its deletion *)

Deletes(j, m)   == j.type = "media_delete" /\ j.media = m
Publishes(j, m) == j.type = "publish_media" /\ j.media = m

\* The worker is at a deletion of m; one that failed may be queued again.
Deleting(m) == Deletes(worker.job, m) /\ worker.step # "done"

\* A deletion of m is queued or under way.
Doomed(m) == Deleting(m) \/ \E j \in jobs : Deletes(j, m)

\* No entry refers to m, and no save has seen it.
Untouched(m) == \A e \in Entries : <<e, m>> \notin refs /\ m \notin saving[e].media

\* Nothing was ever done to publish m.
Unheard(m) ==
  /\ publish[m].key = None /\ retry[m] = NoRevision
  /\ ~Publishes(worker.job, m) /\ \A j \in jobs : ~Publishes(j, m)

Swept(m) == m \in worker.batch \/ worker.job = Sweep(m)

\* What is not uploaded yet, still held by an upload, or swept, is known to
\* nobody else.
Fresh(m) ==
  status[m] \in {"none", "uploading"} \/ upload[m].by # "nobody" \/ Swept(m) =>
    Untouched(m) /\ Unheard(m) /\ ~Doomed(m)

\* An upload never writes into what is served, finalize finds the file, and the
\* sweep works on marked items.
Uploads(m) ==
  /\ upload[m].by # "nobody" => status[m] \notin {"none", "ready"}
  /\ upload[m].by = "finalize" /\ status[m] = "uploading" => file[m] = "whole"
  /\ Swept(m) => status[m] \in {"deleting", "gone"}

\* A deletion is due; while it may still put the item back, the file is there
\* unless a deletion that failed has removed it; once the row is locked, nobody
\* refers to the item.
Dooms(m) ==
  /\ Doomed(m) => status[m] = "deleting"
  /\ Doomed(m) /\ ~Untouched(m) /\ ~At("row", m) => file[m] = "whole" \/ m \in lost
  /\ WorkerLocks(m) => ~Referenced(m, refs) /\ ~KeyShared(m)
  /\ status[m] = "ready" => file[m] = "whole" \/ m \in lost

\* There is one deletion of an item at a time.
One(m) ==
  /\ \A j, k \in jobs : Deletes(j, m) /\ Deletes(k, m) => j = k
  /\ \A j \in jobs : Deletes(j, m) => ~Deleting(m)

Item(m) == Fresh(m) /\ Uploads(m) /\ Dooms(m) /\ One(m)

\* The inductive invariant.
MediaInv == TypeOK /\ WorkOK /\ Planned /\ \A m \in Media : Item(m)

-----------------------------------------------------------------------------
(* An item that a step has nothing to do with *)

Kept(m) ==
  /\ status'[m] = status[m] /\ file'[m] = file[m] /\ upload'[m] = upload[m]
  /\ Untouched(m) => Untouched(m)'
  /\ Unheard(m) => Unheard(m)'
  /\ Doomed(m)' => Doomed(m)
  /\ Swept(m)' => Swept(m)
  /\ WorkerLocks(m)' =>
       /\ WorkerLocks(m)
       /\ Referenced(m, refs)' => Referenced(m, refs)
       /\ KeyShared(m)' => KeyShared(m)
  /\ lost \subseteq lost'
  /\ At("row", m) => At("row", m)' \/ ~Doomed(m)' \/ m \in lost'

NoNewDeletion(m) ==
  /\ \A j \in jobs' : Deletes(j, m) => j \in jobs
  /\ Deleting(m)' => Deleting(m)

LEMMA KeptItem ==
  ASSUME NEW m \in Media, Item(m), Kept(m), One(m)'
  PROVE  Item(m)'
  <1>1. Fresh(m)'
    BY DEF Item, Kept, Fresh
  <1>2. Uploads(m)'
    BY DEF Item, Kept, Uploads
  <1>3. Dooms(m)'
    BY DEF Item, Kept, Dooms
  <1> QED
    BY <1>1, <1>2, <1>3 DEF Item

LEMMA SameItem ==
  ASSUME NEW m \in Media, Item(m), Kept(m), NoNewDeletion(m)
  PROVE  Item(m)'
  <1>1. One(m)'
    BY DEF Item, One, NoNewDeletion
  <1> QED
    BY <1>1, KeptItem

\* The API and the entries leave the worker alone.
LEMMA Elsewhere ==
  ASSUME NEW m \in Media, Item(m), UNCHANGED <<worker, lost>>,
         status'[m] = status[m], file'[m] = file[m], upload'[m] = upload[m],
         publish'[m].key = publish[m].key, retry'[m] = retry[m],
         Untouched(m) => Untouched(m)',
         WorkerLocks(m) /\ Referenced(m, refs)' => Referenced(m, refs),
         WorkerLocks(m) /\ KeyShared(m)' => KeyShared(m),
         \A j \in jobs' : j \in jobs \/ j.media # m
  PROVE  Item(m)'
  <1>1. Kept(m)
    BY DEF Kept, Unheard, Doomed, Deleting, Deletes, Publishes, Swept, WorkerLocks, At
  <1>2. NoNewDeletion(m)
    BY DEF NoNewDeletion, Deletes, Deleting
  <1> QED
    BY <1>1, <1>2, SameItem

\* The worker leaves the entries, uploads and requests alone.
LEMMA WorkerElsewhere ==
  ASSUME WorkOK, NEW m \in Media, Item(m), UNCHANGED <<upload, retry, refs, saving>>,
         status'[m] = status[m], file'[m] = file[m],
         Unheard(m) => publish'[m].key = publish[m].key /\ ~Publishes(worker'.job, m),
         jobs' = jobs, Deleting(m)' => Deleting(m), Swept(m)' => Swept(m),
         WorkerLocks(m)' => WorkerLocks(m),
         lost \subseteq lost', At("row", m) => At("row", m)' \/ ~Deleting(m)' \/ m \in lost'
  PROVE  Item(m)'
  <1>1. Untouched(m)' = Untouched(m)
    BY DEF Untouched
  <1>2. Referenced(m, refs)' = Referenced(m, refs) /\ KeyShared(m)' = KeyShared(m)
    BY DEF Referenced, KeyShared
  <1>3. Unheard(m) => Unheard(m)'
    BY DEF Unheard
  <1>4. Doomed(m)' => Doomed(m)
    BY DEF Doomed
  <1>5. At("row", m) => Deleting(m)
    BY DEF At, WorkOK, JobSteps, DeletionSteps, Deleting, Deletes
  <1>6. At("row", m) => At("row", m)' \/ ~Doomed(m)' \/ m \in lost'
    BY <1>5 DEF Doomed, Item, One
  <1>7. Kept(m)
    BY <1>1, <1>2, <1>3, <1>4, <1>6 DEF Kept
  <1>8. NoNewDeletion(m)
    BY DEF NoNewDeletion
  <1> QED
    BY <1>7, <1>8, SameItem

\* The lock of a row is held for its deletion.
LEMMA LocksAreDeletions ==
  ASSUME WorkOK, NEW m, WorkerLocks(m) \/ At("row", m) \/ At("media_delete", m)
  PROVE  Deleting(m)
  BY DEF WorkerLocks, At, WorkOK, JobSteps, DeletionSteps, Deleting, Deletes

-----------------------------------------------------------------------------
(* What a step does to the item it is about: the API *)

LEMMA ApiItem ==
  ASSUME MediaInv, NEW n \in Media, Api(n), NEW m \in Media
  PROVE  Item(m)'
  <1> USE DEF MediaInv, rowVars, fileVars, apiVars, entryVars, jobVars, hostVars
  <1>0. Item(m) /\ UNCHANGED <<worker, refs, saving, lost>>
    BY DEF Api, Ticket, PatchReads, PatchWrites, FinalizeReads, FinalizeWrites,
           UploadAborts, DeleteMedia, RetryReads, RetryWrites
  <1>1. /\ Untouched(m)' = Untouched(m) /\ Swept(m)' = Swept(m) /\ Deleting(m)' = Deleting(m)
        /\ Referenced(m, refs)' = Referenced(m, refs) /\ KeyShared(m)' = KeyShared(m)
        /\ WorkerLocks(m)' = WorkerLocks(m) /\ At("row", m)' = At("row", m)
    BY <1>0 DEF Untouched, Swept, Deleting, Referenced, KeyShared, WorkerLocks, At
  <1>2. CASE m # n
    <2>1. /\ status'[m] = status[m] /\ file'[m] = file[m] /\ upload'[m] = upload[m]
          /\ publish'[m] = publish[m] /\ retry'[m] = retry[m]
      BY <1>2 DEF Api, Ticket, PatchReads, PatchWrites, FinalizeReads, FinalizeWrites,
                  UploadAborts, DeleteMedia, RetryReads, RetryWrites, TypeOK
    <2>2. \A j \in jobs' : j \in jobs \/ j.media # m
      BY <1>2 DEF Api, Ticket, PatchReads, PatchWrites, FinalizeReads, FinalizeWrites,
                  UploadAborts, DeleteMedia, RetryReads, RetryWrites, QueuePublish, Deletions,
                  Deletion, Publication
    <2> QED
      BY <1>0, <1>1, <2>1, <2>2, Elsewhere
  <1>3. CASE m = n /\ Ticket(n)
    <2>1. /\ UNCHANGED <<file, publish, upload, retry, jobs>>
          /\ status[m] = "none" /\ status'[m] = "uploading"
      BY <1>3 DEF Ticket, TypeOK
    <2>2. Doomed(m)' = Doomed(m) /\ Unheard(m)' = Unheard(m)
      BY <1>0, <2>1 DEF Doomed, Deleting, Unheard
    <2> QED
      BY <1>0, <1>1, <2>1, <2>2 DEF Item, Fresh, Uploads, Dooms, One
  <1>4. CASE m = n /\ (PatchReads(n) \/ FinalizeReads(n) \/ UploadAborts(n))
    <2>1. UNCHANGED <<status, file, publish, retry, jobs>>
      BY <1>4 DEF PatchReads, FinalizeReads, UploadAborts
    <2>2. Doomed(m)' = Doomed(m) /\ Unheard(m)' = Unheard(m)
      BY <1>0, <2>1 DEF Doomed, Deleting, Unheard
    <2>3. \/ upload'[m].by = "nobody"
          \/ status[m] = "uploading" /\ (upload'[m].by = "finalize" => file[m] = "whole")
      <3>1. CASE PatchReads(n)
        BY <1>4, <3>1 DEF PatchReads, TypeOK
      <3>2. CASE FinalizeReads(n)
        BY <1>4, <3>2 DEF FinalizeReads
      <3>3. CASE UploadAborts(n)
        BY <1>4, <3>3 DEF UploadAborts, NoUpload, TypeOK
      <3> QED
        BY <1>4, <3>1, <3>2, <3>3
    <2> QED
      BY <1>0, <1>1, <2>1, <2>2, <2>3 DEF Item, Fresh, Uploads, Dooms, One
  <1>5. CASE m = n /\ PatchWrites(n)
    <2>1. /\ UNCHANGED <<status, publish, retry, jobs>>
          /\ upload[m].by = "patch" /\ upload'[m].by = "nobody"
      BY <1>5 DEF PatchWrites, NoUpload, TypeOK
    <2>2. Doomed(m)' = Doomed(m) /\ Unheard(m)' = Unheard(m)
      BY <1>0, <2>1 DEF Doomed, Deleting, Unheard
    <2> QED
      BY <1>0, <1>1, <2>1, <2>2 DEF Item, Fresh, Uploads, Dooms, One
  <1>6. CASE m = n /\ FinalizeWrites(n)
    <2>1. /\ UNCHANGED file
          /\ status[m] = "uploading" /\ status'[m] = "ready"
          /\ upload[m].by = "finalize" /\ upload'[m].by = "nobody"
      BY <1>6 DEF FinalizeWrites, StillUploading, NoUpload, TypeOK
    <2>2. \A j \in jobs' : j \in jobs \/ j.type = "publish_media"
      BY <1>6 DEF FinalizeWrites, QueuePublish, Publication
    <2>3. ~Doomed(m) /\ ~Doomed(m)' /\ ~Swept(m)
      BY <1>0, <1>1, <2>1, <2>2 DEF Item, Fresh, Uploads, Doomed, Deletes
    <2>4. ~WorkerLocks(m)
      BY <2>3, LocksAreDeletions DEF Doomed
    <2>5. One(m)'
      BY <2>3 DEF One, Doomed
    <2> QED
      BY <1>0, <1>1, <2>1, <2>3, <2>4, <2>5 DEF Item, Fresh, Uploads, Dooms
  <1>7. CASE m = n /\ DeleteMedia(n)
    <2>1. /\ UNCHANGED <<file, upload, publish, retry>>
          /\ status[m] \in {"uploading", "ready"} /\ status'[m] = "deleting"
          /\ upload[m].by = "nobody"
      BY <1>7 DEF DeleteMedia, TypeOK
    <2>2. jobs' = jobs \cup {Deletion(m)}
      BY <1>7 DEF DeleteMedia, Deletions
    <2>3. ~Doomed(m) /\ ~Swept(m)
      BY <1>0, <2>1 DEF Item, Fresh, Uploads, Dooms
    <2>4. ~WorkerLocks(m)
      BY <2>3, LocksAreDeletions DEF Doomed
    <2>5. One(m)'
      BY <1>1, <2>2, <2>3 DEF One, Doomed
    <2>6. ~Untouched(m) => file[m] = "whole" \/ m \in lost
      BY <1>0, <2>1 DEF Item, Fresh, Dooms
    <2> QED
      BY <1>0, <1>1, <2>1, <2>3, <2>4, <2>5, <2>6 DEF Item, Fresh, Uploads, Dooms
  <1>8. CASE m = n /\ (RetryReads(n) \/ RetryWrites(n))
    <2>1. UNCHANGED <<status, file, upload>>
      BY <1>8 DEF RetryReads, RetryWrites
    <2>2. \A j : Deletes(j, m) => (j \in jobs' <=> j \in jobs)
      BY <1>8 DEF RetryReads, RetryWrites, QueuePublish, Publication, Deletes
    <2>3. Doomed(m)' = Doomed(m)
      BY <1>1, <2>2 DEF Doomed
    <2>4. One(m)'
      BY <1>0, <1>1, <2>2 DEF Item, One
    <2>5. ~Unheard(m) \/ status[m] = "ready"
      BY <1>8 DEF RetryReads, RetryWrites, Unheard
    <2>6. status[m] = "ready" => ~Swept(m) /\ upload[m].by = "nobody"
      BY <1>0 DEF Item, Uploads
    <2> QED
      BY <1>0, <1>1, <2>1, <2>3, <2>4, <2>5, <2>6 DEF Item, Fresh, Uploads, Dooms
  <1> QED
    BY <1>2, <1>3, <1>4, <1>5, <1>6, <1>7, <1>8 DEF Api

-----------------------------------------------------------------------------
(* The entries *)

\* What a save or a purge drops is marked and gets its only deletion.
LEMMA DropsItem ==
  ASSUME MediaInv, NEW m \in Media, NEW M \in SUBSET Media, NEW r, refs' = r, QueueDeletions(M, r),
         UNCHANGED <<file, publish, upload, retry, worker, lost>>,
         Untouched(m) => Untouched(m)',
         WorkerLocks(m) /\ Referenced(m, refs)' => Referenced(m, refs),
         WorkerLocks(m) /\ KeyShared(m)' => KeyShared(m)
  PROVE  Item(m)'
  <1>0. Item(m)
    BY DEF MediaInv
  <1>1. CASE m \in M /\ Droppable(m, r)
    <2>1. status[m] = "ready" /\ status'[m] = "deleting"
      BY <1>1 DEF QueueDeletions, Droppable
    <2>2. \A j \in jobs' : Deletes(j, m) => j \in jobs \/ j = Deletion(m)
      BY <1>1 DEF QueueDeletions, Deletions, Deletes, Deletion
    <2>3. ~Doomed(m) /\ ~Swept(m) /\ upload[m].by = "nobody" /\ (file[m] = "whole" \/ m \in lost)
      BY <1>0, <2>1 DEF Item, Uploads, Dooms
    <2>4. ~Deleting(m)' /\ ~Swept(m)' /\ ~WorkerLocks(m)'
      <3>1. ~WorkerLocks(m)
        BY <2>3, LocksAreDeletions DEF Doomed, MediaInv
      <3> QED
        BY <2>3, <3>1 DEF Doomed, Deleting, Swept, WorkerLocks
    <2>5. One(m)'
      BY <2>2, <2>3, <2>4 DEF One, Doomed
    <2> QED
      BY <2>1, <2>3, <2>4, <2>5 DEF Item, Fresh, Uploads, Dooms
  <1>2. CASE ~(m \in M /\ Droppable(m, r))
    <2>1. status'[m] = status[m]
      BY <1>2 DEF QueueDeletions
    <2>2. \A j \in jobs' : j \in jobs \/ j.media # m
      BY <1>2 DEF QueueDeletions, Deletions, Deletion
    <2> QED
      BY <1>0, <2>1, <2>2, Elsewhere
  <1> QED
    BY <1>1, <1>2

LEMMA EntryItem ==
  ASSUME MediaInv, NEW e \in Entries, Entry(e), NEW m \in Media
  PROVE  Item(m)'
  <1> USE DEF rowVars, fileVars, apiVars, entryVars, jobVars, hostVars
  <1>0. Item(m) /\ UNCHANGED <<worker, file, publish, upload, retry, lost>> /\ EntriesOK
    BY TypeParts DEF MediaInv, Entry, SaveEnds, SaveReads, SaveRefers, SaveCommits, SaveAborts,
                     PurgeEntry, UndoCreate
  <1>1. ASSUME NEW M \in SUBSET Media, SaveReads(e, M)
        PROVE  Item(m)'
    <2>1. UNCHANGED <<status, jobs, refs>> /\ (KeyShared(m)' => KeyShared(m))
      BY <1>0, <1>1 DEF SaveReads, KeyShared, EntriesOK
    <2>2. CASE m \in M
      <3>1. status[m] = "ready"
        BY <1>1, <2>2 DEF SaveReads
      <3>2. ~Doomed(m) /\ ~Swept(m) /\ upload[m].by = "nobody"
        BY <1>0, <3>1 DEF Item, Uploads, Dooms
      <3>3. ~WorkerLocks(m)
        BY <3>2, LocksAreDeletions DEF Doomed, MediaInv
      <3>4. ~Doomed(m)' /\ ~Swept(m)' /\ ~WorkerLocks(m)' /\ One(m)'
        BY <1>0, <2>1, <1>1, <3>2, <3>3 DEF Doomed, Deleting, Swept, WorkerLocks, Item, One, SaveReads
      <3> QED
        BY <1>0, <2>1, <1>1, <3>1, <3>2, <3>4 DEF Item, Fresh, Uploads, Dooms, SaveReads
    <2>3. CASE m \notin M
      <3>1. Untouched(m) => Untouched(m)'
        BY <1>0, <1>1, <2>3 DEF SaveReads, Untouched, EntriesOK
      <3>2. Referenced(m, refs)' = Referenced(m, refs)
        BY <2>1 DEF Referenced
      <3> QED
        BY <1>0, <2>1, <3>1, <3>2, Elsewhere
    <2> QED
      BY <2>2, <2>3
  <1>2. CASE SaveRefers(e)
    <2>1. Untouched(m) => Untouched(m)'
      BY <1>0, <1>2 DEF SaveRefers, Untouched, EntriesOK
    <2>2. WorkerLocks(m) /\ KeyShared(m)' => KeyShared(m)
      BY <1>0, <1>2 DEF SaveRefers, KeyShared, EntriesOK
    <2>3. UNCHANGED <<status, jobs>> /\ Referenced(m, refs)' = Referenced(m, refs)
      BY <1>2 DEF SaveRefers, Referenced
    <2> QED
      BY <1>0, <2>1, <2>2, <2>3, Elsewhere
  <1>3. CASE SaveAborts(e)
    <2>1. Untouched(m) => Untouched(m)'
      BY <1>0, <1>3 DEF SaveAborts, NoSave, Untouched, EntriesOK
    <2>2. KeyShared(m)' => KeyShared(m)
      BY <1>0, <1>3 DEF SaveAborts, NoSave, KeyShared, EntriesOK
    <2>3. UNCHANGED <<status, jobs>> /\ Referenced(m, refs)' = Referenced(m, refs)
      BY <1>3 DEF SaveAborts, Referenced
    <2> QED
      BY <1>0, <2>1, <2>2, <2>3, Elsewhere
  <1>4. CASE SaveCommits(e)
    <2> DEFINE M == {k \in Media : <<e, k>> \in refs} \ saving[e].media
               r == {p \in refs : p[1] # e} \cup ({e} \X saving[e].media)
    <2>1. M \in SUBSET Media /\ QueueDeletions(M, r) /\ refs' = r
      BY <1>4 DEF SaveCommits
    <2>2. saving' = [saving EXCEPT ![e] = NoSave] /\ saving[e].step = "referred"
      BY <1>4 DEF SaveCommits
    <2>3. Untouched(m) => Untouched(m)'
      BY <1>0, <2>1, <2>2 DEF NoSave, Untouched, EntriesOK
    <2>4. KeyShared(m)' => KeyShared(m)
      BY <1>0, <2>2 DEF NoSave, KeyShared, EntriesOK
    <2>5. Referenced(m, refs)' => Referenced(m, refs) \/ KeyShared(m)
      BY <2>1, <2>2 DEF Referenced, KeyShared
    <2>6. WorkerLocks(m) => ~KeyShared(m)
      BY <1>0 DEF Item, Dooms
    <2> QED
      BY <1>0, <2>1, <2>3, <2>4, <2>5, <2>6, DropsItem
  <1>5. CASE EntryGoes(e) /\ UNCHANGED saving
    <2>1. (Untouched(m) => Untouched(m)') /\ KeyShared(m)' = KeyShared(m)
      BY <1>5 DEF EntryGoes, Untouched, KeyShared
    <2>2. Referenced(m, refs)' => Referenced(m, refs)
      BY <1>5 DEF EntryGoes, Referenced
    <2>3. CASE PurgeEntry(e)
      <3> DEFINE M == {k \in Media : <<e, k>> \in refs}
      <3>1. M \in SUBSET Media /\ QueueDeletions(M, refs')
        BY <2>3 DEF PurgeEntry
      <3> QED
        BY <1>0, <2>1, <2>2, <3>1, DropsItem
    <2>4. CASE UndoCreate(e)
      <3>1. UNCHANGED <<status, jobs>>
        BY <2>4 DEF UndoCreate
      <3> QED
        BY <1>0, <2>1, <2>2, <3>1, Elsewhere
    <2>5. CASE ~PurgeEntry(e) /\ ~UndoCreate(e)
      BY <1>1, <1>2, <1>3, <1>4, <2>5 DEF Entry, SaveEnds
    <2> QED
      BY <2>3, <2>4, <2>5
  <1> QED
    BY <1>1, <1>2, <1>3, <1>4, <1>5 DEF Entry, SaveEnds, PurgeEntry, UndoCreate

-----------------------------------------------------------------------------
(* The worker *)

LEMMA SweepItem ==
  ASSUME MediaInv, NEW m \in Media,
         \/ \E M \in SUBSET Media : SweepMarks(M)
         \/ \E n \in Media : SweepSkips(n)
         \/ Sweeps
  PROVE  Item(m)'
  <1> USE DEF MediaInv, rowVars, fileVars, apiVars, entryVars, jobVars, hostVars
  <1>0. Item(m) /\ WorkerOK /\ JobSteps /\ UNCHANGED <<upload, retry, refs, saving, publish, jobs, lost>>
    BY DEF WorkOK, SweepMarks, SweepSkips, Sweeps, SweepRemoves, SweepDeletes, SweepEnds
  <1>a. Untouched(m)' = Untouched(m)
    BY <1>0 DEF Untouched
  <1>b. ASSUME ~Deleting(m)', ~WorkerLocks(m)',
               \A k : Publishes(worker'.job, k) => Publishes(worker.job, k),
               file'[m] = file[m], status'[m] = status[m], Swept(m)' => Swept(m),
               ~At("row", m)
        PROVE  Item(m)'
    BY <1>0, <1>b, WorkerElsewhere DEF Unheard
  <1>1. ASSUME NEW M \in SUBSET Media, SweepMarks(M)
        PROVE  Item(m)'
    <2>1. /\ worker.job = NoJob /\ worker'.job = NoJob /\ worker'.step = "sweep"
          /\ worker'.batch = M /\ ~At("row", m)
      BY <1>0, <1>1 DEF SweepMarks, JobSteps, WorkerOK, At
    <2>2. ~Deleting(m)' /\ ~WorkerLocks(m)' /\ \A k : ~Publishes(worker'.job, k)
      BY <2>1, OtherJobs DEF Deleting, Deletes, WorkerLocks, Publishes
    <2>3. CASE m \in M
      <3>1. status[m] = "uploading" /\ status'[m] = "deleting" /\ file'[m] = file[m]
        BY <1>1, <2>3 DEF SweepMarks
      <3>2. Untouched(m) /\ Unheard(m) /\ ~Doomed(m)
        BY <1>0, <3>1 DEF Item, Fresh
      <3>3. ~Doomed(m)' /\ Unheard(m)' /\ One(m)'
        BY <1>0, <2>2, <3>2 DEF Doomed, Unheard, Item, One
      <3> QED
        BY <1>0, <1>a, <2>2, <3>1, <3>2, <3>3 DEF Item, Fresh, Uploads, Dooms
    <2>4. CASE m \notin M
      <3>1. status'[m] = status[m] /\ file'[m] = file[m] /\ ~Swept(m)'
        BY <1>1, <2>1, <2>4, OtherJobs DEF SweepMarks, Swept
      <3> QED
        BY <1>b, <2>1, <2>2, <3>1
    <2> QED
      BY <2>3, <2>4
  <1>2. ASSUME NEW n \in Media, SweepSkips(n)
        PROVE  Item(m)'
    <2>1. worker.job = NoJob /\ worker'.job = NoJob /\ ~At("row", m) /\ worker'.step = "sweep"
      BY <1>0, <1>2 DEF SweepSkips, JobSteps, WorkerOK, At
    <2>2. ~Deleting(m)' /\ ~WorkerLocks(m)' /\ \A k : ~Publishes(worker'.job, k)
      BY <2>1, OtherJobs DEF Deleting, Deletes, WorkerLocks, Publishes
    <2>3. UNCHANGED <<status, file>> /\ (Swept(m)' => Swept(m))
      BY <1>0, <1>2 DEF SweepSkips, Swept, WorkerOK
    <2> QED
      BY <1>b, <2>1, <2>2, <2>3
  <1>3. ASSUME NEW n \in Media, SweepRemoves(n)
        PROVE  Item(m)'
    <2>1. /\ worker.job = NoJob /\ ~At("row", m) /\ UNCHANGED status
          /\ worker'.step = "sweep_row" /\ worker'.job = Sweep(n)
          /\ worker'.batch = worker.batch \ {n} /\ n \in worker.batch
          /\ file' = [file EXCEPT ![n] = "none"]
      BY <1>0, <1>3 DEF SweepRemoves, JobSteps, WorkerOK, At
    <2>2. ~Deleting(m)' /\ ~WorkerLocks(m)' /\ \A k : ~Publishes(worker'.job, k)
      BY <2>1, OtherJobs DEF Deleting, Deletes, WorkerLocks, Publishes
    <2>3. CASE m = n
      <3>1. Swept(m) /\ status[m] \in {"deleting", "gone"}
        BY <1>0, <2>1, <2>3 DEF Swept, Item, Uploads
      <3>2. Untouched(m) /\ Unheard(m) /\ ~Doomed(m)
        BY <1>0, <3>1 DEF Item, Fresh
      <3>3. ~Doomed(m)' /\ Unheard(m)' /\ One(m)'
        BY <1>0, <2>2, <3>2 DEF Doomed, Unheard, Item, One
      <3> QED
        BY <1>0, <1>a, <2>1, <2>2, <3>1, <3>2, <3>3 DEF Item, Fresh, Uploads, Dooms
    <2>4. CASE m # n
      <3>1. file'[m] = file[m]
        BY <2>1, <2>4 DEF TypeOK
      <3>2. Swept(m)' => Swept(m)
        BY <2>1, <2>4, OtherJobs DEF Swept
      <3> QED
        BY <1>b, <2>1, <2>2, <3>1, <3>2
    <2> QED
      BY <2>3, <2>4
  <1>4. ASSUME NEW n \in Media, SweepDeletes(n)
        PROVE  Item(m)'
    <2>1. /\ worker.job = Sweep(n) /\ ~At("row", m) /\ UNCHANGED file
          /\ worker'.step = "sweep" /\ worker'.job = NoJob /\ worker'.batch = worker.batch
          /\ status' = [status EXCEPT ![n] = "gone"]
      BY <1>0, <1>4, OtherJobs DEF SweepDeletes, JobSteps, WorkerOK, At
    <2>2. ~Deleting(m)' /\ ~WorkerLocks(m)' /\ \A k : ~Publishes(worker'.job, k)
      BY <2>1, OtherJobs DEF Deleting, Deletes, WorkerLocks, Publishes
    <2>3. Swept(m)' => Swept(m)
      BY <2>1, OtherJobs DEF Swept
    <2>4. CASE m = n
      <3>1. Untouched(m) /\ Unheard(m) /\ ~Doomed(m)
        BY <1>0, <2>1, <2>4 DEF Swept, Item, Fresh
      <3>2. ~Doomed(m)' /\ Unheard(m)' /\ One(m)'
        BY <1>0, <2>2, <3>1 DEF Doomed, Unheard, Item, One
      <3>3. status'[m] = "gone"
        BY <2>1, <2>4 DEF TypeOK
      <3> QED
        BY <1>0, <1>a, <2>2, <3>1, <3>2, <3>3 DEF Item, Fresh, Uploads, Dooms
    <2>5. CASE m # n
      <3>1. status'[m] = status[m]
        BY <2>1, <2>5 DEF TypeOK
      <3> QED
        BY <1>b, <2>1, <2>2, <2>3, <3>1
    <2> QED
      BY <2>4, <2>5
  <1>5. CASE SweepEnds
    <2>1. worker' = Polling /\ UNCHANGED <<status, file>> /\ ~At("row", m)
      BY <1>5 DEF SweepEnds, At
    <2>2. ~Deleting(m)' /\ ~WorkerLocks(m)' /\ ~Swept(m)' /\ \A k : ~Publishes(worker'.job, k)
      BY <2>1, OtherJobs DEF Deleting, Deletes, WorkerLocks, Publishes, Swept
    <2> QED
      BY <1>b, <2>1, <2>2
  <1> QED
    BY <1>1, <1>2, <1>3, <1>4, <1>5 DEF Sweeps

LEMMA LoopItem ==
  ASSUME MediaInv, NEW m \in Media,
         (\E j \in jobs : Claim(j)) \/ JobEnds \/ Crash \/ StepFails
  PROVE  Item(m)'
  <1> USE DEF MediaInv, rowVars, fileVars, apiVars, entryVars, jobVars, hostVars
  <1>0. /\ Item(m) /\ WorkerOK /\ JobSteps
        /\ UNCHANGED <<status, file, upload, retry, refs, saving, publish>> /\ lost \subseteq lost'
    BY DEF WorkOK, Claim, JobEnds, Crash, StepFails
  <1>a. Untouched(m)' = Untouched(m)
    BY <1>0 DEF Untouched
  <1>1. ASSUME NEW j \in jobs, Claim(j)
        PROVE  Item(m)'
    <2> DEFINE k == [j EXCEPT !.attempts = @ + 1]
    <2>1. k.type = j.type /\ k.media = j.media /\ j.type \in {"media_delete", "publish_media"}
      BY JobFields DEF WorkOK, QueueOK, Job
    <2>2. /\ jobs' = jobs \ {j} /\ worker.job = NoJob /\ worker.step = "poll"
          /\ worker'.job = k /\ worker'.step = j.type /\ worker'.batch = worker.batch
      BY <1>0, <1>1 DEF Claim, JobSteps, WorkerOK
    <2>3. ~Deleting(m) /\ (Deleting(m)' <=> Deletes(j, m)) /\ ~WorkerLocks(m)' /\ ~At("row", m)
      BY <2>1, <2>2, OtherJobs DEF Deleting, Deletes, WorkerLocks, At
    <2>4. Doomed(m)' => Doomed(m)
      BY <2>2, <2>3 DEF Doomed
    <2>5. One(m)'
      BY <1>0, <2>2, <2>3 DEF Item, One
    <2>6. Unheard(m) => Unheard(m)'
      BY <1>0, <2>1, <2>2 DEF Unheard, Publishes
    <2>7. Swept(m)' => Swept(m)
      BY <2>1, <2>2, OtherJobs DEF Swept
    <2>8. Kept(m)
      BY <1>0, <1>a, <2>3, <2>4, <2>6, <2>7 DEF Kept
    <2> QED
      BY <1>0, <2>5, <2>8, KeptItem
  <1>2. CASE JobEnds
    <2>1. /\ worker' = Polling /\ ~At("row", m)
          /\ jobs' = jobs \/ (jobs' = jobs \cup {worker.job} /\ worker.step = "failed")
      BY <1>2 DEF JobEnds, At
    <2>2. ~Deleting(m)' /\ ~WorkerLocks(m)' /\ ~Swept(m)' /\ ~Publishes(worker'.job, m)
      BY <2>1, OtherJobs DEF Deleting, Deletes, WorkerLocks, Swept, Publishes
    <2>3. Doomed(m)' => Doomed(m)
      BY <2>1, <2>2 DEF Doomed, Deleting
    <2>4. One(m)'
      BY <1>0, <2>1, <2>2 DEF Item, One, Deleting
    <2>5. Unheard(m) => Unheard(m)'
      BY <1>0, <2>1, <2>2 DEF Unheard
    <2>6. Kept(m)
      BY <1>0, <1>a, <2>1, <2>2, <2>3, <2>5 DEF Kept
    <2> QED
      BY <1>0, <2>4, <2>6, KeptItem
  <1>3. CASE Crash
    <2>1. worker' = Polling /\ jobs' = jobs
      BY <1>3 DEF Crash
    <2>2. ~Deleting(m)' /\ ~WorkerLocks(m)' /\ ~Swept(m)' /\ ~Publishes(worker'.job, m)
      BY <2>1, OtherJobs DEF Deleting, Deletes, WorkerLocks, Swept, Publishes
    <2> QED
      BY <1>0, <2>1, <2>2, WorkerElsewhere
  <1>4. CASE StepFails
    <2>1. /\ worker.step \in {"trash", "remove", "row", "record"} /\ jobs' = jobs
          /\ At("row", m) => m \in lost'
          /\ worker' = [worker EXCEPT !.step = "failed"]
      BY <1>4 DEF StepFails, Goes, At
    <2>2. worker'.job = worker.job /\ worker'.step = "failed" /\ worker'.batch = worker.batch
      BY <1>0, <2>1 DEF WorkerOK
    <2>3. /\ Deleting(m)' => Deleting(m)
          /\ ~WorkerLocks(m)' /\ Swept(m)' = Swept(m)
          /\ Unheard(m) => ~Publishes(worker'.job, m)
      BY <2>1, <2>2 DEF Deleting, WorkerLocks, Swept, Unheard
    <2> QED
      BY <1>0, <2>1, <2>3, WorkerElsewhere
  <1> QED
    BY <1>1, <1>2, <1>3, <1>4

LEMMA DeletionItem ==
  ASSUME MediaInv, NEW n \in Media, NEW m \in Media,
         DeletionLocks(n) \/ DeletionTrashes(n) \/ DeletionRemoves(n) \/ DeletionEnds(n)
  PROVE  Item(m)'
  <1> USE DEF MediaInv, rowVars, fileVars, apiVars, entryVars, jobVars, hostVars
  <1>0. /\ Item(m) /\ WorkerOK /\ JobSteps
        /\ UNCHANGED <<upload, retry, refs, saving, publish, jobs, lost>>
        /\ worker.job.media = n /\ worker.job.type = "media_delete" /\ Deleting(n)
    BY LocksAreDeletions DEF WorkOK, DeletionLocks, DeletionTrashes, DeletionRemoves, DeletionEnds,
                             At, JobSteps, DeletionSteps, Deleting, Deletes
  <1>1. /\ worker'.job = worker.job /\ worker'.batch = worker.batch
        /\ worker'.step \in {"done", "trash", "remove", "failed", "row"}
    BY <1>0 DEF DeletionLocks, DeletionTrashes, DeletionRemoves, DeletionEnds, Goes, WorkerOK
  <1>2. /\ Swept(m)' = Swept(m) /\ ~Publishes(worker'.job, m)
        /\ Untouched(m)' = Untouched(m)
        /\ Referenced(m, refs)' = Referenced(m, refs) /\ KeyShared(m)' = KeyShared(m)
    BY <1>0, <1>1 DEF Swept, Publishes, Untouched, Referenced, KeyShared
  <1>3. CASE m # n
    <2>1. ~Deleting(m)' /\ ~WorkerLocks(m)' /\ ~At("row", m)
      BY <1>0, <1>1, <1>3 DEF Deleting, Deletes, WorkerLocks, At
    <2>2. status'[m] = status[m] /\ file'[m] = file[m]
      BY <1>3 DEF DeletionLocks, PutBack, DeletionTrashes, DeletionRemoves, DeletionEnds, TypeOK
    <2> QED
      BY <1>0, <1>2, <2>1, <2>2, WorkerElsewhere
  <1>4. /\ m = n => status[m] = "deleting" /\ upload[m].by = "nobody" /\ ~Swept(m)
        /\ m = n => \A j \in jobs : ~Deletes(j, m)
    BY <1>0 DEF Item, Fresh, Uploads, Dooms, One, Doomed
  <1>5. CASE m = n /\ DeletionLocks(n)
    <2>1. UNCHANGED file /\ ~KeyShared(m) /\ ~At("row", m) /\ Doomed(m)
      BY <1>0, <1>5 DEF DeletionLocks, At, Doomed
    <2>2. CASE StillReferenced(n)
      <3>1. status'[m] = "ready" /\ worker'.step = "done"
        BY <1>0, <1>4, <1>5, <2>2 DEF DeletionLocks, PutBack, TypeOK, Goes, WorkerOK
      <3>2. file[m] = "whole" \/ m \in lost
        BY <1>0, <1>5, <2>1, <2>2 DEF StillReferenced, Referenced, Untouched, Item, Dooms
      <3>3. ~Deleting(m)' /\ ~Doomed(m)' /\ ~WorkerLocks(m)' /\ One(m)'
        BY <1>0, <1>1, <1>4, <1>5, <3>1 DEF Deleting, Doomed, WorkerLocks, One
      <3> QED
        BY <1>0, <1>2, <1>4, <1>5, <2>1, <3>1, <3>2, <3>3 DEF Item, Fresh, Uploads, Dooms
    <2>3. CASE ~StillReferenced(n)
      <3>1. UNCHANGED status /\ worker'.step \in {"trash", "remove"} /\ ~Referenced(m, refs)
        BY <1>0, <1>4, <1>5, <2>3 DEF DeletionLocks, StillReferenced, Goes, WorkerOK
      <3>2. Deleting(m)' /\ Doomed(m)' /\ One(m)' /\ ~At("row", m)'
        BY <1>0, <1>1, <1>4, <1>5, <3>1 DEF Deleting, Deletes, Doomed, One, At
      <3> QED
        BY <1>0, <1>2, <1>4, <1>5, <2>1, <3>1, <3>2 DEF Item, Fresh, Uploads, Dooms
    <2> QED
      BY <2>2, <2>3
  <1>6. CASE m = n /\ DeletionTrashes(n)
    <2>1. UNCHANGED <<status, file>> /\ worker'.step \in {"remove", "failed"} /\ WorkerLocks(m)
      BY <1>0, <1>6 DEF DeletionTrashes, WorkerOK, At, WorkerLocks
    <2>2. Deleting(m)' => Deleting(m)
      BY <1>0, <1>6
    <2>3. ~At("row", m)
      BY <1>6 DEF DeletionTrashes, At
    <2> QED
      BY <1>0, <1>2, <2>1, <2>2, <2>3, WorkerElsewhere
  <1>7. CASE m = n /\ DeletionRemoves(n)
    <2>1. UNCHANGED status /\ worker'.step = "row" /\ WorkerLocks(m)
      BY <1>0, <1>7 DEF DeletionRemoves, Goes, WorkerOK, At, WorkerLocks
    <2>2. At("row", m)' /\ One(m)'
      BY <1>0, <1>1, <1>4, <1>7, <2>1 DEF At, One
    <2> QED
      BY <1>0, <1>2, <1>4, <1>7, <2>1, <2>2 DEF Item, Fresh, Uploads, Dooms
  <1>8. CASE m = n /\ DeletionEnds(n)
    <2>1. UNCHANGED file /\ worker'.step = "done" /\ status'[m] = "gone"
      BY <1>0, <1>8 DEF DeletionEnds, Goes, WorkerOK, TypeOK
    <2>2. ~Doomed(m)' /\ ~WorkerLocks(m)' /\ One(m)'
      BY <1>0, <1>4, <1>8, <2>1 DEF Doomed, Deleting, WorkerLocks, One
    <2> QED
      BY <1>0, <1>2, <1>4, <1>8, <2>1, <2>2 DEF Item, Fresh, Uploads, Dooms
  <1> QED
    BY <1>3, <1>5, <1>6, <1>7, <1>8

LEMMA PublicationItem ==
  ASSUME MediaInv, NEW n \in Media, NEW m \in Media,
         \/ PublicationLoads(n) \/ PublicationClaims(n) \/ PublicationUploads(n)
         \/ UploadFails(n) \/ PublicationMarks(n) \/ PublicationRecords(n)
  PROVE  Item(m)'
  <1> USE DEF MediaInv, rowVars, fileVars, apiVars, entryVars, jobVars, hostVars
  <1>0. /\ Item(m) /\ WorkerOK /\ JobSteps
        /\ UNCHANGED <<status, file, lost, upload, retry, refs, saving, jobs>>
        /\ worker.step \in PublicationSteps /\ worker.job.media = n
    BY DEF WorkOK, PublicationLoads, PublicationClaims, PublicationUploads, UploadFails,
           PublicationMarks, PublicationRecords, At, PublicationSteps
  <1>1. Publishes(worker.job, n) /\ worker.step # "row"
    BY <1>0 DEF JobSteps, PublicationSteps, Publishes
  <1>2. /\ worker'.job = worker.job /\ worker'.batch = worker.batch
        /\ worker'.step \in {"claim", "upload", "mark", "record", "done", "failed"}
    BY <1>0 DEF PublicationLoads, PublicationClaims, PublicationUploads, UploadFails,
                PublicationMarks, PublicationRecords, Goes, WorkerOK
  <1>3. Unheard(m) => publish'[m].key = publish[m].key /\ ~Publishes(worker'.job, m)
    <2>1. Unheard(m) => m # n /\ ~Publishes(worker'.job, m)
      BY <1>1, <1>2 DEF Unheard
    <2>2. m # n => publish'[m] = publish[m]
      BY DEF PublicationLoads, PublicationClaims, PublicationUploads, UploadFails,
             PublicationMarks, PublicationRecords, TypeOK
    <2> QED
      BY <2>1, <2>2
  <1>4. /\ ~Deleting(m)' /\ Swept(m)' = Swept(m) /\ ~WorkerLocks(m)' /\ ~At("row", m)
    BY <1>1, <1>2 DEF Publishes, Deleting, Deletes, Swept, WorkerLocks, At
  <1> QED
    BY <1>0, <1>3, <1>4, WorkerElsewhere

LEMMA SettingsItem ==
  ASSUME MediaInv, NEW t \in Targets, NEW m \in Media, SaveSettings(t) \/ ProbePasses(t)
  PROVE  Item(m)'
  <1>1. UNCHANGED <<status, file, lost, publish, upload, retry, refs, saving, jobs, worker>>
    BY DEF SaveSettings, ProbePasses, rowVars, fileVars, apiVars, entryVars, jobVars
  <1> QED
    BY <1>1 DEF MediaInv, Item, Fresh, Uploads, Dooms, One, Untouched, Unheard, Doomed, Deleting,
                Swept, WorkerLocks, Referenced, KeyShared, At

-----------------------------------------------------------------------------
(* The theorems *)

LEMMA MediaInit == Init => MediaInv
  <1> SUFFICES ASSUME Init PROVE MediaInv
    OBVIOUS
  <1>0. Unpublished \in PublishRow
    BY MediaAssumption DEF Unpublished, PublishRow, NoRevision
  <1>1. RowsOK /\ ApiOK /\ EntriesOK /\ QueueOK /\ HostOK
    <2>1. RowsOK
      BY <1>0 DEF Init, RowsOK
    <2>2. ApiOK
      <3>1. NoUpload \in UploadRow
        BY RowEdits
      <3>2. 0 \in 0..MaxRevision
        BY MediaAssumption
      <3> QED
        BY <3>1, <3>2 DEF Init, ApiOK, NoRevision
    <2>3. EntriesOK /\ QueueOK
      BY DEF Init, EntriesOK, NoSave, QueueOK
    <2>4. HostOK
      BY NoSettingsOK DEF Init, HostOK
    <2> QED
      BY <2>1, <2>2, <2>3, <2>4
  <1>2. WorkerOK /\ JobSteps
    BY NoSettingsOK DEF Init, Polling, WorkerOK, JobSteps, AnyJob, Steps, DeletionSteps, PublicationSteps
  <1>3. Attempts /\ Planned
    BY OtherJobs DEF Init, Attempts, Planned, NoSettings
  <1>4. ASSUME NEW m \in Media PROVE Item(m)
    <2>1. Untouched(m) /\ ~Doomed(m) /\ ~Swept(m) /\ One(m) /\ Unheard(m) /\ ~WorkerLocks(m)
      BY OtherJobs DEF Init, NoSave, Untouched, Doomed, Deleting, Deletes, Swept, One, Unheard,
                       Publishes, Unpublished, WorkerLocks
    <2> QED
      BY <2>1 DEF Init, Item, Fresh, Uploads, Dooms, NoUpload
  <1> QED
    BY <1>1, <1>2, <1>3, <1>4, TypeParts DEF MediaInv, WorkOK

LEMMA MediaStep ==
  ASSUME MediaInv, [Next]_vars
  PROVE  MediaInv'
  <1>1. CASE Next
    <2>1. TypeOK' /\ WorkOK' /\ Planned'
      BY <1>1, WorkStep DEF MediaInv
    <2>2. ASSUME NEW m \in Media PROVE Item(m)'
      BY <1>1, ApiItem, EntryItem, SweepItem, LoopItem, DeletionItem, PublicationItem, SettingsItem
      DEF Next, Works
    <2> QED
      BY <2>1, <2>2 DEF MediaInv
  <1>2. CASE UNCHANGED vars
    <2> USE <1>2 DEF vars, MediaInv
    <2>1. TypeOK'
      BY DEF TypeOK
    <2>2. WorkOK' /\ Planned'
      BY NothingQueued
    <2>3. ASSUME NEW m \in Media PROVE Item(m)'
      BY DEF Item, Fresh, Uploads, Dooms, One, Untouched, Unheard, Doomed, Deleting,
             Swept, WorkerLocks, Referenced, KeyShared, At
    <2> QED
      BY <2>1, <2>2, <2>3
  <1> QED
    BY <1>1, <1>2

\* The invariant of everything below, for every set of failures: each item is
\* in one hand at a time.
THEOREM MediaInductive == Spec => []MediaInv
  BY MediaInit, MediaStep, PTL DEF Spec

\* What the API serves has its whole file, whatever uploads, the sweep,
\* deletions and saves do at the same time, wherever the worker dies and
\* whichever step fails; excepted is an item whose file a deletion removed
\* before it failed to delete the row.
THEOREM ReadyMediaHasItsFile == Spec => []ReadyHasFile
  <1>1. MediaInv => ReadyHasFile
    BY DEF MediaInv, Item, Dooms, ReadyHasFile
  <1> QED
    BY <1>1, MediaInductive, PTL

\* An item whose deletion is queued is still marked for it: commits, purges and
\* DELETE requests never queue a second deletion beside the first.
THEOREM DeletionsAreDue == Spec => []QueuedDeletionIsDue
  <1>1. MediaInv => QueuedDeletionIsDue
    BY JobFields DEF MediaInv, WorkOK, QueueOK, Item, Dooms, Doomed, Deletes, QueuedDeletionIsDue
  <1> QED
    BY <1>1, MediaInductive, PTL

\* The worker uploads with the settings of the revision the job was queued for.
THEOREM JobsUseTheirRevision == Spec => []UsesItsRevision
  <1>1. MediaInv => UsesItsRevision
    BY DEF MediaInv, Planned, UsesItsRevision
  <1> QED
    BY <1>1, MediaInductive, PTL

\* A file is cut or removed by a PATCH, the sweep or a deletion, for an item
\* that each of them has for itself.
LEMMA RemovedBy ==
  ASSUME MediaInv, Next, NEW m \in Media, Removed(m)
  PROVE  ~Referenced(m, refs) /\ (Unheard(m) \/ DeletionRemoves(m))
  <1> USE DEF MediaInv, fileVars
  <1>0. Item(m)
    OBVIOUS
  <1>a. file'[m] # file[m]
    BY DEF Removed
  <1>b. ASSUME NEW n \in Media, NEW size, file' = [file EXCEPT ![n] = size]
        PROVE  n = m
    BY <1>a, <1>b DEF TypeOK
  <1>1. PatchWrites(m) \/ SweepRemoves(m) \/ DeletionRemoves(m)
    <2>1. ASSUME NEW n \in Media, Api(n) PROVE PatchWrites(m)
      <3>1. PatchWrites(n)
        BY <1>a, <2>1 DEF Api, Ticket, PatchReads, FinalizeReads, FinalizeWrites, UploadAborts,
                          DeleteMedia, RetryReads, RetryWrites
      <3> QED
        BY <1>b, <3>1 DEF PatchWrites
    <2>2. ASSUME NEW e \in Entries, Entry(e) PROVE FALSE
      BY <1>a, <2>2 DEF Entry, SaveEnds, SaveReads, SaveRefers, SaveCommits, SaveAborts,
                        PurgeEntry, UndoCreate
    <2>3. ASSUME NEW t \in Targets, SaveSettings(t) \/ ProbePasses(t) PROVE FALSE
      BY <1>a, <2>3 DEF SaveSettings, ProbePasses
    <2>4. CASE Sweeps
      <3>1. PICK n \in Media : SweepRemoves(n)
        BY <1>a, <2>4 DEF Sweeps, SweepDeletes, SweepEnds
      <3> QED
        BY <1>b, <3>1 DEF SweepRemoves
    <2>5. ASSUME NEW n \in Media, Works(n) PROVE DeletionRemoves(m)
      <3>1. DeletionRemoves(n)
        BY <1>a, <2>5 DEF Works, DeletionLocks, DeletionTrashes, DeletionEnds, PublicationLoads,
                          PublicationClaims, PublicationUploads, PublicationMarks, PublicationRecords
      <3> QED
        BY <1>b, <3>1 DEF DeletionRemoves
    <2>6. CASE \/ \E n \in Media : SweepSkips(n) \/ UploadFails(n)
               \/ \E M \in SUBSET Media : SweepMarks(M)
               \/ \E j \in jobs : Claim(j)
               \/ JobEnds \/ Crash \/ StepFails
      BY <1>a, <2>6 DEF SweepSkips, UploadFails, SweepMarks, Claim, JobEnds, Crash, StepFails
    <2> QED
      BY <2>1, <2>2, <2>3, <2>4, <2>5, <2>6 DEF Next
  <1>2. CASE PatchWrites(m) \/ SweepRemoves(m)
    <2>1. upload[m].by # "nobody" \/ Swept(m)
      BY <1>2 DEF PatchWrites, SweepRemoves, Swept
    <2> QED
      BY <1>0, <2>1 DEF Item, Fresh, Untouched, Referenced
  <1>3. CASE DeletionRemoves(m)
    BY <1>0, <1>3 DEF DeletionRemoves, At, WorkerLocks, Item, Dooms
  <1> QED
    BY <1>1, <1>2, <1>3

\* The worker never removes a file that an entry refers to, although it checks
\* the references long before it removes the file.
THEOREM RemovesNothingReferenced == Spec => RemovesOnlyUnreferenced
  <1>1. MediaInv /\ [Next]_vars => [\A m \in Media : Removed(m) => ~Referenced(m, refs)]_vars
    BY RemovedBy
  <1> QED
    BY <1>1, MediaInductive, PTL DEF Spec, RemovesOnlyUnreferenced

-----------------------------------------------------------------------------
(* The copy on the image host *)

\* Before the file is removed, the copy that can be deleted is.
Copies(m) ==
  /\ At("remove", m) /\ worker.client.sync
  /\ publish[m].key # None /\ publish[m].key = worker.client.target
  => <<publish[m].key, m>> \notin host

LEMMA CopyStep ==
  ASSUME MediaInv, Next, NEW m \in Media, Copies(m)
  PROVE  Copies(m)'
  <1> USE DEF MediaInv, rowVars, fileVars, apiVars, entryVars, jobVars, hostVars
  <1>0. TypeOK /\ WorkerOK
    BY DEF WorkOK
  <1>1. CASE UNCHANGED <<worker, host>> /\ publish'[m].key = publish[m].key
    BY <1>1 DEF Copies, At
  <1>2. CASE ~At("remove", m)'
    BY <1>2 DEF Copies
  <1>3. ASSUME NEW n \in Media, Api(n) PROVE Copies(m)'
    <2>1. UNCHANGED <<worker, host>>
      BY <1>3 DEF Api, Ticket, PatchReads, PatchWrites, FinalizeReads, FinalizeWrites, UploadAborts,
                  DeleteMedia, RetryReads, RetryWrites
    <2>2. publish'[m].key = publish[m].key
      <3>1. \/ UNCHANGED publish
            \/ \E r : publish' = [publish EXCEPT ![n].state = "pending", ![n].revision = r]
        BY <1>3 DEF Api, Ticket, PatchReads, PatchWrites, FinalizeReads, FinalizeWrites, UploadAborts,
                    DeleteMedia, RetryReads, RetryWrites
      <3>2. ASSUME NEW r, publish' = [publish EXCEPT ![n].state = "pending", ![n].revision = r]
            PROVE  publish'[m].key = publish[m].key
        BY <1>0, <3>2 DEF TypeOK
      <3> QED
        BY <3>1, <3>2
    <2> QED
      BY <1>1, <2>1, <2>2
  <1>4. ASSUME NEW e \in Entries, Entry(e) PROVE Copies(m)'
    BY <1>1, <1>4 DEF Entry, SaveEnds, SaveReads, SaveRefers, SaveCommits, SaveAborts,
                      PurgeEntry, UndoCreate
  <1>5. ASSUME NEW t \in Targets, SaveSettings(t) \/ ProbePasses(t) PROVE Copies(m)'
    BY <1>1, <1>5 DEF SaveSettings, ProbePasses
  <1>6. CASE \/ \E M \in SUBSET Media : SweepMarks(M)
             \/ \E n \in Media : SweepSkips(n)
             \/ Sweeps
    <2>1. ASSUME NEW M \in SUBSET Media, SweepMarks(M) PROVE worker'.step # "remove"
      BY <1>0, <2>1 DEF SweepMarks, WorkerOK
    <2>2. ASSUME NEW n \in Media, SweepSkips(n) PROVE worker'.step # "remove"
      BY <1>0, <2>2 DEF SweepSkips, WorkerOK
    <2>3. ASSUME NEW n \in Media, SweepRemoves(n) PROVE worker'.step # "remove"
      BY <1>0, <2>3 DEF SweepRemoves, WorkerOK
    <2>4. ASSUME NEW n \in Media, SweepDeletes(n) PROVE worker'.step # "remove"
      BY <1>0, <2>4 DEF SweepDeletes, WorkerOK
    <2>5. CASE SweepEnds
      BY <1>2, <2>5 DEF SweepEnds, Polling, At
    <2> QED
      BY <1>2, <1>6, <2>1, <2>2, <2>3, <2>4, <2>5 DEF Sweeps, At
  <1>7. CASE (\E j \in jobs : Claim(j)) \/ JobEnds \/ Crash \/ StepFails
    <2>1. ASSUME NEW j \in jobs, Claim(j) PROVE worker'.step # "remove"
      <3>1. j.type \in {"media_delete", "publish_media"}
        BY JobFields DEF WorkOK, QueueOK
      <3> QED
        BY <1>0, <2>1, <3>1 DEF Claim, WorkerOK
    <2>2. CASE JobEnds \/ Crash
      BY <1>2, <2>2 DEF JobEnds, Crash, Polling, At
    <2>3. CASE StepFails
      BY <1>0, <1>2, <2>3 DEF StepFails, Goes, WorkerOK, At
    <2> QED
      BY <1>2, <1>7, <2>1, <2>2, <2>3 DEF At
  <1>8. ASSUME NEW n \in Media, DeletionLocks(n) PROVE Copies(m)'
    <2>1. worker'.step = "remove" => publish[n].key = None
      BY <1>0, <1>8 DEF DeletionLocks, Goes, WorkerOK
    <2>2. UNCHANGED publish /\ worker'.job.media = n
      BY <1>0, <1>8 DEF DeletionLocks, Goes, WorkerOK, At
    <2> QED
      BY <2>1, <2>2 DEF Copies, At
  <1>9. ASSUME NEW n \in Media, DeletionTrashes(n) PROVE Copies(m)'
    <2>1. /\ worker'.client = settings /\ worker'.job.media = n /\ UNCHANGED publish
          /\ worker'.step = "remove" => Trashed(n)
      BY <1>0, <1>9 DEF DeletionTrashes, WorkerOK, At
    <2>2. settings.sync /\ Trashed(n) => host' = host \ {<<settings.target, n>>}
      BY <1>9 DEF DeletionTrashes, Trashed
    <2> QED
      BY <2>1, <2>2 DEF Copies, At
  <1>10. ASSUME NEW n \in Media,
                \/ DeletionRemoves(n) \/ DeletionEnds(n) \/ PublicationLoads(n)
                \/ PublicationClaims(n) \/ PublicationUploads(n) \/ UploadFails(n)
                \/ PublicationMarks(n) \/ PublicationRecords(n)
         PROVE  Copies(m)'
    <2>1. worker'.step # "remove"
      BY <1>0, <1>10 DEF DeletionRemoves, DeletionEnds, PublicationLoads, PublicationClaims,
                         PublicationUploads, UploadFails, PublicationMarks, PublicationRecords,
                         Goes, WorkerOK
    <2> QED
      BY <1>2, <2>1 DEF At
  <1> QED
    BY <1>3, <1>4, <1>5, <1>6, <1>7, <1>8, <1>9, <1>10 DEF Next, Works

\* With syncDeletes the original goes only after the copy that was made with the
\* settings in force.
THEOREM OriginalsOutliveCopies == Spec => OriginalOutlivesCopy
  <1> DEFINE CopyInv == \A m \in Media : Copies(m)
  <1>1. Init => CopyInv
    BY DEF Init, Polling, Copies, At
  <1>2. MediaInv /\ CopyInv /\ [Next]_vars => CopyInv'
    <2>1. MediaInv /\ CopyInv /\ Next => CopyInv'
      BY CopyStep
    <2>2. CopyInv /\ UNCHANGED vars => CopyInv'
      BY DEF vars, Copies, At
    <2> QED
      BY <2>1, <2>2
  <1>3. MediaInv /\ CopyInv /\ [Next]_vars =>
          [\A m \in Media :
             /\ Removed(m)
             /\ publish[m].key # None /\ publish[m].key = worker.client.target
             => ~worker.client.sync \/ <<publish[m].key, m>> \notin host]_vars
    <2> SUFFICES ASSUME MediaInv, CopyInv, Next, NEW m \in Media, Removed(m),
                        publish[m].key # None, publish[m].key = worker.client.target
                 PROVE  ~worker.client.sync \/ <<publish[m].key, m>> \notin host
      BY DEF vars
    <2>1. At("remove", m)
      BY RemovedBy DEF Unheard, DeletionRemoves
    <2> QED
      BY <2>1 DEF Copies
  <1> QED
    BY <1>1, <1>2, <1>3, MediaInductive, PTL DEF Spec, OriginalOutlivesCopy
=============================================================================

# TimeBlog verification

TLA+ models of TimeBlog, a single-owner blog with a Go core service
(`services/core`), a Go background worker (`services/core/cmd/worker`), a
Next.js front end (`apps/web`) and PostgreSQL. TLC checks small instances of
the models; TLAPS proves the theorems listed below for every value of the
constants.

Contents: [the system](#the-system) · [modules](#modules) ·
[what is checked](#what-is-checked) · [properties](#properties) ·
[disagreements found](#disagreements-found) · [what is proved](#what-is-proved) ·
[not modelled](#not-modelled) · [what could follow](#what-could-follow) ·
[running it](#running-it)

## The system

One API process and one worker process (`deploy/compose.yaml`) share a
PostgreSQL database and a media directory and nothing else. There is one user,
the owner, but several browser windows, each with drafts of its own, and
requests that are retried, delayed or answered to nobody. Every transaction
runs at READ COMMITTED, so a `SELECT` without a lock may be stale when its
result is used. The browser is a second concurrent system: every `await` of its
handlers is a point at which keys, timers, other answers and other handlers
come in between. What follows is the inventory: state, operations, the hard
behaviour, and what makes each part correct. `PROJECT.json` lists the same
parts with their files, and under `hazards` the line at which each difficulty
bites, with the properties that would notice.

**On the server**

1. **Working copies and formal entries.** *State:* `entries` (with a revision
   number), `entry_working_copies` (drafts; `client_draft_id` is the
   idempotency key), `entry_versions`, `undo_tokens`. *Operations:* autosave
   (POST/PATCH), open an edit, discard, commit, restore a version, trash,
   restore, purge, undo, and expiry. *Hard:* two windows edit one entry; an
   autosave is still on its way when its draft is committed; each handler locks
   several rows over several statements. *Correct when:* a commit replaces the
   text its editor was shown and no other; a retired draft stays retired; an
   entry has one edit at a time; nothing deadlocks for good; entries vanish
   only from the trash or by undoing their creation.
2. **Media, deletion and publication.** *State:* `media` (status, external
   columns), the file, `media_refs`, `jobs`. *Operations:* ticket, upload,
   finalize, delete, retry-publish; commits and purges change references.
   *Hard:* the API and the worker race over row, file and reference.
   *Correct when:* what is served has its file, and a file goes only when
   nothing refers to it.
3. **Worker and image host.** *State:* the queue, the settings of the host with
   their revision, the copies on the host. *Operations:* claim, delete,
   publish, sweep abandoned uploads, purge the trash. *Hard:* crashes between
   any two steps, jobs older than the settings, a host that fails. *Correct
   when:* a job uses the settings it was queued under, an original outlives its
   copy, what is marked for deletion settles.
4. **Login and sessions.** *State:* `users`, `mfa_challenges`, `sessions`,
   `totp_replay_guards`, throttles. *Correct when:* a code counts once and no
   login whose code was accepted under credentials since replaced survives.
5. **Account recovery.** *State:* `account_recovery_keys`,
   `account_recovery_operations`, `auth_operation_idempotency`. *Operations:*
   recovery with the key, reset with a code, change of the password, rotation
   of the key. *Hard:* lost answers to COMMIT, retries, five lock orders.
   *Correct when:* there is one key, a retry is recognised, an "ok" is true.
6. **Recovery key on the command line.** *State:* an output file with the only
   plaintext copy of the key. *Correct when:* the file exists as long as the
   key works.
7. **Integration settings** (image host, SMTP, NAS): revisions, a probe that
   marks settings as verified after a network call, and secrets that a save
   reads and stores again in two statements without a lock.
8. **Import, export, taxonomy, site settings**: an import is one transaction
   with file writes inside; the rest are single statements.
9. **Public reading, search, rendering**: queries with cursors.
10. **Digital assets and reminders**: rows of single statements; the worker
    mails reminders in stages.
11. **Schema migrations**: an advisory lock and a checksum table.
12. **Deployment, release, backup scripts**: sequential shell.

**In the browser**

13. **Drafts of the editor.** *State:* the editor, IndexedDB (`drafts`,
    `outbox`), timers, one abortable request, an epoch. *Operations:* flush,
    autosave, passes over the outbox, tray, load, save, discard, undo. *Hard:*
    aborted requests that are carried out after all, failed ones that queue an
    older text, draft ids that change while a handler waits. *Correct when:*
    what was put away stays until its own draft ends, an ended draft leaves
    nothing behind, and the server ends up with the text in the editor.
14. **Attachments.** *State:* the list of uploads, their queue in IndexedDB,
    placeholders in the text, the server's items. *Hard:* cancel, retry, remove
    and recovery of the queue around an upload under way. *Correct when:* no
    placeholder is orphaned, no reference loses its item, and the bytes arrive
    once and in order.
15. **The rich text editor** (text in page and editor, protected Markdown,
    tags). *Correct when:* no key and no construct is lost on the way from the
    page to the editor and back.
16. **Session, login and recovery pages.** *Hard:* the browser makes the new
    secrets; answers to older questions arrive late. *Correct when:* the owner
    can have the key the server accepts, and the window believes the right
    thing of its session.
17. **Content desk and settings pages.** *Correct when:* an action applies to
    what is on the screen, and a save stores only what was shown or typed.
18. **Public pages and the offline cache.** *Correct when:* date, month and
    list belong together, nothing is missed while loading page by page, and an
    evicted page stays away.
19. **Presentation**: layout, menus, themes, without protocol state.

Interaction: 13 calls 1 over HTTP, and its model runs over that of 1; 14 calls
2, 16 calls 4 and 5, 17 calls 1, 2, 7 and 8, 18 reads 9; 1 changes the
references of 2 inside its commits and queues jobs for 3; 3 reads the settings
of 7; 6 works on the tables of 5 while the server runs.

## Modules

| module | what it is |
| --- | --- |
| `FormalEntries` | abstract: an entry is a register, an open edit a ticket |
| `WorkingCopies` | the handlers of the write path, one step each |
| `EditLocks` | the same handlers statement by statement, with row locks |
| `MediaLifecycle` | upload, references, deletion, publication, worker |
| `AccountRecovery` | credentials: login, reset, change, recovery, rotation |
| `EditorDrafts` | one editor window over the handlers of `WorkingCopies` |
| `ResumableUpload` | the transfer of one file in chunks |
| `MediaUploads` | the editor's attachments and their queue |
| `EditorText` | one text in the page and in the editor |
| `ProtectedText` | the blocks of Markdown kept from the rich editor |
| `TagInput` | the field for tags |
| `SignIn` | what a window believes of its session |
| `RecoveryPages` | recovery form and security panel |
| `ContentDesk` | the administration's lists |
| `SettingsPanels` | forms of stored settings and secrets |
| `DigitalAssets` | list, form and chart of digital assets |
| `CalendarPage`, `PublicLists`, `PageCache` | public pages and service worker |
| `WebClient` | the thirteen parts above, from `ResumableUpload` to `PageCache`, and what they promise |
| `WorkingCopies_proofs`, `WorkingCopies_refinement`, `EditLocks_proofs`, `MediaLifecycle_proofs`, `AccountRecovery_proofs`, `EditorDrafts_proofs` | theorems about the server and the editor's drafts |
| `WebAccount_proofs`, `WebContent_proofs` | theorems about the parts of `WebClient` |
| `MC…` | instances for TLC |

`EditLocks` extends `WorkingCopies`, whose tables are the committed ones, and
refines it; `EditorDrafts` instantiates it and is composed with it. `WorkingCopies` instantiates
`FormalEntries` and refines it. `WebClient` extends `ResumableUpload` and
instantiates the other twelve small modules of the browser; they share nothing
but the browser, so a behaviour of its specification chooses one of them and
stays in it, and they use the same variables in turn. Its constants and their
assumptions are those of the parts, and its theorems speak of every value of
them.

### WorkingCopies

The four tables are the four variables. A handler is one action: `SaveDraft`
and `SaveEdit` (POST of a working copy), `PatchCopy`, `DeleteCopy`, `OpenEdit`,
`DiscardEdit`, `CommitNew` and `CommitEdit` (`commitWorkingDatabase`),
`RestoreVersion`, `TrashEntry`, `RestoreEntry`, `PurgeEntry` (API and worker),
`UndoCreate`, `UndoEdit`; `RetentionExpires` and `TokenExpires` are time.

Abstractions, each of which loses nothing the properties speak of:

- A text is a model value. Status and visibility are one field, since a draft
  is never shown whatever its visibility.
- Browsers are not state: every identifier ever handed out may arrive in any
  later request, with any text. This covers retries, delays and lost answers.
- A PATCH either keeps or gives the base revision (`base` is 0 or the one of
  the copy); a commit request either brings the whole text or none of it.
- `seen` on a copy is history: the text of the entry when the copy was opened.
- Opening an edit that can be resumed changes nothing, so it is not a step.
- Restoring a version reads and writes in two statements without a
  transaction; it is one step here, because 20 saves would have to fall between
  the two statements for the version to be pruned.
- Version numbers are left out: pruning keeps the newest `KeptVersions`.

### EditLocks

Extends `WorkingCopies` by `tx` (what each request in progress has read and
where it stands), `out` (its uncommitted writes) and `locks`. Each handler with
more than one statement is split where it waits for a lock: `LockRow`,
`ReadEntry`, `Resume`, `Sweep`, `DeleteRow`, `InsertEntry`, `UpdateEntry`,
`UpsertCopy`, `CheckEntry`, `PutBack`, `LockErased`, `CheckReferences`,
`Cascade`. A statement that scans locks the rows that exist when it starts and
no row inserted later, as READ COMMITTED does. Writes become visible at
`Commit`; `Abort` may come anywhere. Handlers of one statement are the actions
of `WorkingCopies`, guarded by the locks they would wait for (`Statement`).
Tokens are compared with the time at which the transaction began, so a token a
transaction has taken does not expire under it.

### MediaLifecycle

A step is one statement, one file operation or one call of the host. The API's
mutex and advisory lock allow one upload request per item; the worker takes
neither, which is why finalize is split into a read and a write. The
`FOR UPDATE` of the deletion job and the key-share lock of an uncommitted
reference are the guards `WorkerLocks` and `KeyShared`. A commit that takes an
item up is split into the read that sees it ready and the insert of the
reference. `Failures` selects what may fail: the worker dies (`crash`), or one
of its steps does. `lost` is history: the items whose file a deletion removed
before it failed to delete the row. Finished, given-up and dead deletion jobs cannot act any
more and are left out; dead publication jobs are kept in `stuck`, because the
unique index counts them. Any upload may be a day old and any job may be due.
One remote copy per item; equality of bytes is not modelled.

### AccountRecovery

Every handler is a row of `Stages`: the locks it waits for in their order,
then COMMIT, then, if the answer to COMMIT is lost, the query that finds out.
`Arrives` starts a request; `Recovers`, `Rotates`, `ResetStarts`,
`TakesChallenge`, `TakesOwner`, `RunStarts` are what happens once a lock is
granted; `Lands` is the effect of the transaction. The row of `users` and its
replay guard are always locked one after the other and are one lock here. A
code is a pair of a secret and a 30-second step. The token of an operation
stands for the key and the secret the browser generates with it. `CommitIsLate`
and `LateCommitLands` are a COMMIT the server carries out after the client has
lost its connection. Only requests with the password and a code in force when
they arrive are enumerated, besides retries of recorded operations: wrong
factors are refused without effect. They may be outdated when their lock is
granted. A login begins with `ProvesPassword`, the comparison of the password
without a lock; `Issue` stores the challenge later, and the code comes later
still. `issued` remembers with which password a challenge was begun and
`Outdated` whether that was replaced since: the code keeps neither. The command
line reads whether its key is active (`RunVerifies`) and removes the file when
it returns (`Removes`); a late COMMIT may land before, between and after, and
`blind` records the runs that read "inactive" while the server still had it. A
`bound` keeps a session id free for each login under way.

### EditorDrafts

One window over `WorkingCopies`, whose tables are the server. A text is a
number in the order of typing. `shelf` and `outbox` are the two IndexedDB
stores, `io` the requests to them in order (IndexedDB carries them out in that
order; `stale` marks what began in an older epoch), `call` the one request
`runtime.abort` can abort, `late` aborted requests the server may still carry
out, `pass` what a pass over the outbox has still to send. `Persist` is a
flush, `Sync` its request, `CallFails` and `CallEnds` the two halves of the
catch block around its `await`, `Abandons` is `abortPending`. Save, discard and
undo are stages of their own. Requests of the window are steps of the server
when they arrive, so the two models are composed and not merely compatible.
Other windows are `Elsewhere`; two windows that share one IndexedDB are not
modelled. A save that ends while a discard is under way leaves the page, and
the discard goes on without it: its request becomes `erase` (`Left`). `past` is
history: what was put away, which drafts ended, and which of them the editor
itself stored again, or had still under way behind the delete (`Ends`).

### ResumableUpload and MediaUploads

`ResumableUpload` is `uploadResumable`: HEAD, PATCH with `Upload-Offset`, the
retries, a request or answer that is lost, a request that was given up and
still arrives, a connection that breaks inside a chunk, and 409, 408 and 5xx.
The file is the sequence of its positions, so that a chunk in the wrong place
is visible. `MediaUploads` takes the transfer as one step and models what
surrounds it: the list, `uploadControllers`, `cancelledUploads`, the chained
writes to `media-queue`, `recoverUploads` with its three checks, the repair of
a placeholder after a reload, and the DELETE requests. A text is the number of
times each reference stands in it. The recovery finds its uploads in an order
that does not matter, since every item belongs to one upload.

### EditorText, ProtectedText, TagInput

`EditorText`: the markdown of the page, the one the editor was rendered with,
the effect that is due, `sourceRef`, `dirtyRef` and `initialMarkdownRef`; keys
may come at any time. `ProtectedText`: the scanner of `markdown-compat.ts` as
functions of a document, a sequence of kinds of lines; `ranges` are what it
protects, and the editor deletes, moves or adds pieces. Its promise is of the
lines that are saved: those the author left, and without an edit all of them. `TagInput`: focus,
blur, composition, the timer that closes the suggestions, and the place of an
open edit. `target` is history: the tag an open edit is on, the one it was
opened on, and whether the editor has put another in its place.

### SignIn and RecoveryPages

`SignIn`: `refreshSequenceRef`, logout, the two steps of the login page and the
check before writing; sessions also begin and end elsewhere. The answers to what
a page asked change only what the window believes once the page was left. `RecoveryPages`:
the two recovery forms and the security panel over a server that serves a
request at once, refuses it, loses it with or without effect, or serves it
after the window stopped waiting (`AccountRecovery` has the handlers
themselves). A token is the operation token with the key and the secret made
with it. The owner reads codes in the order in which the app shows them; a
recovery draws a new secret, whose codes start anew (`account.code`).

### ContentDesk, SettingsPanels, DigitalAssets, CalendarPage, PublicLists, PageCache

Each keeps the page's state, the requests under way with the number, the abort
signal or the `cancelled` flag the code has (or has not), and as much of the
server as the answers need. `DigitalAssets` also computes the chart: dates are
day numbers and pixels are counted in hundredths, because the code rounds to
two decimals. In `SettingsPanels` a save is a request that the server serves in
steps: it reads the stored secret, stores fields and secret, and reads back what
it answers (`ReadsSecret`, `Stores`, `ReadsBack`), without a transaction, so
that saves of another window fall between; what the mail form sends for days or
a port that are none is chosen by `Mended`. In `PublicLists` every entry has a
day of its own, because a page of the server ends with a day: the order of
entries inside one day is not modelled. The search fails whenever it is given a
cursor, as `publicSearch` does, and a private entry of the timeline has no id.
`PageCache` has one page of each kind the service worker treats
differently and a version number for its content.

## What is checked

All runs use `-workers 2`. Deadlock checking is off: the models have bounded
counters and identifiers that are used once, and stop when these are used up.
"About" in `PROJECT.json` says what each run asks.

| run | states | instance |
| --- | --- | --- |
| `working_copies` | 64,549 | 2 entries, 3 rows, 1 browser draft, 2 texts, 2 kept versions, revisions to 4 |
| `edit_locks` | 89,299 | 2 concurrent transactions, one note or one article, 3 rows, revisions to 3, with fairness |
| `media_fails` | 3,044,528 | 1 public image, 1 entry, 2 targets, every failure |
| `media_settles` | 41,988 | 2 private items, 2 entries, no failures, with fairness |
| `account_recovery` | 1,045,946 | 2 requests at a time; one token of each kind, 1 challenge, 1 session, 2 passwords, 2 clock steps, every failure |
| `editor_drafts` | 863,844 | 1 entry, 3 rows, 2 draft ids, 3 texts, 4 moves of the user, 1 store request under way when a timer fires, 1 late request, a tray of 1, every failure |
| `editor_catches_up` | 11,063 | 1 entry, 2 rows, 1 draft id, 3 texts, 2 moves, failing network, with fairness |
| `web_client` | 5,129,230 | the thirteen parts below |

Parts of `web_client`:

| part | states | bounds |
| --- | --- | --- |
| upload | 4.6k | 5 bytes in chunks of 2, 2 retries, 2 refusals |
| media | 431k | 2 uploads, 2 items, 4 moves, each reference twice, every failure |
| recovery | 108k | 3 tokens, 2 passwords, 2 codes, 6 acts of the owner |
| sign in | 25k | 5 questions, 5 turns |
| desk | 356k | 2 entries, 2 filters, 3 requests at a time, 4 clicks |
| settings | 925k | 4 forms, 2 values and a default, 5 edits |
| assets | 51k | 2 assets, 5 periods (past, today, to come, 30 years, invalid), 3 turns |
| calendar | 32k | 3 months, 4 days with records, 4 moves |
| lists | 2,789k | 3 entries on 4 days, 3 changes |
| cache | 222k | 5 kinds of pages, 3 versions (two evictions), 3 turns |
| tags | 22k | 2 names, one in two spellings, every sequence of them |
| protected | 160k | all documents of up to 3 lines of all kinds, of 4 to 6 lines of the kinds that begin or end raw blocks, comments and code, and one edit |
| editor | 3k | 2 texts, 4 keys, insertions or switches |

Why these bounds: a lost update or a second edit of one entry needs two drafts
on it and a third row for what comes after (undo, late autosave); two texts
tell "mine" from "theirs"; revision 4 leaves room for create, edit, restore and
edit again; with two kept versions a third save prunes. Two transactions are
enough for every pairwise lock conflict, and the handlers take at most two
kinds of rows. One medium, one entry and two targets are enough for each race
of `MediaLifecycle` about one item; two of each are used where items are
dropped by one entry and taken by another. In `AccountRecovery` two requests
exercise every pair of handlers and every request against its own retry; a
second challenge (two resets with one token, which collide in a primary key:
`Collides`) does not fit the instance. In `EditorDrafts` the races are between
a text that was queued, one that was aborted and the last one, on the draft
that ends and the one that follows: three texts, two ids; a tray of one makes
pruning happen. Two store requests under way at once do not fit an instance that
ends in minutes; the theorems speak of any number, and looking for their proof
found what the instance could not reach (see "What is proved"). In the browser's parts the races are between two answers to one
question, or an answer and the handler that makes it obsolete; each bound
leaves room for two rounds of them. Five bytes in chunks of two have a whole
chunk, a second one and a short last one.

Symmetry is used only in runs without liveness, over sets whose elements the
specification treats alike.

**Fairness.** `EditLocks` (`MCSpec`): strong fairness for the steps of each
transaction (PostgreSQL queues lock requests, so one that is grantable again
and again is granted) and weak fairness for the deadlock detector.
`MediaLifecycle.FairSpec`: weak fairness for the worker's loop, the job under
way and the end of a save; strong fairness for taking each queued deletion
(jobs are claimed by the smallest `run_at`, and new jobs come later). Requests,
time and failures are never fair. Liveness of the media is checked without
failures, because a job that runs while the worker dies is never taken back and
nothing in the repository promises otherwise. `EditorDrafts.FairSpec`: IndexedDB
carries out its requests, the interval of ten seconds flushes again and again,
a request that is sent again and again arrives and is answered, and failures
end at some time; the user is never fair, and `ServerCatchesUp` only speaks of
a user who rests.

## Properties

Each property has a mutant, an operator marked `mutant:` next to the one it
replaces, that makes a plausible mistake (a dropped `FOR UPDATE`, a missing
`COALESCE`, an upsert for every draft id, a cursor that is not advanced, a
sequence number that is not raised, ...) and breaks the property. The mutants
are never used by the specifications themselves. The types of each server
module (`TypeOK`, `LocksOK`) are the first conjunct of one of its invariants.

- `WorkingCopies`: `BaseIdentifiesText` (a base revision identifies the text an
  editor saw), `EditsHaveTheirEntry`, `OneEditPerEntry`, `ArticleTextIsKept`,
  `NoLostUpdate`, `RetiredEditsStayRetired`, and `KeepsPromise`, the refinement
  of `FormalEntries`.
- `EditLocks`: `Atomic` (each transaction changes the tables as the single step
  of `WorkingCopies` does, or not at all), `OpenAndCommitNeverDeadlock`,
  `EveryRequestEnds`.
- `MediaLifecycle`: `ReadyHasFile`, `RemovesOnlyUnreferenced`,
  `QueuedDeletionIsDue`, `UsesItsRevision`, `OriginalOutlivesCopy`,
  `DroppedMediaSettles`, `ReferencedMediaIsServed`.
- `AccountRecovery`: `OneUnusedKey`, `OkIsTrue`, `RetryIsRecognized`,
  `CodeSpentOnce`, `SessionsAreCurrent`, `NoMutualWait`, `FileOutlivesKey`.
- `EditorDrafts`: `StoredTextIsKept`, `EndedDraftsAreForgotten`,
  `SavesReplaceWhatWasSeen`, `ServerCatchesUp`.
- the parts of the browser, named in `WebClient` after what they promise and
  stated in the module of the part: `UploadIsWhole`, `PendingMediaIsSafe`,
  `RecoveryIsReal`, `SessionIsBelieved`, `DeskActsOnWhatItShows`,
  `SettingsAreMeant`, `AssetsAreShownTruly`, `ReadersMissNothing`,
  `EvictionHolds`, `TagsAreMeant`, `MarkdownIsKept`, `OneText`.

The code does not keep these promises without exception.
Where TLC found a case in which it does not, and no text of the repository says
that it should, the property names the case, and each is worth a look:

| property | the exception it names |
| --- | --- |
| `SessionsAreCurrent` | a login whose password was replaced between its challenge and its code: the challenge does not remember it, so the login still ends in a session |
| `FileOutlivesKey` | a run of the command line that read its key as inactive while the server still had its COMMIT (the run `key_file`) |
| `ReadyHasFile` | the `DELETE` of a media row fails after the file was removed, and an entry comes to refer to the item before the job is tried again: the job puts it back to ready without its file |
| `PendingMediaIsSafe` | a write to the queue that failed, or was not carried out before a reload, and the items of such writes; an upload that started and ended while a recovery was reading the queue (the recovery replaces the list) |
| `RecoveryIsReal` | a key whose attempt the owner gave up (other inputs, another page) before there was an answer may become the current one; a recovery given up so may overtake a reset with a code |
| `SessionIsBelieved` | a question asked while the logout is under way may answer "signed in" after it (the number is raised when the logout starts, not when it ends) |
| `DeskActsOnWhatItShows` | the answer for one entry's versions comes after another was chosen, or the section is changed with a tab: until an answer is for the chosen entry, or the list is cleared, the list is of one entry, the restore of another |
| `SettingsAreMeant` | after a failed load the integrations' forms hold built-in values, which a save stores; days or a port of the mail form that are none are replaced; a save that keeps the secret puts back the one it has read, over what another window stored since, and loses it when that read fails |
| `AssetsAreShownTruly` | an asset saved while the list is on its way disappears from the list until a reload |
| `ReadersMissNothing` | "reading" stays for ever after a second click on the selected day; the timeline after a page that failed or that a refresh has overtaken; an entry at the cursor that was changed; a private entry hinted at twice in the timeline; a search never shows more than its first page |
| `EvictionHolds` | an answer from before the change, on its way when the worker looked into its cache, is stored after the eviction: that copy stays until the page is stored again or evicted; the home page is never evicted |
| `TagsAreMeant` | an open edit at whose place the editor puts another tag: it changes that tag, and from then on no other |
| `MarkdownIsKept` | a raw HTML block that begins inside another block which ends first; lines behind a code block whose opening fence a comment took into its range: the closing fence then opens a code block of the text with the tokens, and they are in it |
| `OneText` | a key between a render and its effect is lost |

## Disagreements found

Each is a run that must end in a violation of what the repository's text says;
`PROJECT.json` quotes the text under `findings`.

- `waiting_has_job`: a publication whose job gives up before it claims the item
  leaves it pending without a job, and retry-publish accepts a pending item
  but queues nothing for it.
- `key_file`: the command line decides on a query that does not wait for its
  own unfinished COMMIT; the file of a key that becomes active is removed, before
  or after the COMMIT lands.
- `media_library`: on its first opening the media library shows neither the
  items nor the failed publications; it copied the list before it had come.
- `timeline_failure`: a page of the timeline that cannot be loaded ends the
  list; the message that asks to try again is never reached.

Four more configurations are not among the runs, because what they refute is
stated less plainly in the repository. TLC finds each violated:

- `OneEntryPerDraft.cfg` (`MCWorkingCopies`): a draft posted again with the
  client draft id of a committed one makes a second entry, although the
  documentation speaks of idempotency keys.
- `NoSilentOverwrite.cfg` (`MCWorkingCopies`): the copy an undo hands out has
  base revision 0; its commit overwrites what was saved in between without a
  409. The editor does send such a copy: after an undo, an edit of the entry
  resumes the undo's row as the newest one. It takes some thirteen steps of two
  windows and a reload, so no run reaches it; `SavesReplaceWhatWasSeen` speaks of
  the drafts of edits only.
- `OneLockOrder.cfg` (`MCEditLocks`): a discard holds the entry and waits for a
  copy that was created after it had locked the copies; the commit of that copy
  waits for the entry. The database's detector resolves it with an error.
- `UsesProbedTarget.cfg` (`MCMediaLifecycle`): the probe tests the settings of
  the request but marks the stored ones as verified.

Facts in the models without a run of their own: an undo
after later edits brings back an old status; a purge fails for as long as a
draft references the entry; an answer 5xx to a chunk resets the count of
retries, so `uploadResumable` may go on for ever against a server that keeps
answering 5xx; a restored version rebuilds no media references; a login begun
with a password that is replaced before its code still ends in a session
(`auth_handlers.go:246-262`), while `docs/operations/account-recovery.md:34`
wants a new login with the new password after a recovery; throttles are read before and
written after the check they guard; the server's statement for the next page of
a search names parameters it is not given (`public_handlers.go:395-405`), so
that loading more of a search always fails.

## What is proved

For every finite or infinite set of entries, copies, drafts and texts, every
`KeptVersions` and `MaxRevision`, under `ConstantsAssumption` alone (typed
constants, and `None` and `NoPayload` different from the values they stand in
for):

| theorem | statement |
| --- | --- |
| `WorkingCopies_proofs!TypeCorrect` | `Spec => []TypeOK` |
| `WorkingCopies_proofs!Inductive` | `Spec => []IInv` |
| `WorkingCopies_proofs!BaseRevisionIdentifiesText` | `Spec => []BaseIdentifiesText` |
| `WorkingCopies_proofs!EditGenerationsHaveTheirEntry` | `Spec => []EditsHaveTheirEntry` |
| `WorkingCopies_proofs!NoUpdateIsLost` | `Spec => NoLostUpdate` |
| `WorkingCopies_refinement!EditsStayApart` | `Spec => []OneEditPerEntry` |
| `WorkingCopies_refinement!RetiredStaysRetired` | `Spec => RetiredEditsStayRetired` |
| `WorkingCopies_refinement!ArticlesKeepTheirText` | `Spec => []ArticleTextIsKept` |
| `WorkingCopies_refinement!PromiseKept` | `Spec => KeepsPromise` |

So every property of the run `working_copies` is a theorem. For any number of
concurrent transactions besides, under `IdsAssumption` (ids of entries, copies and
tokens are different, so that a lock names one row):

| theorem | statement |
| --- | --- |
| `EditLocks_proofs!LocksInductive` | `LocksSpec => []LInv` |
| `EditLocks_proofs!TransactionsAreAtomic` | `LocksSpec => Atomic` |
| `EditLocks_proofs!PromiseUnderLocks` | `LocksSpec => KeepsPromise /\ NoLostUpdate /\ RetiredEditsStayRetired /\ []OneEditPerEntry` |
| `EditLocks_proofs!NoDeadlockOfCommits` | `LocksSpec => []OpenAndCommitNeverDeadlock` |

For every set of items, entries and targets, all bounds, and every set of
failures, under `MediaAssumption`:

| theorem | statement |
| --- | --- |
| `MediaLifecycle_proofs!MediaInductive` | `Spec => []MediaInv` |
| `MediaLifecycle_proofs!ReadyMediaHasItsFile` | `Spec => []ReadyHasFile` |
| `MediaLifecycle_proofs!DeletionsAreDue` | `Spec => []QueuedDeletionIsDue` |
| `MediaLifecycle_proofs!JobsUseTheirRevision` | `Spec => []UsesItsRevision` |
| `MediaLifecycle_proofs!RemovesNothingReferenced` | `Spec => RemovesOnlyUnreferenced` |
| `MediaLifecycle_proofs!OriginalsOutliveCopies` | `Spec => OriginalOutlivesCopy` |

For every set of tokens, challenges, sessions and passwords, any number of
requests at a time, and whatever fails, under `RecoveryAssumption` (tokens are
never drawn twice):

| theorem | statement |
| --- | --- |
| `AccountRecovery_proofs!RecoveryInductive` | `Spec => []RInv` |
| `AccountRecovery_proofs!OneKeyIsUnused` | `Spec => []OneUnusedKey` |
| `AccountRecovery_proofs!CodesAreSpentOnce` | `Spec => []CodeSpentOnce` |
| `AccountRecovery_proofs!SessionsKeepUp` | `Spec => []SessionsAreCurrent` |
| `AccountRecovery_proofs!NoTwoWaitForEachOther` | `Spec => []NoMutualWait` |
| `AccountRecovery_proofs!OkTellsTheTruth` | `Spec => []OkIsTrue` |
| `AccountRecovery_proofs!RetriesAreRecognized` | `Spec => []RetryIsRecognized` |
| `AccountRecovery_proofs!FilesOutliveKeys` | `Spec => FileOutlivesKey` |

So every property of the run `account_recovery` is a theorem too.

For every set of entries, copies and draft ids, every number of texts, moves,
requests under way and late ones, every size of the tray, and whatever fails,
under `BoundsAssumption` and `ServerAssumption` (the constants of the window are
constants of the server):

| theorem | statement |
| --- | --- |
| `EditorDrafts_proofs!QueueInOrder` | `Spec => [](Window /\ Queue /\ Tables)` |
| `EditorDrafts_proofs!EditorTypes` | `Spec => []TypeOK` |
| `EditorDrafts_proofs!NoEditIsOverwritten` | `Spec => SavesReplaceWhatWasSeen` |
| `EditorDrafts_proofs!PutAwayIsKept` | `Spec => []StoredTextIsKept` |
| `EditorDrafts_proofs!EndedIsForgotten` | `Spec => []EndedDraftsAreForgotten` |

So every property of the run `editor_drafts` is a theorem as well.

For the parts of the browser, every set of values and every bound of
`WebClient`, under its assumptions and `SizesAssumption`: names that must differ
differ (`NoneAssumption`, `UploadsAssumption`, `TokensAssumption`), days and
dates are numbers (`DateAssumption`), documents are sequences of the kinds of
lines the scanner tells apart (`DocumentsAssumption`), and the periods of assets and the days of
a list have a last one (`PeriodsAssumption`, `DaysAssumption`), which every
finite set has:

| theorem | statement |
| --- | --- |
| `WebContent_proofs!UploadInductive` | `UploadSpec => []UInv` |
| `WebContent_proofs!UploadsAreWhole` | `UploadSpec => []UploadIsWhole` |
| `WebContent_proofs!UploadPromise` | `WebSpec => []UploadIsWhole` |
| `WebContent_proofs!MediaPromise` | `WebSpec => []PendingMediaIsSafe` |
| `WebContent_proofs!EditorPromise` | `WebSpec => []OneText` |
| `WebContent_proofs!ReadersPromise` | `WebSpec => []ReadersMissNothing` |
| `WebContent_proofs!CachePromise` | `WebSpec => []EvictionHolds` |
| `WebContent_proofs!TagPromise` | `WebSpec => []TagsAreMeant` |
| `WebContent_proofs!MarkdownPromise` | `WebSpec => []MarkdownIsKept` |
| `WebAccount_proofs!SignPromise` | `WebSpec => []SessionIsBelieved` |
| `WebAccount_proofs!RecoveryPromise` | `WebSpec => []RecoveryIsReal` |
| `WebAccount_proofs!PanelPromise` | `WebSpec => SettingsAreMeant` |
| `WebAccount_proofs!DeskPromise` | `WebSpec => []DeskActsOnWhatItShows` |
| `WebAccount_proofs!AssetPromise` | `WebSpec => []AssetsAreShownTruly` |

So every property of the run `web_client` is a theorem.

**Base revisions.** `TypeOK` is inductive by itself; its four parts
(`CopiesOK`, `EntriesOK`, the history tables, the foreign keys) are one lemma
each with a step per action. `BaseIdentifiesText` is not inductive: a PATCH may
clear the base revision of a copy and a later one may bring back the revision
the editor was given, and while the base is 0 the property says nothing. So
`IInv` is `TypeOK` together with `AllLinked`, which speaks of the revision that
was *given*: the base of a live copy is that revision or 0, while the entry is
at the given revision its text is the one the editor saw, and an edit
generation, the only copy that was given a revision, belongs to the entry its
draft id names. `NoLostUpdate` follows because a step that `Saves` a copy with
a base revision is a `CommitEdit` of it (lemmas `SavesIsCommit`,
`CommitChecked`), whose guard compares revisions, and `IInv` turns that into
equality of texts.

**Generations.** Lemma `CopySteps` sorts the steps by what they do to the table
of copies: rows age (stay or are retired), or one row is inserted with a draft
id no other row has, or an edit is opened on an entry whose other rows are gone
in that step. `OneEditPerEntry` alone is not kept by the last: the new edit
could meet its own draft id on a row elsewhere. `EditInv` therefore adds
`Generations`, the draft id of an edit names the row it was made with. A
dropped row is never reused, so with `Generations` its draft id never returns.

**Versions.** `ArticleTextIsKept` is inductive with `TypeOK`: a snapshot ends
with the text that is saved, pruned or not (`SnapshotHasText`), and
`KeptVersions` is not zero.

**Refinement.** Each action maps to an action of `FormalEntries` or to a
stutter, one lemma per action; trash, restore and undo are `Show` or `Reopen`,
a purge is `Vanish`, an autosave is a stutter.

**Transactions.** `Atomic` is a refinement: a commit must change the tables as
the handler of `WorkingCopies` would at that moment, although its statements
read them earlier. `LInv` therefore says, for each handler and each statement
it may be at (`Mine`), what it has read and written and why that is still so: the
rows it has locked `all` or `write` are as it read them, an id it took for a new
row is still free, an entry it has locked has got no new working copy or token,
and nothing it removes is removed by another. Two more parts tie transactions
together: `Exclusive` (locks do not conflict) and `Apart` (new ids differ, and
of one undo draft one row is inserted at a time, by the unique index). The
proof of a step by `x` is that `x` keeps its own part and leaves the others
`Calm`, the six or so facts they rely on; `KeepMine` shows once that a calm
transaction keeps its part. Statements that write nothing yet leave all calm
(`StillCalm`), a handler of one statement does because it waits for the locks in
its way (`StatementCalm`), and a commit because it writes only rows it owns
(`CommitWrites`, `CommitCalm`). `CommitNext` then maps each commit to its
handler. That opening and committing never wait for each other follows because
whoever of them waits for a lock holds nothing but working copies
(`WaitsWithCopies`). With `Atomic`, the theorems about `WorkingCopies` hold of
the interleaved statements too (`PromiseUnderLocks`).

**Media.** `MediaInv` is one invariant per item (`Item`), and one each for the
worker and its queue. It says whose hand an item is in: a fresh item, not yet
uploaded or held by an upload or marked by the sweep, has no references, no save
that is about to refer to it and no deletion; only one deletion job of an item
is alive, its item is `deleting`, and while it may still be put back the file is
whole, unless an earlier try has removed it and failed at the row (`lost`); from the moment the worker has locked the row to remove the file, there
is neither a reference nor a save that could add one. Each action keeps this for
the items it touches, and `KeptItem` does so for all others. `OriginalOutlivesCopy` needs `Copies`
besides: when the worker is about to remove the original, the copy it could
reach with its settings is no longer on the host.

**Recovery.** `RInv` says what a request may rely on while it has its locks.
`Apart`: no two requests have the table of keys, the owner's row or one challenge
at the same time; lemma `Excludes` reads it off the guards, and a run whose
COMMIT is carried out late keeps its lock until then. `Brings`: with the table
of keys, the key that is brought is new and `old` is all of `Unused`, so there
is one key before and one after. `Proved`: with the owner's row, the code is
newer than the guard and the login has seen the factors in force; the password
it was begun with is the one in force or is marked as replaced (`IssuedOK`).
`Resetting`: a reset that has its challenge was not carried out, because a
recorded reset has used up the challenge it names (`ResetsOK`). The tables add
that keys and secrets that exist are recorded (`KeysOK`, `SpentOK`) and that the
guard is past every code spent with the secret in force. Steps that only move a
request (`QuietKeeps`), steps that carry out a transaction (`LandsKeeps`) and
time, logouts and expiry (`AroundKeeps`) are separate lemmas. `NoMutualWait`
follows from the order of the locks (`LocksInOrder`), the two properties of the
answers from who may be told what (`Told`), and `FileOutlivesKey` because only
`Removes` and `Aborts` remove a file: before the one the run has read that its key
is not active, which stays so unless the server still has the COMMIT (then the
run is in `blind`); the other comes before the key exists.

**Upload.** `UploadIsWhole` says that the server's file is always the first
bytes of the file that is sent, and all of them once the window has finished.
`UInv` adds what makes it inductive: every chunk under way or given up is the
slice of the file at the offset it claims, so wherever the server accepts it,
it fits; the server never has more than the file; and a chunk that was answered
is there.

**Drafts of the editor.** Each step of the window changes the tables as a handler
of the server does, or not at all (`WindowCalls`), so `IInv` carries over from
the proofs of `WorkingCopies`. The window sends no PATCH, and without one an edit
never loses its base revision: `Tables` adds `EditsAreChecked` to `IInv`, and with
both the commit of an edit replaces what its editor saw
(`SavesReplaceWhatWasSeen`). `Window` types what is
stored, sent and waited for. The heart is `Queue`: of the requests to IndexedDB,
at most one belongs to the save and one to the discard, and its handler is at
the stage that waits for it (`Staged`); what is carried out before a delete began
in an older epoch, so that its continuation does nothing (`Orderly`); and while a
delete or a discard is under way, no autosave and no pass is (`Quiet`).
`QueueStep` shows this for each action by what it does to the queue: the first
request is done, one is added, all become stale, or the page is left. On top of
it, `StoredTextIsKept` needs `Shelf`: a draft is on the shelf once, and none whose
text is promised is named in a delete of the tray that is still under way.
`EndedDraftsAreForgotten` needs `Ended`: a draft that is over is in neither store,
and besides in no pass, no request to the server and no request that would store
it. That is kept because a draft ends only when its delete is carried out, with
everything before it stale (`Queue`), and because a flush or a save that takes
the draft up again counts as the editor's own doing (`Revives`).

**Attachments.** `MediaInv` follows an upload and its item through five places:
the list on the page, the request under way, the chain of writes, the queue in
IndexedDB and what a recovery has read of it. `GoneHolds`: what was taken away
is in none of them but a chain that ends with its delete. `BackedHolds`: what is
in the text is in the store, or about to be written to it. `OwnersHold`: an item
has one upload. `UsedHolds`: of an item that is in a text, or that a finished
upload will put there, every older state (not finished) is overwritten by a
later write of its chain, or skipped by the recovery that has read it; otherwise
the recovery would start the upload again and delete the item. That the
recovery waits for the writes it has seen, and skips the uploads it knows of, is
`PendingHolds`. A step that adds a write, one that carries the first out and one
that drops the chain are lemmas on the chains alone, the steps of the list, the
requests and the recovery rest on them.

**The editor's text.** `EditorInv`: the document and its Markdown are one text
(`EditorHolds`); without an effect to come, an editor with what was rendered has
what the page has (`EditorFollows`); and the page has every key but those typed
between a render and its effect (`EditorKeeps`).

**Readers.** In the calendar the last question of each kind has the highest
number and is about what is selected (`CalendarAsks`), and the effect listens to
no other. Of the lists, `ListReaches` says that every public entry nobody touched
is in the list or after its cursor, and `ListAnswers` that a page that has come,
unless the entry at its cursor was changed, tells all that follows this cursor. That
the entries after a day have a newest one is induction over the days, by the
least element of a set of numbers (`LeastNatural`).

**Cache.** No version is ahead of the content, and no answer behind what was
evicted when it was asked for (`CacheVersions`). `CacheEvictions`: an eviction that is done, or that has read
the keys of the cache, leaves nothing older in the cache or under way, but for
what it is about to delete and the copies the history knows to be late.

**Tags.** `TagInv`: the list has no tag twice and no blank one, the open edit
has its tag at its place, and the suggestions are open only in the field or while
the timer to close them runs. `dedupeTags` is a function over the places of a
list; that its result is clean, and that a clean list is its own result, is
induction over the places (`UpTo`, from `LeastNatural`). What a removal or a
merge does to the places is `AfterRemoval`, whose lemma says that the open edit
moves with its tag.

**Protected Markdown.** Two parts. The scan (`ScanOK`): the ranges are in order
and apart, each is a block that is kept, and each line is blank, in a range, or
in a block that is not kept (`RangesFrom`, by induction from the last line).
`BlockIs` says what a block that is not kept may hold: nothing the editor cannot
show, outside a fence. That the fence is one for Markdown too, which reads the
text with the tokens, is induction along the lines of that text (`Reading`); and that a kept one goes as far as the raw block that
begins in it, unless it has an end of its own. The text (`TextOK`): what the
editor has is lines and tokens, no token twice, and what was meant are their
lines, the source of the range for a token. Putting the sources back one after
the other then yields those lines (`TextsAre`, `RestoredIs`); that the text that was prepared
stands for all lines of the document is induction over the ranges (`Outputs`).

**Session.** `SignLogout` and `SignLogin` say which unanswered questions could
undo a logout or a login: they are not the latest one, which the page ignores, or
the history knows of them. `SignNumbers`: no two questions have one number.

**Recovery pages.** `KeysHold`: the account's key is one the owner has kept or
gave up, or that of the current attempt; and after a recovery whose key is not
kept yet nothing else changes the account, because every other request needs the
key, a code of the new secret or the session. `TokensHold`: a token is of one
recovery, which was served before its key was kept, so that a repetition is
recognized. `ResetHolds`: after a reset the account stays as the page says until
its code could be read again; that the codes of older attempts are not newer is
`CodesHold`.

**Settings, desk, assets.** A draft asks for a change of a secret only as it was
meant (`PanelSecrets`), and what a loaded form holds was shown or
typed (`PanelShown`); each request on the server still carries what its draft
said, and what is stored comes from one request (`SaveMeant`). Unless the
history says `mixed`, the versions shown are those of the selected entry, which is none outside its section (`DeskVersions`); an effect
that was run again hears no older answer (`DeskRequests`). The list of assets is
the stored one but for the request that was carried out and is not answered
(`ListFollows`). The geometry of the chart is arithmetic over integers, rounding
included, with a lemma for each step of `digitalAssetBar`.

Several statements had to be corrected when their proofs failed. The history behind
`EndedDraftsAreForgotten` marked a draft as stored again when its save was
answered and not when its delete was carried out, and with two requests under
way a reload in between refuted it; it is now recorded where the draft ends, and
the property has no premise about requests under way. `SavesReplaceWhatWasSeen`
was stated of every copy; the draft an undo hands out refutes it (see
`NoSilentOverwrite.cfg` above). In the browser's parts:

- `PendingMediaIsSafe` excused after a reload the items the list showed for
  uploads whose writes were lost. The writes themselves may name an item the
  list no longer shows; with two lost writes of one upload its item was not
  excused and may be gone.
- `ChartIsTrue` did not allow for the rounding of the line of today: in a chart
  of more than 3280 years it may stand a hundredth of a pixel beside its bar.
- `DigitalAssets!Status` was a CASE whose conditions overlapped; it is the chain
  of the code now.
- In `SignIn`, when the answer to one question opened another page, the page it
  left went on acting on the answers to its other questions.
- `PublicLists` excused a gap for a page that was asked for after a failure,
  although the page was not put into the list. It is excused now only when it is.
- `EditingIsLossless` compared what is saved with what was meant, and took what
  was meant at the beginning from the tokens themselves. It says now besides
  that a text nobody edited is saved line for line as it was opened.
- `SettingsPanels` took a save as one step of the server and the form's values as
  what is sent. The server reads the secret before it stores it, so what a save
  that keeps it stores is the secret it has read; the property says so now, and
  names the values the mail form replaces.
- `PublicLists` gave a search the pages of the timeline; its cursor is refused.
- `EvictedStaysAway` gave up on a page once a late answer had been stored for
  it. It holds again now as soon as that copy is replaced or evicted.
- `ProtectedText` took a closing fence for an opening one, with everything below
  it as code, and let any fence close any other. Fences are now of four kinds,
  and what is in a code block is told from the text with the tokens.
- In `RecoveryPages` a recovery left the guard against repeated codes at the
  code of the old secret, which the server counts anew; and an owner could read
  codes back in time. The codes come in their order now.

Only model-checked: liveness (of `EditorDrafts`, `EditLocks` and
`MediaLifecycle`), which like facts about `ENABLED` is out of the prover's reach,
and the four findings, which are counterexamples.

## Not modelled

- Slugs and their uniqueness, taxonomy, journal times: fields of an entry that
  no property above depends on.
- The in-memory variant of the store (development without a database).
- Throttles, audit rows, cookies, CSRF, hashing, parsing and validation of
  requests.
- Validation and encryption of the settings (`SettingsPanels` has how their
  handlers read and store them), the
  server's side of digital assets, and the mails of the reminders.
- Import and export, the release, backup and migration scripts.
- Several windows that share one IndexedDB; `EditorDrafts` has one window, and
  others only as their requests to the server.
- The rich editor's own parser and serializer: only what the application does
  before and after it.
- The marks on the axis of the asset chart; layout, menus, themes.
- How long anything takes. Expiry and timers may come at any time a handler
  does not exclude; a record of an operation outlives the page that would
  repeat it.
- In `MediaLifecycle`, equal bytes that share one copy on the image host, and
  the references a restored version does not rebuild. That the file of an item
  is kept while it is referenced (`ReferencedFileIsKept`, a part of
  `ReferencedMediaIsServed`) is checked without failures: with the worker dead,
  or the `DELETE` of the row failed, after the file was removed, it does not hold.
- In `AccountRecovery`, a second challenge.

## What could follow

Modules: `Import` (the transaction and the files it writes and puts back);
`Reminders` (the stages of the notifications when a mail fails or the SMTP
settings change); `Slugs` (allocation under concurrency, redirects); `Release`
(backup, migrate, switch, roll back); `MediaLifecycle` with versions and shared
copies; two windows over one IndexedDB in `EditorDrafts`.

Theorems follow the modules: each part above has its promise proved.

## Running it

In this directory, with the community modules on the library path:

    tlc -workers 2 -config WorkingCopies.cfg MCWorkingCopies
    tlapm WorkingCopies_proofs.tla
    tlapm WorkingCopies_refinement.tla
    tlapm EditLocks_proofs.tla
    tlapm MediaLifecycle_proofs.tla
    tlapm AccountRecovery_proofs.tla
    tlapm EditorDrafts_proofs.tla
    tlapm WebAccount_proofs.tla
    tlapm WebContent_proofs.tla

`PROJECT.json` names the module and the configuration of every run.

# Vibe-Recap in TLA+

Vibe-Recap turns a tax return (a PDF) into a short narrated video. Staff upload returns in
batches; a worker extracts the figures, has a language model write a script, checks the script
twice, narrates and renders it; a preparer reviews, approves, releases and shares the video with
the client; retention purges everything later. This directory models the parts of it whose
correctness depends on the order in which things happen, checks them with TLC on small instances,
and proves the most important results with TLAPS for instances of any size.

- [Inventory](#inventory): the system's parts, what can go wrong in each
- [Modules](#modules): what models what
- [Runs](#runs): what TLC checks, with which bounds
- [Disagreements](#disagreements-with-the-documentation): what the code does and its documents deny
- [Known behaviours](#known-behaviours): what else the code does that one may not expect
- [Proofs](#proofs): what holds for every instance, and why
- [Not modelled](#not-modelled)
- [Plan](#plan)

## Inventory

One Postgres database, one Redis, one blob directory; an API process (Fastify), a worker process
(Python), a browser client, and a proxy in front. The API and the worker share no memory: they meet
in the rows of `jobs`, `files`, `job_revisions` and `extraction_overrides`, in the blobs, and in the
BullMQ queues in Redis. Nothing takes a row lock across two statements, and apart from the creation
of a batch and of overrides nothing runs in a transaction: every handler is a sequence of
independent awaits, and so is every step of the worker.

| Part | State it keeps | Operations | Hard because | Must hold |
|---|---|---|---|---|
| **Pipeline** (`worker/recap/pipeline.py`) | the run's context in memory: row snapshot, extraction, script, verification, audio, slides | `run_job`: twelve steps from `resume_from`; fails with a step; restores a rejected revision | dies between any two writes; resumes in the middle; works for minutes on a row others may change | every run settles; only verified scripts are narrated; a resumed run has what it needs |
| **Queue** (`services/queue.ts`, BullMQ) | waiting, active and stalled entries | add, take, redeliver a stalled entry up to the limit | the row and the entry are written separately; several entries per job | no job without an entry, a run or a handler |
| **Review and release handlers** (`routes/jobs, review, script, extraction, revisions, release`) | `jobs` row, artifacts, approval snapshot | retry, re-render, edit, regenerate, revise, re-extract, override, recon exception, approve, reject, release | check, await, then write without a condition | approval covers exactly the stored, verified artifacts; released stays released |
| **Extraction, recon** (`worker/recap/extract`) | extraction.json | read the return, apply overrides, reconcile | pure, large | figures reconcile or are excepted |
| **Script and verifier** (`worker/recap/script`, `verify`) | script, verification, revision thread | generate with retries, revise, validate, verify | the model may answer anything | no script passes whose items are not on the return |
| **Staging** (`services/staging.ts`, `routes/uploads.ts`, web `Upload`) | a Redis document per session, staged blobs | add, stage, pair, update, remove, queue, sweep | read-modify-write of one document, time to live, blobs moved inside a transaction that may roll back | pairings stay consistent; a job has its files; staging empties |
| **Retention** (`services/purge.ts`, `routes/retention.ts`, `feedback.ts`) | `purged_at`, windows, client legal hold, feedback hold | hourly purge, purge now, hold, dismiss, orphan check at start | candidates are collected once and shredded much later; a crash between files and job | nothing held is purged; what is purged is gone; purging finishes |
| **Client sharing** (`services/shares.ts`, `routes/shares.ts`, `watch.ts`) | share row, code and session in Redis, counters | create, request code, verify, watch, revoke, reissue, sweep, wipe | counters written back from a stale read; two people at the same link | caps and lockouts hold; nothing survives a wipe |
| **Storage** (`services/storage.ts`, `worker/recap/storage.py`) | encrypted blobs and per-blob keys, master key | put, get, shred, move, rotate the master key, quarantine | every call is several file operations; rotation rewrites every key file, may die midway | every document stays readable; a shredded one does not come back |
| **Accounts** (`auth/*`, `routes/auth, users, setup`, `cli/seed-admin`) | users, sessions, invites, reset tokens | log in, reset, invite, change role, disable, first admin | check then write; tokens used twice; a password is hashed between read and write | there is always an admin; a token works once; old sessions end |
| **Single sign-on** (`lib/vibeAuth*.ts`) | identities, the break-glass account, the browser's cookie | sign in, create or find a user, sync a role, sign out | changes the cookie under pages that are open | the emergency account stays; a page's command is its own person's |
| **Settings** (`routes/settings.ts`, `services/settings.ts`, web `Settings*`) | one row per setting, form profiles on disk | load, save, import, export, use | written key by key; a form sends all it loaded; secrets are never loaded | stored secrets survive saves and imports |
| **Job page** (web `pages/Job.tsx`, `components/*Panel.tsx`) | per panel: what it fetched, what is typed, what it waits for | poll, fetch, type, send a command | answers late, out of order or never; panels unmount and empty themselves | typed text stays; the page ends with what is stored |
| **Browser session** (web `lib/auth.tsx`, `lib/api.ts`) | who a tab shows, the CSRF token it holds | boot, sign in, sign out, notice that it ended | the tabs of a browser share one cookie | a command acts for the person its tab shows |
| **Clients, audit, AI exchange log, feedback lists** | rows | create, read, update, delete | little: one statement each | |
| **Form profiles, templates, deployment** | none of their own | | | |

The hazards of `PROJECT.json` list, with lines, what this code is exposed to that its tests hardly
reach. Most are of one shape: a handler or a run acts on what it read some awaits ago.

## Modules

| Module | What it is |
|---|---|
| `RecapJob` | jobs from the queue through the pipeline to review and release, with every handler that moves them |
| `JobLifecycle` | the abstract life cycle of a job (docs/PLAN.md section 4), which `RecapJob` implements |
| `MCRecapJob` | a small instance of `RecapJob` for TLC: two scripts, two extractions, one check |
| `RecapJobProofs` | types, approvals, ownership and release of `RecapJob` |
| `Shares` | client sharing: links, codes, checks, watching, revoking, the sweep and the wipe |
| `MCShares` | small instances of `Shares` for TLC |
| `SharesProofs` | types, the caps on checks and on codes, and the Delivered box of `Shares` |
| `Retention`, `MCRetention` | windows, holds, and the runs of the purge |
| `RetentionProofs` | types, holds and purged files of `Retention` |
| `Storage`, `MCStorage` | blobs, their keys and the master key, file operation by file operation; the orphan check |
| `StorageProofs` | types, and that documents stay readable, shredded ones gone and named ones in place |
| `Staging`, `MCStaging` | uploads from the first file to the job, and the page that edits them |
| `StagingProofs` | types, pairings, the files of jobs and of documents |
| `Credentials`, `MCCredentials` | passwords, sessions, reset links, invites, lockout |
| `CredentialsProofs` | types, reset tokens and older sessions |
| `Admins`, `MCAdmins` | who may administer: setup, seed, user management, role sync |
| `AdminsProofs` | types, the one founder, the break-glass account and the last administrator |
| `JobPage`, `MCJobPage` | the page of a job with its panels, polls and forms |
| `WebSession` | tabs, cookie, token and session: who acts for whom |
| `Settings`, `MCSettings` | the settings pages and handlers, on top of `WebSession` |
| `WebProofs` | `WebSession`'s guarantee, that `Settings` keeps within it, its types and its secrets; types and typed text of `JobPage` |

The modules meet in the rows of the database. `RecapJob` and `Shares` meet in the status of the job and in its
video: `Shares` keeps of the job what sharing reads and writes (approved, released or purged, and whether
the video is there); that a job under review again cannot be shared is `RecapJob`'s business.
`Retention` keeps of the job its status and the days that start its windows, and of `Storage` whether a blob
is there; `Storage` keeps of everybody else the row that names a blob. `Staging` ends where
`RecapJob` begins, with a job queued. `Credentials` and `Admins` divide the row of a user between them.
`Settings` extends `WebSession` and implements it: its calls are `WebSession`'s `PageCall` and `PageDone`.

### RecapJob

*State.* `row` is the `jobs` table (status, step, resume point, error step, hashes, recon exceptions,
the approval snapshot; `overridden` stands for the rows of `extraction_overrides`). `files` holds
the current artifact of each kind that matters; `revisions` is `job_revisions`; `queue` and
`stalled` are BullMQ's lists. `worker` is one record per slot: where `run_job` stands and its
`Ctx`. `request` is one record per API request in flight: where the handler stands and what it has
read. The last three variables count accepted requests and crashes.

*Data.* A script or an extraction is its content, and equal contents have equal hashes, so the
`*_sha256` columns hold contents. Which scripts `validate_script` accepts for which extraction
(`Accepts`), which scripts `verify` traces to the return (`Traces`) and which checks an extraction
fails (`Mismatches`) are constants, and the theorems hold for all of them. The content of an
extraction is its figures: its `recon` section is recomputed from them, so two runs with different
exceptions count as equal here where the code's hashes differ (approval then refuses in the code
what the model allows).

*The worker.* One action per database or storage call that others can observe: `Take`, `ReadRow`,
then `Interrupted`, `Ignore` or `Start`, `LoadForResume`, and per step the removal of the old
artifact, the storing of the new one, the write of its hash, and the gate. `StepFails` lets any of
these throw, and `FailAt` is what the `except` clauses write. `Restore` is the `RevisionKept` clause.
`LoadForResume` reads up to three artifacts in one step, and the script step reads the pending
revision, calls the model and removes the old script in one: no handler moves the artifacts of a job
while its row says queued or processing except one that was accepted before, and those
interleave with the steps around.

*The handlers.* `Accept*` reads the row and applies the guards; what follows is the handler's further
reads and its writes in order, one action per await. `Requeue` and `Enqueue` are the two halves of
`requeue()`. Bulk approval and bulk release run the same writes per job and are several requests
here; releasing by sharing (`routes/shares.ts`) writes the same column after the same kind of check
and is a release here.

*Failures.* `WorkerCrash` loses a slot's context and leaves its entry stalled; `Redeliver` puts it
back until its stall limit. `ApiCrash` ends a handler between two of its writes: the process died, or
a call threw.

### JobLifecycle

Status and video of each job with the moves the review workflow promises: work only while
processing, review only with a video, approval only from review and of an approvable video, the
video untouched from approval to release, nothing after release. `RecapJob` relates to it by the
status column and the stored video; `Approvable` are the videos whose script `verify` traces.

### Shares

*State.* `share` is the table `job_shares` (a row may be deleted again, when its link could not be
sent; `taken` keeps the ids in use). `code`, `resend`, `session` and `played` are the four kinds of
Redis key. `job`, `video` and `box` are what sharing sees of the job: its status, whether the
video's file is there, and the Delivered box. `request` is one record per API request in flight, with
the copy of the row it decides on. `wiper` is where the sweep and the purge stand in their lists.
`sent`, `withdrawn` and `granted` count, outside the system, the codes that reached the client, those of them that were
dropped again, and the checks passed: the counters of the row are what the code believes of them.

*Data.* What the client types is right or wrong. A right answer needs a code in Redis (`CheckCode`);
the last four digits can only make a right answer wrong. The contact, the last-4 hash and the return
link are there or wiped. Sessions are numbered by the counter that granted them.

*Actions.* The handlers of `routes/watch.ts` and `routes/shares.ts`, split at every await that writes;
reads between two writes are taken with the step that uses them. `FromClient` is the common beginning
of the client's three requests (token, row, `playable`). `TakeTurn` to `CountCode` are `requestCode`,
`CheckCode` to `OpenSession` are `verifyShare`, `CheckSession` to `MarkDelivered` are the first byte of a
video with `notePlayed`. `InsertShare`, `SendLink` and `DropShare` are `createShare`, which creating and
re-issuing share. A message, with a link or with a code, has three outcomes: sent, not sent, and sent although the provider's
answer was an error or came too late. In the last two the link's row, or the code, is deleted again. `Wipe` and `WipeCode` are `wipeShare`, called by the sweep and by the end of a
purge.

*Time* is the expiry of what carries one, at any moment, with one exception: the resend key does not
lapse while a request that had read the row before is still on its way (`ResendLapses`). The key lives
60 seconds; the e-mail and text providers are given up after 15, and the other awaits are a row, a
key and a decryption. Without this assumption two requests a minute apart could write the same count.

*Failures.* `FailRequest` and `FailWiper` end a request or a wipe at any await; `Crash` ends all of them.
Redis and Postgres survive.

### Retention

*State.* `job` and `file` are the rows (`version` counts the worker's replacements of a file), `blob` what is on
disk, `amounts` the override log that still has the client's amounts; `feedback`, `hold`, `policy`
and `override` are the rows of the same names; `run` is where each call of the purge stands with the
lists it has in memory. `sheltered` is a ghost: the holds that have been in force since a run began.
Time is a number of days.

*Actions.* A run reads the rows (`ReadRows`), then the verdicts (`ReadHolds`), then per job its files
(`ListFiles`), shreds and marks them one by one (`Shred`, `MarkFile`), and closes the jobs it has
touched (`Remaining`, `CloseJob`, `WipeAmounts`). The hourly run, the purge of a job and
the purge of a client are the three ways to begin one (`BeginDue`, `BeginJob`, `BeginClient`). Around them the
worker works and stores (`Retry`, `Work`, `Store`, `Finish`), and people decide, give and
dismiss feedback, and change windows and holds. `FailRun` ends a run at any await.

### Storage

*State.* For every blob the directory it is in, its key files and the master key they are wrapped to; the row
that names it; the identity each process has `loaded`; the call each process is in the middle of; where a
rotation and an orphan check stand. *Actions.* Each is one file operation or one statement: `PutKey`, `PutBlob`,
`MoveKey`, `MoveBlob`, `InsertRow`, `ShredKey`, `UnlinkKey`, `UnlinkBlob`, `MarkRow`; `Rotate*` for
the command line tool; `Check*` and `Quarantine*` for the orphan check at the start of the API. `Stop` is a process that
dies or is stopped anywhere, `RotateFail` a rotation that does.
Any of them may meet any other: nothing in the code keeps a rotation or a check apart from the two processes.
Three ghosts say which blobs were hurt by that: `astray`, put while a rotation ran or with the identity before it, or re-wrapped
by a rotation that then died; `copied`, moved or overwritten between a rotation's read and its write; `caught`, being stored while
a check read the rows and the directories. Everything else is safe, and the runs by hand show that
these are not. *Limits.* Each process makes one storage call at a time and one rotation runs at a time; that
discarding an upload shreds blobs in staging too is `Staging`'s business. The API has not been started in `Init`, so its first check
meets what the worker does.

### Staging

*State.* `doc` is the document of a session in Redis, `key` and `blob` where the two files of an upload are;
`upload` builds a document in memory and saves it at the end; `req` is one record per edit or queueing;
`jobs`, `clients` and `enqueued` are what a queueing leaves behind; `view` is what the page shows; the ghost `revived`
has the sessions of which a save (`Save`, a SET without XX) brought back a document that was gone. What the stager
reads off a PDF (`Taxpayer`, `DetectedYear`, `Match`) is a constant; auto-pairing, pairing by hand, including and
what follows for the other entries are operators on documents (`AutoPair`, `SetPrior`, `SetInclude`, ...).
*Actions.* `Create` to `Finalize` are the upload; `Edit*`, `SaveEdit` and `ShowEdit` an edit, from the page's click
to its answer; `LoadQueue` to `RemoveScope` the queueing with its transaction, whose jobs appear at
`Commit`, and which `Break` ends anywhere: moved files stay moved. `Expire` is the session's hour, at any
moment: its time is set before the first file of an upload and after the last, whatever lies between. `SweepFind` and
`SweepRemove` are the sweep.

### Credentials and Admins

`Credentials` has the rows of users (as far as signing in goes) and of sessions, the reset and invite
tokens in Redis, and a record per handler; `Load` is the authentication every other handler begins with.
A password is a number that grows with each change, so that a session can be told to be older.
`ended` and `used` are ghosts, and so is `spared` of a session. `Cut` is a handler that dies between a change and the
deletion of the older sessions; elsewhere dying is taking no further step. `Admins` has role and disabled flag, one record per handler, the
advisory lock of setup, and two ghosts: `founders`, the accounts setup created, and `overtaken`, the handlers that have read
what they decide on and not yet written when another one changes a role or a flag. A patch carries a role, a flag, or both.
Viewer, staff and preparer are one role, `staff`: none of them may administer.

### JobPage

*State.* `job` is what the API would answer, with versions for contents; `shown`, `editor`, `figures` and `draft` are
what the browser holds; `calls` are the GETs in flight with the answers they already have, `command` the POST or PUT
each panel waits for. `panels` are the panels the preparer works with, fixed per behaviour: a run lists
several small sets in `PanelSets`, because panels only meet in the job they show and in the
commands that change it.

*Panels.* A panel is a record: the commands it sends, which of them carry the typed text, which empty the form, and how
the form ends (it `dies` with the status it is offered in, it `lasts`, it is `locked` while sending, it can be
`cancelled`). `Type`, `Fill`, `Cancel` and `Click` are the preparer, who may type while a command is under way where the code
leaves the form open; a text is `Sent` while the command that carries it is under way and nothing newer is typed (a regeneration
carries none). `Reply`, `HandleCommand` and
`SomeoneElse` the API, `*Arrives`, `*Fails`, `CommandDone` and `CommandFails` what the browser does with answers. A
handler may refuse for reasons the page does not see.

### WebSession and Settings

`WebSession` has the rows of users and sessions, the cookie of each browser, the person and the CSRF
token each tab holds, and the calls in flight, which carry the cookie of the moment they left. A token is drawn at
random per session, so it is named by its session. `Serve` is the API, in the order of its hooks: cookie, role, token,
handler. `Hear*` are what `lib/auth.tsx` and the pages do with an answer.
`SsoSignIn` and `SsoSignOut` navigate the whole browser and change the cookie under the other tabs.

`Settings` adds the rows of settings, the form of each tab, and what the handlers have still to write: a
save and an import write one key per step (`WriteKey`). The forms keep what the code keeps: all inputs, but of a secret
only whether one is stored. Every step of a page is a step of `WebSession` with what happens to the forms (`Mounted`:
a page that the person may no longer see is gone, with its form).

## Runs

`PROJECT.json` lists twelve runs; all of them pass. The configurations it does not list show what the code
does not promise: each ends in a counterexample and is run by hand, for example
`tlc -config MCShares_wiped.cfg MCShares` (see the next chapter). `MCSettings_loading.cfg`, also run by hand, passes.
No run checks for deadlock: people may stop anywhere, and a settled system has nothing left to do.

The runs of jobs use `MCRecapJob`: one job, one slot (the default `WORKER_CONCURRENCY`), scripts `s1` (fits
both readings of the return and verifies) and `s2` (fits one, fails verification), extractions `e1`
(reconciles) and `e2` (does not). With these every gate can pass and fail, and a stale
artifact can always be told from the current one. One job suffices because jobs share only the order
of the queue. `MaxQueue` 2 bounds the entries waiting when a request is accepted, `MaxStalled` is
BullMQ's default 1. `MCView` drops two columns where no step can read them before writing them
again; the reasons are in the module.

| Run | Question | Bounds beyond the above |
|---|---|---|
| `races` | Can two requests and the worker, interleaved at every await, leave a job behind or approve an unverified script? No. | all operations, 2 requests at a time and in all, 1 worker crash, 1 API crash |
| `serial` | With one request at a time, is what was approved what is stored, is every narration verified, is a released job done with, and does the system implement `JobLifecycle`? Yes. | all operations but revise, 3 requests in all, 1 worker crash |
| `liveness` | Does every queued or processing job settle? Yes. | retry and revise, 2 requests, 1 worker crash |

The runs of sharing use `MCShares`, with one job; both caps are 1 (so that one request too many is one
of two), the lock comes at the second wrong answer, and one failure may happen anywhere. `MCView` drops
of a request's copy of the row what the rest of its steps cannot read.

| Run | Question | Bounds |
|---|---|---|
| `client` | Can clients at one link, interleaved with a preparer's box, the sweep, a purge and expiring keys, pass more checks than the cap, or hold more codes that were not dropped than the cap, or watch undelivered? No. | one link, already sent; 2 requests at a time, 4 in all |
| `staff` | Is the contact of every expired link wiped, whatever staff do and wherever a sweep or a purge dies? Yes. | creation, re-issue, revocation and return link; 2 links, 1 request at a time, 3 in all |

The other runs:

| Run | Question | Bounds |
|---|---|---|
| `retention` | Does a hold in force keep its files from every run, is a purged file gone for good, and is what is due purged in the end, wherever a run dies? Yes. | 1 job that failed or was released, 1 client, a source and a video, 1 run that is hourly and manual, windows of 0 and 1 days, 2 days; 1 retry, 1 change of policy or hold, 1 replacement of a file, 1 failed run |
| `storage` | Can put, move, shred, rotation and orphan check, in any order and cut anywhere, lose a document the database lists, or bring a shredded one back? Only one whose own call met a rotation or a check (see below). | 2 blobs, 1 rotation, 1 stop |
| `staging` | Do jobs have their files, pairings stay consistent and staging empty, when edits overwrite each other, a queueing is done twice or rolls back, and the session expires under them? Yes. | 1 upload of 3 files (two years of one taxpayer, one unreadable that may be refused), 3 requests of which two may edit and two may queue, transactions that fail anywhere |
| `credentials` | Does a reset link set one password at most, and does a changed password or a disabled account end the older sessions? Yes, but for a sign-in that is overtaken and a handler that dies in between (see below). | 1 user, 2 sessions, 1 reset token, 2 requests at a time, locked at 2 failures, 2 changes of password |
| `admins` | Does first-run setup make one person administrator, does the last administrator stay, does the emergency account stay? Yes; but a request that is overtaken by another change can take the last administrator away. | 3 addresses and the emergency account, 2 requests at a time |
| `page` | Does what is typed stay unless a command succeeds or the form goes, and does the page end up with what is stored? Yes, with answers in order. | one of editor, override, exception, revision or share per behaviour; others save and approve; versions 1 to 3, that is 2 changes of the job, 2 calls of each kind in flight, 1 loss |
| `settings` | Is a command carried out for the person its page showed, and do the stored secrets survive saves and imports? Yes. | 2 administrators, 2 tabs of one browser, 2 calls at a time and 3 in all, 2 sessions, 1 loss, the e-mail and sharing pages |

*Why the bounds are enough.* A race needs a reader that is overtaken and a writer that overtakes: two
requests and a slot, each able to be at any point. Two accepted requests are enough for the first to
put a job into review and for the second to race the worker, or for both to race each other; a third
(in `serial`) approves after a detour. The worker crash that is allowed is the one BullMQ recovers
from; a second one on the same entry is given up by design. `serial` leaves revisions out because
of the disagreement `restore` shows; everything else about revisions is in `races` and `liveness`.
In `retention` the one run is overtaken by people and by the worker, and by itself after a failure; two
runs at the same file are left to the theorems, which hold for any number of runs. `storage` needs a blob that a
rotation or a check meets in the middle of a call and one beside it that must not suffer; a stop leaves a call, a check or
a process with the old identity behind. In `staging` two edits, or two queueings, or one of each with a third request, are the least at which one
overwrites the other; a third file gives each of two others something to pair with. `credentials` needs the
two submissions of a link, or a change with a sign-in at its side; a third request adds an observer.
In `admins` two requests are the least of which one overtakes the other. The `page` has the job change under a
fetch or a command and change again before the answer. Two changes are a pass of the worker, or a command and what the worker does
first: behaviours in which the job settles after a whole pass that followed a save would need three, for which the run takes too
long. In `settings` one tab is left open
while somebody else signs in at the other.

*Fairness.* `FairSpec` assumes that a slot that can step does (the worker's event loop), that
BullMQ's stalled check runs, and that an accepted handler runs to its end. Users promise nothing.
`Shares!FairSpec` assumes that node-cron starts the sweep again and again while shares are due, and that
a sweep goes through its list unless it fails; purges and requests promise nothing.
`Retention!FairSpec` assumes that cron starts the hourly purge again whenever none runs (strongly: a manual purge may be
in the way now and then) and that a purge that was started goes on; `Staging!FairSpec` that handlers and the sweep go
on and that hours pass; `PageFairSpec` of `JobPage` that the page's timer fires, that the worker works, and
that the API answers (any call may still be lost, up to the bound, after which the page polls again).
Storage, Credentials, Admins and Settings have safety properties only; `LoadingEnds` (a page stops loading whatever is
answered, also when nothing is) is checked by hand with `MCSettings_loading.cfg`, under fair answers.
`NoOrphanedJob` has two premises, for the same reason: no API crash, and no more worker crashes than
the stall limit. Without them it is false, and `PROJECT.json` lists both among the hazards.

## Disagreements with the documentation

Each is a configuration that ends in a counterexample TLC prints step by step. The first seven are
`MCRecapJob_<name>.cfg`; the others name their module.

- `recon` (`ReconHolds`): a job that failed at recon can be re-rendered and skips the recon gate (PLAN.md:26).
- `narration` (`NarratedIsVerified`): a retry from tts racing an edit narrates a script nobody verified (script.ts:43).
- `cutedit` (`NarratedIsVerified`): so does a retry after an edit that was cut between the script it stored and its requeue
  (the API died, or Redis refused), of a job that had failed at tts or later (script.ts:43 again, with one request at a time).
- `restore` (`ApprovedIsCurrent`): a stale revision, rejected, puts `approved` back over an edited script (pipeline.py:338).
- `resume` (`ResumedRunHasInputs`): a retry at mux never succeeds, nothing reloads audio and slides (INSTALL.md:218).
- `released` (`ReleasedIsFinal`): an edit accepted before a release takes the released job back to queued (PLAN.md:109).
- `queued` (`QueuedOnce`): two requests accepted together queue a job twice (queue.ts:47). Two adds in the same
  millisecond, which BullMQ would merge, are not modelled.
- `MCShares_wiped` (`NothingKept`): a return link set while its share is being wiped stays on the wiped row (sharing.md:35).
- `MCStorage_rotation` (`AlwaysFinal`): a rotation reads a key, a purge overwrites and unlinks it, and the rotation's write creates
  it anew (storage.ts:212-215); "without the per-file identity the blob is unrecoverable" (storage.ts:9).
- `MCStorage_quarantine` (`AlwaysRecoverable`): the orphan check, which looks for blobs without a row (purge.ts:182), moves away a
  document the worker stores and records while the check is running. A rotation breaks it too (the property in the
  other configuration): a process that runs while the key is rotated goes on wrapping to the old master what it stores, though
  rotation "re-wraps all keys" (PHASES.md:48).
- `MCStaging_dropped` (`PairedWithReturn`): two files that were made each other's prior year are both counted as "paired as
  prior-year returns" (Upload.tsx:266), and neither is queued.
- `MCStaging_dropped` (`StagedQueueable`, in the place of its property): a session that expires during an upload, or an edit, and is
  swept while the last file is checked comes back with the final save (staging.ts:74) and lists files that the sweep
  removes, though "the bytes live encrypted under blobs/staging/<stageId>/ until the preparer clicks Queue"
  (staging.ts:3). A queueing that rolls back after moves leaves such a list too.
- `MCAdmins_lastadmin` (`NeverWithoutAdmin`): two administrators who demote each other both see two and leave none
  (PHASES.md:200; a role sync does the same, sso.md:77). `OneSetup`: a setup, or the seed command, under the emergency account's
  address makes an administrator the count leaves out, and setup, which "only answers while the users table is empty"
  (setup.ts:28), answers once more.
- `MCJobPage_typing` (`TypingTaken`): "Save and re-render" and "Regenerate" clear `dirty` whatever was typed since, or at
  all: a regeneration, which sends no text, discards what is unsaved (ScriptEditor.tsx:58), and a save what was typed
  while it was on its way (ScriptEditor.tsx:40), though the text follows the stored script only while nobody has typed
  (ScriptEditor.tsx:20).
- `MCJobPage_removed` (`TypingTaken`): removing an override empties the form of the override being typed.
- `MCJobPage_reordered` (`PageSettles`): answers that overtake each other leave an old one on the page (useApi.ts:22).
- `MCJobPage_appears` (`ExtractionAppears`): "It appears once the worker finishes the extract step" (ExtractionPanel.tsx:174), but
  the panel fetches when it mounts and is not told.
- `MCSettings_known` (`AddressesDiffer`): only the sharing page compares the two addresses that must differ
  (SettingsSharing.tsx:107); the e-mail page sets them equal.
- `MCSettings_known` (`RefusedImportIsNone`): an import that is refused at a bad form profile has written its
  settings, and the profiles before it (SettingsBackup.tsx:26).
- `MCSettings_known` (`SignOutEnds`, `SsoSignOutIsTheirs`): signing out in a tab that still shows somebody else's session shows the
  sign-in page and leaves that session alive; by single sign-on it ends the other person's. TLC stops at the
  first property of a configuration that is violated; delete it to see the next.

## Known behaviours

What the models also show, and what a reader of the properties should know. None of it is promised otherwise by
the documents.

- An edit of an approved job that is cut after the old script was shredded leaves the job approved, and its video in place,
  without a script (script.ts:58).
- A purge that dies between the last shredded file and the closing of its job leaves a job without files that no later
  run looks at: it is never `purged`, and its override amounts stay (`EmptiedIsClosed` of `Retention`).
- A rotation of the master key that dies after it has re-wrapped some keys and before it saves the new master leaves
  those keys wrapped to an identity nobody has (storage.ts:204): `astray`, which `Recoverable` and `Queueable` leave out.
- A code that reaches the client although its sending seemed to fail is dropped and not counted, and the client may ask
  again at once (shares.ts:309): a link can send more messages than `MAX_CODES`. `CodesCapped` counts them separately.
- `OldSessionsEnd` leaves out two kinds of session, which outlive the change (`spared`): that of a sign-in that read the
  row before the password was changed, or the account disabled, and wrote its session after the old ones were deleted; and
  the older sessions themselves, when the handler dies, or its statement fails, between the update and the deletion, which
  no transaction joins (users.ts:127-128 and 141-142, auth.ts:171-176 and 249-253; action `Cut`). Those of a disabled account are
  refused and deleted when they are next used (session.ts:89), unless the account is enabled first.
- Two issues of a reset link that overlap leave both links alive (`OneLiveToken`; reset.ts:4), and two submissions
  of one invite (users.ts:154) both set a password.
- Two queueings that overlap may create two clients of one name (`OneClientPerName`), and an edit
  that was read before another one was saved undoes it (staging.ts:246).
- A failed 4-second poll takes all panels of the job page away, with what is typed in them (Job.tsx:29). The
  forms of an override, an exception, feedback and sharing stay editable while they are sent and are
  emptied by the answer, with what was typed meanwhile; only the revision form is locked. A share whose answer was lost can be sent
  twice.
- A page that opens and is answered late that nobody is signed in forgets a sign-in made meanwhile (lib/auth.tsx:33).
- A save writes its settings key by key without a transaction (routes/settings.ts:151), a form sends what it loaded and
  so undoes what another administrator saved since, and an import does not validate values. The
  address of a watch link is read again after the check that it is set (shares.ts:104).

## Proofs

TLAPS checks, with no bound on jobs, slots, requests, crashes or queue lengths, from
`ConstantsAssumption` and `NoneAssumption` (the sets are what they seem, null is none of the values):

- `TypeCorrect`: `Spec => []TypeOK`. `TypeOK` is not inductive: a slot writes its context into rows
  and artifacts, so what it holds at each point of a run matters. `TypeInv` adds `Equipped` (a slot
  past its decision has an entry and a row; one past `load` has a script from `verify` on, a
  verification where the gate reads it, and so on) and the like for handlers. One lemma per worker action,
  one case per handler step.
- `ApprovalCorrect`: `Spec => []ApprovedScriptVerified`. `ApprovalInv` says that every verification,
  stored or in a slot, is truthful (it passed only if its script traces) and that a handler about
  to approve holds a traced script. Truth of a verification does not depend on when it is read,
  which is why no interleaving can break the claim: the handler compared the stored verification's hash
  with the script hash it goes on to write.
- `NothingOrphaned`: `Spec => []NoOrphanedJob`. `OwnershipInv` adds that no entry has stalled
  more often than workers have crashed. Every step either leaves a job's owner in place, passes
  it on (entry to slot, slot to stalled entry, handler to entry) or settles the job.

- `ReleaseStays`: `Spec => ReleasedIsLeft`. The invariant it needs is `TypeInv`. A slot that does not run a job leaves its row and its
  artifacts alone (`SlotElsewhere`: what it takes or reads of a settled job it lets go of again), a handler writes
  only its own job (`RequestElsewhere`), and no operation is accepted on a released job (`AcceptElsewhere`).

`ApprovedIsCurrent`, `NarratedIsVerified` and `ImplementsLifecycle` are model-checked only (`serial`). With requests that
overlap they are false (`narration`, `released` above), with revisions too (`restore`), and when the API dies inside an edit
(`cutedit`); one request at a time is nothing the code ensures, so there is no theorem about them.

For `Shares`, with no bound on jobs, links, requests, caps or failures:

- `TypeCorrect`: `Spec => []TypeOK`. `TypeInv` adds what a request holds at each step: a client's a
  share and its row, one past its check a counter below the cap, a re-issue the share it replaces.
- `NoExtraSession`: `Spec => []SessionsCapped`. `SessionsInv` says that the session counter of a live row
  is the number of checks that passed. The counter is written only where it still is what was read
  (`Bump`), so it cannot fall behind, and who writes it has read a number below the cap.
- `NoExtraCode`: `Spec => []CodesCapped`. `codes_sent` is written back without a condition, so here the
  invariant is about the requests: at most one is between the resend key and its count (`OneSender`), and
  every request still in front of the key either knows of all codes sent (but for the one being
  counted or dropped, the dropped ones, and one for each failure) or will find the key taken (`RequestKnows`).
- `WatchDelivers`: `Spec => []WatchIsDelivery`. The box a request ticks is that of the row it read at the beginning, and it
  notes the view in between on the row of its link, which may be gone by then. `DeliveryInv` therefore says that the two have the same job
  as long as there is a row (`Matched`: ids are not used again), and that a noted view has its box or a request on its way to it.

For `Retention`, with no bound on jobs, clients, users and runs, from `RetentionAssumption` and `NullAssumption`:

- `TypeCorrect`, `HoldsAreRespected` (`[]HoldsRespected`) and `PurgedStaysShredded` (`[]PurgedIsShredded`), all from
  one invariant, `IInv`: verdicts carry an end (`VerdictsOK`), purged files have no blob, and per run (`RunOK`) what
  its lists can hold at each point (`PhaseOK`), that no list names a version newer than the row's
  (`FilesOK`), and that no list names a job under a sheltering hold (`Spares`). A hold that was in force all along is in
  what `ReadRows` or `ReadHolds` reads, whichever of the two looks for it; that the two reads happen at different times is why the
  invariant speaks of holds since the beginning of a run and not of holds now.

For `Admins`, with no bound on addresses and requests:

- `TypeCorrect`; `OneFounder` (`[]SetupOnce`): who is past the count holds the advisory lock, and counted nobody
  (`LockHeld`), and no account is ever deleted (the emergency account's address apart, which nobody counts); `BreakglassGuarded` (`BreakglassStays`): a handler that is about to change a
  role has read a row that is not the emergency account's (`Knows`).
- `LastAdminStays` (`AdminStays`), whatever overlaps: a handler that is about to demote somebody and was not overtaken has
  counted another administrator (`Decided`), and meanwhile administrators only become more.

For `WebSession` and `Settings`, with no bound on users, tabs, browsers, sessions and calls:

- `SessionsTyped`, `CommandsTheirs` (`[]CommandsAreTheirs`): a token a tab holds is of a session of the person it shows
  (`TabOK`), a call carries the tab's token and person, and the answer to a sign-in or to `me` names a session
  of the person it names (`CallOK`). Sessions never change their user (`Keeps`), so no step of another tab can
  break what a tab or a call holds: the lemmas `TabKept` and `CallKept` say so once for all. The cookie may be of
  somebody else at any time; then the token does not fit.
- `SettingsRefinesSession`: every step of `Settings` is a step of `WebSession` or leaves its variables alone; hence
  `SettingsTheirs`.
- `SettingsTyped` and `SecretsStay` (`SecretsKept`): a form that has something to send for its secret has been touched
  (`FormOK`), and a write of a secret that a handler has still to do comes from a save that carries the mark (`WriteOK`);
  an import's list has no secret in it. `SInv`, checked first in 608,212 states, puts these beside the types of the form, of
  the calls' work and of the stored rows, and beside the sessions' invariant.

For `JobPage`, with no bound on panels, calls, changes and lost answers, from `JobPageAssumption`, and for answers in any
order (`WebProofs` extends `Settings` and `JobPage`, which share nothing):

- `JobPageTyped` (`[]PageTypeOK`): `JobInv` adds what the answers in flight can be (`CallsOK`), and that a page that is not there
  waits for nothing but the job (`Bare`), so no answer finds a panel missing.
- `TypedTextStays` (`TypingKept`), whatever panels there are and whenever the preparer types. `KeepInv` adds to `JobInv` that a text
  which is `Sent` is what a command under way of its own panel carries (`CarriedOK`); so what the success of that command
  takes away, the server has, and every other way in which text can go is named in the property. The stronger
  `TypingTaken`, without the discarding commands, is false (see above).

For `Storage`, with no bound on blobs, rotations and stops, whatever meets whatever:

- `TypeCorrect`, `DocumentsRecoverable` (`[]Recoverable`), `UploadsQueueable` (`[]Queueable`), `ShredFinal`
  (`[]ShredIsFinal`) and `OnlyUnnamedQuarantined` (`[]QuarantinedIsUnnamed`), all from one invariant, `IInv`. It says where a
  blob's one key file is at each point of a put, a move and a shred (`CallOK`), that API and worker do not put the same blob
  (`Apart`), what is left between calls (`BlobOK`), that a rotation has wrapped to the new identity exactly what it no longer has to
  do (`WrapOK`, `RotationOK`) and writes back the only key of a blob (`HeldOK`), what an orphan check's list can hold (`ListOK`,
  `CheckOK`), and that a process which does not run is in no call (`ProcsOK`). The ghosts are what makes it inductive: a blob
  enters one of them in the very step that meets a rotation or a check, and the other clauses hold of the rest.

For `Credentials`, with no bound on accounts, sessions, tokens and handlers:

- `TypeCorrect`; `TokensUsedOnce` (`[]TokenUsedOnce`): a token that is in Redis or in a handler's hands has set no password,
  a handler has it in hand only when it is gone from Redis, and no two have the same (`TokenOK`). Taking it
  is one command of Redis (GETDEL), and that is all the argument needs.
- `OlderSessionsEnd` (`[]OldSessionsEnd`): a session is as old as the row its sign-in read; whoever raises the
  number of the password, or disables the account, goes on to the deletion of the sessions in the same step, and
  leaves that place only by deleting them or by `Cut`, which marks the sessions it leaves.

For `Staging`, with no bound on files, sessions, edits and queueings, from `StagingAssumption`:

- `TypeCorrect`; `PairedConsistently` (`[]PairingConsistent`): all copies of a document that can be
  saved are consistent (`Pairings`), and pairing, including and auto-pairing keep any document so; so it does not
  matter which copy is saved last. From a consistent document a queueing gets every PDF to move once (`PairedMovesOnce`).
- `JobsHaveFiles` (`[]JobHasFiles`): requests begin only at a session whose upload is over, and work on its own files
  (`Apart`); a queueing takes files by renaming, so the files of jobs that exist, and of those a transaction is about to
  create, are where no other queueing finds them (`Owned`).
- `ListedIsStored` (`[]StagedIsStored`), whenever sessions expire: the files that a document lists, or that one in the
  hands of an upload or a request does, are in staging or with a queueing that began, unless the document is gone or was brought
  back (`StoreInv`; `Lost`, `Kept`). What the sweep and the end of a queueing remove is of a document that is gone,
  and any later save of it marks the session.

  The files are moved in the order of their numbers; that there is a next one is the one use of
  well-foundedness.

Only model-checked: liveness, which is out of the prover's reach: `EveryRunSettles`, `ContactsForgotten`, `DueIsPurged`, `StagingEmpties`, `PageSettles`, `LoadingEnds`.
The proofs rest on the assumptions each module names of its constants (`ConstantsAssumption` and the like), which TLC
evaluates in the runs, and on nothing else but the assumptions named here.

## Not modelled

In `RecapJob`: the purged status and purging (`Retention` has them), the delivered flag, the narration voice, the values of
overrides, captions and transcripts, the AI exchange capture, events and audit rows; failures of
`run_job`'s own bookkeeping (reading the row and settings, the writes of its `except` clauses, the
event after the last step); the loss of BullMQ's lock by a slot that is alive; the moment between the
shredding of a blob and the deletion of its row; two rows of one kind in `files`, which
the missing uniqueness allows (an artifact is the last one stored).

In `Shares`: the sharing settings (switching sharing off closes the routes), the share timeline and the
wiping of its IP addresses, the watch page, range requests after the first, job statuses other than
approved, released and purged, two purges at once.

In `Retention`: the hours of a day, the reports and the feedback bundle, which only read. In `Storage`: the passphrase,
the age format, reading, and the copy of the single sign-on secret that rotation re-wraps. In `Staging`: the duplicate warning,
limits on size and number, the rendering of thumbnails.

In `Credentials`, `Admins` and `WebSession`: rate limits, preferences and the narration voice, the page of first-run setup,
the break-glass command line tool's password, the protocol with the provider; `sweepSessions`
(session.ts:141), which nothing calls; the deletion of sessions by identity, which the back channel shares with deletion by
user.

In `JobPage`: panels that only list (revisions, feedback, shares) and their polls, the Delivered box and the purge
form, the remounting of the override form when the first extraction arrives. In `Settings`: the test buttons, export,
settings that decide nothing (`firm_name` stands for them), the page of retention windows.

Pure functions on PDF text, prompts, layout and audio are data to this project: which figures a reader finds, which sentence the
verifier traces and how a slide is drawn have no order of events to check, and the recursion in them is out of the
prover's reach. One-statement CRUD (clients, form profiles, audit, AI exchange log) has none either. See the components
in `PROJECT.json`.

## Plan

What would add most from here:

1. `NarratedIsVerified` for more than one request at a time, with the overlaps it survives singled out.
2. Two slots and two artifact rows of a kind in `RecapJob`; the purge as a third actor there.
3. The sharing settings in `Shares`, composed with `Settings`.

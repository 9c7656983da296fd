------------------------------ MODULE RecapJob ------------------------------
(***************************************************************************)
(* One recap job from the BullMQ queue through the worker's pipeline to    *)
(* review and release, with every API handler that moves it.               *)
(*                                                                         *)
(* Four parties share the Postgres row of a job, its stored artifacts and  *)
(* the Redis queue:                                                        *)
(*   - the worker's slots, each running run_job (worker/recap/pipeline.py) *)
(*     one step at a time over a context held in memory;                   *)
(*   - BullMQ, which hands an entry to a slot and delivers it again when   *)
(*     the slot died with it;                                              *)
(*   - API requests, split wherever a handler awaits the database, so that *)
(*     what a handler read may be stale when it writes;                    *)
(*   - crashes of either process.                                          *)
(*                                                                         *)
(* A script or an extraction is its content: equal values have equal       *)
(* hashes, so the *_sha256 columns hold the content itself.                *)
(***************************************************************************)
EXTENDS Naturals, Sequences, FiniteSets

CONSTANTS
  Jobs,             \* jobs of a batch
  Workers,          \* slots of the recap worker (WORKER_CONCURRENCY, default 1)
  Requests,         \* API requests that may be in flight at once
  Ops,              \* operations the users call, a subset of AllOps
  Scripts,          \* script contents
  Extractions,      \* extraction contents (figures the return is read as)
  Checks,           \* names of the reconciliation checks
  Mismatches,       \* the checks each extraction fails
  Accepts,          \* <<script, extraction>> pairs validate_script accepts
  Traces,           \* scripts whose every item verify() finds on the return
  MaxStalled,       \* BullMQ's maxStalledCount
  MaxQueue,         \* bound: entries waiting when a request is accepted
  MaxAccepted,      \* bound: requests accepted in a behaviour
  MaxWorkerCrashes, \* bound
  MaxApiCrashes,    \* bound
  None              \* null

Settled  == {"needs_review", "approved", "released", "failed", "rejected"}
Statuses == {"queued", "processing"} \cup Settled

\* STEPS of the pipeline, as each step's successor.
Following ==
  [ingest |-> "identify", identify |-> "extract", extract |-> "ocr", ocr |-> "recon",
   recon |-> "script", script |-> "validate", validate |-> "verify", verify |-> "tts",
   tts |-> "slides", slides |-> "mux", mux |-> "ready", ready |-> "ready"]
Steps == DOMAIN Following

AfterVerify   == {"tts", "slides", "mux", "ready"}
AfterValidate == AfterVerify \cup {"verify"}
AfterRecon    == AfterValidate \cup {"script", "validate"}

AllOps == {"retry", "rerender", "revise", "edit", "regenerate", "reextract",
           "override", "exception", "approve", "reject", "release"}

ASSUME ConstantsAssumption ==
  /\ IsFiniteSet(Jobs)
  /\ Ops \subseteq AllOps
  /\ Mismatches \in [Extractions -> SUBSET Checks]
  /\ Accepts \subseteq Scripts \X Extractions
  /\ Traces \subseteq Scripts
  /\ {MaxStalled, MaxQueue, MaxAccepted, MaxWorkerCrashes, MaxApiCrashes} \subseteq Nat

VARIABLES
  row,          \* the jobs table
  files,        \* current artifacts: script, extraction, verification, video
  revisions,    \* job_revisions, oldest first: previous_status, and whether still pending
  queue,        \* BullMQ entries waiting
  stalled,      \* entries whose slot died, until BullMQ notices
  worker,       \* what each slot is doing, and the context of its run
  request,      \* what each API request is doing, and what it has read
  accepted,     \* requests accepted so far
  workerCrashes, apiCrashes

vars == <<row, files, revisions, queue, stalled, worker, request, accepted, workerCrashes,
          apiCrashes>>
-----------------------------------------------------------------------------
(* Types.  WorkerPCs and RequestPCs name the points between two database   *)
(* or storage calls.                                                       *)

Maybe(S) == S \cup {None}

\* overridden: the job has an active row in extraction_overrides.
Row == [status: Statuses, step: Maybe(Steps), resumeFrom: Maybe(Steps), errorStep: Maybe(Steps),
        script: Maybe(Scripts), extraction: Maybe(Extractions), exceptions: SUBSET Checks,
        overridden: BOOLEAN,
        approvedScript: Maybe(Scripts), approvedExtraction: Maybe(Extractions)]

Verification == [script: Scripts, passed: BOOLEAN]
Video        == [script: Scripts, extraction: Extractions]

Files == [script: Maybe(Scripts), extraction: Maybe(Extractions),
          verification: Maybe(Verification), video: Maybe(Video)]

Revision == [previous: Settled, pending: BOOLEAN]
Entry    == [job: Jobs, stalls: Nat]

\* ctx.job: the row as run_job read it, used to the end of the run.
Snapshot == [status: Statuses, step: Maybe(Steps), resumeFrom: Maybe(Steps),
             exceptions: SUBSET Checks]

WorkerPCs == {"idle", "taken", "decide", "load", "begin", "work", "put", "note", "resolve",
              "gate", "restore", "fail", "done"}
\* revision: which of the job's revisions is being applied or was rejected, 0 for none.
Worker == [pc: WorkerPCs, entry: Maybe(Entry), job: Maybe(Snapshot), step: Maybe(Steps),
           script: Maybe(Scripts), extraction: Maybe(Extractions),
           verification: Maybe(Verification), audio: Maybe(Scripts),
           slides: Maybe(Extractions), revision: Nat]

RequestPCs == {"idle", "rerender", "revise", "insert", "validate", "drop", "put", "note",
               "override", "remove", "except", "downgrade", "check", "check_extraction",
               "check_video", "verification", "approve", "reject", "release", "requeue", "enqueue"}
Request == [pc: RequestPCs, job: Maybe(Jobs), from: Maybe(Steps), status: Maybe(Settled),
            script: Maybe(Scripts), extraction: Maybe(Extractions), exceptions: SUBSET Checks]

ASSUME NoneAssumption ==
  /\ None \notin Jobs \cup Scripts \cup Extractions \cup Steps \cup Statuses
  /\ None \notin Entry /\ None \notin Snapshot
  /\ None \notin Verification /\ None \notin Video

\* Every variable keeps its declared shape.
TypeOK ==
  /\ row \in [Jobs -> Row]
  /\ files \in [Jobs -> Files]
  /\ revisions \in [Jobs -> Seq(Revision)]
  /\ queue \in Seq(Entry)
  /\ stalled \in Seq(Entry)
  /\ worker \in [Workers -> Worker]
  /\ request \in [Requests -> Request]
  /\ accepted \in 0..MaxAccepted
  /\ workerCrashes \in 0..MaxWorkerCrashes
  /\ apiCrashes \in 0..MaxApiCrashes

IdleWorker ==
  [pc |-> "idle", entry |-> None, job |-> None, step |-> None, script |-> None,
   extraction |-> None, verification |-> None, audio |-> None, slides |-> None, revision |-> 0]
IdleRequest ==
  [pc |-> "idle", job |-> None, from |-> None, status |-> None, script |-> None,
   extraction |-> None, exceptions |-> {}]

\* A batch just queued from staging: every row queued, every job in the queue once.
Init ==
  /\ row = [j \in Jobs |->
       [status |-> "queued", step |-> None, resumeFrom |-> None, errorStep |-> None,
        script |-> None, extraction |-> None, exceptions |-> {}, overridden |-> FALSE,
        approvedScript |-> None, approvedExtraction |-> None]]
  /\ files = [j \in Jobs |->
       [script |-> None, extraction |-> None, verification |-> None, video |-> None]]
  /\ revisions = [j \in Jobs |-> <<>>]
  /\ \E order \in [1..Cardinality(Jobs) -> Jobs] :
       /\ \A j \in Jobs : \E i \in 1..Cardinality(Jobs) : order[i] = j
       /\ queue = [i \in 1..Cardinality(Jobs) |-> [job |-> order[i], stalls |-> 0]]
  /\ stalled = <<>>
  /\ worker = [w \in Workers |-> IdleWorker]
  /\ request = [r \in Requests |-> IdleRequest]
  /\ accepted = 0
  /\ workerCrashes = 0
  /\ apiCrashes = 0
-----------------------------------------------------------------------------
(* The worker.                                                             *)

JobOf(w) == worker[w].entry.job
RowOf(w) == row[JobOf(w)]
At(w, pc, step) == worker[w].pc = pc /\ worker[w].step = step

UpdateJob(j, columns) == row' = [row EXCEPT ![j] = columns]
Become(w, k)          == worker' = [worker EXCEPT ![w] = k]

\* The run of w returned: only the entry is left, until BullMQ marks it completed.
Returned(w) == Become(w, [IdleWorker EXCEPT !.pc = "done", !.entry = worker[w].entry])

\* run_job's except clauses: the job failed at `step`.
FailAt(w, step) ==
  /\ UpdateJob(JobOf(w), [RowOf(w) EXCEPT !.status = "failed", !.step = step, !.errorStep = step])
  /\ Returned(w)

Goto(w, pc) == Become(w, [worker[w] EXCEPT !.pc = pc])
Advance(w)  == Become(w, [worker[w] EXCEPT !.pc = "begin", !.step = Following[worker[w].step]])

\* What a worker step leaves alone besides the variables it names itself.
ApiUnchanged == UNCHANGED <<request, accepted, apiCrashes>>
WorkerOnly   == ApiUnchanged /\ UNCHANGED <<queue, stalled, workerCrashes>>

Take(w) ==
  /\ worker[w].pc = "idle"
  /\ queue # <<>>
  /\ queue' = Tail(queue)
  /\ Become(w, [IdleWorker EXCEPT !.pc = "taken", !.entry = Head(queue)])
  /\ UNCHANGED <<row, files, revisions, stalled, workerCrashes>> /\ ApiUnchanged

ReadRow(w) ==
  /\ worker[w].pc = "taken"
  /\ LET r == row[JobOf(w)] IN
       Become(w, [worker[w] EXCEPT !.pc = "decide",
         !.job = [status |-> r.status, step |-> r.step, resumeFrom |-> r.resumeFrom,
                  exceptions |-> r.exceptions]])
  /\ UNCHANGED <<row, files, revisions>> /\ WorkerOnly

\* Mutation: a redelivered job found processing is ignored like any other that is not queued.
Interrupted_Ignored(w) ==
  /\ worker[w].pc = "decide"
  /\ worker[w].job.status = "processing"
  /\ Returned(w)
  /\ UNCHANGED <<row, files, revisions>> /\ WorkerOnly

\* "worker restarted mid-job; retry to resume"
Interrupted(w) ==
  /\ worker[w].pc = "decide"
  /\ worker[w].job.status = "processing"
  /\ LET step == IF worker[w].job.step = None THEN "ingest" ELSE worker[w].job.step IN
       UpdateJob(JobOf(w), [RowOf(w) EXCEPT !.status = "failed", !.errorStep = step])
  /\ Returned(w)
  /\ UNCHANGED <<files, revisions>> /\ WorkerOnly

Ignore(w) ==
  /\ worker[w].pc = "decide"
  /\ worker[w].job.status \in Settled
  /\ Returned(w)
  /\ UNCHANGED <<row, files, revisions>> /\ WorkerOnly

\* Mutation: a redelivered job that is no longer queued is begun again.
Start_Any(w) ==
  /\ worker[w].pc = "decide"
  /\ worker[w].job.status # "processing"
  /\ UpdateJob(JobOf(w), [RowOf(w) EXCEPT !.status = "processing", !.step = "ingest"])
  /\ Become(w, [worker[w] EXCEPT !.pc = "load", !.step = "ingest"])
  /\ UNCHANGED <<files, revisions>> /\ WorkerOnly

Start(w) ==
  /\ worker[w].pc = "decide"
  /\ worker[w].job.status = "queued"
  /\ LET first == IF worker[w].job.resumeFrom = None THEN "ingest" ELSE worker[w].job.resumeFrom IN
       /\ UpdateJob(JobOf(w), [RowOf(w) EXCEPT !.status = "processing", !.step = first,
                                               !.errorStep = None])
       /\ Become(w, [worker[w] EXCEPT !.pc = "load", !.step = first])
  /\ UNCHANGED <<files, revisions>> /\ WorkerOnly

\* _load_for_resume: what earlier steps would have left in memory, from the stored artifacts.
LoadForResume(w) ==
  /\ worker[w].pc = "load"
  /\ LET first == worker[w].step
         f     == files[JobOf(w)]
     IN  IF \/ first \in AfterRecon /\ f.extraction = None
            \/ first \in AfterValidate /\ f.script = None
         THEN FailAt(w, first)
         ELSE /\ Become(w, [worker[w] EXCEPT
                   !.pc = "work",
                   !.extraction   = IF first \in AfterRecon THEN f.extraction ELSE None,
                   !.script       = IF first \in AfterValidate THEN f.script ELSE None,
                   !.verification = IF first \in AfterVerify THEN f.verification ELSE None])
              /\ UNCHANGED row
  /\ UNCHANGED <<files, revisions>> /\ WorkerOnly

BeginStep(w) ==
  /\ worker[w].pc = "begin"
  /\ UpdateJob(JobOf(w), [RowOf(w) EXCEPT !.step = worker[w].step])
  /\ Goto(w, "work")
  /\ UNCHANGED <<files, revisions>> /\ WorkerOnly

\* ingest, identify, and ocr on a package with enough text: nothing stored.
ReadReturn(w) ==
  /\ worker[w].pc = "work"
  /\ worker[w].step \in {"ingest", "identify", "ocr"}
  /\ Advance(w)
  /\ UNCHANGED <<row, files, revisions>> /\ WorkerOnly

\* extract, ocr on a scan, and recon, up to the moment replace_file has removed the old artifact.
\* The figures depend on the return, the profiles and the overrides: any extraction may result.
\* recon works on the extraction in memory, else the stored one, else it reads the return itself
\* (and stores the result twice in a row, which is one store here).
Extract(w) ==
  /\ worker[w].pc = "work"
  /\ worker[w].step \in {"extract", "ocr", "recon"}
  /\ LET stored == files[JobOf(w)].extraction
         held   == IF worker[w].extraction # None THEN worker[w].extraction ELSE stored
     IN  \E e \in IF worker[w].step = "recon" /\ held # None THEN {held} ELSE Extractions :
           Become(w, [worker[w] EXCEPT !.pc = "put", !.extraction = e])
  /\ files' = [files EXCEPT ![JobOf(w)].extraction = None]
  /\ UNCHANGED <<row, revisions>> /\ WorkerOnly

PutExtraction(w) ==
  /\ worker[w].pc = "put"
  /\ worker[w].step \in {"extract", "ocr", "recon"}
  /\ files' = [files EXCEPT ![JobOf(w)].extraction = worker[w].extraction]
  /\ Goto(w, "note")
  /\ UNCHANGED <<row, revisions>> /\ WorkerOnly

NoteExtraction(w) ==
  /\ worker[w].pc = "note"
  /\ worker[w].step \in {"extract", "ocr", "recon"}
  /\ UpdateJob(JobOf(w), [RowOf(w) EXCEPT !.extraction = worker[w].extraction])
  /\ IF worker[w].step = "recon" THEN Goto(w, "gate") ELSE Advance(w)
  /\ UNCHANGED <<files, revisions>> /\ WorkerOnly

\* The recon gate: every failed check must be excepted.
ReconGate(w) ==
  /\ At(w, "gate", "recon")
  /\ IF Mismatches[worker[w].extraction] \subseteq worker[w].job.exceptions
     THEN Advance(w) /\ UNCHANGED row
     ELSE FailAt(w, "recon")
  /\ UNCHANGED <<files, revisions>> /\ WorkerOnly

\* What generate() and revise() may return: both gates already hold.
Gated(e) == {s \in Traces : <<s, e>> \in Accepts}

\* pending_revision: the oldest one still pending, if any.
PendingRevisions(j) == {i \in 1..Len(revisions[j]) : revisions[j][i].pending}
OldestPending(j) == {i \in PendingRevisions(j) : \A k \in PendingRevisions(j) : i <= k}
Resolved(j, i) == revisions' = [revisions EXCEPT ![j][i].pending = FALSE]

Generate(w) ==
  /\ At(w, "work", "script")
  /\ PendingRevisions(JobOf(w)) = {}
  /\ \E s \in Gated(worker[w].extraction) :
       Become(w, [worker[w] EXCEPT !.pc = "put", !.script = s])
  /\ files' = [files EXCEPT ![JobOf(w)].script = None]
  /\ UNCHANGED <<row, revisions>> /\ WorkerOnly

\* A pending revision turns the step into a rewrite of the current script.
ApplyRevision(w) ==
  /\ At(w, "work", "script")
  /\ files[JobOf(w)].script # None
  /\ \E i \in OldestPending(JobOf(w)), s \in Gated(worker[w].extraction) :
       Become(w, [worker[w] EXCEPT !.pc = "put", !.script = s, !.revision = i])
  /\ files' = [files EXCEPT ![JobOf(w)].script = None]
  /\ UNCHANGED <<row, revisions>> /\ WorkerOnly

\* RevisionRejected: three attempts failed the gates.  The row is restored in Restore.
RejectRevision(w) ==
  /\ At(w, "work", "script")
  /\ files[JobOf(w)].script # None
  /\ \E i \in OldestPending(JobOf(w)) :
       /\ Become(w, [worker[w] EXCEPT !.pc = "restore", !.revision = i])
       /\ Resolved(JobOf(w), i)
  /\ UNCHANGED <<row, files>> /\ WorkerOnly

\* No current script, or the model is unreachable: the revision is closed and the job fails.
AbandonRevision(w) ==
  /\ At(w, "work", "script")
  /\ Goto(w, "fail")
  /\ \E i \in OldestPending(JobOf(w)) : Resolved(JobOf(w), i)
  /\ UNCHANGED <<row, files>> /\ WorkerOnly

\* RevisionKept in run_job: back to the status the revision was requested in.
Kept == {"needs_review", "approved", "rejected", "failed"}

Restore(w) ==
  /\ worker[w].pc = "restore"
  /\ LET previous == revisions[JobOf(w)][worker[w].revision].previous
         status   == IF previous \in Kept THEN previous ELSE "needs_review"
         step     == IF status = "needs_review" THEN "ready" ELSE worker[w].job.step
     IN  UpdateJob(JobOf(w), [RowOf(w) EXCEPT !.status = status, !.step = step,
                                              !.resumeFrom = None])
  /\ Returned(w)
  /\ UNCHANGED <<files, revisions>> /\ WorkerOnly

PutScript(w) ==
  /\ At(w, "put", "script")
  /\ files' = [files EXCEPT ![JobOf(w)].script = worker[w].script]
  /\ Goto(w, "note")
  /\ UNCHANGED <<row, revisions>> /\ WorkerOnly

NoteScript(w) ==
  /\ At(w, "note", "script")
  /\ UpdateJob(JobOf(w), [RowOf(w) EXCEPT !.script = worker[w].script])
  /\ IF worker[w].revision = 0 THEN Advance(w) ELSE Goto(w, "resolve")
  /\ UNCHANGED <<files, revisions>> /\ WorkerOnly

ResolveRevision(w) ==
  /\ worker[w].pc = "resolve"
  /\ Resolved(JobOf(w), worker[w].revision)
  /\ Become(w, [worker[w] EXCEPT !.pc = "begin", !.step = "validate", !.revision = 0])
  /\ UNCHANGED <<row, files>> /\ WorkerOnly

\* validate_current_script takes the stored script when this run has not made one.
LoadScript(w) ==
  /\ At(w, "work", "validate")
  /\ worker[w].script = None /\ files[JobOf(w)].script # None
  /\ Become(w, [worker[w] EXCEPT !.script = files[JobOf(w)].script])
  /\ UNCHANGED <<row, files, revisions>> /\ WorkerOnly

\* The hash of the script in memory goes to the row: that of the stored one, unless it was edited.
Validate(w) ==
  /\ At(w, "work", "validate")
  /\ worker[w].script # None \/ files[JobOf(w)].script = None
  /\ IF worker[w].script # None /\ <<worker[w].script, worker[w].extraction>> \in Accepts
     THEN /\ UpdateJob(JobOf(w), [RowOf(w) EXCEPT !.script = worker[w].script])
          /\ Become(w, [worker[w] EXCEPT !.pc = "begin", !.step = "verify"])
     ELSE FailAt(w, "validate")
  /\ UNCHANGED <<files, revisions>> /\ WorkerOnly

Verify(w) ==
  /\ At(w, "work", "verify")
  /\ LET s == worker[w].script IN
       Become(w, [worker[w] EXCEPT !.pc = "put",
                                   !.verification = [script |-> s, passed |-> s \in Traces]])
  /\ files' = [files EXCEPT ![JobOf(w)].verification = None]
  /\ UNCHANGED <<row, revisions>> /\ WorkerOnly

PutVerification(w) ==
  /\ At(w, "put", "verify")
  /\ files' = [files EXCEPT ![JobOf(w)].verification = worker[w].verification]
  /\ Goto(w, "gate")
  /\ UNCHANGED <<row, revisions>> /\ WorkerOnly

VerifyGate(w) ==
  /\ At(w, "gate", "verify")
  /\ IF worker[w].verification.passed
     THEN Advance(w) /\ UNCHANGED row
     ELSE FailAt(w, "verify")
  /\ UNCHANGED <<files, revisions>> /\ WorkerOnly

\* synthesize: narrates the script in memory if a verification in memory passed.
Tts(w) ==
  /\ At(w, "work", "tts")
  /\ IF worker[w].verification # None /\ worker[w].verification.passed
     THEN /\ Become(w, [worker[w] EXCEPT !.pc = "begin", !.step = "slides",
                                         !.audio = worker[w].script])
          /\ UNCHANGED row
     ELSE FailAt(w, "tts")
  /\ UNCHANGED <<files, revisions>> /\ WorkerOnly

Slides(w) ==
  /\ At(w, "work", "slides")
  /\ Become(w, [worker[w] EXCEPT !.pc = "begin", !.step = "mux", !.slides = worker[w].extraction])
  /\ UNCHANGED <<row, files, revisions>> /\ WorkerOnly

\* mux needs the audio and slides of this very run: neither is loaded back from storage.
Mux(w) ==
  /\ At(w, "work", "mux")
  /\ IF worker[w].audio = None \/ worker[w].slides = None
     THEN FailAt(w, "mux") /\ UNCHANGED files
     ELSE /\ Goto(w, "put")
          /\ files' = [files EXCEPT ![JobOf(w)].video = None]
          /\ UNCHANGED row
  /\ UNCHANGED revisions /\ WorkerOnly

PutVideo(w) ==
  /\ At(w, "put", "mux")
  /\ files' = [files EXCEPT ![JobOf(w)].video =
                 [script |-> worker[w].audio, extraction |-> worker[w].slides]]
  /\ Advance(w)
  /\ UNCHANGED <<row, revisions>> /\ WorkerOnly

Ready(w) ==
  /\ At(w, "work", "ready")
  /\ UpdateJob(JobOf(w), [RowOf(w) EXCEPT !.status = "needs_review", !.step = "ready",
                                          !.resumeFrom = None])
  /\ Returned(w)
  /\ UNCHANGED <<files, revisions>> /\ WorkerOnly

\* Any exception out of a step, or out of the reload before it: an unreadable PDF, the model or
\* ffmpeg down, a full disk.  It names the step at hand, but for a StepFailed out of step_ingest
\* called by the reload or out of step_extract called by ocr or recon.  Between two steps it may
\* still come from what the first had left to do: the captions of the video, an event.
FailingSteps(w) ==
  {worker[w].step}
    \cup (IF worker[w].pc = "begin" THEN {s \in Steps : Following[s] = worker[w].step} ELSE {})
    \cup (IF worker[w].pc = "load" THEN {"ingest"} ELSE {})
    \cup (IF worker[w].pc = "work" /\ worker[w].step \in {"ocr", "recon"} THEN {"extract"} ELSE {})

StepFails(w) ==
  /\ worker[w].pc \in {"load", "begin", "work", "put", "note", "resolve", "gate", "restore", "fail"}
  /\ \E step \in FailingSteps(w) : FailAt(w, step)
  /\ UNCHANGED <<files, revisions>> /\ WorkerOnly

Complete(w) ==
  /\ worker[w].pc = "done"
  /\ Become(w, IdleWorker)
  /\ UNCHANGED <<row, files, revisions>> /\ WorkerOnly

\* The worker process dies with an entry in hand; its context is lost.
WorkerCrash(w) ==
  /\ worker[w].pc # "idle"
  /\ workerCrashes < MaxWorkerCrashes
  /\ workerCrashes' = workerCrashes + 1
  /\ stalled' = Append(stalled, worker[w].entry)
  /\ Become(w, IdleWorker)
  /\ UNCHANGED <<row, files, revisions, queue>> /\ ApiUnchanged

\* BullMQ's stalled check: back to the front of the queue, or given up.
Redeliver ==
  /\ stalled # <<>>
  /\ stalled' = Tail(stalled)
  /\ LET e == Head(stalled) IN
       queue' = IF e.stalls < MaxStalled
                THEN <<[e EXCEPT !.stalls = @ + 1]>> \o queue
                ELSE queue
  /\ UNCHANGED <<row, files, revisions, worker, workerCrashes>> /\ ApiUnchanged

WorkerStep(w) ==
  \/ Take(w) \/ ReadRow(w) \/ Interrupted(w) \/ Ignore(w) \/ Start(w)
  \/ LoadForResume(w) \/ BeginStep(w) \/ ReadReturn(w)
  \/ Extract(w) \/ PutExtraction(w) \/ NoteExtraction(w) \/ ReconGate(w)
  \/ Generate(w) \/ ApplyRevision(w) \/ RejectRevision(w) \/ AbandonRevision(w) \/ Restore(w)
  \/ PutScript(w) \/ NoteScript(w) \/ ResolveRevision(w)
  \/ LoadScript(w) \/ Validate(w) \/ Verify(w) \/ PutVerification(w) \/ VerifyGate(w)
  \/ Tts(w) \/ Slides(w) \/ Mux(w) \/ PutVideo(w) \/ Ready(w)
  \/ StepFails(w) \/ Complete(w)
-----------------------------------------------------------------------------
(* API requests.  Accept* reads the row and applies the handler's guards   *)
(* on it; the later actions are its other reads and its writes, in order,  *)
(* and none of them looks at the row's status again.                       *)
(***************************************************************************)

WorkerUnchanged == UNCHANGED <<stalled, worker, workerCrashes>>
ApiOnly         == WorkerUnchanged /\ UNCHANGED <<accepted, apiCrashes>>

Target(r)     == request[r].job
Proceed(r, q) == request' = [request EXCEPT ![r] = q]

\* Request r is accepted for job j and remembers what `read` says beside the job.
Accept(r, j, read) ==
  /\ request[r].pc = "idle"
  /\ Len(queue) < MaxQueue
  /\ accepted < MaxAccepted
  /\ accepted' = accepted + 1
  /\ Proceed(r, [read EXCEPT !.job = j])
  /\ UNCHANGED <<row, files, revisions, queue, apiCrashes>> /\ WorkerUnchanged

RequeueFrom(step) == [IdleRequest EXCEPT !.pc = "requeue", !.from = step]

\* Mutation: a script may also be changed while its job waits in the queue.
Editable_Queued == {"needs_review", "failed", "rejected", "approved", "queued"}

Editable == {"needs_review", "failed", "rejected", "approved"}

AcceptRetry(r, j) ==
  /\ "retry" \in Ops
  /\ row[j].status = "failed"
  /\ Accept(r, j, RequeueFrom(IF row[j].errorStep = None THEN "ingest" ELSE row[j].errorStep))

AcceptRegenerate(r, j) ==
  /\ "regenerate" \in Ops
  /\ row[j].status \in Editable
  /\ row[j].extraction # None
  /\ Accept(r, j, RequeueFrom("script"))

\* Mutation: released jobs may be re-extracted and their figures overridden.
Blocked_NotReleased == {"queued", "processing"}

\* Statuses re-extraction and the overrides refuse: OVERRIDE_BLOCKED.
Blocked == {"queued", "processing", "released"}

AcceptReExtract(r, j) ==
  /\ "reextract" \in Ops
  /\ row[j].status \notin Blocked
  /\ Accept(r, j, RequeueFrom("identify"))

\* Setting an override; one may be set without an extraction if the job failed reading the return
\* (then `from` says so).
AcceptOverride(r, j) ==
  /\ "override" \in Ops
  /\ row[j].status \notin Blocked
  /\ LET unread == /\ row[j].status = "failed"
                    /\ row[j].errorStep \in {"identify", "extract", "ocr"}
     IN Accept(r, j, [IdleRequest EXCEPT !.pc = "override",
                       !.from = IF unread THEN row[j].errorStep ELSE None])

AcceptRemoval(r, j) ==
  /\ "override" \in Ops
  /\ row[j].status \notin Blocked
  /\ Accept(r, j, [IdleRequest EXCEPT !.pc = "remove"])

AcceptException(r, j) ==
  /\ "exception" \in Ops
  /\ row[j].status = "failed" /\ row[j].errorStep = "recon"
  /\ \E c \in Checks \ row[j].exceptions :
       Accept(r, j, [IdleRequest EXCEPT !.pc = "except", !.exceptions = row[j].exceptions \cup {c}])

AcceptRerender(r, j) ==
  /\ "rerender" \in Ops
  /\ row[j].status \in {"rejected", "needs_review", "failed"}
  /\ Accept(r, j, [IdleRequest EXCEPT !.pc = "rerender", !.script = row[j].script])

AcceptRevise(r, j) ==
  /\ "revise" \in Ops
  /\ row[j].status \in Editable
  /\ row[j].script # None
  /\ Accept(r, j, [IdleRequest EXCEPT !.pc = "revise", !.status = row[j].status])

AcceptEdit(r, j) ==
  /\ "edit" \in Ops
  /\ row[j].status \in Editable
  /\ Accept(r, j, [IdleRequest EXCEPT !.pc = "validate"])

AcceptApprove(r, j) ==
  /\ "approve" \in Ops
  /\ row[j].status = "needs_review"
  /\ Accept(r, j, [IdleRequest EXCEPT !.pc = "check", !.script = row[j].script,
                                      !.extraction = row[j].extraction])

AcceptReject(r, j) ==
  /\ "reject" \in Ops
  /\ row[j].status \in {"needs_review", "approved"}
  /\ Accept(r, j, [IdleRequest EXCEPT !.pc = "reject"])

AcceptRelease(r, j) ==
  /\ "release" \in Ops
  /\ row[j].status = "approved"
  /\ Accept(r, j, [IdleRequest EXCEPT !.pc = "release"])

AcceptAny(r, j) ==
  \/ AcceptRetry(r, j) \/ AcceptRegenerate(r, j) \/ AcceptReExtract(r, j)
  \/ AcceptOverride(r, j) \/ AcceptRemoval(r, j) \/ AcceptException(r, j) \/ AcceptRerender(r, j)
  \/ AcceptRevise(r, j) \/ AcceptEdit(r, j) \/ AcceptApprove(r, j)
  \/ AcceptReject(r, j) \/ AcceptRelease(r, j)

Continue(r, pc)        == Proceed(r, [request[r] EXCEPT !.pc = pc])
Answered(r)            == Proceed(r, IdleRequest)
ContinueRequeue(r, step) ==
  Proceed(r, [RequeueFrom(step) EXCEPT !.job = Target(r)])

\* Mutation: the verification need not be of the stored script.
VerificationHolds_AnyScript(r) ==
  LET v == files[Target(r)].verification IN v # None /\ v.passed

\* The stored verification passed, and for the very script the handler knows.
VerificationHolds(r) ==
  LET v == files[Target(r)].verification IN
  /\ v # None
  /\ v.script = request[r].script
  /\ v.passed

\* Mutation: any verification that passed will do, whatever script it was made for.
ChooseRerender_AnyVerification(r) ==
  /\ request[r].pc = "rerender"
  /\ ContinueRequeue(r, IF VerificationHolds_AnyScript(r) THEN "tts" ELSE "validate")
  /\ UNCHANGED <<row, files, revisions, queue>> /\ ApiOnly

ChooseRerender(r) ==
  /\ request[r].pc = "rerender"
  /\ ContinueRequeue(r, IF VerificationHolds(r) THEN "tts" ELSE "validate")
  /\ UNCHANGED <<row, files, revisions, queue>> /\ ApiOnly

CheckPending(r) ==
  /\ request[r].pc = "revise"
  /\ IF PendingRevisions(Target(r)) = {} THEN Continue(r, "insert") ELSE Answered(r)
  /\ UNCHANGED <<row, files, revisions, queue>> /\ ApiOnly

InsertRevision(r) ==
  /\ request[r].pc = "insert"
  /\ revisions' = [revisions EXCEPT ![Target(r)] =
                     Append(@, [previous |-> request[r].status, pending |-> TRUE])]
  /\ ContinueRequeue(r, "script")
  /\ UNCHANGED <<row, files, queue>> /\ ApiOnly

\* The text sent may be any; the shared validator judges it against the stored extraction.
ValidateEdit(r) ==
  /\ request[r].pc = "validate"
  /\ \/ \E s \in Scripts :
          /\ <<s, files[Target(r)].extraction>> \in Accepts
          /\ Proceed(r, [request[r] EXCEPT !.pc = "drop", !.script = s])
     \/ Answered(r)
  /\ UNCHANGED <<row, files, revisions, queue>> /\ ApiOnly

DropScript(r) ==
  /\ request[r].pc = "drop"
  /\ files' = [files EXCEPT ![Target(r)].script = None]
  /\ Continue(r, "put")
  /\ UNCHANGED <<row, revisions, queue>> /\ ApiOnly

SaveScript(r) ==
  /\ request[r].pc = "put"
  /\ files' = [files EXCEPT ![Target(r)].script = request[r].script]
  /\ Continue(r, "note")
  /\ UNCHANGED <<row, revisions, queue>> /\ ApiOnly

NoteEdit(r) ==
  /\ request[r].pc = "note"
  /\ UpdateJob(Target(r), [row[Target(r)] EXCEPT !.script = request[r].script])
  /\ ContinueRequeue(r, "validate")
  /\ UNCHANGED <<files, revisions, queue>> /\ ApiOnly

\* The transaction that inserts override rows; what they say decides only what Extract returns.
\* Only RemoveOverride reads them, so the read before the transaction is part of this step.
SetOverride(r) ==
  /\ request[r].pc = "override"
  /\ IF files[Target(r)].extraction # None \/ request[r].from # None
     THEN /\ UpdateJob(Target(r), [row[Target(r)] EXCEPT !.overridden = TRUE])
          /\ ContinueRequeue(r, "extract")
     ELSE Answered(r) /\ UNCHANGED row
  /\ UNCHANGED <<files, revisions, queue>> /\ ApiOnly

\* Removing one of perhaps several; none left to remove answers 404.
RemoveOverride(r) ==
  /\ request[r].pc = "remove"
  /\ IF row[Target(r)].overridden
     THEN /\ \E left \in BOOLEAN : UpdateJob(Target(r), [row[Target(r)] EXCEPT !.overridden = left])
          /\ ContinueRequeue(r, "extract")
     ELSE Answered(r) /\ UNCHANGED row
  /\ UNCHANGED <<files, revisions, queue>> /\ ApiOnly

\* A stored extraction names the checks that can be excepted.
CheckKnown(r) ==
  /\ request[r].pc = "except"
  /\ IF files[Target(r)].extraction # None THEN Continue(r, "downgrade") ELSE Answered(r)
  /\ UNCHANGED <<row, files, revisions, queue>> /\ ApiOnly

\* The whole list is written back: the one read with the row, and the new exception.
WriteExceptions(r) ==
  /\ request[r].pc = "downgrade"
  /\ UpdateJob(Target(r), [row[Target(r)] EXCEPT !.exceptions = request[r].exceptions])
  /\ ContinueRequeue(r, "recon")
  /\ UNCHANGED <<files, revisions, queue>> /\ ApiOnly

\* approvalCheck: the three file rows, read one after the other, against the row's hashes; then
\* the verification against the script's.  A miss answers 400.
PassCheck(r, holds, next) ==
  /\ IF holds THEN Continue(r, next) ELSE Answered(r)
  /\ UNCHANGED <<row, files, revisions, queue>> /\ ApiOnly

CheckScript(r) ==
  /\ request[r].pc = "check"
  /\ LET script == files[Target(r)].script IN
       PassCheck(r, script # None /\ script = request[r].script, "check_extraction")

\* Mutation: the extraction hash is not compared.
CheckExtraction_Any(r) ==
  /\ request[r].pc = "check_extraction"
  /\ PassCheck(r, files[Target(r)].extraction # None, "check_video")

CheckExtraction(r) ==
  /\ request[r].pc = "check_extraction"
  /\ LET extraction == files[Target(r)].extraction IN
       PassCheck(r, extraction # None /\ extraction = request[r].extraction, "check_video")

CheckVideo(r) ==
  /\ request[r].pc = "check_video"
  /\ PassCheck(r, files[Target(r)].video # None, "verification")

CheckVerification(r) ==
  /\ request[r].pc = "verification"
  /\ PassCheck(r, VerificationHolds(r), "approve")

Approve(r) ==
  /\ request[r].pc = "approve"
  /\ UpdateJob(Target(r), [row[Target(r)] EXCEPT !.status = "approved",
                                                 !.approvedScript = request[r].script,
                                                 !.approvedExtraction = request[r].extraction])
  /\ Answered(r)
  /\ UNCHANGED <<files, revisions, queue>> /\ ApiOnly

Reject(r) ==
  /\ request[r].pc = "reject"
  /\ UpdateJob(Target(r), [row[Target(r)] EXCEPT !.status = "rejected"])
  /\ Answered(r)
  /\ UNCHANGED <<files, revisions, queue>> /\ ApiOnly

Release(r) ==
  /\ request[r].pc = "release"
  /\ UpdateJob(Target(r), [row[Target(r)] EXCEPT !.status = "released"])
  /\ Answered(r)
  /\ UNCHANGED <<files, revisions, queue>> /\ ApiOnly

\* requeue(): the row first, the queue entry afterwards.
Requeue(r) ==
  /\ request[r].pc = "requeue"
  /\ UpdateJob(Target(r), [row[Target(r)] EXCEPT !.status = "queued", !.step = None,
                                                 !.resumeFrom = request[r].from,
                                                 !.errorStep = None])
  /\ Proceed(r, [request[r] EXCEPT !.pc = "enqueue", !.from = None])
  /\ UNCHANGED <<files, revisions, queue>> /\ ApiOnly

\* Mutation: the BullMQ id is the bare job id, so an add is ignored while an entry of it lives.
Enqueue_Deduplicated(r) ==
  /\ request[r].pc = "enqueue"
  /\ LET live == \/ \E w \in Workers : worker[w].pc # "idle" /\ JobOf(w) = Target(r)
                 \/ \E i \in 1..Len(queue) : queue[i].job = Target(r)
                 \/ \E i \in 1..Len(stalled) : stalled[i].job = Target(r)
     IN  queue' = IF live THEN queue ELSE Append(queue, [job |-> Target(r), stalls |-> 0])
  /\ Answered(r)
  /\ UNCHANGED <<row, files, revisions>> /\ ApiOnly

Enqueue(r) ==
  /\ request[r].pc = "enqueue"
  /\ queue' = Append(queue, [job |-> Target(r), stalls |-> 0])
  /\ Answered(r)
  /\ UNCHANGED <<row, files, revisions>> /\ ApiOnly

RequestStep(r) ==
  \/ ChooseRerender(r) \/ CheckPending(r) \/ InsertRevision(r)
  \/ ValidateEdit(r) \/ DropScript(r) \/ SaveScript(r) \/ NoteEdit(r)
  \/ SetOverride(r) \/ RemoveOverride(r) \/ CheckKnown(r) \/ WriteExceptions(r)
  \/ CheckScript(r) \/ CheckExtraction(r) \/ CheckVideo(r) \/ CheckVerification(r)
  \/ Approve(r) \/ Reject(r) \/ Release(r)
  \/ Requeue(r) \/ Enqueue(r)

\* The API process dies, or a call of the handler throws, between two of its writes.
ApiCrash(r) ==
  /\ request[r].pc # "idle"
  /\ apiCrashes < MaxApiCrashes
  /\ apiCrashes' = apiCrashes + 1
  /\ Answered(r)
  /\ UNCHANGED <<row, files, revisions, queue, accepted>> /\ WorkerUnchanged
-----------------------------------------------------------------------------
Next ==
  \/ \E w \in Workers : WorkerStep(w)
  \/ \E w \in Workers : WorkerCrash(w)
  \/ Redeliver
  \/ \E r \in Requests, j \in Jobs : AcceptAny(r, j)
  \/ \E r \in Requests : RequestStep(r)
  \/ \E r \in Requests : ApiCrash(r)

Spec == Init /\ [][Next]_vars

(***************************************************************************)
(* The worker's event loop and BullMQ's stalled check keep running, and a  *)
(* handler that was accepted runs to its end.  Users promise nothing: no   *)
(* fairness on AcceptAny.                                                  *)
(***************************************************************************)
Fairness ==
  /\ \A w \in Workers : WF_vars(WorkerStep(w))
  /\ WF_vars(Redeliver)
  /\ \A r \in Requests : WF_vars(RequestStep(r))

FairSpec == Spec /\ Fairness
-----------------------------------------------------------------------------
(* Properties.                                                             *)

Unsettled(j) == row[j].status \in {"queued", "processing"}

\* Something that will still write the job's row: an entry BullMQ holds, a slot whose run ends
\* in such a write, or a handler about to enqueue.
Owned(j) ==
  \/ \E i \in 1..Len(queue) : queue[i].job = j
  \/ \E i \in 1..Len(stalled) : stalled[i].job = j
  \/ \E w \in Workers :
       /\ worker[w].pc \notin {"idle", "done"}
       /\ worker[w].entry.job = j
       /\ worker[w].pc = "decide" => worker[w].job.status \notin Settled
  \/ \E r \in Requests : request[r].pc = "enqueue" /\ Target(r) = j

(***************************************************************************)
(* No job is left behind: a job shown as queued or processing always has   *)
(* something that will move it on, whatever the handlers' interleaving and *)
(* wherever the worker died.  It needs worker crashes within BullMQ's      *)
(* stall limit, and an API process that did not die: a crash between the   *)
(* row write of requeue() and its enqueue leaves the job queued for good.  *)
(***************************************************************************)
NoOrphanedJob ==
  apiCrashes = 0 /\ workerCrashes <= MaxStalled => \A j \in Jobs : Unsettled(j) => Owned(j)

(***************************************************************************)
(* Whatever raced with the approval, the script hash it snapshot belongs   *)
(* to a script whose every item verify() found on the return: approval     *)
(* reads the row, the artifacts and the verification at different times.   *)
(***************************************************************************)
ApprovedScriptVerified ==
  \A j \in Jobs : row[j].approvedScript # None => row[j].approvedScript \in Traces

(***************************************************************************)
(* What was approved is what is delivered: the script, the extraction and  *)
(* the verification the approval snapshot names are the stored ones, and   *)
(* the stored video narrates that script and shows those figures.  While a *)
(* handler is between its writes (an edit of an approved job replaces the  *)
(* script before it requeues) nothing is claimed.                          *)
(***************************************************************************)
Quiet(j) == \A r \in Requests : Target(r) # j

ApprovedIsCurrent ==
  \A j \in Jobs : row[j].status \in {"approved", "released"} /\ Quiet(j) =>
    /\ files[j].script = row[j].approvedScript
    /\ files[j].extraction = row[j].approvedExtraction
    /\ files[j].verification = [script |-> row[j].approvedScript, passed |-> TRUE]
    /\ files[j].video = [script |-> row[j].approvedScript, extraction |-> row[j].approvedExtraction]

(***************************************************************************)
(* No audio until both gates pass (routes/script.ts): every narrated       *)
(* script passed verify().                                                 *)
(***************************************************************************)
NarratedIsVerified ==
  \A j \in Jobs : files[j].video # None => files[j].video.script \in Traces

\* A slot whose run goes on, or is about to begin, over job j.
Runs(w, j) ==
  /\ worker[w].pc \notin {"idle", "taken", "done"}
  /\ worker[w].entry.job = j
  /\ worker[w].pc = "decide" => worker[w].job.status \notin Settled

Working(j) == (\E w \in Workers : Runs(w, j)) \/ ~Quiet(j)

(***************************************************************************)
(* A released job that no run and no handler is at work on is done with:   *)
(* its row and its artifacts are never touched again, nor does anybody     *)
(* start on it, whatever entries of it still wait or are delivered again.  *)
(* (Retention, which purges it, is a module of its own.)                   *)
(***************************************************************************)
ReleasedIsLeft ==
  [][\A j \in Jobs : row[j].status = "released" /\ ~Working(j) =>
       row'[j] = row[j] /\ files'[j] = files[j] /\ ~Working(j)']_vars

\* docs/PLAN.md section 4 lets "released" lead to "purged" only, whoever is at work.  It fails: a
\* handler accepted before the release requeues the job after it.
ReleasedIsFinal ==
  [][\A j \in Jobs : row[j].status = "released" => row'[j].status = "released"]_vars

(***************************************************************************)
(* The pipeline, the queue and the handlers together implement the life    *)
(* cycle of JobLifecycle, read off the status column and the stored video. *)
(***************************************************************************)
Lifecycle == INSTANCE JobLifecycle WITH
  Videos     <- Video,
  Approvable <- {v \in Video : v.script \in Traces},
  status     <- [j \in Jobs |-> row[j].status],
  video      <- [j \in Jobs |-> files[j].video]

ImplementsLifecycle == Lifecycle!Spec

(***************************************************************************)
(* The reconciliation gate is never bypassed: a job up for review shows    *)
(* figures that reconcile, but for the checks a preparer excepted.         *)
(***************************************************************************)
ReconHolds ==
  \A j \in Jobs : row[j].status = "needs_review" /\ Quiet(j) /\ files[j].extraction # None =>
    Mismatches[files[j].extraction] \subseteq row[j].exceptions

(***************************************************************************)
(* A job is never queued twice at once (services/queue.ts).                *)
(***************************************************************************)
QueuedOnce ==
  \A j \in Jobs : Cardinality({i \in 1..Len(queue) : queue[i].job = j}) <= 1

(***************************************************************************)
(* A run resumed at the step that failed has what the step needs: mux runs *)
(* with the narration and the slides.                                      *)
(***************************************************************************)
ResumedRunHasInputs ==
  \A w \in Workers : At(w, "work", "mux") => worker[w].audio # None /\ worker[w].slides # None

(***************************************************************************)
(* Every queued or processing job settles: it becomes reviewable, fails    *)
(* with a step to retry from, or returns to where a rejected revision      *)
(* found it.                                                               *)
(***************************************************************************)
EveryRunSettles == \A j \in Jobs : Unsettled(j) ~> ~Unsettled(j)
=============================================================================

--------------------------- MODULE RecapJobProofs ---------------------------
(***************************************************************************)
(* Proofs about RecapJob for every value of its constants, whatever        *)
(* overlaps and whatever dies: type correctness, that approvals name       *)
(* verified scripts, that no job is orphaned, and that a released job is   *)
(* done with.                                                              *)
(***************************************************************************)
EXTENDS RecapJob, FiniteSetTheorems, TLAPS

(***************************************************************************)
(* Type correctness is inductive only together with what a slot or a       *)
(* handler holds at each point: mux has audio and slides to put, verify a  *)
(* script to verify, a handler past its first read a job.                  *)
(***************************************************************************)
Ongoing == WorkerPCs \ {"idle", "taken", "decide", "done"}

Equipped(k) ==
  /\ k.pc # "idle" => k.entry # None
  /\ k.pc \notin {"idle", "taken", "done"} => k.job # None
  /\ k.pc \in Ongoing => k.step # None
  /\ k.pc \in Ongoing \ {"load"} /\ k.step \in AfterValidate => k.script # None
  /\ k.pc = "put" /\ k.step = "mux" => k.audio # None /\ k.slides # None

Addressed(q) ==
  /\ q.pc # "idle" => q.job # None
  /\ q.pc \in {"revise", "insert"} => q.status # None

Slot    == {k \in Worker : Equipped(k)}
Handler == {q \in Request : Addressed(q)}

TypeInv ==
  /\ TypeOK
  /\ worker \in [Workers -> Slot]
  /\ request \in [Requests -> Handler]
-----------------------------------------------------------------------------
(* Lemmas about the helpers of the actions.                                *)

LEMMA InMaybe == ASSUME NEW S PROVE None \in Maybe(S) /\ \A x \in S : x \in Maybe(S)
  BY DEF Maybe

LEMMA OfMaybe == ASSUME NEW S, NEW x \in Maybe(S), x # None PROVE x \in S
  BY DEF Maybe

\* The steps as a set, and where each leads.
LEMMA StepsAre ==
  /\ Steps = {"ingest", "identify", "extract", "ocr", "recon", "script", "validate", "verify",
              "tts", "slides", "mux", "ready"}
  /\ \A s \in Steps : Following[s] \in Steps
  /\ \A s \in Steps : Following[s] \in AfterValidate => s \in AfterValidate \cup {"validate"}
  BY DEF Steps, Following, AfterValidate, AfterVerify

LEMMA IdleSlot == IdleWorker \in Slot /\ IdleRequest \in Handler
  <1>1. IdleWorker \in Worker BY InMaybe DEF IdleWorker, Worker, WorkerPCs
  <1>2. IdleRequest \in Request BY InMaybe DEF IdleRequest, Request, RequestPCs
  <1>. QED BY <1>1, <1>2 DEF Slot, Handler, Equipped, Addressed, IdleWorker, IdleRequest, Ongoing

LEMMA BecomeSlot ==
  ASSUME worker \in [Workers -> Slot], NEW w \in Workers, NEW k \in Slot, Become(w, k)
  PROVE  worker' \in [Workers -> Slot]
  BY DEF Become

LEMMA ReturnedSlot ==
  ASSUME worker \in [Workers -> Slot], NEW w \in Workers, worker[w].pc # "idle", Returned(w)
  PROVE  worker' \in [Workers -> Slot]
  <1>. DEFINE k == [IdleWorker EXCEPT !.pc = "done", !.entry = worker[w].entry]
  <1>1. worker[w] \in Worker /\ worker[w].entry # None BY DEF Slot, Equipped
  <1>2. k \in Worker BY <1>1, InMaybe DEF IdleWorker, Worker, WorkerPCs
  <1>3. Equipped(k) BY <1>1 DEF Equipped, IdleWorker, Ongoing
  <1>. QED BY <1>2, <1>3, BecomeSlot DEF Returned, Slot

LEMMA UpdateJobRow ==
  ASSUME row \in [Jobs -> Row], NEW j \in Jobs, NEW columns \in Row, UpdateJob(j, columns)
  PROVE  row' \in [Jobs -> Row]
  BY DEF UpdateJob

LEMMA FailAtType ==
  ASSUME worker \in [Workers -> Slot], row \in [Jobs -> Row], NEW w \in Workers,
         JobOf(w) \in Jobs, worker[w].pc # "idle", NEW step \in Steps, FailAt(w, step)
  PROVE  worker' \in [Workers -> Slot] /\ row' \in [Jobs -> Row]
  <1>1. worker' \in [Workers -> Slot] BY ReturnedSlot DEF FailAt
  <1>2. RowOf(w) \in Row BY DEF RowOf
  <1>3. [RowOf(w) EXCEPT !.status = "failed", !.step = step, !.errorStep = step] \in Row
    BY <1>2, InMaybe DEF Row, Statuses, Settled
  <1>4. row' \in [Jobs -> Row] BY <1>3, UpdateJobRow DEF FailAt
  <1>. QED BY <1>1, <1>4

LEMMA GotoSlot ==
  ASSUME worker \in [Workers -> Slot], NEW w \in Workers, worker[w].pc \in Ongoing \ {"load"},
         NEW pc \in Ongoing \ {"load"}, Goto(w, pc),
         pc = "put" => worker[w].step # "mux" \/ (worker[w].audio # None /\ worker[w].slides # None)
  PROVE  worker' \in [Workers -> Slot]
  <1>. DEFINE k == [worker[w] EXCEPT !.pc = pc]
  <1>1. worker[w] \in Worker /\ Equipped(worker[w]) BY DEF Slot
  <1>2. k \in Worker BY <1>1 DEF Worker, Ongoing
  <1>3. k.pc = pc /\ k.entry = worker[w].entry /\ k.job = worker[w].job /\ k.step = worker[w].step
        /\ k.script = worker[w].script /\ k.audio = worker[w].audio /\ k.slides = worker[w].slides
    BY <1>1 DEF Worker
  <1>4. Equipped(k) BY <1>1, <1>3 DEF Equipped, Ongoing
  <1>. QED BY <1>2, <1>4, BecomeSlot DEF Goto, Slot

LEMMA AdvanceSlot ==
  ASSUME worker \in [Workers -> Slot], NEW w \in Workers, worker[w].pc \in Ongoing \ {"load"},
         worker[w].step # "validate", Advance(w)
  PROVE  worker' \in [Workers -> Slot]
  <1>. DEFINE k == [worker[w] EXCEPT !.pc = "begin", !.step = Following[worker[w].step]]
  <1>1. worker[w] \in Worker /\ Equipped(worker[w]) BY DEF Slot
  <1>2. worker[w].step \in Steps BY <1>1, OfMaybe DEF Equipped, Worker
  <1>3. Following[worker[w].step] \in Steps BY <1>2, StepsAre
  <1>4. k \in Worker BY <1>1, <1>3, InMaybe DEF Worker, WorkerPCs
  <1>5. k.pc = "begin" /\ k.entry = worker[w].entry /\ k.job = worker[w].job
        /\ k.step = Following[worker[w].step] /\ k.script = worker[w].script
    BY <1>1 DEF Worker
  <1>6. None \notin Steps BY NoneAssumption
  <1>7. Equipped(k) BY <1>1, <1>2, <1>3, <1>5, <1>6, StepsAre DEF Equipped, Ongoing
  <1>. QED BY <1>4, <1>7, BecomeSlot DEF Advance, Slot

\* What holds of a slot that has an entry in hand, and of one inside a run.
LEMMA SlotFacts ==
  ASSUME TypeInv, NEW w \in Workers, worker[w].pc # "idle"
  PROVE  /\ worker[w] \in Worker /\ Equipped(worker[w])
         /\ worker[w].entry \in Entry /\ JobOf(w) \in Jobs
         /\ row[JobOf(w)] \in Row /\ RowOf(w) \in Row /\ files[JobOf(w)] \in Files
         /\ revisions[JobOf(w)] \in Seq(Revision)
  <1>1. worker[w] \in Worker /\ Equipped(worker[w]) BY DEF TypeInv, Slot
  <1>2. worker[w].entry \in Entry BY <1>1, OfMaybe DEF Equipped, Worker
  <1>. QED BY <1>1, <1>2 DEF TypeInv, TypeOK, JobOf, RowOf, Entry

LEMMA RunFacts ==
  ASSUME TypeInv, NEW w \in Workers, worker[w].pc \in Ongoing
  PROVE  /\ worker[w].step \in Steps
         /\ worker[w].job \in Snapshot
         /\ worker[w].pc # "load" /\ worker[w].step \in AfterValidate => worker[w].script \in Scripts
  <1>1. worker[w] \in Worker /\ Equipped(worker[w]) BY SlotFacts DEF Ongoing
  <1>2. worker[w].step \in Steps BY <1>1, OfMaybe DEF Equipped, Worker
  <1>3. worker[w].job \in Snapshot BY <1>1, OfMaybe DEF Equipped, Worker, Ongoing
  <1>4. worker[w].script \in Maybe(Scripts) BY <1>1 DEF Worker
  <1>. QED BY <1>1, <1>2, <1>3, <1>4, OfMaybe DEF Equipped

LEMMA FileTypes ==
  ASSUME TypeInv, NEW j
  PROVE  /\ \A x \in Maybe(Scripts) : [files EXCEPT ![j].script = x] \in [Jobs -> Files]
         /\ \A x \in Maybe(Extractions) : [files EXCEPT ![j].extraction = x] \in [Jobs -> Files]
         /\ \A x \in Maybe(Verification) : [files EXCEPT ![j].verification = x] \in [Jobs -> Files]
         /\ \A x \in Maybe(Video) : [files EXCEPT ![j].video = x] \in [Jobs -> Files]
  BY DEF TypeInv, TypeOK, Files

\* The steps of a run write the row, the artifacts, the revisions and their own slot.
LEMMA RunStepType ==
  ASSUME TypeInv, WorkerOnly, row' \in [Jobs -> Row], files' \in [Jobs -> Files],
         revisions' \in [Jobs -> Seq(Revision)], worker' \in [Workers -> Slot]
  PROVE  TypeInv'
  BY DEF TypeInv, TypeOK, WorkerOnly, ApiUnchanged, Slot

LEMMA ResolvedType ==
  ASSUME TypeInv, NEW j \in Jobs, NEW i, Resolved(j, i)
  PROVE  revisions' \in [Jobs -> Seq(Revision)]
  <1>. DEFINE old == revisions[j]
              new == [old EXCEPT ![i] = [old[i] EXCEPT !.pending = FALSE]]
  <1>1. old \in Seq(Revision) BY DEF TypeInv, TypeOK
  <1>2. Len(old) \in Nat /\ DOMAIN old = 1..Len(old) /\ \A k \in 1..Len(old) : old[k] \in Revision
    BY <1>1
  <1>3. \A r \in Revision : [r EXCEPT !.pending = FALSE] \in Revision BY DEF Revision
  <1>4. new \in [1..Len(old) -> Revision] BY <1>2, <1>3
  <1>5. new \in Seq(Revision) BY <1>2, <1>4
  <1>6. revisions' = [revisions EXCEPT ![j] = new] BY DEF Resolved
  <1>. QED BY <1>5, <1>6 DEF TypeInv, TypeOK
-----------------------------------------------------------------------------
(* Every step of the worker preserves TypeInv.                             *)

LEMMA TakeType == ASSUME TypeInv, NEW w \in Workers, Take(w) PROVE TypeInv'
  <1>. DEFINE k == [IdleWorker EXCEPT !.pc = "taken", !.entry = Head(queue)]
  <1>1. queue \in Seq(Entry) /\ queue # <<>> BY DEF TypeInv, TypeOK, Take
  <1>2. Head(queue) \in Entry /\ Tail(queue) \in Seq(Entry) BY <1>1
  <1>3. k \in Worker BY <1>2, IdleSlot, InMaybe DEF Slot, Worker, WorkerPCs
  <1>4. k.pc = "taken" /\ k.entry = Head(queue) BY DEF IdleWorker
  <1>5. None \notin Entry BY NoneAssumption
  <1>6. k \in Slot BY <1>2, <1>3, <1>4, <1>5 DEF Slot, Equipped, Ongoing
  <1>7. worker' \in [Workers -> Slot] BY <1>6, BecomeSlot DEF Take, TypeInv
  <1>. QED BY <1>2, <1>7 DEF TypeInv, TypeOK, Take, ApiUnchanged, Slot

LEMMA ReadRowType == ASSUME TypeInv, NEW w \in Workers, ReadRow(w) PROVE TypeInv'
  <1>. DEFINE r == row[JobOf(w)]
              s == [status |-> r.status, step |-> r.step, resumeFrom |-> r.resumeFrom,
                    exceptions |-> r.exceptions]
              k == [worker[w] EXCEPT !.pc = "decide", !.job = s]
  <1>1. worker[w] \in Worker /\ Equipped(worker[w]) /\ r \in Row BY SlotFacts DEF ReadRow
  <1>2. s \in Snapshot BY <1>1 DEF Row, Snapshot
  <1>3. k \in Worker BY <1>1, <1>2, InMaybe DEF Worker, WorkerPCs
  <1>4. s # None BY <1>2, NoneAssumption
  <1>5. k.pc = "decide" /\ k.job = s /\ k.entry = worker[w].entry BY <1>1 DEF Worker
  <1>6. k \in Slot BY <1>1, <1>3, <1>4, <1>5 DEF Slot, Equipped, Ongoing, ReadRow
  <1>7. worker' \in [Workers -> Slot] BY <1>6, BecomeSlot DEF ReadRow, TypeInv
  <1>. QED BY <1>7, RunStepType DEF ReadRow, TypeInv, TypeOK

LEMMA InterruptedType == ASSUME TypeInv, NEW w \in Workers, Interrupted(w) PROVE TypeInv'
  <1>. DEFINE step == IF worker[w].job.step = None THEN "ingest" ELSE worker[w].job.step
  <1>1. worker[w] \in Worker /\ Equipped(worker[w]) /\ JobOf(w) \in Jobs /\ RowOf(w) \in Row
    BY SlotFacts DEF Interrupted
  <1>2. worker[w].job \in Snapshot BY <1>1, OfMaybe DEF Worker, Equipped, Interrupted
  <1>3. step \in Steps BY <1>2, OfMaybe, StepsAre DEF Snapshot
  <1>4. [RowOf(w) EXCEPT !.status = "failed", !.errorStep = step] \in Row
    BY <1>1, <1>3, InMaybe DEF Row, Statuses, Settled
  <1>5. row' \in [Jobs -> Row] BY <1>1, <1>4, UpdateJobRow DEF Interrupted, TypeInv, TypeOK
  <1>6. worker' \in [Workers -> Slot] BY ReturnedSlot DEF Interrupted, TypeInv
  <1>. QED BY <1>5, <1>6, RunStepType DEF Interrupted, TypeInv, TypeOK

LEMMA IgnoreType == ASSUME TypeInv, NEW w \in Workers, Ignore(w) PROVE TypeInv'
  <1>1. worker' \in [Workers -> Slot] BY ReturnedSlot DEF Ignore, TypeInv
  <1>. QED BY <1>1, RunStepType DEF Ignore, TypeInv, TypeOK

LEMMA StartType == ASSUME TypeInv, NEW w \in Workers, Start(w) PROVE TypeInv'
  <1>. DEFINE first == IF worker[w].job.resumeFrom = None THEN "ingest" ELSE worker[w].job.resumeFrom
              k     == [worker[w] EXCEPT !.pc = "load", !.step = first]
  <1>1. worker[w] \in Worker /\ Equipped(worker[w]) /\ JobOf(w) \in Jobs /\ RowOf(w) \in Row
    BY SlotFacts DEF Start
  <1>2. worker[w].job \in Snapshot /\ worker[w].job # None
    BY <1>1, OfMaybe DEF Worker, Equipped, Start
  <1>3. first \in Steps BY <1>2, OfMaybe, StepsAre DEF Snapshot
  <1>4. [RowOf(w) EXCEPT !.status = "processing", !.step = first, !.errorStep = None] \in Row
    BY <1>1, <1>3, InMaybe DEF Row, Statuses
  <1>5. row' \in [Jobs -> Row] BY <1>1, <1>4, UpdateJobRow DEF Start, TypeInv, TypeOK
  <1>6. k \in Worker BY <1>1, <1>3, InMaybe DEF Worker, WorkerPCs
  <1>7. k.pc = "load" /\ k.step = first /\ k.job = worker[w].job /\ k.entry = worker[w].entry
    BY <1>1 DEF Worker
  <1>8. k \in Slot
    BY <1>1, <1>2, <1>3, <1>6, <1>7, NoneAssumption DEF Slot, Equipped, Ongoing, Start
  <1>9. worker' \in [Workers -> Slot] BY <1>8, BecomeSlot DEF Start, TypeInv
  <1>. QED BY <1>5, <1>9, RunStepType DEF Start, TypeInv, TypeOK

LEMMA LoadForResumeType == ASSUME TypeInv, NEW w \in Workers, LoadForResume(w) PROVE TypeInv'
  <1>. DEFINE first == worker[w].step
              f     == files[JobOf(w)]
              e     == IF first \in AfterRecon THEN f.extraction ELSE None
              s     == IF first \in AfterValidate THEN f.script ELSE None
              v     == IF first \in AfterVerify THEN f.verification ELSE None
              k     == [worker[w] EXCEPT !.pc = "work", !.extraction = e, !.script = s,
                                         !.verification = v]
  <1>1. worker[w] \in Worker /\ Equipped(worker[w]) /\ JobOf(w) \in Jobs /\ f \in Files /\ first \in Steps
    BY SlotFacts, RunFacts DEF LoadForResume, Ongoing, WorkerPCs
  <1>2. CASE FailAt(w, first) /\ UNCHANGED <<files, revisions>> /\ WorkerOnly
    <2>1. worker' \in [Workers -> Slot] /\ row' \in [Jobs -> Row]
      BY <1>1, <1>2, FailAtType DEF LoadForResume, TypeInv, TypeOK
    <2>. QED BY <2>1, <1>2, RunStepType DEF TypeInv, TypeOK
  <1>3. CASE /\ first \in AfterValidate => f.script # None
             /\ Become(w, k)
             /\ UNCHANGED <<row, files, revisions>> /\ WorkerOnly
    <2>1. e \in Maybe(Extractions) /\ s \in Maybe(Scripts) /\ v \in Maybe(Verification)
      BY <1>1, InMaybe DEF Files
    <2>2. k \in Worker BY <1>1, <2>1 DEF Worker, WorkerPCs
    <2>3. /\ k.pc = "work" /\ k.step = first /\ k.job = worker[w].job
          /\ k.entry = worker[w].entry /\ k.script = s
      BY <1>1 DEF Worker
    <2>4. k \in Slot
      BY <1>1, <1>3, <2>2, <2>3, NoneAssumption
      DEF Slot, Equipped, Ongoing, LoadForResume, WorkerPCs
    <2>5. worker' \in [Workers -> Slot] BY <1>3, <2>4, BecomeSlot DEF TypeInv
    <2>. QED BY <1>3, <2>5, RunStepType DEF TypeInv, TypeOK
  <1>. QED BY <1>2, <1>3 DEF LoadForResume

LEMMA BeginStepType == ASSUME TypeInv, NEW w \in Workers, BeginStep(w) PROVE TypeInv'
  <1>1. worker[w].step \in Steps /\ JobOf(w) \in Jobs /\ RowOf(w) \in Row
    BY SlotFacts, RunFacts DEF BeginStep, Ongoing, WorkerPCs
  <1>2. [RowOf(w) EXCEPT !.step = worker[w].step] \in Row BY <1>1, InMaybe DEF Row
  <1>3. row' \in [Jobs -> Row] BY <1>1, <1>2, UpdateJobRow DEF BeginStep, TypeInv, TypeOK
  <1>4. worker' \in [Workers -> Slot]
    BY GotoSlot DEF BeginStep, TypeInv, Ongoing, WorkerPCs
  <1>. QED BY <1>3, <1>4, RunStepType DEF BeginStep, TypeInv, TypeOK

LEMMA ReadReturnType == ASSUME TypeInv, NEW w \in Workers, ReadReturn(w) PROVE TypeInv'
  <1>1. worker' \in [Workers -> Slot]
    BY AdvanceSlot DEF ReadReturn, TypeInv, Ongoing, WorkerPCs
  <1>. QED BY <1>1, RunStepType DEF ReadReturn, TypeInv, TypeOK

LEMMA ExtractType == ASSUME TypeInv, NEW w \in Workers, Extract(w) PROVE TypeInv'
  <1>1. worker[w] \in Worker /\ Equipped(worker[w]) /\ files[JobOf(w)] \in Files /\ JobOf(w) \in Jobs
    BY SlotFacts DEF Extract
  <1>2. PICK e \in Extractions : Become(w, [worker[w] EXCEPT !.pc = "put", !.extraction = e])
    <2>1. worker[w].extraction \in Maybe(Extractions) /\ files[JobOf(w)].extraction \in Maybe(Extractions)
      BY <1>1 DEF Worker, Files
    <2>. QED BY <2>1, OfMaybe DEF Extract
  <1>. DEFINE k == [worker[w] EXCEPT !.pc = "put", !.extraction = e]
  <1>3. k \in Worker BY <1>1, InMaybe DEF Worker, WorkerPCs
  <1>4. /\ k.pc = "put" /\ k.step = worker[w].step /\ k.job = worker[w].job
        /\ k.entry = worker[w].entry /\ k.script = worker[w].script
    BY <1>1 DEF Worker
  <1>5. k \in Slot BY <1>1, <1>3, <1>4 DEF Slot, Equipped, Ongoing, Extract, WorkerPCs
  <1>6. worker' \in [Workers -> Slot] BY <1>2, <1>5, BecomeSlot DEF TypeInv
  <1>7. files' \in [Jobs -> Files] BY FileTypes, InMaybe DEF Extract
  <1>. QED BY <1>6, <1>7, RunStepType DEF Extract, TypeInv, TypeOK

LEMMA PutExtractionType == ASSUME TypeInv, NEW w \in Workers, PutExtraction(w) PROVE TypeInv'
  <1>1. worker[w].extraction \in Maybe(Extractions) BY SlotFacts DEF PutExtraction, Worker
  <1>2. files' \in [Jobs -> Files] BY <1>1, FileTypes DEF PutExtraction
  <1>3. worker' \in [Workers -> Slot]
    BY GotoSlot DEF PutExtraction, TypeInv, Ongoing, WorkerPCs
  <1>. QED BY <1>2, <1>3, RunStepType DEF PutExtraction, TypeInv, TypeOK

LEMMA NoteExtractionType == ASSUME TypeInv, NEW w \in Workers, NoteExtraction(w) PROVE TypeInv'
  <1>1. worker[w].extraction \in Maybe(Extractions) /\ JobOf(w) \in Jobs /\ RowOf(w) \in Row
    BY SlotFacts DEF NoteExtraction, Worker
  <1>2. [RowOf(w) EXCEPT !.extraction = worker[w].extraction] \in Row BY <1>1 DEF Row
  <1>3. row' \in [Jobs -> Row] BY <1>1, <1>2, UpdateJobRow DEF NoteExtraction, TypeInv, TypeOK
  <1>4. worker' \in [Workers -> Slot]
    BY GotoSlot, AdvanceSlot DEF NoteExtraction, TypeInv, Ongoing, WorkerPCs
  <1>. QED BY <1>3, <1>4, RunStepType DEF NoteExtraction, TypeInv, TypeOK

LEMMA ReconGateType == ASSUME TypeInv, NEW w \in Workers, ReconGate(w) PROVE TypeInv'
  <1>1. JobOf(w) \in Jobs BY SlotFacts DEF ReconGate, At
  <1>2. worker' \in [Workers -> Slot] /\ row' \in [Jobs -> Row]
    BY <1>1, AdvanceSlot, FailAtType, StepsAre
    DEF ReconGate, At, TypeInv, TypeOK, Ongoing, WorkerPCs
  <1>. QED BY <1>2, RunStepType DEF ReconGate, TypeInv, TypeOK

\* Slots whose run goes on with a script in hand, at step script or validate.
LEMMA ScriptSlot ==
  ASSUME TypeInv, NEW w \in Workers, worker[w].pc = "work",
         NEW pc \in {"put", "restore"}, worker[w].step = "script",
         NEW s \in Maybe(Scripts), NEW i \in Nat
  PROVE  [worker[w] EXCEPT !.pc = pc, !.script = s, !.revision = i] \in Slot
  <1>. DEFINE k == [worker[w] EXCEPT !.pc = pc, !.script = s, !.revision = i]
  <1>1. worker[w] \in Worker /\ Equipped(worker[w]) BY SlotFacts
  <1>2. k \in Worker BY <1>1 DEF Worker, WorkerPCs
  <1>3. k.pc = pc /\ k.step = "script" /\ k.job = worker[w].job /\ k.entry = worker[w].entry
    BY <1>1 DEF Worker
  <1>. QED BY <1>1, <1>2, <1>3 DEF Slot, Equipped, Ongoing, WorkerPCs, AfterValidate, AfterVerify

LEMMA GenerateType == ASSUME TypeInv, NEW w \in Workers, Generate(w) PROVE TypeInv'
  <1>1. worker[w] \in Worker BY SlotFacts DEF Generate, At
  <1>2. PICK s \in Scripts : Become(w, [worker[w] EXCEPT !.pc = "put", !.script = s])
    <2>1. Gated(worker[w].extraction) \subseteq Scripts BY ConstantsAssumption DEF Gated
    <2>. QED BY <2>1 DEF Generate
  <1>3. [worker[w] EXCEPT !.pc = "put", !.script = s]
          = [worker[w] EXCEPT !.pc = "put", !.script = s, !.revision = worker[w].revision]
    BY <1>1 DEF Worker
  <1>4. worker[w].revision \in Nat BY <1>1 DEF Worker
  <1>5. worker' \in [Workers -> Slot]
    BY <1>2, <1>3, <1>4, ScriptSlot, BecomeSlot, InMaybe DEF Generate, At, TypeInv
  <1>6. files' \in [Jobs -> Files] BY FileTypes, InMaybe DEF Generate
  <1>. QED BY <1>5, <1>6, RunStepType DEF Generate, TypeInv, TypeOK

LEMMA OldestIsNat == ASSUME TypeInv, NEW j \in Jobs, NEW i \in OldestPending(j) PROVE i \in Nat
  BY DEF TypeInv, TypeOK, OldestPending, PendingRevisions

LEMMA ApplyRevisionType == ASSUME TypeInv, NEW w \in Workers, ApplyRevision(w) PROVE TypeInv'
  <1>1. worker[w] \in Worker /\ JobOf(w) \in Jobs BY SlotFacts DEF ApplyRevision, At
  <1>2. PICK i \in OldestPending(JobOf(w)), s \in Scripts :
          Become(w, [worker[w] EXCEPT !.pc = "put", !.script = s, !.revision = i])
    <2>1. Gated(worker[w].extraction) \subseteq Scripts BY ConstantsAssumption DEF Gated
    <2>. QED BY <2>1 DEF ApplyRevision
  <1>3. i \in Nat BY <1>1, OldestIsNat
  <1>4. worker' \in [Workers -> Slot]
    BY <1>2, <1>3, ScriptSlot, BecomeSlot, InMaybe DEF ApplyRevision, At, TypeInv
  <1>5. files' \in [Jobs -> Files] BY FileTypes, InMaybe DEF ApplyRevision
  <1>. QED BY <1>4, <1>5, RunStepType DEF ApplyRevision, TypeInv, TypeOK

LEMMA RejectRevisionType == ASSUME TypeInv, NEW w \in Workers, RejectRevision(w) PROVE TypeInv'
  <1>1. worker[w] \in Worker /\ JobOf(w) \in Jobs BY SlotFacts DEF RejectRevision, At
  <1>2. PICK i \in OldestPending(JobOf(w)) :
          /\ Become(w, [worker[w] EXCEPT !.pc = "restore", !.revision = i])
          /\ Resolved(JobOf(w), i)
    BY DEF RejectRevision
  <1>3. [worker[w] EXCEPT !.pc = "restore", !.revision = i]
          = [worker[w] EXCEPT !.pc = "restore", !.script = worker[w].script, !.revision = i]
    BY <1>1 DEF Worker
  <1>4. i \in Nat /\ worker[w].script \in Maybe(Scripts) BY <1>1, OldestIsNat DEF Worker
  <1>5. worker' \in [Workers -> Slot]
    BY <1>2, <1>3, <1>4, ScriptSlot, BecomeSlot DEF RejectRevision, At, TypeInv
  <1>6. revisions' \in [Jobs -> Seq(Revision)] BY <1>1, <1>2, ResolvedType
  <1>. QED BY <1>5, <1>6, RunStepType DEF RejectRevision, TypeInv, TypeOK

LEMMA AbandonRevisionType == ASSUME TypeInv, NEW w \in Workers, AbandonRevision(w) PROVE TypeInv'
  <1>1. JobOf(w) \in Jobs BY SlotFacts DEF AbandonRevision, At
  <1>2. worker' \in [Workers -> Slot]
    BY GotoSlot DEF AbandonRevision, At, TypeInv, Ongoing, WorkerPCs
  <1>3. revisions' \in [Jobs -> Seq(Revision)] BY <1>1, ResolvedType DEF AbandonRevision
  <1>. QED BY <1>2, <1>3, RunStepType DEF AbandonRevision, TypeInv, TypeOK

LEMMA RestoreType == ASSUME TypeInv, NEW w \in Workers, Restore(w) PROVE TypeInv'
  <1>1. JobOf(w) \in Jobs /\ RowOf(w) \in Row /\ worker[w].job \in Snapshot
    BY SlotFacts, RunFacts DEF Restore, Ongoing, WorkerPCs
  <1>2. PICK status \in Kept, step \in Maybe(Steps) :
          UpdateJob(JobOf(w), [RowOf(w) EXCEPT !.status = status, !.step = step, !.resumeFrom = None])
    BY <1>1, StepsAre, InMaybe DEF Restore, Kept, Snapshot
  <1>3. [RowOf(w) EXCEPT !.status = status, !.step = step, !.resumeFrom = None] \in Row
    BY <1>1, <1>2, InMaybe DEF Row, Kept, Statuses, Settled
  <1>4. row' \in [Jobs -> Row] BY <1>1, <1>2, <1>3, UpdateJobRow DEF TypeInv, TypeOK
  <1>5. worker' \in [Workers -> Slot] BY ReturnedSlot DEF Restore, TypeInv
  <1>. QED BY <1>4, <1>5, RunStepType DEF Restore, TypeInv, TypeOK

LEMMA PutScriptType == ASSUME TypeInv, NEW w \in Workers, PutScript(w) PROVE TypeInv'
  <1>1. worker[w].script \in Maybe(Scripts) BY SlotFacts DEF PutScript, At, Worker
  <1>2. files' \in [Jobs -> Files] BY <1>1, FileTypes DEF PutScript
  <1>3. worker' \in [Workers -> Slot] BY GotoSlot DEF PutScript, At, TypeInv, Ongoing, WorkerPCs
  <1>. QED BY <1>2, <1>3, RunStepType DEF PutScript, TypeInv, TypeOK

LEMMA NoteScriptType == ASSUME TypeInv, NEW w \in Workers, NoteScript(w) PROVE TypeInv'
  <1>1. worker[w].script \in Maybe(Scripts) /\ JobOf(w) \in Jobs /\ RowOf(w) \in Row
    BY SlotFacts DEF NoteScript, At, Worker
  <1>2. [RowOf(w) EXCEPT !.script = worker[w].script] \in Row BY <1>1 DEF Row
  <1>3. row' \in [Jobs -> Row] BY <1>1, <1>2, UpdateJobRow DEF NoteScript, TypeInv, TypeOK
  <1>4. worker' \in [Workers -> Slot]
    BY GotoSlot, AdvanceSlot DEF NoteScript, At, TypeInv, Ongoing, WorkerPCs
  <1>. QED BY <1>3, <1>4, RunStepType DEF NoteScript, TypeInv, TypeOK

LEMMA ResolveRevisionType == ASSUME TypeInv, NEW w \in Workers, ResolveRevision(w) PROVE TypeInv'
  <1>. DEFINE k == [worker[w] EXCEPT !.pc = "begin", !.step = "validate", !.revision = 0]
  <1>1. worker[w] \in Worker /\ Equipped(worker[w]) /\ JobOf(w) \in Jobs
    BY SlotFacts DEF ResolveRevision
  <1>2. k \in Worker BY <1>1, StepsAre, InMaybe DEF Worker, WorkerPCs
  <1>3. k.pc = "begin" /\ k.step = "validate" /\ k.job = worker[w].job /\ k.entry = worker[w].entry
    BY <1>1 DEF Worker
  <1>4. k \in Slot
    BY <1>1, <1>2, <1>3, StepsAre, NoneAssumption
    DEF Slot, Equipped, Ongoing, WorkerPCs, ResolveRevision, AfterValidate, AfterVerify
  <1>5. worker' \in [Workers -> Slot] BY <1>4, BecomeSlot DEF ResolveRevision, TypeInv
  <1>6. revisions' \in [Jobs -> Seq(Revision)] BY <1>1, ResolvedType DEF ResolveRevision
  <1>. QED BY <1>5, <1>6, RunStepType DEF ResolveRevision, TypeInv, TypeOK

LEMMA LoadScriptType == ASSUME TypeInv, NEW w \in Workers, LoadScript(w) PROVE TypeInv'
  <1>. DEFINE k == [worker[w] EXCEPT !.script = files[JobOf(w)].script]
  <1>1. /\ worker[w] \in Worker /\ Equipped(worker[w]) /\ files[JobOf(w)].script \in Scripts
    BY SlotFacts, OfMaybe DEF LoadScript, At, Files
  <1>2. k \in Worker BY <1>1, InMaybe DEF Worker
  <1>3. /\ k.pc = "work" /\ k.step = "validate" /\ k.script # None
        /\ k.job = worker[w].job /\ k.entry = worker[w].entry
    BY <1>1 DEF Worker, LoadScript, At
  <1>4. k \in Slot
    BY <1>1, <1>2, <1>3 DEF Slot, Equipped, Ongoing, WorkerPCs, LoadScript, At
  <1>5. worker' \in [Workers -> Slot] BY <1>4, BecomeSlot DEF LoadScript, TypeInv
  <1>. QED BY <1>5, RunStepType DEF LoadScript, TypeInv, TypeOK

LEMMA ValidateType == ASSUME TypeInv, NEW w \in Workers, Validate(w) PROVE TypeInv'
  <1>. DEFINE s == worker[w].script
              k == [worker[w] EXCEPT !.pc = "begin", !.step = "verify"]
  <1>1. /\ worker[w] \in Worker /\ Equipped(worker[w]) /\ JobOf(w) \in Jobs /\ RowOf(w) \in Row
    BY SlotFacts DEF Validate, At
  <1>2. s \in Maybe(Scripts) BY <1>1 DEF Worker
  <1>3. CASE s # None /\ UpdateJob(JobOf(w), [RowOf(w) EXCEPT !.script = s]) /\ Become(w, k)
    <2>1. [RowOf(w) EXCEPT !.script = s] \in Row BY <1>1, <1>2 DEF Row
    <2>2. row' \in [Jobs -> Row] BY <1>1, <1>3, <2>1, UpdateJobRow DEF TypeInv, TypeOK
    <2>3. k \in Worker BY <1>1, <1>2, StepsAre, InMaybe DEF Worker, WorkerPCs
    <2>4. /\ k.pc = "begin" /\ k.step = "verify" /\ k.script = s
          /\ k.job = worker[w].job /\ k.entry = worker[w].entry
      BY <1>1 DEF Worker
    <2>5. worker[w].entry # None /\ worker[w].job # None
      BY <1>1 DEF Equipped, Validate, At
    <2>6. "verify" # None BY StepsAre, NoneAssumption
    <2>7. Equipped(k) BY <1>3, <2>4, <2>5, <2>6 DEF Equipped, Ongoing
    <2>8. worker' \in [Workers -> Slot] BY <1>3, <2>3, <2>7, BecomeSlot DEF TypeInv, Slot
    <2>. QED BY <2>2, <2>8, RunStepType DEF Validate, TypeInv, TypeOK
  <1>4. CASE FailAt(w, "validate")
    <2>1. worker' \in [Workers -> Slot] /\ row' \in [Jobs -> Row]
      BY <1>1, <1>4, FailAtType, StepsAre DEF Validate, At, TypeInv, TypeOK
    <2>. QED BY <2>1, RunStepType DEF Validate, TypeInv, TypeOK
  <1>. QED BY <1>3, <1>4 DEF Validate

LEMMA VerifyType == ASSUME TypeInv, NEW w \in Workers, Verify(w) PROVE TypeInv'
  <1>. DEFINE s == worker[w].script
              v == [script |-> s, passed |-> s \in Traces]
              k == [worker[w] EXCEPT !.pc = "put", !.verification = v]
  <1>1. worker[w] \in Worker /\ Equipped(worker[w]) /\ JobOf(w) \in Jobs /\ s \in Scripts
    BY SlotFacts, RunFacts DEF Verify, At, Ongoing, WorkerPCs, AfterValidate
  <1>2. v \in Verification BY <1>1 DEF Verification
  <1>3. k \in Worker BY <1>1, <1>2, InMaybe DEF Worker, WorkerPCs
  <1>4. /\ k.pc = "put" /\ k.step = "verify" /\ k.script = s
        /\ k.job = worker[w].job /\ k.entry = worker[w].entry
    BY <1>1 DEF Worker, Verify, At
  <1>5. k \in Slot
    BY <1>1, <1>3, <1>4, StepsAre, NoneAssumption DEF Slot, Equipped, Ongoing, WorkerPCs, Verify, At
  <1>6. worker' \in [Workers -> Slot] BY <1>5, BecomeSlot DEF Verify, TypeInv
  <1>7. files' \in [Jobs -> Files] BY FileTypes, InMaybe DEF Verify
  <1>. QED BY <1>6, <1>7, RunStepType DEF Verify, TypeInv, TypeOK

LEMMA PutVerificationType == ASSUME TypeInv, NEW w \in Workers, PutVerification(w) PROVE TypeInv'
  <1>1. worker[w].verification \in Maybe(Verification) BY SlotFacts DEF PutVerification, At, Worker
  <1>2. files' \in [Jobs -> Files] BY <1>1, FileTypes DEF PutVerification
  <1>3. worker' \in [Workers -> Slot]
    BY GotoSlot DEF PutVerification, At, TypeInv, Ongoing, WorkerPCs
  <1>. QED BY <1>2, <1>3, RunStepType DEF PutVerification, TypeInv, TypeOK

LEMMA VerifyGateType == ASSUME TypeInv, NEW w \in Workers, VerifyGate(w) PROVE TypeInv'
  <1>1. JobOf(w) \in Jobs BY SlotFacts DEF VerifyGate, At
  <1>2. worker' \in [Workers -> Slot] /\ row' \in [Jobs -> Row]
    BY <1>1, AdvanceSlot, FailAtType, StepsAre
    DEF VerifyGate, At, TypeInv, TypeOK, Ongoing, WorkerPCs
  <1>. QED BY <1>2, RunStepType DEF VerifyGate, TypeInv, TypeOK

LEMMA TtsType == ASSUME TypeInv, NEW w \in Workers, Tts(w) PROVE TypeInv'
  <1>. DEFINE k == [worker[w] EXCEPT !.pc = "begin", !.step = "slides", !.audio = worker[w].script]
  <1>1. worker[w] \in Worker /\ Equipped(worker[w]) /\ JobOf(w) \in Jobs /\ worker[w].script \in Scripts
    BY SlotFacts, RunFacts DEF Tts, At, Ongoing, WorkerPCs, AfterValidate, AfterVerify
  <1>2. k \in Worker BY <1>1, StepsAre, InMaybe DEF Worker, WorkerPCs
  <1>3. /\ k.pc = "begin" /\ k.step = "slides" /\ k.script = worker[w].script
        /\ k.job = worker[w].job /\ k.entry = worker[w].entry
    BY <1>1 DEF Worker
  <1>4. k \in Slot
    BY <1>1, <1>2, <1>3, StepsAre, NoneAssumption DEF Slot, Equipped, Ongoing, WorkerPCs, Tts, At
  <1>5. worker' \in [Workers -> Slot] /\ row' \in [Jobs -> Row]
    BY <1>1, <1>4, BecomeSlot, FailAtType, StepsAre DEF Tts, At, TypeInv, TypeOK
  <1>. QED BY <1>5, RunStepType DEF Tts, TypeInv, TypeOK

LEMMA SlidesType == ASSUME TypeInv, NEW w \in Workers, Slides(w) PROVE TypeInv'
  <1>. DEFINE k == [worker[w] EXCEPT !.pc = "begin", !.step = "mux", !.slides = worker[w].extraction]
  <1>1. worker[w] \in Worker /\ Equipped(worker[w]) /\ worker[w].script \in Scripts
    BY SlotFacts, RunFacts DEF Slides, At, Ongoing, WorkerPCs, AfterValidate, AfterVerify
  <1>2. k \in Worker BY <1>1, StepsAre, InMaybe DEF Worker, WorkerPCs
  <1>3. /\ k.pc = "begin" /\ k.step = "mux" /\ k.script = worker[w].script
        /\ k.job = worker[w].job /\ k.entry = worker[w].entry
    BY <1>1 DEF Worker
  <1>4. k \in Slot
    BY <1>1, <1>2, <1>3, StepsAre, NoneAssumption DEF Slot, Equipped, Ongoing, WorkerPCs, Slides, At
  <1>5. worker' \in [Workers -> Slot] BY <1>4, BecomeSlot DEF Slides, TypeInv
  <1>. QED BY <1>5, RunStepType DEF Slides, TypeInv, TypeOK

LEMMA MuxType == ASSUME TypeInv, NEW w \in Workers, Mux(w) PROVE TypeInv'
  <1>1. JobOf(w) \in Jobs BY SlotFacts DEF Mux, At
  <1>2. worker' \in [Workers -> Slot] /\ row' \in [Jobs -> Row]
    BY <1>1, GotoSlot, FailAtType, StepsAre DEF Mux, At, TypeInv, TypeOK, Ongoing, WorkerPCs
  <1>3. [files EXCEPT ![JobOf(w)].video = None] \in [Jobs -> Files] BY FileTypes, InMaybe
  <1>4. files' \in [Jobs -> Files] BY <1>3 DEF Mux, TypeInv, TypeOK
  <1>. QED BY <1>2, <1>4, RunStepType DEF Mux, TypeInv, TypeOK

LEMMA PutVideoType == ASSUME TypeInv, NEW w \in Workers, PutVideo(w) PROVE TypeInv'
  <1>1. worker[w] \in Worker /\ Equipped(worker[w]) BY SlotFacts DEF PutVideo, At
  <1>2. worker[w].audio \in Scripts /\ worker[w].slides \in Extractions
    BY <1>1, OfMaybe DEF Worker, Equipped, PutVideo, At
  <1>3. [script |-> worker[w].audio, extraction |-> worker[w].slides] \in Maybe(Video)
    BY <1>2, InMaybe DEF Video
  <1>4. files' \in [Jobs -> Files] BY <1>3, FileTypes DEF PutVideo
  <1>5. worker' \in [Workers -> Slot] BY AdvanceSlot DEF PutVideo, At, TypeInv, Ongoing, WorkerPCs
  <1>. QED BY <1>4, <1>5, RunStepType DEF PutVideo, TypeInv, TypeOK

LEMMA ReadyType == ASSUME TypeInv, NEW w \in Workers, Ready(w) PROVE TypeInv'
  <1>1. JobOf(w) \in Jobs /\ RowOf(w) \in Row BY SlotFacts DEF Ready, At
  <1>2. [RowOf(w) EXCEPT !.status = "needs_review", !.step = "ready", !.resumeFrom = None] \in Row
    BY <1>1, StepsAre, InMaybe DEF Row, Statuses, Settled
  <1>3. row' \in [Jobs -> Row] BY <1>1, <1>2, UpdateJobRow DEF Ready, TypeInv, TypeOK
  <1>4. worker' \in [Workers -> Slot] BY ReturnedSlot DEF Ready, At, TypeInv
  <1>. QED BY <1>3, <1>4, RunStepType DEF Ready, TypeInv, TypeOK

LEMMA StepFailsType == ASSUME TypeInv, NEW w \in Workers, StepFails(w) PROVE TypeInv'
  <1>1. JobOf(w) \in Jobs /\ worker[w].step \in Steps
    BY SlotFacts, RunFacts DEF StepFails, Ongoing, WorkerPCs
  <1>2. FailingSteps(w) \subseteq Steps BY <1>1, StepsAre DEF FailingSteps
  <1>3. worker' \in [Workers -> Slot] /\ row' \in [Jobs -> Row]
    BY <1>1, <1>2, FailAtType DEF StepFails, TypeInv, TypeOK
  <1>. QED BY <1>3, RunStepType DEF StepFails, TypeInv, TypeOK

LEMMA CompleteType == ASSUME TypeInv, NEW w \in Workers, Complete(w) PROVE TypeInv'
  <1>1. worker' \in [Workers -> Slot] BY IdleSlot, BecomeSlot DEF Complete, TypeInv
  <1>. QED BY <1>1, RunStepType DEF Complete, TypeInv, TypeOK

LEMMA WorkerCrashType == ASSUME TypeInv, NEW w \in Workers, WorkerCrash(w) PROVE TypeInv'
  <1>1. worker' \in [Workers -> Slot] BY IdleSlot, BecomeSlot DEF WorkerCrash, TypeInv
  <1>2. stalled' \in Seq(Entry) BY SlotFacts DEF WorkerCrash, TypeInv, TypeOK
  <1>3. workerCrashes' \in 0..MaxWorkerCrashes
    BY ConstantsAssumption DEF WorkerCrash, TypeInv, TypeOK
  <1>. QED BY <1>1, <1>2, <1>3 DEF WorkerCrash, ApiUnchanged, TypeInv, TypeOK, Slot

LEMMA RedeliverType == ASSUME TypeInv, Redeliver PROVE TypeInv'
  <1>. DEFINE e == Head(stalled)
              again == [e EXCEPT !.stalls = @ + 1]
  <1>1. stalled' \in Seq(Entry) /\ e \in Entry BY DEF Redeliver, TypeInv, TypeOK
  <1>2. again \in Entry BY <1>1 DEF Entry
  <1>3. queue' \in Seq(Entry) BY <1>2 DEF Redeliver, TypeInv, TypeOK
  <1>. QED BY <1>1, <1>3 DEF Redeliver, ApiUnchanged, TypeInv, TypeOK, Slot

LEMMA WorkerStepType == ASSUME TypeInv, NEW w \in Workers, WorkerStep(w) PROVE TypeInv'
  BY TakeType, ReadRowType, InterruptedType, IgnoreType, StartType, LoadForResumeType,
     BeginStepType, ReadReturnType, ExtractType, PutExtractionType, NoteExtractionType,
     ReconGateType, GenerateType, ApplyRevisionType, RejectRevisionType, AbandonRevisionType,
     RestoreType, PutScriptType, NoteScriptType, ResolveRevisionType, LoadScriptType, ValidateType, VerifyType,
     PutVerificationType, VerifyGateType, TtsType, SlidesType, MuxType, PutVideoType, ReadyType,
     StepFailsType, CompleteType
  DEF WorkerStep
-----------------------------------------------------------------------------
(* Every step of a request preserves TypeInv.                              *)

LEMMA RequestFacts ==
  ASSUME TypeInv, NEW r \in Requests, request[r].pc # "idle"
  PROVE  /\ request[r] \in Request /\ Addressed(request[r])
         /\ Target(r) \in Jobs /\ row[Target(r)] \in Row /\ files[Target(r)] \in Files
         /\ revisions[Target(r)] \in Seq(Revision)
  <1>1. request[r] \in Request /\ Addressed(request[r]) BY DEF TypeInv, Handler
  <1>2. Target(r) \in Jobs BY <1>1, OfMaybe DEF Addressed, Request, Target
  <1>. QED BY <1>1, <1>2 DEF TypeInv, TypeOK

LEMMA ProceedHandler ==
  ASSUME TypeInv, NEW r \in Requests, NEW q \in Handler, Proceed(r, q)
  PROVE  request' \in [Requests -> Handler]
  BY DEF Proceed, TypeInv

LEMMA AnsweredHandler ==
  ASSUME TypeInv, NEW r \in Requests, Answered(r) PROVE request' \in [Requests -> Handler]
  BY IdleSlot, ProceedHandler DEF Answered

LEMMA ContinueHandler ==
  ASSUME TypeInv, NEW r \in Requests, request[r].pc # "idle",
         NEW pc \in RequestPCs \ {"idle", "revise"}, Continue(r, pc),
         pc = "insert" => request[r].status # None
  PROVE  request' \in [Requests -> Handler]
  <1>. DEFINE q == [request[r] EXCEPT !.pc = pc]
  <1>1. request[r] \in Request /\ Addressed(request[r]) BY RequestFacts
  <1>2. q \in Request BY <1>1 DEF Request
  <1>3. q.pc = pc /\ q.job = request[r].job /\ q.status = request[r].status BY <1>1 DEF Request
  <1>. QED BY <1>1, <1>2, <1>3, ProceedHandler DEF Continue, Addressed, Handler

LEMMA ContinueRequeueHandler ==
  ASSUME TypeInv, NEW r \in Requests, request[r].pc # "idle", NEW step \in Steps,
         ContinueRequeue(r, step)
  PROVE  request' \in [Requests -> Handler]
  <1>. DEFINE q == [RequeueFrom(step) EXCEPT !.job = Target(r)]
  <1>1. Target(r) \in Jobs BY RequestFacts
  <1>2. RequeueFrom(step) \in Request
    BY IdleSlot, InMaybe DEF Handler, RequeueFrom, Request, RequestPCs
  <1>3. q \in Request BY <1>1, <1>2, InMaybe DEF Request
  <1>4. q.pc = "requeue" /\ q.job = Target(r) BY DEF RequeueFrom, IdleRequest
  <1>. QED
    BY <1>1, <1>3, <1>4, NoneAssumption, ProceedHandler DEF ContinueRequeue, Addressed, Handler

LEMMA RequestStepTypes ==
  ASSUME TypeInv, ApiOnly, row' \in [Jobs -> Row], files' \in [Jobs -> Files],
         revisions' \in [Jobs -> Seq(Revision)], queue' \in Seq(Entry),
         request' \in [Requests -> Handler]
  PROVE  TypeInv'
  BY DEF TypeInv, TypeOK, ApiOnly, WorkerUnchanged, Handler

\* What the Accept actions hand over: a request that names its operation.
LEMMA AcceptType ==
  ASSUME TypeInv, NEW r \in Requests, NEW j \in Jobs, NEW read \in Request, read.pc # "idle",
         read.pc \in {"revise", "insert"} => read.status # None, Accept(r, j, read)
  PROVE  TypeInv'
  <1>. DEFINE q == [read EXCEPT !.job = j]
  <1>1. q \in Request BY InMaybe DEF Request
  <1>2. q.job = j /\ q.pc = read.pc /\ q.status = read.status BY DEF Request
  <1>3. q \in Handler BY <1>1, <1>2, NoneAssumption DEF Handler, Addressed
  <1>4. request' \in [Requests -> Handler] BY <1>3, ProceedHandler DEF Accept
  <1>5. accepted' \in 0..MaxAccepted BY ConstantsAssumption DEF Accept, TypeInv, TypeOK
  <1>. QED BY <1>4, <1>5 DEF Accept, WorkerUnchanged, TypeInv, TypeOK, Handler

LEMMA AcceptAnyType ==
  ASSUME TypeInv, NEW r \in Requests, NEW j \in Jobs, AcceptAny(r, j) PROVE TypeInv'
  <1>1. row[j] \in Row BY DEF TypeInv, TypeOK
  <1>2. IdleRequest \in Request BY IdleSlot DEF Handler
  <1>3. \A step \in Steps : RequeueFrom(step) \in Request /\ RequeueFrom(step).pc = "requeue"
    BY <1>2, InMaybe DEF RequeueFrom, Request, RequestPCs, IdleRequest
  <1>4. \A pc \in RequestPCs : /\ [IdleRequest EXCEPT !.pc = pc] \in Request
                               /\ [IdleRequest EXCEPT !.pc = pc].pc = pc
    BY <1>2 DEF Request, IdleRequest
  <1>5. CASE AcceptRetry(r, j)
    <2>1. row[j].errorStep \in Maybe(Steps) BY <1>1 DEF Row
    <2>. QED BY <1>3, <1>5, <2>1, OfMaybe, StepsAre, AcceptType DEF AcceptRetry
  <1>6. CASE AcceptRegenerate(r, j)
    BY <1>3, <1>6, StepsAre, AcceptType DEF AcceptRegenerate
  <1>7. CASE AcceptReExtract(r, j)
    BY <1>3, <1>7, StepsAre, AcceptType DEF AcceptReExtract
  <1>8. CASE AcceptOverride(r, j)
    <2>1. PICK step \in Maybe(Steps) :
            Accept(r, j, [IdleRequest EXCEPT !.pc = "override", !.from = step])
      BY <1>1, <1>8, InMaybe DEF AcceptOverride, Row
    <2>2. [IdleRequest EXCEPT !.pc = "override", !.from = step] \in Request
      BY <1>2, InMaybe DEF Request, RequestPCs
    <2>3. [IdleRequest EXCEPT !.pc = "override", !.from = step].pc = "override"
      BY DEF IdleRequest
    <2>. QED BY <2>1, <2>2, <2>3, AcceptType
  <1>9. CASE AcceptRemoval(r, j)
    BY <1>4, <1>9, AcceptType DEF AcceptRemoval, RequestPCs
  <1>10. CASE AcceptException(r, j)
    <2>1. PICK c \in Checks : Accept(r, j, [IdleRequest EXCEPT !.pc = "except",
                                              !.exceptions = row[j].exceptions \cup {c}])
      BY <1>10 DEF AcceptException
    <2>2. row[j].exceptions \cup {c} \in SUBSET Checks BY <1>1 DEF Row
    <2>. DEFINE q == [IdleRequest EXCEPT !.pc = "except", !.exceptions = row[j].exceptions \cup {c}]
    <2>3. q \in Request BY <1>2, <2>2 DEF Request, RequestPCs
    <2>4. q.pc = "except" BY DEF IdleRequest
    <2>. QED BY <2>1, <2>3, <2>4, AcceptType
  <1>11. CASE AcceptRerender(r, j)
    <2>. DEFINE q == [IdleRequest EXCEPT !.pc = "rerender", !.script = row[j].script]
    <2>1. q \in Request BY <1>1, <1>2 DEF Request, RequestPCs, Row
    <2>2. q.pc = "rerender" BY DEF IdleRequest
    <2>. QED BY <1>11, <2>1, <2>2, AcceptType DEF AcceptRerender
  <1>12. CASE AcceptRevise(r, j)
    <2>. DEFINE q == [IdleRequest EXCEPT !.pc = "revise", !.status = row[j].status]
    <2>1. row[j].status \in Settled BY <1>12 DEF AcceptRevise, Editable, Settled
    <2>2. row[j].status # None BY <2>1, NoneAssumption DEF Statuses
    <2>3. q \in Request BY <1>2, <2>1, InMaybe DEF Request, RequestPCs
    <2>4. q.pc = "revise" /\ q.status = row[j].status BY DEF IdleRequest
    <2>. QED BY <1>12, <2>2, <2>3, <2>4, AcceptType DEF AcceptRevise
  <1>13. CASE AcceptEdit(r, j)
    BY <1>4, <1>13, AcceptType DEF AcceptEdit, RequestPCs
  <1>14. CASE AcceptApprove(r, j)
    <2>. DEFINE q == [IdleRequest EXCEPT !.pc = "check", !.script = row[j].script,
                                         !.extraction = row[j].extraction]
    <2>1. q \in Request BY <1>1, <1>2 DEF Request, RequestPCs, Row
    <2>2. q.pc = "check" BY DEF IdleRequest
    <2>. QED BY <1>14, <2>1, <2>2, AcceptType DEF AcceptApprove
  <1>15. CASE AcceptReject(r, j)
    BY <1>4, <1>15, AcceptType DEF AcceptReject, RequestPCs
  <1>16. CASE AcceptRelease(r, j)
    BY <1>4, <1>16, AcceptType DEF AcceptRelease, RequestPCs
  <1>. QED BY <1>5, <1>6, <1>7, <1>8, <1>9, <1>10, <1>11, <1>12, <1>13, <1>14, <1>15, <1>16
           DEF AcceptAny

LEMMA RequestStepType ==
  ASSUME TypeInv, NEW r \in Requests, RequestStep(r) PROVE TypeInv'
  <1>. USE DEF ApiOnly, WorkerUnchanged
  <1>. DEFINE j == Target(r)
  <1>1. request[r].pc # "idle"
    BY DEF RequestStep, ChooseRerender, CheckPending, InsertRevision, ValidateEdit, DropScript,
           SaveScript, NoteEdit, SetOverride, RemoveOverride, CheckKnown, WriteExceptions,
           CheckScript, CheckExtraction, CheckVideo, CheckVerification, PassCheck, Approve, Reject,
           Release, Requeue, Enqueue
  <1>2. /\ request[r] \in Request /\ Addressed(request[r]) /\ j \in Jobs
        /\ row[j] \in Row /\ files[j] \in Files /\ revisions[j] \in Seq(Revision)
    BY <1>1, RequestFacts
  <1>3. /\ row \in [Jobs -> Row] /\ files \in [Jobs -> Files] /\ queue \in Seq(Entry)
        /\ revisions \in [Jobs -> Seq(Revision)] /\ request \in [Requests -> Handler]
    BY DEF TypeInv, TypeOK
  <1>4. CASE ChooseRerender(r)
    BY <1>1, <1>3, <1>4, ContinueRequeueHandler, StepsAre, RequestStepTypes DEF ChooseRerender
  <1>5. CASE CheckPending(r)
    <2>1. request[r].status # None BY <1>2, <1>5 DEF Addressed, CheckPending
    <2>2. request' \in [Requests -> Handler]
      BY <1>1, <1>5, <2>1, ContinueHandler, AnsweredHandler DEF CheckPending, RequestPCs
    <2>. QED BY <1>3, <1>5, <2>2, RequestStepTypes DEF CheckPending
  <1>6. CASE InsertRevision(r)
    <2>1. request[r].status \in Settled
      BY <1>2, <1>6, OfMaybe DEF Addressed, InsertRevision, Request
    <2>2. [previous |-> request[r].status, pending |-> TRUE] \in Revision BY <2>1 DEF Revision
    <2>3. Append(revisions[j], [previous |-> request[r].status, pending |-> TRUE]) \in Seq(Revision)
      BY <1>2, <2>2
    <2>4. revisions' \in [Jobs -> Seq(Revision)] BY <1>3, <1>6, <2>3 DEF InsertRevision
    <2>5. request' \in [Requests -> Handler]
      BY <1>1, <1>6, StepsAre, ContinueRequeueHandler DEF InsertRevision
    <2>. QED BY <1>3, <1>6, <2>4, <2>5, RequestStepTypes DEF InsertRevision
  <1>7. CASE ValidateEdit(r)
    <2>1. ASSUME NEW s \in Scripts, Proceed(r, [request[r] EXCEPT !.pc = "drop", !.script = s])
          PROVE  request' \in [Requests -> Handler]
      <3>. DEFINE q == [request[r] EXCEPT !.pc = "drop", !.script = s]
      <3>1. q \in Request BY <1>2, InMaybe DEF Request, RequestPCs
      <3>2. q.pc = "drop" /\ q.job = request[r].job BY <1>2 DEF Request
      <3>. QED BY <1>1, <1>2, <2>1, <3>1, <3>2, ProceedHandler DEF Addressed, Handler
    <2>2. request' \in [Requests -> Handler] BY <1>7, <2>1, AnsweredHandler DEF ValidateEdit
    <2>. QED BY <1>3, <1>7, <2>2, RequestStepTypes DEF ValidateEdit
  <1>8. CASE DropScript(r)
    <2>1. files' \in [Jobs -> Files] BY <1>8, FileTypes, InMaybe DEF DropScript
    <2>2. request' \in [Requests -> Handler]
      BY <1>1, <1>8, ContinueHandler DEF DropScript, RequestPCs
    <2>. QED BY <1>3, <1>8, <2>1, <2>2, RequestStepTypes DEF DropScript
  <1>9. CASE SaveScript(r)
    <2>1. request[r].script \in Maybe(Scripts) BY <1>2 DEF Request
    <2>2. files' \in [Jobs -> Files] BY <1>9, <2>1, FileTypes DEF SaveScript
    <2>3. request' \in [Requests -> Handler]
      BY <1>1, <1>9, ContinueHandler DEF SaveScript, RequestPCs
    <2>. QED BY <1>3, <1>9, <2>2, <2>3, RequestStepTypes DEF SaveScript
  <1>10. CASE NoteEdit(r)
    <2>1. [row[j] EXCEPT !.script = request[r].script] \in Row BY <1>2 DEF Row, Request
    <2>2. row' \in [Jobs -> Row] BY <1>2, <1>3, <1>10, <2>1, UpdateJobRow DEF NoteEdit
    <2>3. request' \in [Requests -> Handler]
      BY <1>1, <1>10, StepsAre, ContinueRequeueHandler DEF NoteEdit
    <2>. QED BY <1>3, <1>10, <2>2, <2>3, RequestStepTypes DEF NoteEdit
  <1>11. CASE SetOverride(r)
    <2>1. [row[j] EXCEPT !.overridden = TRUE] \in Row BY <1>2 DEF Row
    <2>2. row' \in [Jobs -> Row] BY <1>2, <1>3, <1>11, <2>1, UpdateJobRow DEF SetOverride
    <2>3. request' \in [Requests -> Handler]
      BY <1>1, <1>11, StepsAre, ContinueRequeueHandler, AnsweredHandler DEF SetOverride
    <2>. QED BY <1>3, <1>11, <2>2, <2>3, RequestStepTypes DEF SetOverride
  <1>12. CASE RemoveOverride(r)
    <2>1. \A left \in BOOLEAN : [row[j] EXCEPT !.overridden = left] \in Row BY <1>2 DEF Row
    <2>2. row' \in [Jobs -> Row] BY <1>2, <1>3, <1>12, <2>1, UpdateJobRow DEF RemoveOverride
    <2>3. request' \in [Requests -> Handler]
      BY <1>1, <1>12, StepsAre, ContinueRequeueHandler, AnsweredHandler DEF RemoveOverride
    <2>. QED BY <1>3, <1>12, <2>2, <2>3, RequestStepTypes DEF RemoveOverride
  <1>13. CASE WriteExceptions(r)
    <2>1. [row[j] EXCEPT !.exceptions = request[r].exceptions] \in Row BY <1>2 DEF Row, Request
    <2>2. row' \in [Jobs -> Row] BY <1>2, <1>3, <1>13, <2>1, UpdateJobRow DEF WriteExceptions
    <2>3. request' \in [Requests -> Handler]
      BY <1>1, <1>13, StepsAre, ContinueRequeueHandler DEF WriteExceptions
    <2>. QED BY <1>3, <1>13, <2>2, <2>3, RequestStepTypes DEF WriteExceptions
  <1>14. CASE CheckScript(r) \/ CheckExtraction(r)
    <2>1. request' \in [Requests -> Handler]
      BY <1>1, <1>14, ContinueHandler, AnsweredHandler
      DEF CheckScript, CheckExtraction, PassCheck, RequestPCs
    <2>. QED BY <1>3, <1>14, <2>1, RequestStepTypes DEF CheckScript, CheckExtraction, PassCheck
  <1>15. CASE CheckVideo(r) \/ CheckVerification(r)
    <2>1. request' \in [Requests -> Handler]
      BY <1>1, <1>15, ContinueHandler, AnsweredHandler
      DEF CheckVideo, CheckVerification, PassCheck, RequestPCs
    <2>. QED BY <1>3, <1>15, <2>1, RequestStepTypes DEF CheckVideo, CheckVerification, PassCheck
  <1>16. CASE Approve(r)
    <2>1. [row[j] EXCEPT !.status = "approved", !.approvedScript = request[r].script,
                         !.approvedExtraction = request[r].extraction] \in Row
      BY <1>2 DEF Row, Request, Statuses, Settled
    <2>2. row' \in [Jobs -> Row] BY <1>2, <1>3, <1>16, <2>1, UpdateJobRow DEF Approve
    <2>. QED BY <1>3, <1>16, <2>2, AnsweredHandler, RequestStepTypes DEF Approve
  <1>17. CASE Reject(r)
    <2>1. [row[j] EXCEPT !.status = "rejected"] \in Row BY <1>2 DEF Row, Statuses, Settled
    <2>2. row' \in [Jobs -> Row] BY <1>2, <1>3, <1>17, <2>1, UpdateJobRow DEF Reject
    <2>. QED BY <1>3, <1>17, <2>2, AnsweredHandler, RequestStepTypes DEF Reject
  <1>18. CASE Release(r)
    <2>1. [row[j] EXCEPT !.status = "released"] \in Row BY <1>2 DEF Row, Statuses, Settled
    <2>2. row' \in [Jobs -> Row] BY <1>2, <1>3, <1>18, <2>1, UpdateJobRow DEF Release
    <2>. QED BY <1>3, <1>18, <2>2, AnsweredHandler, RequestStepTypes DEF Release
  <1>19. CASE Requeue(r)
    <2>1. [row[j] EXCEPT !.status = "queued", !.step = None, !.resumeFrom = request[r].from,
                         !.errorStep = None] \in Row
      BY <1>2, InMaybe DEF Row, Request, Statuses
    <2>2. row' \in [Jobs -> Row] BY <1>2, <1>3, <1>19, <2>1, UpdateJobRow DEF Requeue
    <2>. DEFINE q == [request[r] EXCEPT !.pc = "enqueue", !.from = None]
    <2>3. q \in Request BY <1>2, InMaybe DEF Request, RequestPCs
    <2>4. q.pc = "enqueue" /\ q.job = request[r].job BY <1>2 DEF Request
    <2>5. q \in Handler BY <1>1, <1>2, <2>3, <2>4 DEF Addressed, Handler
    <2>6. request' \in [Requests -> Handler] BY <1>19, <2>5, ProceedHandler DEF Requeue
    <2>. QED BY <1>3, <1>19, <2>2, <2>6, RequestStepTypes DEF Requeue
  <1>20. CASE Enqueue(r)
    <2>1. [job |-> j, stalls |-> 0] \in Entry BY <1>2 DEF Entry
    <2>2. queue' \in Seq(Entry) BY <1>3, <1>20, <2>1 DEF Enqueue
    <2>. QED BY <1>3, <1>20, <2>2, AnsweredHandler, RequestStepTypes DEF Enqueue
  <1>21. CASE CheckKnown(r)
    <2>1. request' \in [Requests -> Handler]
      BY <1>1, <1>21, ContinueHandler, AnsweredHandler DEF CheckKnown, RequestPCs
    <2>. QED BY <1>3, <1>21, <2>1, RequestStepTypes DEF CheckKnown
  <1>. QED BY <1>4, <1>5, <1>6, <1>7, <1>8, <1>9, <1>10, <1>11, <1>12, <1>13, <1>14, <1>15,
              <1>16, <1>17, <1>18, <1>19, <1>20, <1>21 DEF RequestStep

LEMMA ApiCrashType == ASSUME TypeInv, NEW r \in Requests, ApiCrash(r) PROVE TypeInv'
  <1>1. request' \in [Requests -> Handler] BY AnsweredHandler DEF ApiCrash
  <1>2. apiCrashes' \in 0..MaxApiCrashes
    BY ConstantsAssumption DEF ApiCrash, TypeInv, TypeOK
  <1>. QED BY <1>1, <1>2 DEF ApiCrash, WorkerUnchanged, TypeInv, TypeOK, Handler

LEMMA InitType == Init => TypeInv
  <1>. SUFFICES ASSUME Init PROVE TypeInv OBVIOUS
  <1>1. row \in [Jobs -> Row] BY InMaybe DEF Init, Row, Statuses
  <1>2. files \in [Jobs -> Files] BY InMaybe DEF Init, Files
  <1>3. revisions \in [Jobs -> Seq(Revision)] BY DEF Init
  <1>4. queue \in Seq(Entry)
    <2>1. PICK order \in [1..Cardinality(Jobs) -> Jobs] :
            queue = [i \in 1..Cardinality(Jobs) |-> [job |-> order[i], stalls |-> 0]]
      BY DEF Init
    <2>2. Cardinality(Jobs) \in Nat BY ConstantsAssumption, FS_CardinalityType
    <2>3. \A i \in 1..Cardinality(Jobs) : [job |-> order[i], stalls |-> 0] \in Entry
      BY <2>1 DEF Entry
    <2>. QED BY <2>1, <2>2, <2>3
  <1>5. stalled \in Seq(Entry) BY DEF Init
  <1>6. worker \in [Workers -> Slot] /\ request \in [Requests -> Handler] BY IdleSlot DEF Init
  <1>7. accepted \in 0..MaxAccepted /\ workerCrashes \in 0..MaxWorkerCrashes /\ apiCrashes \in 0..MaxApiCrashes
    BY ConstantsAssumption DEF Init
  <1>. QED BY <1>1, <1>2, <1>3, <1>4, <1>5, <1>6, <1>7 DEF TypeInv, TypeOK, Slot, Handler

LEMMA NextType == TypeInv /\ [Next]_vars => TypeInv'
  <1>. SUFFICES ASSUME TypeInv, [Next]_vars PROVE TypeInv' OBVIOUS
  <1>1. CASE Next
    BY <1>1, WorkerStepType, WorkerCrashType, RedeliverType, AcceptAnyType, RequestStepType,
       ApiCrashType DEF Next
  <1>2. CASE UNCHANGED vars BY <1>2 DEF vars, TypeInv, TypeOK
  <1>. QED BY <1>1, <1>2

\* The types of all variables, in every reachable state.
THEOREM TypeCorrect == Spec => []TypeOK
  <1>1. TypeInv => TypeOK BY DEF TypeInv
  <1>. QED BY <1>1, InitType, NextType, PTL DEF Spec

-----------------------------------------------------------------------------
(* Approvals name verified scripts. *)

(* What approvals rest on.  A verification says "passed" only of a script  *)
(* that traces, wherever it is held, and a handler about to approve has    *)
(* seen such a verification of the script it will name.                    *)

Truthful(v) == v # None /\ v.passed => v.script \in Traces

VerificationsTruthful == /\ \A j \in Jobs : Truthful(files[j].verification)
                         /\ \A w \in Workers : Truthful(worker[w].verification)

ApprovalsChecked == \A r \in Requests : request[r].pc = "approve" => request[r].script \in Traces

ApprovalInv == VerificationsTruthful /\ ApprovalsChecked /\ ApprovedScriptVerified

\* What a step of slot w does to the parts of ApprovalInv.
KeepsApproved     == \A j \in Jobs : row'[j].approvedScript = row[j].approvedScript
KeepsVerification == \A j \in Jobs : files'[j].verification = files[j].verification
Holds(w)          == \E k : Become(w, k) /\ Truthful(k.verification)

LEMMA WorkerKeeps ==
  ASSUME TypeInv, ApprovalInv, NEW w \in Workers, KeepsApproved, KeepsVerification, Holds(w),
         UNCHANGED request
  PROVE  ApprovalInv'
  <1>1. VerificationsTruthful'
    BY DEF ApprovalInv, VerificationsTruthful, KeepsVerification, Holds, Become, TypeInv, TypeOK,
           Truthful
  <1>2. ApprovalsChecked' BY DEF ApprovalInv, ApprovalsChecked
  <1>3. ApprovedScriptVerified' BY DEF ApprovalInv, ApprovedScriptVerified, KeepsApproved
  <1>. QED BY <1>1, <1>2, <1>3 DEF ApprovalInv

LEMMA UpdateKeeps ==
  ASSUME TypeInv, NEW j \in Jobs, NEW columns, UpdateJob(j, columns),
         columns.approvedScript = row[j].approvedScript
  PROVE  KeepsApproved
  BY DEF UpdateJob, KeepsApproved, TypeInv, TypeOK

LEMMA ReturnedHolds ==
  ASSUME NEW w \in Workers, Returned(w) PROVE Holds(w)
  <1>1. [IdleWorker EXCEPT !.pc = "done", !.entry = worker[w].entry].verification = None
    BY DEF IdleWorker
  <1>. QED BY <1>1 DEF Holds, Returned, Truthful

LEMMA FailAtKeeps ==
  ASSUME TypeInv, NEW w \in Workers, worker[w].pc # "idle", NEW step, FailAt(w, step)
  PROVE  KeepsApproved /\ Holds(w)
  <1>1. JobOf(w) \in Jobs /\ RowOf(w) \in Row /\ RowOf(w) = row[JobOf(w)] BY SlotFacts DEF RowOf
  <1>2. [RowOf(w) EXCEPT !.status = "failed", !.step = step, !.errorStep = step].approvedScript
          = row[JobOf(w)].approvedScript
    BY <1>1 DEF Row
  <1>. QED BY <1>1, <1>2, UpdateKeeps, ReturnedHolds DEF FailAt

\* A slot whose context changes in other fields than its verification.
LEMMA BecomeHolds ==
  ASSUME ApprovalInv, NEW w \in Workers, NEW k, Become(w, k),
         k.verification = worker[w].verification
  PROVE  Holds(w)
  BY DEF ApprovalInv, VerificationsTruthful, Holds

LEMMA MoveHolds ==
  ASSUME TypeInv, ApprovalInv, NEW w \in Workers, worker[w].pc # "idle",
         Advance(w) \/ \E pc : Goto(w, pc)
  PROVE  Holds(w)
  <1>1. worker[w] \in Worker BY SlotFacts
  <1>2. \A pc : [worker[w] EXCEPT !.pc = pc].verification = worker[w].verification
    BY <1>1 DEF Worker
  <1>3. [worker[w] EXCEPT !.pc = "begin", !.step = Following[worker[w].step]].verification
          = worker[w].verification
    BY <1>1 DEF Worker
  <1>. QED BY <1>2, <1>3, BecomeHolds DEF Advance, Goto

LEMMA FilesKeep ==
  ASSUME TypeInv, NEW j, NEW x,
         \/ UNCHANGED files
         \/ files' = [files EXCEPT ![j].script = x]
         \/ files' = [files EXCEPT ![j].extraction = x]
         \/ files' = [files EXCEPT ![j].video = x]
  PROVE  KeepsVerification
  BY DEF KeepsVerification, TypeInv, TypeOK, Files

\* A verification is written by Verify (to the context) and PutVerification (to storage) only.
LEMMA VerifyApproval ==
  ASSUME TypeInv, ApprovalInv, NEW w \in Workers, Verify(w) PROVE ApprovalInv'
  <1>. DEFINE v == [script |-> worker[w].script, passed |-> worker[w].script \in Traces]
              k == [worker[w] EXCEPT !.pc = "put", !.verification = v]
  <1>1. worker[w] \in Worker BY SlotFacts DEF Verify, At
  <1>2. k.verification = v BY <1>1 DEF Worker
  <1>3. \A x \in Workers : Truthful(worker'[x].verification)
    <2>1. Truthful(v) BY DEF Truthful
    <2>2. Truthful(k.verification) BY <1>2, <2>1
    <2>. QED BY <2>2 DEF Verify, Become, ApprovalInv, VerificationsTruthful, TypeInv, TypeOK
  <1>4. \A j \in Jobs : Truthful(files'[j].verification)
    BY DEF Verify, Truthful, ApprovalInv, VerificationsTruthful, TypeInv, TypeOK, Files
  <1>. QED BY <1>3, <1>4 DEF ApprovalInv, VerificationsTruthful, ApprovalsChecked,
                             ApprovedScriptVerified, Verify, WorkerOnly, ApiUnchanged

LEMMA PutVerificationApproval ==
  ASSUME TypeInv, ApprovalInv, NEW w \in Workers, PutVerification(w) PROVE ApprovalInv'
  <1>1. Holds(w) BY MoveHolds DEF PutVerification, At
  <1>2. \A x \in Workers : Truthful(worker'[x].verification)
    BY <1>1 DEF Holds, Become, ApprovalInv, VerificationsTruthful, TypeInv, TypeOK
  <1>3. \A j \in Jobs : Truthful(files'[j].verification)
    BY DEF PutVerification, ApprovalInv, VerificationsTruthful, TypeInv, TypeOK, Files
  <1>. QED BY <1>2, <1>3 DEF ApprovalInv, VerificationsTruthful, ApprovalsChecked,
                             ApprovedScriptVerified, PutVerification, WorkerOnly, ApiUnchanged

LEMMA LoadForResumeApproval ==
  ASSUME TypeInv, ApprovalInv, NEW w \in Workers, LoadForResume(w) PROVE ApprovalInv'
  <1>1. worker[w] \in Worker /\ JobOf(w) \in Jobs BY SlotFacts DEF LoadForResume
  <1>2. KeepsApproved /\ Holds(w)
    <2>1. CASE FailAt(w, worker[w].step) BY <2>1, FailAtKeeps DEF LoadForResume
    <2>2. CASE ~FailAt(w, worker[w].step)
      <3>. DEFINE f == files[JobOf(w)]
                  first == worker[w].step
                  k == [worker[w] EXCEPT
                   !.pc = "work",
                   !.extraction   = IF first \in AfterRecon THEN f.extraction ELSE None,
                   !.script       = IF first \in AfterValidate THEN f.script ELSE None,
                   !.verification = IF first \in AfterVerify THEN f.verification ELSE None]
      <3>1. Become(w, k) /\ UNCHANGED row BY <2>2 DEF LoadForResume
      <3>2. k.verification = IF first \in AfterVerify THEN f.verification ELSE None
        BY <1>1 DEF Worker
      <3>3. Truthful(k.verification)
        BY <1>1, <3>2 DEF Truthful, ApprovalInv, VerificationsTruthful
      <3>. QED BY <3>1, <3>3 DEF Holds, KeepsApproved
    <2>. QED BY <2>1, <2>2
  <1>3. KeepsVerification BY FilesKeep DEF LoadForResume
  <1>. QED BY <1>2, <1>3, WorkerKeeps DEF LoadForResume, WorkerOnly, ApiUnchanged

\* Every other step of a slot leaves approvals and verifications alone.
LEMMA WorkerStepApproval ==
  ASSUME TypeInv, ApprovalInv, NEW w \in Workers, WorkerStep(w) PROVE ApprovalInv'
  <1>. DEFINE k == worker[w]
              j == JobOf(w)
  <1>1. CASE Take(w)
    <2>1. [IdleWorker EXCEPT !.pc = "taken", !.entry = Head(queue)].verification = None
      BY DEF IdleWorker
    <2>2. Holds(w) BY <1>1, <2>1 DEF Take, Holds, Truthful
    <2>. QED BY <1>1, <2>2, WorkerKeeps, FilesKeep DEF Take, KeepsApproved, ApiUnchanged
  <1>2. CASE Verify(w) \/ PutVerification(w) \/ LoadForResume(w)
    BY <1>2, VerifyApproval, PutVerificationApproval, LoadForResumeApproval
  <1>3. SUFFICES ASSUME ~(Take(w) \/ Verify(w) \/ PutVerification(w) \/ LoadForResume(w))
                 PROVE  KeepsApproved /\ KeepsVerification /\ Holds(w) /\ UNCHANGED request
    BY <1>1, <1>2, WorkerKeeps
  <1>4. UNCHANGED request /\ k.pc # "idle"
    BY <1>3
    DEF ReadRow, Interrupted, Ignore, Start, BeginStep, ReadReturn, Extract, PutExtraction,
        NoteExtraction, ReconGate, Generate, ApplyRevision, RejectRevision, AbandonRevision,
        Restore, PutScript, NoteScript, ResolveRevision, LoadScript, Validate, VerifyGate, Tts,
        Slides, Mux, PutVideo, Ready, StepFails, Complete, WorkerStep, WorkerOnly, ApiUnchanged, At
  <1>5. /\ k \in Worker /\ j \in Jobs /\ RowOf(w) \in Row /\ RowOf(w) = row[j]
        /\ IdleWorker.verification = None
    BY <1>4, SlotFacts DEF RowOf, IdleWorker
  <1>6. CASE ReadReturn(w) \/ PutExtraction(w) \/ PutScript(w) \/ PutVideo(w) \/ AbandonRevision(w)
    <2>1. Holds(w)
      BY <1>4, <1>6, MoveHolds DEF ReadReturn, PutExtraction, PutScript, PutVideo, AbandonRevision
    <2>2. KeepsVerification
      BY <1>6, FilesKeep DEF ReadReturn, PutExtraction, PutScript, PutVideo, AbandonRevision
    <2>. QED
      BY <1>4, <1>6, <2>1, <2>2
      DEF ReadReturn, PutExtraction, PutScript, PutVideo, AbandonRevision, KeepsApproved
  <1>7. CASE BeginStep(w) \/ NoteExtraction(w) \/ NoteScript(w)
    <2>1. Holds(w) BY <1>4, <1>7, MoveHolds DEF BeginStep, NoteExtraction, NoteScript
    <2>2. KeepsVerification BY <1>7, FilesKeep DEF BeginStep, NoteExtraction, NoteScript
    <2>3. KeepsApproved BY <1>5, <1>7, UpdateKeeps DEF BeginStep, NoteExtraction, NoteScript, Row
    <2>. QED BY <1>4, <2>1, <2>2, <2>3
  <1>8. CASE ReconGate(w) \/ VerifyGate(w) \/ Mux(w)
    <2>1. Holds(w) /\ KeepsApproved
      BY <1>4, <1>8, MoveHolds, FailAtKeeps DEF ReconGate, VerifyGate, Mux, KeepsApproved
    <2>2. KeepsVerification BY <1>8, FilesKeep DEF ReconGate, VerifyGate, Mux
    <2>. QED BY <1>4, <2>1, <2>2
  <1>9. CASE StepFails(w)
    <2>1. Holds(w) /\ KeepsApproved BY <1>4, <1>9, FailAtKeeps DEF StepFails
    <2>2. KeepsVerification BY <1>9, FilesKeep DEF StepFails
    <2>. QED BY <1>4, <2>1, <2>2
  <1>10. CASE Ignore(w) \/ Interrupted(w) \/ Restore(w) \/ Ready(w)
    <2>1. Holds(w) BY <1>10, ReturnedHolds DEF Ignore, Interrupted, Restore, Ready
    <2>2. KeepsVerification BY <1>10, FilesKeep DEF Ignore, Interrupted, Restore, Ready
    <2>3. KeepsApproved
      BY <1>5, <1>10, UpdateKeeps DEF Ignore, Interrupted, Restore, Ready, Row, KeepsApproved
    <2>. QED BY <1>4, <2>1, <2>2, <2>3
  <1>11. CASE Complete(w)
    <2>1. Holds(w) BY <1>5, <1>11 DEF Complete, Holds, Truthful
    <2>2. KeepsVerification BY <1>11, FilesKeep DEF Complete
    <2>. QED BY <1>4, <1>11, <2>1, <2>2 DEF Complete, KeepsApproved
  <1>12. CASE ReadRow(w) \/ Extract(w) \/ Generate(w) \/ ApplyRevision(w) \/ RejectRevision(w)
              \/ ResolveRevision(w) \/ LoadScript(w) \/ Slides(w)
    <2>1. Holds(w)
      BY <1>5, <1>12, BecomeHolds
      DEF ReadRow, Extract, Generate, ApplyRevision, RejectRevision, ResolveRevision, LoadScript, Slides,
          Worker
    <2>2. KeepsVerification
      BY <1>12, FilesKeep
      DEF ReadRow, Extract, Generate, ApplyRevision, RejectRevision, ResolveRevision, LoadScript, Slides
    <2>. QED
      BY <1>4, <1>12, <2>1, <2>2
      DEF ReadRow, Extract, Generate, ApplyRevision, RejectRevision, ResolveRevision, LoadScript, Slides,
          KeepsApproved
  <1>13. CASE Start(w)
    <2>1. Holds(w) BY <1>5, <1>13, BecomeHolds DEF Start, Worker
    <2>2. KeepsVerification BY <1>13, FilesKeep DEF Start
    <2>3. KeepsApproved BY <1>5, <1>13, UpdateKeeps DEF Start, Row
    <2>. QED BY <1>4, <2>1, <2>2, <2>3
  <1>14. CASE Validate(w)
    <2>1. Holds(w) BY <1>4, <1>5, <1>14, BecomeHolds, FailAtKeeps DEF Validate, Worker
    <2>2. KeepsVerification BY <1>14, FilesKeep DEF Validate
    <2>3. KeepsApproved BY <1>4, <1>5, <1>14, UpdateKeeps, FailAtKeeps DEF Validate, Row
    <2>. QED BY <1>4, <2>1, <2>2, <2>3
  <1>15. CASE Tts(w)
    <2>1. Holds(w) BY <1>4, <1>5, <1>15, BecomeHolds, FailAtKeeps DEF Tts, Worker
    <2>2. KeepsVerification BY <1>15, FilesKeep DEF Tts
    <2>3. KeepsApproved BY <1>4, <1>15, FailAtKeeps DEF Tts, KeepsApproved
    <2>. QED BY <1>4, <2>1, <2>2, <2>3
  <1>. QED BY <1>3, <1>6, <1>7, <1>8, <1>9, <1>10, <1>11, <1>12, <1>13, <1>14, <1>15 DEF WorkerStep

\* A handler gets to "approve" only from a verification it saw pass for the script it holds.
LEMMA RequestStepApproval ==
  ASSUME TypeInv, ApprovalInv, NEW r \in Requests, RequestStep(r) PROVE ApprovalInv'
  <1>. USE DEF ApiOnly, WorkerUnchanged
  <1>1. request[r].pc # "idle" /\ UNCHANGED worker
    BY DEF RequestStep, ChooseRerender, CheckPending, InsertRevision, ValidateEdit, DropScript,
           SaveScript, NoteEdit, SetOverride, RemoveOverride, CheckKnown, WriteExceptions,
           CheckScript, CheckExtraction, CheckVideo, CheckVerification, PassCheck, Approve, Reject,
           Release, Requeue, Enqueue
  <1>2. /\ request[r] \in Request /\ Target(r) \in Jobs /\ row[Target(r)] \in Row
        /\ IdleRequest.pc = "idle"
    BY <1>1, RequestFacts DEF IdleRequest
  <1>3. KeepsVerification
    BY FilesKeep DEF RequestStep, ChooseRerender, CheckPending, InsertRevision, ValidateEdit,
       DropScript, SaveScript, NoteEdit, SetOverride, RemoveOverride, CheckKnown, WriteExceptions,
       CheckScript, CheckExtraction, CheckVideo, CheckVerification, PassCheck, Approve, Reject,
       Release, Requeue, Enqueue
  <1>4. VerificationsTruthful'
    BY <1>1, <1>3 DEF ApprovalInv, VerificationsTruthful, KeepsVerification
  <1>5. ApprovalsChecked'
    <2>1. \A step : /\ [RequeueFrom(step) EXCEPT !.job = Target(r)].pc = "requeue"
                    /\ [request[r] EXCEPT !.pc = "enqueue", !.from = step].pc = "enqueue"
      BY <1>2 DEF RequeueFrom, IdleRequest, Request
    <2>2. \A pc : /\ [request[r] EXCEPT !.pc = pc].pc = pc
                  /\ [request[r] EXCEPT !.pc = pc].script = request[r].script
      BY <1>2 DEF Request
    <2>3. \A s : [request[r] EXCEPT !.pc = "drop", !.script = s].pc = "drop" BY <1>2 DEF Request
    <2>4. CASE CheckVerification(r)
      <3>1. VerificationHolds(r) => request[r].script \in Traces
        BY <1>2 DEF VerificationHolds, ApprovalInv, VerificationsTruthful, Truthful
      <3>2. \E q : Proceed(r, q) /\ (q.pc = "approve" => q.script \in Traces)
        <4>1. CASE VerificationHolds(r)
          BY <2>2, <2>4, <3>1, <4>1 DEF CheckVerification, PassCheck, Continue
        <4>2. CASE ~VerificationHolds(r)
          BY <1>2, <2>4, <4>2 DEF CheckVerification, PassCheck, Answered
        <4>. QED BY <4>1, <4>2
      <3>. QED BY <3>2 DEF Proceed, ApprovalInv, ApprovalsChecked, TypeInv, TypeOK
    <2>5. CASE \E q : Proceed(r, q) /\ q.pc # "approve"
      BY <2>5 DEF Proceed, ApprovalInv, ApprovalsChecked, TypeInv, TypeOK
    <2>6. CASE Approve(r) \/ Reject(r) \/ Release(r) \/ Enqueue(r)
      BY <1>2, <2>5, <2>6 DEF Approve, Reject, Release, Enqueue, Answered
    <2>7. CASE ChooseRerender(r) \/ InsertRevision(r) \/ NoteEdit(r) \/ Requeue(r)
      BY <2>1, <2>5, <2>7 DEF ChooseRerender, InsertRevision, NoteEdit, Requeue, ContinueRequeue
    <2>8. CASE SetOverride(r) \/ RemoveOverride(r) \/ WriteExceptions(r)
      BY <1>2, <2>1, <2>5, <2>8
      DEF SetOverride, RemoveOverride, WriteExceptions, ContinueRequeue, Answered
    <2>9. CASE CheckPending(r) \/ ValidateEdit(r) \/ DropScript(r) \/ SaveScript(r) \/ CheckKnown(r)
      BY <1>2, <2>2, <2>3, <2>5, <2>9
      DEF CheckPending, ValidateEdit, DropScript, SaveScript, CheckKnown, Continue, Answered
    <2>10. CASE CheckScript(r) \/ CheckExtraction(r) \/ CheckVideo(r)
      <3>1. \E q : Proceed(r, q) /\ q.pc # "approve"
        BY <1>2, <2>2, <2>10
        DEF CheckScript, CheckExtraction, CheckVideo, PassCheck, Continue, Answered
      <3>. QED BY <2>5, <3>1
    <2>. QED BY <2>4, <2>6, <2>7, <2>8, <2>9, <2>10 DEF RequestStep
  <1>6. ApprovedScriptVerified'
    <2>1. CASE Approve(r)
      BY <1>2, <2>1 DEF Approve, UpdateJob, ApprovalInv, ApprovalsChecked, ApprovedScriptVerified,
                        TypeInv, TypeOK, Row
    <2>2. CASE KeepsApproved
      BY <2>2 DEF KeepsApproved, ApprovalInv, ApprovedScriptVerified
    <2>3. CASE NoteEdit(r) \/ SetOverride(r) \/ RemoveOverride(r) \/ WriteExceptions(r)
               \/ Reject(r) \/ Release(r) \/ Requeue(r)
      BY <1>2, <2>2, <2>3, UpdateKeeps DEF NoteEdit, SetOverride, RemoveOverride, WriteExceptions,
         Reject, Release, Requeue, KeepsApproved, Row
    <2>4. CASE UNCHANGED row BY <2>2, <2>4 DEF KeepsApproved
    <2>. QED BY <2>1, <2>3, <2>4 DEF RequestStep, ChooseRerender, CheckPending, InsertRevision,
                ValidateEdit, DropScript, SaveScript, CheckKnown, CheckScript, CheckExtraction,
                CheckVideo, CheckVerification, PassCheck,
                Enqueue
  <1>. QED BY <1>4, <1>5, <1>6 DEF ApprovalInv

\* No operation starts out about to approve.
LEMMA AcceptedNotApproving ==
  ASSUME NEW r \in Requests, NEW j \in Jobs, AcceptAny(r, j)
  PROVE  \E q : q.pc # "approve" /\ Proceed(r, q) /\ UNCHANGED <<row, files, worker>>
  <1>1. ASSUME NEW read, Accept(r, j, read), [read EXCEPT !.job = j].pc # "approve"
        PROVE  \E q : q.pc # "approve" /\ Proceed(r, q) /\ UNCHANGED <<row, files, worker>>
    BY <1>1 DEF Accept, WorkerUnchanged
  <1>2. CASE AcceptRetry(r, j) \/ AcceptRegenerate(r, j) \/ AcceptReExtract(r, j)
    <2>1. \A step : [RequeueFrom(step) EXCEPT !.job = j].pc = "requeue"
      BY DEF RequeueFrom, IdleRequest
    <2>. QED BY <1>1, <1>2, <2>1 DEF AcceptRetry, AcceptRegenerate, AcceptReExtract
  <1>3. CASE AcceptOverride(r, j)
    <2>1. \A step : [[IdleRequest EXCEPT !.pc = "override", !.from = step] EXCEPT !.job = j].pc
                      = "override"
      BY DEF IdleRequest
    <2>. QED BY <1>1, <1>3, <2>1 DEF AcceptOverride
  <1>4. CASE AcceptRemoval(r, j) \/ AcceptEdit(r, j) \/ AcceptReject(r, j) \/ AcceptRelease(r, j)
    <2>1. \A pc : [[IdleRequest EXCEPT !.pc = pc] EXCEPT !.job = j].pc = pc BY DEF IdleRequest
    <2>. QED BY <1>1, <1>4, <2>1 DEF AcceptRemoval, AcceptEdit, AcceptReject, AcceptRelease
  <1>5. CASE AcceptException(r, j)
    <2>1. \A x : [[IdleRequest EXCEPT !.pc = "except", !.exceptions = x] EXCEPT !.job = j].pc
                   = "except"
      BY DEF IdleRequest
    <2>. QED BY <1>1, <1>5, <2>1 DEF AcceptException
  <1>6. CASE AcceptRerender(r, j)
    <2>1. \A s : [[IdleRequest EXCEPT !.pc = "rerender", !.script = s] EXCEPT !.job = j].pc
                   = "rerender"
      BY DEF IdleRequest
    <2>. QED BY <1>1, <1>6, <2>1 DEF AcceptRerender
  <1>7. CASE AcceptRevise(r, j)
    <2>1. \A s : [[IdleRequest EXCEPT !.pc = "revise", !.status = s] EXCEPT !.job = j].pc
                   = "revise"
      BY DEF IdleRequest
    <2>. QED BY <1>1, <1>7, <2>1 DEF AcceptRevise
  <1>8. CASE AcceptApprove(r, j)
    <2>1. \A s, e : [[IdleRequest EXCEPT !.pc = "check", !.script = s, !.extraction = e]
                       EXCEPT !.job = j].pc = "check"
      BY DEF IdleRequest
    <2>. QED BY <1>1, <1>8, <2>1 DEF AcceptApprove
  <1>. QED BY <1>2, <1>3, <1>4, <1>5, <1>6, <1>7, <1>8 DEF AcceptAny

\* Accepting a request, losing one, and BullMQ: nothing is approved or verified by them.
LEMMA OtherApproval ==
  ASSUME TypeInv, ApprovalInv,
         \/ \E w \in Workers : WorkerCrash(w)
         \/ Redeliver
         \/ \E r \in Requests, j \in Jobs : AcceptAny(r, j)
         \/ \E r \in Requests : ApiCrash(r)
  PROVE  ApprovalInv'
  <1>1. ASSUME NEW r \in Requests, NEW q, q.pc # "approve", Proceed(r, q),
               UNCHANGED <<row, files, worker>>
        PROVE  ApprovalInv'
    BY <1>1 DEF Proceed, ApprovalInv, VerificationsTruthful, ApprovalsChecked,
                ApprovedScriptVerified, TypeInv, TypeOK
  <1>2. ASSUME NEW w \in Workers, WorkerCrash(w) PROVE ApprovalInv'
    <2>1. IdleWorker.verification = None BY DEF IdleWorker
    <2>2. Holds(w) BY <1>2, <2>1 DEF WorkerCrash, Holds, Truthful
    <2>. QED BY <1>2, <2>2, WorkerKeeps
             DEF WorkerCrash, ApiUnchanged, KeepsApproved, KeepsVerification
  <1>3. CASE Redeliver
    BY <1>3 DEF Redeliver, ApiUnchanged, ApprovalInv, VerificationsTruthful, ApprovalsChecked,
                ApprovedScriptVerified
  <1>4. CASE \E r \in Requests, j \in Jobs : AcceptAny(r, j)
    BY <1>1, <1>4, AcceptedNotApproving
  <1>5. CASE \E r \in Requests : ApiCrash(r)
    <2>1. IdleRequest.pc # "approve" BY DEF IdleRequest
    <2>. QED BY <1>1, <1>5, <2>1 DEF ApiCrash, Answered, WorkerUnchanged
  <1>. QED BY <1>2, <1>3, <1>4, <1>5

LEMMA InitApproval == Init => ApprovalInv
  BY DEF Init, ApprovalInv, VerificationsTruthful, Truthful, ApprovalsChecked,
         ApprovedScriptVerified, IdleWorker, IdleRequest

LEMMA NextApproval == ASSUME TypeInv, ApprovalInv, [Next]_vars PROVE ApprovalInv'
  <1>1. CASE Next
    BY <1>1, WorkerStepApproval, RequestStepApproval, OtherApproval DEF Next
  <1>2. CASE UNCHANGED vars
    BY <1>2 DEF vars, ApprovalInv, VerificationsTruthful, ApprovalsChecked, ApprovedScriptVerified
  <1>. QED BY <1>1, <1>2

(***************************************************************************)
(* Whatever requests, redeliveries and crashes interleave with it, an      *)
(* approval names a script whose every item verify() found on the return:  *)
(* for any number of jobs, slots and requests in flight.                   *)
(***************************************************************************)
THEOREM ApprovalCorrect == Spec => []ApprovedScriptVerified
  <1>1. TypeInv /\ ApprovalInv /\ [Next]_vars => ApprovalInv' BY NextApproval
  <1>2. ApprovalInv => ApprovedScriptVerified BY DEF ApprovalInv
  <1>. QED BY <1>1, <1>2, InitApproval, InitType, NextType, PTL DEF Spec

-----------------------------------------------------------------------------
(* No job is orphaned. *)

(* Why a job is never orphaned.  An entry that was delivered again n times *)
(* has survived n worker crashes, so within the stall limit BullMQ never   *)
(* gives an entry up.                                                      *)

Survived(n) == {e \in Entry : e.stalls <= n}
LostBy(n)   == {e \in Entry : e.stalls < n}

StallsBounded ==
  /\ queue \in Seq(Survived(workerCrashes))
  /\ stalled \in Seq(LostBy(workerCrashes))
  /\ \A w \in Workers : worker[w].pc # "idle" => worker[w].entry \in Survived(workerCrashes)

OwnershipInv == StallsBounded /\ NoOrphanedJob

\* The clauses of Owned, one by one.
InQueue(q, j) == \E i \in 1..Len(q) : q[i].job = j
RunsFor(k, j) == /\ k.pc \notin {"idle", "done"}
                 /\ k.entry.job = j
                 /\ k.pc = "decide" => k.job.status \notin Settled

LEMMA OwnedIs ==
  ASSUME NEW j
  PROVE  Owned(j) <=> \/ InQueue(queue, j) \/ InQueue(stalled, j)
                      \/ \E w \in Workers : RunsFor(worker[w], j)
                      \/ \E r \in Requests : request[r].pc = "enqueue" /\ Target(r) = j
  BY DEF Owned, InQueue, RunsFor

LEMMA InTail ==
  ASSUME NEW q \in Seq(Entry), q # <<>>, NEW j
  PROVE  InQueue(q, j) <=> Head(q).job = j \/ InQueue(Tail(q), j)
  <1>1. ASSUME InQueue(q, j), Head(q).job # j PROVE InQueue(Tail(q), j)
    <2>1. PICK i \in 1..Len(q) : q[i].job = j BY <1>1 DEF InQueue
    <2>2. i # 1 BY <1>1, <2>1
    <2>3. i - 1 \in 1..Len(Tail(q)) /\ Tail(q)[i - 1] = q[i] BY <2>1, <2>2
    <2>. QED BY <2>1, <2>3 DEF InQueue
  <1>2. ASSUME InQueue(Tail(q), j) PROVE InQueue(q, j)
    <2>1. PICK i \in 1..Len(Tail(q)) : Tail(q)[i].job = j BY <1>2 DEF InQueue
    <2>2. i + 1 \in 1..Len(q) /\ q[i + 1] = Tail(q)[i] BY <2>1
    <2>. QED BY <2>1, <2>2 DEF InQueue
  <1>3. Head(q).job = j => InQueue(q, j)
    <2>1. 1 \in 1..Len(q) /\ Head(q) = q[1] OBVIOUS
    <2>. QED BY <2>1 DEF InQueue
  <1>. QED BY <1>1, <1>2, <1>3

LEMMA InAppend ==
  ASSUME NEW q \in Seq(Entry), NEW e \in Entry, NEW j
  PROVE  InQueue(Append(q, e), j) <=> e.job = j \/ InQueue(q, j)
  <1>1. /\ Len(Append(q, e)) = Len(q) + 1 /\ Len(q) \in Nat
        /\ Append(q, e)[Len(q) + 1] = e
        /\ \A i \in 1..Len(q) : Append(q, e)[i] = q[i]
    OBVIOUS
  <1>2. \A i \in 1..Len(q) + 1 : i = Len(q) + 1 \/ i \in 1..Len(q) BY <1>1
  <1>3. Len(q) + 1 \in 1..Len(q) + 1 /\ \A i \in 1..Len(q) : i \in 1..Len(q) + 1 BY <1>1
  <1>. QED BY <1>1, <1>2, <1>3 DEF InQueue

LEMMA InPrepend ==
  ASSUME NEW q \in Seq(Entry), NEW e \in Entry, NEW j
  PROVE  InQueue(<<e>> \o q, j) <=> e.job = j \/ InQueue(q, j)
  <1>1. /\ <<e>> \o q \in Seq(Entry) /\ <<e>> \o q # <<>>
        /\ Head(<<e>> \o q) = e /\ Tail(<<e>> \o q) = q
    OBVIOUS
  <1>. QED BY <1>1, InTail

\* What a step of slot w, once it has an entry, does for its job: it goes on working on it, or
\* settles it, or only read its row, or lets go of a job that was not its own to settle.
Keeps(w, pcs) == \E k : Become(w, k) /\ k.entry = worker[w].entry /\ k.pc \in pcs

Lives(w)   == Keeps(w, Ongoing \cup {"taken"})
Settles(w) == Keeps(w, {"done"}) /\ row'[JobOf(w)].status \in Settled
Decides(w) == /\ \E k : /\ Become(w, k) /\ k.entry = worker[w].entry
                        /\ k.pc = "decide" /\ k.job.status = row[JobOf(w)].status
              /\ UNCHANGED row
Leaves(w)  == /\ Keeps(w, {"done"}) \/ Become(w, IdleWorker)
              /\ ~RunsFor(worker[w], JobOf(w))
              /\ UNCHANGED row

OthersKeep(w) == \A j \in Jobs : j # JobOf(w) => row'[j] = row[j]

LEMMA ReturnedShape ==
  ASSUME NEW w \in Workers, Returned(w) PROVE Keeps(w, {"done"})
  <1>. DEFINE k == [IdleWorker EXCEPT !.pc = "done", !.entry = worker[w].entry]
  <1>1. k.pc = "done" /\ k.entry = worker[w].entry BY DEF IdleWorker
  <1>. QED BY <1>1 DEF Keeps, Returned

LEMMA UpdateShape ==
  ASSUME TypeInv, NEW w \in Workers, JobOf(w) \in Jobs, NEW columns, UpdateJob(JobOf(w), columns)
  PROVE  OthersKeep(w) /\ row'[JobOf(w)] = columns
  BY DEF UpdateJob, OthersKeep, TypeInv, TypeOK

LEMMA FailAtShape ==
  ASSUME TypeInv, NEW w \in Workers, worker[w].pc # "idle", NEW step, FailAt(w, step)
  PROVE  Settles(w) /\ OthersKeep(w)
  <1>1. JobOf(w) \in Jobs /\ RowOf(w) \in Row BY SlotFacts
  <1>2. [RowOf(w) EXCEPT !.status = "failed", !.step = step, !.errorStep = step].status \in Settled
    BY <1>1 DEF Row, Settled
  <1>. QED BY <1>1, <1>2, ReturnedShape, UpdateShape DEF FailAt, Settles

LEMMA ContextLives ==
  ASSUME NEW w \in Workers, NEW k, Become(w, k), k.entry = worker[w].entry,
         k.pc \in {"load", "begin", "work", "put", "restore"}
  PROVE  Lives(w)
  BY DEF Lives, Keeps, Ongoing, WorkerPCs

LEMMA MoveShape ==
  ASSUME TypeInv, NEW w \in Workers, worker[w].pc # "idle",
         Advance(w) \/ \E pc \in Ongoing : Goto(w, pc)
  PROVE  Lives(w)
  <1>1. worker[w] \in Worker BY SlotFacts
  <1>2. \A pc : /\ [worker[w] EXCEPT !.pc = pc].pc = pc
                /\ [worker[w] EXCEPT !.pc = pc].entry = worker[w].entry
    BY <1>1 DEF Worker
  <1>. DEFINE k == [worker[w] EXCEPT !.pc = "begin", !.step = Following[worker[w].step]]
  <1>3. k.pc = "begin" /\ k.entry = worker[w].entry BY <1>1 DEF Worker
  <1>. QED BY <1>2, <1>3 DEF Advance, Goto, Lives, Keeps, Ongoing, WorkerPCs

LEMMA WorkerStepShape ==
  ASSUME TypeInv, NEW w \in Workers, WorkerStep(w), ~Take(w)
  PROVE  /\ worker[w].pc # "idle"
         /\ UNCHANGED <<queue, stalled, workerCrashes, request, apiCrashes>>
         /\ OthersKeep(w)
         /\ Lives(w) \/ Settles(w) \/ Decides(w) \/ Leaves(w)
  <1>1. worker[w].pc # "idle" /\ UNCHANGED <<queue, stalled, workerCrashes, request, apiCrashes>>
    BY
    DEF ReadRow, Interrupted, Ignore, Start, LoadForResume, BeginStep, ReadReturn, Extract,
        PutExtraction, NoteExtraction, ReconGate, Generate, ApplyRevision, RejectRevision,
        AbandonRevision, Restore, PutScript, NoteScript, ResolveRevision, LoadScript, Validate,
        Verify, PutVerification, VerifyGate, Tts, Slides, Mux, PutVideo, Ready, StepFails, Complete,
        WorkerStep, WorkerOnly, ApiUnchanged, At
  <1>2. /\ worker[w] \in Worker /\ JobOf(w) \in Jobs /\ RowOf(w) \in Row /\ RowOf(w) = row[JobOf(w)]
    BY <1>1, SlotFacts DEF RowOf
  <1>3. \A step : FailAt(w, step) => Settles(w) /\ OthersKeep(w) BY <1>1, FailAtShape
  <1>4. ASSUME UNCHANGED row PROVE OthersKeep(w) BY <1>4 DEF OthersKeep
  <1>. DEFINE Goal == OthersKeep(w) /\ (Lives(w) \/ Settles(w) \/ Decides(w) \/ Leaves(w))
  <1>. SUFFICES Goal BY <1>1
  <1>5. CASE ReadReturn(w) \/ PutExtraction(w) \/ PutScript(w) \/ PutVideo(w)
              \/ PutVerification(w) \/ AbandonRevision(w)
    BY <1>1, <1>4, <1>5, MoveShape
    DEF ReadReturn, PutExtraction, PutScript, PutVideo, PutVerification, AbandonRevision,
        Ongoing, WorkerPCs
  <1>6. CASE BeginStep(w) \/ NoteExtraction(w) \/ NoteScript(w)
    <2>1. Lives(w)
      BY <1>1, <1>6, MoveShape DEF BeginStep, NoteExtraction, NoteScript, Ongoing, WorkerPCs
    <2>2. OthersKeep(w) BY <1>2, <1>6, UpdateShape DEF BeginStep, NoteExtraction, NoteScript
    <2>. QED BY <2>1, <2>2
  <1>7. CASE ReconGate(w) \/ VerifyGate(w) \/ Mux(w)
    BY <1>1, <1>3, <1>4, <1>7, MoveShape DEF ReconGate, VerifyGate, Mux, Ongoing, WorkerPCs
  <1>8. CASE StepFails(w)
    BY <1>3, <1>8 DEF StepFails
  <1>9. CASE Interrupted(w) \/ Ready(w)
    <2>. DEFINE failed(step) == [RowOf(w) EXCEPT !.status = "failed", !.errorStep = step]
                ready == [RowOf(w) EXCEPT !.status = "needs_review", !.step = "ready",
                                          !.resumeFrom = None]
    <2>0. (\A step : failed(step).status \in Settled) /\ ready.status \in Settled
      BY <1>2 DEF Row, Settled
    <2>1. PICK columns : UpdateJob(JobOf(w), columns) /\ columns.status \in Settled
      BY <1>9, <2>0 DEF Interrupted, Ready
    <2>2. Settles(w) /\ OthersKeep(w)
      BY <1>2, <1>9, <2>1, ReturnedShape, UpdateShape DEF Interrupted, Ready, Settles
    <2>. QED BY <2>2
  <1>10. CASE Restore(w)
    <2>. DEFINE previous == revisions[JobOf(w)][worker[w].revision].previous
                status   == IF previous \in Kept THEN previous ELSE "needs_review"
                step     == IF status = "needs_review" THEN "ready" ELSE worker[w].job.step
                columns  == [RowOf(w) EXCEPT !.status = status, !.step = step, !.resumeFrom = None]
    <2>1. UpdateJob(JobOf(w), columns)
      BY <1>10 DEF Restore
    <2>2. columns.status \in Settled
      BY <1>2 DEF Row, Kept, Settled
    <2>3. Settles(w) /\ OthersKeep(w)
      BY <1>2, <1>10, <2>1, <2>2, ReturnedShape, UpdateShape DEF Restore, Settles
    <2>. QED BY <2>3
  <1>11. CASE Ignore(w) \/ Complete(w)
    <2>1. Leaves(w)
      BY <1>11, ReturnedShape DEF Ignore, Complete, Leaves, RunsFor
    <2>. QED BY <1>4, <1>11, <2>1 DEF Ignore, Complete
  <1>12. CASE ReadRow(w)
    <2>. DEFINE r == row[JobOf(w)]
                k == [worker[w] EXCEPT !.pc = "decide",
                        !.job = [status |-> r.status, step |-> r.step,
                                 resumeFrom |-> r.resumeFrom, exceptions |-> r.exceptions]]
    <2>0. k.pc = "decide" /\ k.entry = worker[w].entry /\ k.job.status = r.status
      BY <1>2 DEF Worker
    <2>1. Decides(w) BY <1>12, <2>0 DEF ReadRow, Decides
    <2>. QED BY <1>4, <1>12, <2>1 DEF ReadRow
  <1>13. CASE Extract(w) \/ Generate(w) \/ ApplyRevision(w) \/ RejectRevision(w)
              \/ ResolveRevision(w) \/ LoadScript(w) \/ Verify(w) \/ Slides(w)
    <2>1. Lives(w)
      <3>1. CASE Extract(w) BY <1>2, <3>1, ContextLives DEF Extract, Worker
      <3>2. CASE Generate(w) BY <1>2, <3>2, ContextLives DEF Generate, Worker
      <3>3. CASE ApplyRevision(w) BY <1>2, <3>3, ContextLives DEF ApplyRevision, Worker
      <3>4. CASE RejectRevision(w) BY <1>2, <3>4, ContextLives DEF RejectRevision, Worker
      <3>5. CASE ResolveRevision(w) BY <1>2, <3>5, ContextLives DEF ResolveRevision, Worker
      <3>6. CASE Verify(w) BY <1>2, <3>6, ContextLives DEF Verify, Worker
      <3>7. CASE Slides(w) BY <1>2, <3>7, ContextLives DEF Slides, Worker
      <3>8. CASE LoadScript(w) BY <1>2, <3>8, ContextLives DEF LoadScript, At, Worker
      <3>. QED BY <1>13, <3>1, <3>2, <3>3, <3>4, <3>5, <3>6, <3>7, <3>8
    <2>2. UNCHANGED row
      BY <1>13 DEF Extract, Generate, ApplyRevision, RejectRevision, ResolveRevision, LoadScript,
                      Verify, Slides
    <2>. QED BY <1>4, <2>1, <2>2
  <1>14. CASE LoadForResume(w) \/ Start(w) \/ Validate(w) \/ Tts(w)
    <2>1. CASE \E step : FailAt(w, step) BY <1>3, <2>1
    <2>2. CASE ~\E step : FailAt(w, step)
      <3>1. Lives(w)
        <4>1. CASE LoadForResume(w)
          BY <1>2, <2>2, <4>1, ContextLives DEF LoadForResume, Worker
        <4>2. CASE Start(w) BY <1>2, <4>2, ContextLives DEF Start, Worker
        <4>3. CASE Validate(w) BY <1>2, <2>2, <4>3, ContextLives DEF Validate, Worker
        <4>4. CASE Tts(w) BY <1>2, <2>2, <4>4, ContextLives DEF Tts, Worker
        <4>. QED BY <1>14, <4>1, <4>2, <4>3, <4>4
      <3>2. OthersKeep(w)
        BY <1>2, <1>4, <1>14, <2>2, UpdateShape DEF LoadForResume, Start, Validate, Tts
      <3>. QED BY <3>1, <3>2
    <2>. QED BY <2>1, <2>2
  <1>. QED BY <1>5, <1>6, <1>7, <1>8, <1>9, <1>10, <1>11, <1>12, <1>13, <1>14 DEF WorkerStep

LEMMA OwnedNext ==
  ASSUME NEW j,
         \/ InQueue(queue', j) \/ InQueue(stalled', j)
         \/ \E w \in Workers : RunsFor(worker'[w], j)
         \/ \E r \in Requests : request'[r].pc = "enqueue" /\ request'[r].job = j
  PROVE  Owned(j)'
  BY DEF Owned, InQueue, RunsFor, Target

\* What keeps the claim: every job unsettled afterwards is owned afterwards.
LEMMA OrphanFree ==
  ASSUME ASSUME apiCrashes' = 0, workerCrashes' <= MaxStalled, NEW j \in Jobs, Unsettled(j)'
         PROVE  Owned(j)'
  PROVE  NoOrphanedJob'
  BY DEF NoOrphanedJob

LEMMA WorkerStepOwnership ==
  ASSUME TypeInv, OwnershipInv, NEW w \in Workers, WorkerStep(w), ~Take(w)
  PROVE  OwnershipInv'
  <1>1. /\ worker[w].pc # "idle"
        /\ UNCHANGED <<queue, stalled, workerCrashes, request, apiCrashes>>
        /\ OthersKeep(w)
        /\ Lives(w) \/ Settles(w) \/ Decides(w) \/ Leaves(w)
    BY WorkerStepShape
  <1>2. JobOf(w) \in Jobs /\ row[JobOf(w)] \in Row BY <1>1, SlotFacts
  <1>3. worker \in [Workers -> Slot] BY DEF TypeInv
  <1>4. \A x \in Workers : x # w => worker'[x] = worker[x]
    BY <1>1, <1>3 DEF Lives, Settles, Decides, Leaves, Keeps, Become
  <1>5. worker'[w].pc = "idle" \/ worker'[w].entry = worker[w].entry
    BY <1>1, <1>3 DEF Lives, Settles, Decides, Leaves, Keeps, Become, IdleWorker
  <1>6. StallsBounded' BY <1>1, <1>4, <1>5 DEF OwnershipInv, StallsBounded
  <1>7. NoOrphanedJob'
    <2>. SUFFICES ASSUME apiCrashes' = 0, workerCrashes' <= MaxStalled, NEW j \in Jobs,
                         Unsettled(j)'
                  PROVE  Owned(j)'
      BY OrphanFree
    <2>1. ASSUME Unsettled(j), ~RunsFor(worker[w], j) PROVE Owned(j)'
      <3>1. Owned(j) BY <1>1, <2>1 DEF OwnershipInv, NoOrphanedJob
      <3>. QED BY <1>1, <1>4, <2>1, <3>1, OwnedIs, OwnedNext DEF Target
    <2>2. CASE j # JobOf(w)
      BY <1>1, <2>1, <2>2 DEF OthersKeep, Unsettled, RunsFor, JobOf
    <2>3. CASE j = JobOf(w) /\ Lives(w)
      <3>1. RunsFor(worker'[w], j)
        BY <1>3, <2>3 DEF Lives, Keeps, Become, RunsFor, JobOf, Ongoing, WorkerPCs
      <3>. QED BY <3>1, OwnedNext
    <2>4. CASE j = JobOf(w) /\ Settles(w) BY <2>4 DEF Settles, Unsettled, Settled
    <2>5. CASE j = JobOf(w) /\ Decides(w)
      <3>1. RunsFor(worker'[w], j)
        BY <1>3, <2>5 DEF Decides, Become, RunsFor, JobOf, Unsettled, Settled
      <3>. QED BY <3>1, OwnedNext
    <2>6. CASE j = JobOf(w) /\ Leaves(w) BY <2>1, <2>6 DEF Leaves, Unsettled
    <2>. QED BY <1>1, <2>2, <2>3, <2>4, <2>5, <2>6
  <1>. QED BY <1>6, <1>7 DEF OwnershipInv

LEMMA TakeOwnership ==
  ASSUME TypeInv, OwnershipInv, NEW w \in Workers, Take(w) PROVE OwnershipInv'
  <1>. DEFINE k == [IdleWorker EXCEPT !.pc = "taken", !.entry = Head(queue)]
  <1>1. k.pc = "taken" /\ k.entry = Head(queue) BY DEF IdleWorker
  <1>2. /\ queue \in Seq(Survived(workerCrashes)) /\ queue \in Seq(Entry) /\ queue # <<>>
        /\ Head(queue) \in Survived(workerCrashes) /\ queue' \in Seq(Survived(workerCrashes))
        /\ UNCHANGED <<row, stalled, request, workerCrashes, apiCrashes>>
    BY DEF OwnershipInv, StallsBounded, Take, ApiUnchanged, TypeInv, TypeOK
  <1>3. worker' = [worker EXCEPT ![w] = k] /\ worker \in [Workers -> Slot] /\ worker[w].pc = "idle"
    BY DEF Take, Become, TypeInv
  <1>4. StallsBounded' BY <1>1, <1>2, <1>3 DEF OwnershipInv, StallsBounded
  <1>5. NoOrphanedJob'
    <2>. SUFFICES ASSUME apiCrashes' = 0, workerCrashes' <= MaxStalled, NEW j \in Jobs,
                         Unsettled(j)'
                  PROVE  Owned(j)'
      BY OrphanFree
    <2>1. Owned(j) BY <1>2 DEF OwnershipInv, NoOrphanedJob, Unsettled
    <2>2. CASE InQueue(queue, j)
      <3>1. CASE Head(queue).job = j
        <4>1. RunsFor(worker'[w], j) BY <1>1, <1>3, <3>1 DEF RunsFor
        <4>. QED BY <4>1, OwnedNext
      <3>2. CASE InQueue(Tail(queue), j) BY <3>2, OwnedNext DEF Take
      <3>. QED BY <1>2, <2>2, <3>1, <3>2, InTail
    <2>3. CASE \E x \in Workers : RunsFor(worker[x], j)
      <3>1. PICK x \in Workers : RunsFor(worker[x], j) BY <2>3
      <3>2. x # w BY <1>3, <3>1 DEF RunsFor
      <3>3. RunsFor(worker'[x], j) BY <1>3, <3>1, <3>2
      <3>. QED BY <3>3, OwnedNext
    <2>4. CASE InQueue(stalled, j) \/ \E r \in Requests : request[r].pc = "enqueue" /\ Target(r) = j
      BY <1>2, <2>4, OwnedNext DEF Target
    <2>. QED BY <2>1, <2>2, <2>3, <2>4, OwnedIs
  <1>. QED BY <1>4, <1>5 DEF OwnershipInv

LEMMA WorkerCrashOwnership ==
  ASSUME TypeInv, OwnershipInv, NEW w \in Workers, WorkerCrash(w) PROVE OwnershipInv'
  <1>. DEFINE n == workerCrashes
              e == worker[w].entry
  <1>1. /\ n \in Nat /\ workerCrashes' = n + 1 /\ worker[w].pc # "idle"
        /\ stalled' = Append(stalled, e)
        /\ worker' = [worker EXCEPT ![w] = IdleWorker] /\ worker \in [Workers -> Slot]
        /\ UNCHANGED <<row, queue, request, apiCrashes>>
    BY DEF WorkerCrash, ApiUnchanged, Become, TypeInv, TypeOK
  <1>2. e \in Survived(n) /\ queue \in Seq(Survived(n)) /\ stalled \in Seq(LostBy(n))
    BY <1>1 DEF OwnershipInv, StallsBounded
  <1>3. /\ Survived(n) \subseteq Survived(n + 1) /\ LostBy(n) \subseteq LostBy(n + 1)
        /\ Survived(n) \subseteq LostBy(n + 1)
    BY <1>1 DEF Survived, LostBy, Entry
  <1>4. queue \in Seq(Survived(n + 1)) BY <1>2, <1>3
  <1>5. stalled \in Seq(LostBy(n + 1)) BY <1>2, <1>3
  <1>6. Append(stalled, e) \in Seq(LostBy(n + 1)) BY <1>2, <1>3, <1>5
  <1>7. \A x \in Workers : worker'[x].pc # "idle" => worker'[x].entry \in Survived(n + 1)
    BY <1>1, <1>3 DEF OwnershipInv, StallsBounded, IdleWorker
  <1>8. StallsBounded' BY <1>1, <1>4, <1>6, <1>7 DEF StallsBounded
  <1>9. NoOrphanedJob'
    <2>. SUFFICES ASSUME apiCrashes' = 0, workerCrashes' <= MaxStalled, NEW j \in Jobs,
                         Unsettled(j)'
                  PROVE  Owned(j)'
      BY OrphanFree
    <2>1. Owned(j)
      <3>1. workerCrashes <= MaxStalled BY <1>1, ConstantsAssumption
      <3>. QED BY <1>1, <3>1 DEF OwnershipInv, NoOrphanedJob, Unsettled
    <2>2. \A i : InQueue(stalled', i) <=> e.job = i \/ InQueue(stalled, i)
      BY <1>1, <1>2, InAppend DEF Survived, TypeInv, TypeOK
    <2>3. CASE \E x \in Workers : RunsFor(worker[x], j)
      <3>1. PICK x \in Workers : RunsFor(worker[x], j) BY <2>3
      <3>2. CASE x = w BY <2>2, <3>1, <3>2, OwnedNext DEF RunsFor
      <3>3. CASE x # w
        <4>1. RunsFor(worker'[x], j) BY <1>1, <3>1, <3>3
        <4>. QED BY <4>1, OwnedNext
      <3>. QED BY <3>2, <3>3
    <2>4. CASE \/ InQueue(queue, j) \/ InQueue(stalled, j)
               \/ \E r \in Requests : request[r].pc = "enqueue" /\ Target(r) = j
      BY <1>1, <2>2, <2>4, OwnedNext DEF Target
    <2>. QED BY <2>1, <2>3, <2>4, OwnedIs
  <1>. QED BY <1>8, <1>9 DEF OwnershipInv

\* Within the stall limit a stalled entry always goes back to the queue.
LEMMA RedeliverOwnership ==
  ASSUME TypeInv, OwnershipInv, Redeliver PROVE OwnershipInv'
  <1>. DEFINE n == workerCrashes
              e == Head(stalled)
              again == [e EXCEPT !.stalls = @ + 1]
  <1>1. /\ n \in Nat /\ stalled \in Seq(LostBy(n)) /\ stalled # <<>> /\ stalled' = Tail(stalled)
        /\ stalled \in Seq(Entry) /\ queue \in Seq(Survived(n)) /\ queue \in Seq(Entry)
        /\ UNCHANGED <<row, worker, workerCrashes, request, apiCrashes>>
    BY DEF Redeliver, ApiUnchanged, OwnershipInv, StallsBounded, TypeInv, TypeOK
  <1>2. e \in Entry /\ e.stalls < n BY <1>1 DEF LostBy
  <1>3. again \in Survived(n) /\ again \in Entry /\ again.job = e.job
    <2>1. again \in Entry /\ again.job = e.job /\ again.stalls = e.stalls + 1
      BY <1>2 DEF Entry
    <2>2. e.stalls \in Nat BY <1>2 DEF Entry
    <2>3. again.stalls <= n BY <1>1, <1>2, <2>1, <2>2
    <2>. QED BY <2>1, <2>3 DEF Survived
  <1>4. queue' = <<again>> \o queue \/ (queue' = queue /\ ~(e.stalls < MaxStalled))
    BY DEF Redeliver
  <1>5. StallsBounded'
    <2>1. \A S : queue \in Seq(S) /\ again \in S => <<again>> \o queue \in Seq(S) OBVIOUS
    <2>2. queue' \in Seq(Survived(n)) BY <1>1, <1>3, <1>4, <2>1
    <2>. QED BY <1>1, <2>2 DEF OwnershipInv, StallsBounded
  <1>6. NoOrphanedJob'
    <2>. SUFFICES ASSUME apiCrashes' = 0, workerCrashes' <= MaxStalled, NEW j \in Jobs,
                         Unsettled(j)'
                  PROVE  Owned(j)'
      BY OrphanFree
    <2>1. Owned(j) BY <1>1 DEF OwnershipInv, NoOrphanedJob, Unsettled
    <2>2. queue' = <<again>> \o queue
      <3>1. e.stalls \in Nat /\ n \in Nat /\ n <= MaxStalled /\ MaxStalled \in Nat
        BY <1>1, <1>2, ConstantsAssumption DEF Entry
      <3>. QED BY <1>2, <1>4, <3>1
    <2>3. InQueue(queue', j) <=> e.job = j \/ InQueue(queue, j) BY <1>1, <1>3, <2>2, InPrepend
    <2>4. InQueue(stalled, j) <=> e.job = j \/ InQueue(stalled', j) BY <1>1, InTail
    <2>. QED BY <1>1, <2>1, <2>3, <2>4, OwnedIs, OwnedNext DEF Target
  <1>. QED BY <1>5, <1>6 DEF OwnershipInv

LEMMA EnqueueOwnership ==
  ASSUME TypeInv, OwnershipInv, NEW r \in Requests, Enqueue(r) PROVE OwnershipInv'
  <1>. DEFINE e == [job |-> Target(r), stalls |-> 0]
  <1>1. /\ queue' = Append(queue, e) /\ request' = [request EXCEPT ![r] = IdleRequest]
        /\ request[r].pc = "enqueue" /\ queue \in Seq(Entry) /\ request \in [Requests -> Handler]
        /\ UNCHANGED <<row, stalled, worker, workerCrashes, apiCrashes>>
    BY DEF Enqueue, Answered, Proceed, ApiOnly, WorkerUnchanged, TypeInv, TypeOK
  <1>2. Target(r) \in Jobs BY <1>1, RequestFacts
  <1>3. e \in Entry /\ e \in Survived(workerCrashes)
    BY <1>2 DEF Entry, Survived, TypeInv, TypeOK
  <1>4. StallsBounded' BY <1>1, <1>3 DEF OwnershipInv, StallsBounded
  <1>5. NoOrphanedJob'
    <2>. SUFFICES ASSUME apiCrashes' = 0, workerCrashes' <= MaxStalled, NEW j \in Jobs,
                         Unsettled(j)'
                  PROVE  Owned(j)'
      BY OrphanFree
    <2>1. Owned(j) BY <1>1 DEF OwnershipInv, NoOrphanedJob, Unsettled
    <2>2. InQueue(queue', j) <=> Target(r) = j \/ InQueue(queue, j) BY <1>1, <1>3, InAppend
    <2>3. CASE \E x \in Requests : request[x].pc = "enqueue" /\ Target(x) = j
      <3>1. PICK x \in Requests : request[x].pc = "enqueue" /\ Target(x) = j BY <2>3
      <3>2. CASE x = r BY <2>2, <3>1, <3>2, OwnedNext
      <3>3. CASE x # r
        <4>1. request'[x].pc = "enqueue" /\ request'[x].job = j BY <1>1, <3>1, <3>3 DEF Target
        <4>. QED BY <4>1, OwnedNext
      <3>. QED BY <3>2, <3>3
    <2>. QED BY <1>1, <2>1, <2>2, <2>3, OwnedIs, OwnedNext
  <1>. QED BY <1>4, <1>5 DEF OwnershipInv

\* Every other step of a handler: statuses stay or settle, except that requeue() announces its
\* enqueue in the very step that queues the row.
LEMMA RequestStepShape ==
  ASSUME TypeInv, NEW r \in Requests, RequestStep(r), ~Enqueue(r)
  PROVE  /\ request[r].pc # "enqueue"
         /\ UNCHANGED <<queue, stalled, worker, workerCrashes, apiCrashes>>
         /\ \E q : Proceed(r, q)
         /\ \A j \in Jobs : \/ row'[j].status \in Settled \cup {row[j].status}
                            \/ request'[r].pc = "enqueue" /\ request'[r].job = j
  <1>1. /\ request[r].pc \notin {"idle", "enqueue"}
        /\ UNCHANGED <<queue, stalled, worker, workerCrashes, apiCrashes>>
    BY DEF RequestStep, ChooseRerender, CheckPending, InsertRevision, ValidateEdit, DropScript,
           SaveScript, NoteEdit, SetOverride, RemoveOverride, CheckKnown, WriteExceptions,
           CheckScript, CheckExtraction, CheckVideo, CheckVerification, PassCheck, Approve, Reject,
           Release, Requeue, ApiOnly, WorkerUnchanged
  <1>2. \E q : Proceed(r, q)
    BY DEF RequestStep, ChooseRerender, CheckPending, InsertRevision, ValidateEdit, DropScript,
           SaveScript, NoteEdit, SetOverride, RemoveOverride, CheckKnown, WriteExceptions,
           CheckScript, CheckExtraction, CheckVideo, CheckVerification, PassCheck, Approve, Reject,
           Release, Requeue, Continue, Answered, ContinueRequeue
  <1>3. /\ request[r] \in Request /\ Target(r) \in Jobs /\ row[Target(r)] \in Row
        /\ row \in [Jobs -> Row]
    BY <1>1, RequestFacts DEF TypeInv, TypeOK
  <1>4. ASSUME NEW columns, UpdateJob(Target(r), columns),
               columns.status \in Settled \cup {row[Target(r)].status}
        PROVE  \A j \in Jobs : row'[j].status \in Settled \cup {row[j].status}
    BY <1>3, <1>4 DEF UpdateJob
  <1>5. CASE UNCHANGED row BY <1>1, <1>2, <1>5
  <1>6. CASE NoteEdit(r) \/ SetOverride(r) \/ RemoveOverride(r) \/ WriteExceptions(r)
    <2>. DEFINE old == row[Target(r)]
    <2>1. /\ \A s : [old EXCEPT !.script = s].status = old.status
          /\ \A b : [old EXCEPT !.overridden = b].status = old.status
          /\ \A x : [old EXCEPT !.exceptions = x].status = old.status
      BY <1>3 DEF Row
    <2>2. (\E columns : UpdateJob(Target(r), columns) /\ columns.status = old.status)
            \/ UNCHANGED row
      BY <1>6, <2>1 DEF NoteEdit, SetOverride, RemoveOverride, WriteExceptions
    <2>. QED BY <1>1, <1>2, <1>4, <1>5, <2>2
  <1>7. CASE Approve(r) \/ Reject(r) \/ Release(r)
    <2>. DEFINE old == row[Target(r)]
    <2>1. /\ \A s, e : [old EXCEPT !.status = "approved", !.approvedScript = s,
                                   !.approvedExtraction = e].status = "approved"
          /\ \A x : [old EXCEPT !.status = x].status = x
      BY <1>3 DEF Row
    <2>2. \E columns : UpdateJob(Target(r), columns) /\ columns.status \in Settled
      <3>1. CASE Approve(r)
        <4>. DEFINE c == [old EXCEPT !.status = "approved", !.approvedScript = request[r].script,
                                     !.approvedExtraction = request[r].extraction]
        <4>1. UpdateJob(Target(r), c) BY <3>1 DEF Approve
        <4>2. c.status \in Settled BY <2>1 DEF Settled
        <4>. QED BY <4>1, <4>2
      <3>2. CASE Reject(r) BY <2>1, <3>2 DEF Reject, Settled
      <3>3. CASE Release(r) BY <2>1, <3>3 DEF Release, Settled
      <3>. QED BY <1>7, <3>1, <3>2, <3>3
    <2>. QED BY <1>1, <1>2, <1>4, <2>2
  <1>8. CASE Requeue(r)
    <2>1. request'[r].pc = "enqueue" /\ request'[r].job = Target(r)
      BY <1>3, <1>8 DEF Requeue, Proceed, Request, Target, TypeInv, TypeOK
    <2>2. \A j \in Jobs : j # Target(r) => row'[j] = row[j]
      BY <1>3, <1>8 DEF Requeue, UpdateJob
    <2>. QED BY <1>1, <1>2, <2>1, <2>2
  <1>. QED BY <1>5, <1>6, <1>7, <1>8
           DEF RequestStep, ChooseRerender, CheckPending, InsertRevision, ValidateEdit, DropScript,
               SaveScript, CheckKnown, CheckScript, CheckExtraction, CheckVideo, CheckVerification,
               PassCheck

LEMMA RequestStepOwnership ==
  ASSUME TypeInv, OwnershipInv, NEW r \in Requests, RequestStep(r), ~Enqueue(r)
  PROVE  OwnershipInv'
  <1>1. /\ request[r].pc # "enqueue"
        /\ UNCHANGED <<queue, stalled, worker, workerCrashes, apiCrashes>>
        /\ \A j \in Jobs : \/ row'[j].status \in Settled \cup {row[j].status}
                           \/ request'[r].pc = "enqueue" /\ request'[r].job = j
    BY RequestStepShape
  <1>2. \A x \in Requests : x # r => request'[x] = request[x]
    BY RequestStepShape DEF Proceed, TypeInv, TypeOK
  <1>3. StallsBounded' BY <1>1 DEF OwnershipInv, StallsBounded
  <1>4. NoOrphanedJob'
    <2>. SUFFICES ASSUME apiCrashes' = 0, workerCrashes' <= MaxStalled, NEW j \in Jobs,
                         Unsettled(j)'
                  PROVE  Owned(j)'
      BY OrphanFree
    <2>1. CASE request'[r].pc = "enqueue" /\ request'[r].job = j BY <2>1, OwnedNext
    <2>2. CASE row'[j].status \in Settled \cup {row[j].status}
      <3>1. Unsettled(j) BY <2>2 DEF Unsettled, Settled
      <3>2. Owned(j) BY <1>1, <3>1 DEF OwnershipInv, NoOrphanedJob
      <3>. QED BY <1>1, <1>2, <3>2, OwnedIs, OwnedNext DEF Target
    <2>. QED BY <1>1, <2>1, <2>2
  <1>. QED BY <1>3, <1>4 DEF OwnershipInv

LEMMA AcceptAnyOwnership ==
  ASSUME TypeInv, OwnershipInv, NEW r \in Requests, NEW j \in Jobs, AcceptAny(r, j)
  PROVE  OwnershipInv'
  <1>1. \E read : Accept(r, j, read)
    BY DEF AcceptAny, AcceptRetry, AcceptRegenerate, AcceptReExtract, AcceptOverride, AcceptRemoval,
           AcceptException, AcceptRerender, AcceptRevise, AcceptEdit, AcceptApprove, AcceptReject,
           AcceptRelease
  <1>2. /\ request[r].pc = "idle" /\ \A x \in Requests : x # r => request'[x] = request[x]
        /\ UNCHANGED <<row, queue, stalled, worker, workerCrashes, apiCrashes>>
    BY <1>1 DEF Accept, Proceed, WorkerUnchanged, TypeInv, TypeOK
  <1>3. StallsBounded' BY <1>2 DEF OwnershipInv, StallsBounded
  <1>4. NoOrphanedJob'
    <2>. SUFFICES ASSUME apiCrashes' = 0, workerCrashes' <= MaxStalled, NEW i \in Jobs,
                         Unsettled(i)'
                  PROVE  Owned(i)'
      BY OrphanFree
    <2>1. Owned(i) BY <1>2 DEF OwnershipInv, NoOrphanedJob, Unsettled
    <2>. QED BY <1>2, <2>1, OwnedIs, OwnedNext DEF Target
  <1>. QED BY <1>3, <1>4 DEF OwnershipInv

LEMMA ApiCrashOwnership ==
  ASSUME TypeInv, OwnershipInv, NEW r \in Requests, ApiCrash(r) PROVE OwnershipInv'
  <1>1. apiCrashes \in Nat BY ConstantsAssumption DEF TypeInv, TypeOK
  <1>2. NoOrphanedJob' BY <1>1 DEF NoOrphanedJob, ApiCrash
  <1>3. StallsBounded' BY DEF ApiCrash, WorkerUnchanged, OwnershipInv, StallsBounded
  <1>. QED BY <1>2, <1>3 DEF OwnershipInv

LEMMA InitOwnership == Init => OwnershipInv
  <1>. SUFFICES ASSUME Init PROVE OwnershipInv OBVIOUS
  <1>. DEFINE N == Cardinality(Jobs)
  <1>1. PICK order \in [1..N -> Jobs] :
          /\ \A j \in Jobs : \E i \in 1..N : order[i] = j
          /\ queue = [i \in 1..N |-> [job |-> order[i], stalls |-> 0]]
    BY DEF Init
  <1>2. N \in Nat BY ConstantsAssumption, FS_CardinalityType
  <1>3. \A i \in 1..N : [job |-> order[i], stalls |-> 0] \in Survived(0)
    BY <1>1 DEF Survived, Entry
  <1>4. queue \in Seq(Survived(0)) /\ Len(queue) = N BY <1>1, <1>2, <1>3
  <1>5. StallsBounded BY <1>4 DEF Init, StallsBounded, IdleWorker
  <1>6. ASSUME NEW j \in Jobs PROVE Owned(j)
    <2>1. PICK i \in 1..N : order[i] = j BY <1>1
    <2>2. queue[i].job = j BY <1>1, <2>1
    <2>. QED BY <1>4, <2>1, <2>2 DEF Owned
  <1>. QED BY <1>5, <1>6 DEF OwnershipInv, NoOrphanedJob

(***************************************************************************)
(* No job shown as queued or processing is ever left with nothing that     *)
(* will move it on, for any number of jobs, slots and requests, as long as *)
(* the API process does not die and the worker dies at most as often as    *)
(* BullMQ tolerates.                                                       *)
(***************************************************************************)
THEOREM NothingOrphaned == Spec => []NoOrphanedJob
  <1>1. TypeInv /\ OwnershipInv /\ [Next]_vars => OwnershipInv'
    <2>. SUFFICES ASSUME TypeInv, OwnershipInv, [Next]_vars PROVE OwnershipInv' OBVIOUS
    <2>1. CASE Next
      BY <2>1, WorkerStepOwnership, TakeOwnership, WorkerCrashOwnership, RedeliverOwnership,
         AcceptAnyOwnership, RequestStepOwnership, EnqueueOwnership, ApiCrashOwnership DEF Next
    <2>2. CASE UNCHANGED vars
      BY <2>2 DEF vars, OwnershipInv, StallsBounded, NoOrphanedJob, Unsettled, Owned, Target, JobOf
    <2>. QED BY <2>1, <2>2
  <1>2. OwnershipInv => NoOrphanedJob BY DEF OwnershipInv
  <1>. QED BY <1>1, <1>2, InitOwnership, InitType, NextType, PTL DEF Spec
-----------------------------------------------------------------------------
(* Released jobs. *)

\* A step of a slot that does not run job j: the job keeps its row and its artifacts, and if it
\* is settled the slot does not run it afterwards either.
LEMMA SlotElsewhere ==
  ASSUME TypeInv, NEW w \in Workers, WorkerStep(w), NEW j \in Jobs, ~Runs(w, j)
  PROVE  /\ row'[j] = row[j] /\ files'[j] = files[j] /\ UNCHANGED request
         /\ row[j].status \in Settled => ~Runs(w, j)'
         /\ \A v \in Workers : v # w => worker'[v] = worker[v]
  <1>0. worker \in [Workers -> Slot] BY DEF TypeInv
  <1>1. CASE Take(w)
    <2>1. worker'[w].pc = "taken" BY <1>0, <1>1 DEF Take, Become, IdleWorker
    <2>. QED BY <1>0, <1>1, <2>1 DEF Take, Become, ApiUnchanged, Runs
  <1>2. CASE ReadRow(w)
    <2>1. worker[w] \in Worker BY <1>2, SlotFacts DEF ReadRow
    <2>2. /\ worker'[w].pc = "decide" /\ worker'[w].entry = worker[w].entry
          /\ worker'[w].job.status = row[JobOf(w)].status
      BY <1>0, <1>2, <2>1 DEF ReadRow, Become, Worker
    <2>. QED BY <1>0, <1>2, <2>2 DEF ReadRow, Become, WorkerOnly, ApiUnchanged, Runs, JobOf
  <1>3. CASE Ignore(w) \/ Complete(w)
    <2>1. worker'[w].pc \in {"done", "idle"}
      <3>1. CASE Ignore(w)
        BY <1>0, <3>1, ReturnedShape DEF Ignore, Keeps, Become
      <3>2. CASE Complete(w) BY <1>0, <3>2 DEF Complete, Become, IdleWorker
      <3>. QED BY <1>3, <3>1, <3>2
    <2>. QED BY <1>0, <1>3, <2>1
             DEF Ignore, Complete, Returned, Become, WorkerOnly, ApiUnchanged, Runs
  <1>4. CASE ~(Take(w) \/ ReadRow(w) \/ Ignore(w) \/ Complete(w))
    <2>1. /\ worker[w].pc \notin {"idle", "taken", "done"}
          /\ worker[w].pc = "decide" => worker[w].job.status \notin Settled
      BY <1>4
      DEF WorkerStep, Interrupted, Start, LoadForResume, BeginStep, ReadReturn, Extract,
          PutExtraction, NoteExtraction, ReconGate, Generate, ApplyRevision, RejectRevision,
          AbandonRevision, Restore, PutScript, NoteScript, ResolveRevision, LoadScript, Validate,
          Verify, PutVerification, VerifyGate, Tts, Slides, Mux, PutVideo, Ready, StepFails, At,
          Settled
    <2>2. JobOf(w) # j BY <2>1 DEF Runs, JobOf
    <2>3. /\ OthersKeep(w) /\ UNCHANGED request
          /\ Lives(w) \/ Settles(w) \/ Decides(w) \/ Leaves(w)
      BY <1>4, WorkerStepShape
    <2>4. ~RunsFor(worker[w], JobOf(w)) => FALSE BY <2>1 DEF RunsFor, JobOf
    <2>5. \E k : Become(w, k) /\ k.entry = worker[w].entry
      BY <2>3, <2>4 DEF Lives, Settles, Decides, Leaves, Keeps
    <2>6. worker'[w].entry.job # j /\ \A v \in Workers : v # w => worker'[v] = worker[v]
      BY <1>0, <2>2, <2>5 DEF Become, JobOf
    <2>7. files'[j] = files[j]
      BY <1>4, <2>2
      DEF WorkerStep, Interrupted, Start, LoadForResume, BeginStep, ReadReturn, Extract,
          PutExtraction, NoteExtraction, ReconGate, Generate, ApplyRevision, RejectRevision,
          AbandonRevision, Restore, PutScript, NoteScript, ResolveRevision, LoadScript, Validate,
          Verify, PutVerification, VerifyGate, Tts, Slides, Mux, PutVideo, Ready, StepFails,
          TypeInv, TypeOK
    <2>. QED BY <2>2, <2>3, <2>6, <2>7 DEF OthersKeep, Runs
  <1>. QED BY <1>1, <1>2, <1>3, <1>4

\* A handler writes the row and the artifacts of its own job, and goes on with that job or is done.
LEMMA RequestElsewhere ==
  ASSUME TypeInv, NEW r \in Requests, RequestStep(r), NEW j \in Jobs, Target(r) # j
  PROVE  /\ row'[j] = row[j] /\ files'[j] = files[j] /\ UNCHANGED worker
         /\ \A x \in Requests : request[x].job # j => request'[x].job # j
  <1>1. request[r].pc # "idle" /\ UNCHANGED worker
    BY DEF RequestStep, ChooseRerender, CheckPending, InsertRevision, ValidateEdit, DropScript,
           SaveScript, NoteEdit, SetOverride, RemoveOverride, CheckKnown, WriteExceptions,
           CheckScript, CheckExtraction, CheckVideo, CheckVerification, PassCheck, Approve, Reject,
           Release, Requeue, Enqueue, ApiOnly, WorkerUnchanged
  <1>2. /\ request[r] \in Request /\ Target(r) \in Jobs /\ request \in [Requests -> Handler]
    BY <1>1, RequestFacts DEF TypeInv
  <1>3. row'[j] = row[j] /\ files'[j] = files[j]
    BY <1>2
    DEF RequestStep, ChooseRerender, CheckPending, InsertRevision, ValidateEdit, DropScript,
        SaveScript, NoteEdit, SetOverride, RemoveOverride, CheckKnown, WriteExceptions, CheckScript,
        CheckExtraction, CheckVideo, CheckVerification, PassCheck, Approve, Reject, Release,
        Requeue, Enqueue, UpdateJob, TypeInv, TypeOK
  <1>4. \E q : Proceed(r, q) /\ q.job \in {None, Target(r)}
    <2>1. \A pc : [request[r] EXCEPT !.pc = pc].job = Target(r) BY <1>2 DEF Request, Target
    <2>2. \A step : [RequeueFrom(step) EXCEPT !.job = Target(r)].job = Target(r)
      BY DEF RequeueFrom, IdleRequest
    <2>3. \A s : [request[r] EXCEPT !.pc = "drop", !.script = s].job = Target(r)
      BY <1>2 DEF Request, Target
    <2>4. [request[r] EXCEPT !.pc = "enqueue", !.from = None].job = Target(r)
      BY <1>2 DEF Request, Target
    <2>5. IdleRequest.job = None BY DEF IdleRequest
    <2>6. CASE (\E pc : Continue(r, pc)) \/ Answered(r) \/ (\E s : ContinueRequeue(r, s))
      BY <2>1, <2>2, <2>5, <2>6 DEF Continue, Answered, ContinueRequeue
    <2>7. CASE ValidateEdit(r) BY <2>3, <2>6, <2>7 DEF ValidateEdit
    <2>8. CASE Requeue(r) BY <2>4, <2>8 DEF Requeue
    <2>. QED BY <2>6, <2>7, <2>8
             DEF RequestStep, ChooseRerender, CheckPending, InsertRevision, DropScript, SaveScript,
                 NoteEdit, SetOverride, RemoveOverride, CheckKnown, WriteExceptions, CheckScript,
                 CheckExtraction, CheckVideo, CheckVerification, PassCheck, Approve, Reject,
                 Release, Enqueue
  <1>. QED BY <1>1, <1>2, <1>3, <1>4, NoneAssumption DEF Proceed, Target

\* No operation is accepted on a released job.
LEMMA AcceptElsewhere ==
  ASSUME TypeInv, NEW r \in Requests, NEW i \in Jobs, AcceptAny(r, i), NEW j \in Jobs,
         row[j].status = "released"
  PROVE  /\ UNCHANGED <<row, files, worker>>
         /\ \A x \in Requests : request[x].job # j => request'[x].job # j
  <1>1. PICK read : Accept(r, i, read)
    BY DEF AcceptAny, AcceptRetry, AcceptRegenerate, AcceptReExtract, AcceptOverride, AcceptRemoval,
           AcceptException, AcceptRerender, AcceptRevise, AcceptEdit, AcceptApprove, AcceptReject,
           AcceptRelease
  <1>2. row[i].status # "released"
    BY DEF AcceptAny, AcceptRetry, AcceptRegenerate, AcceptReExtract, AcceptOverride, AcceptRemoval,
           AcceptException, AcceptRerender, AcceptRevise, AcceptEdit, AcceptApprove, AcceptReject,
           AcceptRelease, Blocked, Editable
  <1>3. request \in [Requests -> Handler] /\ IdleRequest \in Request BY IdleSlot DEF TypeInv, Handler
  <1>4. request'[r].job = i
    <2>1. CASE AcceptRetry(r, i) \/ AcceptRegenerate(r, i) \/ AcceptReExtract(r, i)
      <3>1. PICK step : Accept(r, i, RequeueFrom(step))
        BY <2>1 DEF AcceptRetry, AcceptRegenerate, AcceptReExtract
      <3>. QED BY <1>3, <3>1 DEF Accept, Proceed, RequeueFrom, Request
    <2>2. CASE AcceptOverride(r, i)
      <3>1. PICK step : Accept(r, i, [IdleRequest EXCEPT !.pc = "override", !.from = step])
        BY <2>2 DEF AcceptOverride
      <3>. QED BY <1>3, <3>1 DEF Accept, Proceed, Request
    <2>3. CASE AcceptRemoval(r, i) \/ AcceptEdit(r, i) \/ AcceptReject(r, i) \/ AcceptRelease(r, i)
      <3>1. PICK pc : Accept(r, i, [IdleRequest EXCEPT !.pc = pc])
        BY <2>3 DEF AcceptRemoval, AcceptEdit, AcceptReject, AcceptRelease
      <3>. QED BY <1>3, <3>1 DEF Accept, Proceed, Request
    <2>4. CASE AcceptException(r, i)
      BY <1>3, <2>4 DEF AcceptException, Accept, Proceed, Request
    <2>5. CASE AcceptRerender(r, i)
      BY <1>3, <2>5 DEF AcceptRerender, Accept, Proceed, Request
    <2>6. CASE AcceptRevise(r, i)
      BY <1>3, <2>6 DEF AcceptRevise, Accept, Proceed, Request
    <2>7. CASE AcceptApprove(r, i)
      BY <1>3, <2>7 DEF AcceptApprove, Accept, Proceed, Request
    <2>. QED BY <2>1, <2>2, <2>3, <2>4, <2>5, <2>6, <2>7 DEF AcceptAny
  <1>5. \A x \in Requests : x # r => request'[x] = request[x]
    BY <1>1, <1>3 DEF Accept, Proceed
  <1>. QED BY <1>1, <1>2, <1>4, <1>5 DEF Accept, WorkerUnchanged

\* A released job nobody is at work on keeps its row and its artifacts, and nobody starts on it.
LEMMA LeavesReleased ==
  ASSUME TypeInv, [Next]_vars, NEW j \in Jobs, row[j].status = "released", ~Working(j)
  PROVE  row'[j] = row[j] /\ files'[j] = files[j] /\ ~Working(j)'
  <1>1. /\ \A w \in Workers : ~Runs(w, j)
        /\ \A r \in Requests : request[r].job # j
    BY DEF Working, Quiet, Target
  <1>. DEFINE Slots    == \A w \in Workers : ~Runs(w, j)'
              Handlers == \A r \in Requests : request'[r].job # j
              Goal     == row'[j] = row[j] /\ files'[j] = files[j] /\ Slots /\ Handlers
  <1>. SUFFICES Goal BY DEF Working, Quiet, Target
  <1>0. UNCHANGED worker => Slots BY <1>1 DEF Runs
  <1>2. ASSUME NEW w \in Workers, WorkerStep(w) PROVE Goal
    <2>1. /\ row'[j] = row[j] /\ files'[j] = files[j] /\ UNCHANGED request /\ ~Runs(w, j)'
          /\ \A v \in Workers : v # w => worker'[v] = worker[v]
      BY <1>1, <1>2, SlotElsewhere DEF Settled
    <2>. QED BY <1>1, <2>1 DEF Runs
  <1>3. ASSUME NEW w \in Workers, WorkerCrash(w) PROVE Goal
    <2>1. /\ worker'[w].pc = "idle" /\ \A v \in Workers : v # w => worker'[v] = worker[v]
          /\ UNCHANGED <<row, files, request>>
      BY <1>3 DEF WorkerCrash, ApiUnchanged, Become, IdleWorker, TypeInv
    <2>. QED BY <1>1, <2>1 DEF Runs
  <1>4. ASSUME NEW r \in Requests, RequestStep(r) PROVE Goal
    BY <1>0, <1>1, <1>4, RequestElsewhere DEF Target
  <1>5. ASSUME NEW r \in Requests, NEW i \in Jobs, AcceptAny(r, i) PROVE Goal
    BY <1>0, <1>1, <1>5, AcceptElsewhere
  <1>6. ASSUME NEW r \in Requests, ApiCrash(r) PROVE Goal
    <2>1. UNCHANGED <<row, files, worker>> /\ Proceed(r, IdleRequest)
      BY <1>6 DEF ApiCrash, Answered, WorkerUnchanged
    <2>2. IdleRequest.job # j BY NoneAssumption DEF IdleRequest
    <2>. QED BY <1>0, <1>1, <2>1, <2>2 DEF Proceed, TypeInv
  <1>7. CASE Redeliver \/ UNCHANGED vars
    BY <1>0, <1>1, <1>7 DEF Redeliver, ApiUnchanged, vars
  <1>. HIDE DEF Goal
  <1>. QED BY <1>2, <1>3, <1>4, <1>5, <1>6, <1>7 DEF Next

\* A released job that nobody is at work on is done with, whatever is queued or delivered again.
THEOREM ReleaseStays == Spec => ReleasedIsLeft
  <1>1. TypeInv /\ [Next]_vars =>
          [\A j \in Jobs : row[j].status = "released" /\ ~Working(j) =>
             row'[j] = row[j] /\ files'[j] = files[j] /\ ~Working(j)']_vars
    BY LeavesReleased
  <1>. QED BY <1>1, InitType, NextType, PTL DEF Spec, ReleasedIsLeft
=============================================================================

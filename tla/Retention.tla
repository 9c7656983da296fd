----------------------------- MODULE Retention -----------------------------
(***************************************************************************)
(* The retention engine: which files are due, the holds that keep them,    *)
(* and the purge, a run of which collects its candidates first and then    *)
(* shreds them one by one while holds, retries and other runs go on.       *)
(* Sources: services/purge.ts, routes/retention.ts, routes/feedback.ts,    *)
(* routes/clients.ts, services/cron.ts.  Days are counted, not hours.      *)
(***************************************************************************)
EXTENDS Integers, FiniteSets

CONSTANTS
  Jobs, Clients,
  ClientOf,      \* the client of each job
  Kinds,         \* kinds of files that a job of this instance has
  Users,         \* who may leave feedback
  Hourly,        \* the runs that cron starts
  Manual,        \* the runs that administrators start for a job or a client
  None,          \* null
  Windows,       \* the numbers of days a window may be set to
  HoldDays,      \* FEEDBACK_HOLD_DAYS
  Statuses,      \* what a job may be at the start
  MaxDay,        \* bound: the last day
  MaxVersions,   \* bound: times the worker stores a file of a kind
  MaxRetries, MaxChanges, MaxFailures  \* bounds: retries, changes of policy and holds, failed runs

ASSUME RetentionAssumption ==
  /\ ClientOf \in [Jobs -> Clients]
  /\ Kinds \subseteq {"source", "extraction", "video"}
  /\ Windows \subseteq Nat /\ HoldDays \in Nat
  /\ Statuses \subseteq {"queued", "processing", "needs_review", "released", "rejected", "failed"}
  /\ {MaxDay, MaxVersions, MaxRetries, MaxChanges, MaxFailures} \subseteq Nat

ASSUME NullAssumption == None \notin Nat /\ None \notin {"up", "down"}

Runs == Hourly \cup Manual

VARIABLES
  job,        \* the job's row: its status and the days that start its windows
  file,       \* the job's live or purged row of each kind; the worker replaces it by a new version
  blob,       \* the blobs on disk, by job, kind and version
  amounts,    \* the jobs whose override log still has the client's amounts
  feedback,   \* the verdict of each user on each job and until when it holds the files
  dismissing, \* dismissals that have read their row
  hold,       \* the clients under legal hold
  policy,     \* the firm's windows
  override,   \* the clients' own windows
  run,        \* where each run of the purge stands
  sheltered,  \* per run, the holds that have been in force since it began
  day, retries, changes, failures

jobVars == <<job, file, blob>>
holdVars == <<feedback, hold>>
policyVars == <<policy, override>>
counters == <<retries, changes, failures>>
vars == <<job, file, blob, amounts, feedback, dismissing, hold, policy, override,
          run, sheltered, day, retries, changes, failures>>

Days == 0..MaxDay
AllStatuses == Statuses \cup {"queued", "processing", "needs_review", "released", "rejected",
                              "failed", "purged"}
Busy == {"queued", "processing"}
Finished == {"needs_review", "released", "rejected", "failed"}

Files == Jobs \X Kinds \X (0..MaxVersions)
Current(j, k) == <<j, k, file[j][k].version>>
Live(j) == {k \in Kinds : ~file[j][k].purged}

NoFeedback == [verdict |-> None, holdUntil |-> None, dismissed |-> FALSE]
IdleRun == [pc |-> "idle", scope |-> "due", target |-> None, now |-> 0, due |-> {}, todo |-> {},
            file |-> None, touched |-> {}]

\* holds: heldJobIds reads the verdicts, the client's row carries the legal hold.
HeldJobs(at) == {j \in Jobs : \E u \in Users :
                   /\ feedback[u][j].verdict = "down"
                   /\ ~feedback[u][j].dismissed
                   /\ feedback[u][j].holdUntil > at}
OnLegalHold == {j \in Jobs : ClientOf[j] \in hold}
Shelters == ({"legal"} \X OnLegalHold) \cup ({"feedback"} \X HeldJobs(day))

\* effectiveWindows: the client's own window, else the firm's.
Window(j, k) == IF override[ClientOf[j]][k] # None THEN override[ClientOf[j]][k] ELSE policy[k]
Elapsed(since, days) == since # None /\ since + days <= day

\* The source window starts when the job no longer needs the PDF; a job is created on day 0.
SourceAnchor(row) ==
  IF row.readyAt # None THEN row.readyAt ELSE IF row.failedAt # None THEN row.failedAt ELSE 0

\* dueFiles, but for the legal hold and for which rows are live.
Due(j, k) ==
  LET row == job[j] IN
  \/ row.status = "failed" /\ Elapsed(row.failedAt, policy["failed"])
  \/ /\ k = "source"
     /\ row.status \in Finished
     /\ Elapsed(SourceAnchor(row), Window(j, k))
  \/ /\ k # "source"
     /\ row.status = "released"
     /\ Elapsed(row.releasedAt, Window(j, k))

Init ==
  /\ job \in [Jobs -> {[status |-> s,
                        readyAt |-> IF s \in {"needs_review", "released", "rejected"} THEN 0 ELSE None,
                        failedAt |-> IF s = "failed" THEN 0 ELSE None,
                        releasedAt |-> IF s = "released" THEN 0 ELSE None] : s \in Statuses}]
  /\ file = [j \in Jobs |-> [k \in Kinds |-> [version |-> 0, purged |-> FALSE]]]
  /\ blob = {<<j, k, 0>> : j \in Jobs, k \in Kinds}
  /\ amounts = Jobs
  /\ feedback \in [Users -> [Jobs -> {NoFeedback, [verdict |-> "down", holdUntil |-> HoldDays,
                                                   dismissed |-> FALSE]}]]
  /\ dismissing = {}
  /\ hold \in SUBSET Clients
  /\ policy \in {[k \in Kinds \cup {"failed"} |-> w] : w \in Windows}
  /\ override = [c \in Clients |-> [k \in Kinds |-> None]]
  /\ run = [r \in Runs |-> IdleRun]
  /\ sheltered = [r \in Runs |-> {}]
  /\ day = 0 /\ retries = 0 /\ changes = 0 /\ failures = 0

(***************************************************************************)
(* What jobs do meanwhile.  RecapJob has the details.                      *)
(***************************************************************************)

JobOnly == UNCHANGED <<amounts, feedback, dismissing, hold, policy, override, run, sheltered, day,
                       changes, failures>>

\* requeue() of a failed job. The days of its earlier run stay.
Retry(j) ==
  /\ job[j].status = "failed"
  /\ retries < MaxRetries
  /\ job' = [job EXCEPT ![j].status = "queued"]
  /\ retries' = retries + 1
  /\ UNCHANGED <<file, blob>> /\ JobOnly

Work(j) ==
  /\ job[j].status = "queued"
  /\ job' = [job EXCEPT ![j].status = "processing"]
  /\ UNCHANGED <<file, blob, retries>> /\ JobOnly

\* replace_file: shred the old blob, delete its row, put the new blob, insert its row.
Store(j, k) ==
  /\ job[j].status = "processing"
  /\ k # "source"
  /\ file[j][k].version < MaxVersions
  /\ file' = [file EXCEPT ![j][k] = [version |-> @.version + 1, purged |-> FALSE]]
  /\ blob' = (blob \ {Current(j, k)}) \cup {<<j, k, file[j][k].version + 1>>}
  /\ UNCHANGED <<job, retries>> /\ JobOnly

\* A run ends ready for review, or failed: always so when the source is gone.
Finish(j) ==
  /\ job[j].status = "processing"
  /\ \/ /\ ~file[j]["source"].purged
        /\ job' = [job EXCEPT ![j].status = "needs_review", ![j].readyAt = day]
     \/ job' = [job EXCEPT ![j].status = "failed", ![j].failedAt = day]
  /\ UNCHANGED <<file, blob, retries>> /\ JobOnly

\* Review: approved and released, or rejected.
Decide(j) ==
  /\ job[j].status = "needs_review"
  /\ \/ job' = [job EXCEPT ![j].status = "released", ![j].releasedAt = day]
     \/ job' = [job EXCEPT ![j].status = "rejected"]
  /\ UNCHANGED <<file, blob, retries>> /\ JobOnly

(***************************************************************************)
(* Policy and holds.                                                       *)
(***************************************************************************)

\* A hold that is lifted, by whomever, no longer shelters anything from any run.
Shelter == sheltered' = [r \in Runs |-> sheltered[r] \cap Shelters']
Change == changes < MaxChanges /\ changes' = changes + 1

\* PUT /api/settings/retention, one setting at a time as the handler writes them.
SetWindow(k) ==
  /\ Change
  /\ \E w \in Windows : policy' = [policy EXCEPT ![k] = w]
  /\ UNCHANGED <<jobVars, amounts, holdVars, dismissing, override, run, sheltered, day, retries, failures>>

\* PATCH /api/clients/:id by an administrator.
SetOverride(c, k) ==
  /\ Change
  /\ \E w \in Windows \cup {None} : override' = [override EXCEPT ![c][k] = w]
  /\ UNCHANGED <<jobVars, amounts, holdVars, dismissing, policy, run, sheltered, day, retries, failures>>

SetLegalHold(c) ==
  /\ Change
  /\ hold' = IF c \in hold THEN hold \ {c} ELSE hold \cup {c}
  /\ UNCHANGED <<jobVars, amounts, feedback, dismissing, policyVars, run, day, retries, failures>>
  /\ Shelter

\* POST /api/jobs/:id/feedback: a new verdict replaces the user's old one, its hold and its dismissal.
GiveFeedback(u, j) ==
  /\ Change
  /\ job[j].status \in Finished
  /\ \E v \in {"up", "down"} :
       feedback' = [feedback EXCEPT ![u][j] =
                      [verdict |-> v, holdUntil |-> IF v = "down" THEN day + HoldDays ELSE None,
                       dismissed |-> FALSE]]
  /\ UNCHANGED <<jobVars, amounts, dismissing, hold, policyVars, run, day, retries, failures>>
  /\ Shelter

\* POST /api/feedback/:id/dismiss reads the row and, a step later, marks it whatever it is by then.
ReadDismissed(u, j) ==
  /\ Change
  /\ feedback[u][j].verdict # None
  /\ ~feedback[u][j].dismissed
  /\ dismissing' = dismissing \cup {<<u, j>>}
  /\ UNCHANGED <<jobVars, amounts, holdVars, policyVars, run, sheltered, day, retries, failures>>

Dismiss(u, j) ==
  /\ <<u, j>> \in dismissing
  /\ dismissing' = dismissing \ {<<u, j>>}
  /\ feedback' = [feedback EXCEPT ![u][j].dismissed = TRUE]
  /\ UNCHANGED <<jobVars, amounts, hold, policyVars, run, day, counters>>
  /\ Shelter

Tomorrow ==
  /\ day < MaxDay
  /\ day' = day + 1
  /\ UNCHANGED <<jobVars, amounts, holdVars, dismissing, policyVars, run, counters>>
  /\ Shelter

(***************************************************************************)
(* A run of the purge.                                                     *)
(***************************************************************************)

RunOnly == UNCHANGED <<job, amounts, holdVars, dismissing, policyVars, sheltered, day, counters>>
At(r, pc) == run[r].pc = pc

\* All candidates are collected: the loops over files and jobs.
AtLoops(r) == At(r, "files") /\ run[r].due = {}

Begin_Horizon(r, scope, target) ==
  /\ At(r, "idle")
  /\ run' = [run EXCEPT ![r] = [IdleRun EXCEPT !.pc = "rows", !.scope = scope, !.target = target,
                                               !.now = day + 1]]
  /\ sheltered' = [sheltered EXCEPT ![r] = Shelters]
  /\ UNCHANGED <<jobVars, amounts, holdVars, dismissing, policyVars, day, counters>>
Begin(r, scope, target) ==
  /\ At(r, "idle")
  /\ run' = [run EXCEPT ![r] = [IdleRun EXCEPT !.pc = "rows", !.scope = scope, !.target = target,
                                               !.now = day]]
  /\ sheltered' = [sheltered EXCEPT ![r] = Shelters]
  /\ UNCHANGED <<jobVars, amounts, holdVars, dismissing, policyVars, day, counters>>

\* node-cron's hourly run, and the administrator's "Purge now": the same code.
BeginDue(r) == Begin(r, "due", None)

\* POST /api/jobs/:id/purge-now: everything of a job that is neither busy, purged nor held.
BeginJob(r, j) ==
  /\ job[j].status \in Finished
  /\ j \notin OnLegalHold \cup HeldJobs(day)
  /\ Begin(r, "job", j)

\* POST /api/clients/:id/purge-now: everything of a client that is not on legal hold.
BeginClient(r, c) ==
  /\ c \notin hold
  /\ Begin(r, "client", c)

InScope(r, j) ==
  CASE run[r].scope = "due"    -> TRUE
    [] run[r].scope = "job"    -> run[r].target = j
    [] run[r].scope = "client" -> run[r].target = ClientOf[j]

\* The rows of the jobs with their clients: what is due, or everything, but for legal holds.
Unheld(r) ==
  {p \in Jobs \X Kinds :
     /\ InScope(r, p[1]) /\ job[p[1]].status # "purged"
     /\ p[1] \notin OnLegalHold
     /\ run[r].scope = "due" => Due(p[1], p[2])}

ReadRows(r) ==
  /\ At(r, "rows")
  /\ run' = [run EXCEPT ![r].pc = "holds", ![r].due = Unheld(r)]
  /\ UNCHANGED <<file, blob>> /\ RunOnly

\* heldJobIds at the time the run began.
ReadHolds_DueOnly(r) ==
  /\ At(r, "holds")
  /\ run' = [run EXCEPT ![r].pc = "files",
               ![r].due = {p \in @ : run[r].scope = "due" => p[1] \notin HeldJobs(run[r].now)}]
  /\ UNCHANGED <<file, blob>> /\ RunOnly
ReadHolds(r) ==
  /\ At(r, "holds")
  /\ run' = [run EXCEPT ![r].pc = "files",
                        ![r].due = {p \in @ : p[1] \notin HeldJobs(run[r].now)}]
  /\ UNCHANGED <<file, blob>> /\ RunOnly

\* The live files of one job after the other.
ListFiles(r, j) ==
  /\ At(r, "files")
  /\ \E k \in Kinds : <<j, k>> \in run[r].due
  /\ run' = [run EXCEPT
               ![r].due = {p \in @ : p[1] # j},
               ![r].todo = @ \cup {Current(j, k) : k \in {k \in Live(j) : <<j, k>> \in run[r].due}}]
  /\ UNCHANGED <<file, blob>> /\ RunOnly

\* storage.shred of the next candidate; a blob that is gone already is ignored.
Shred_Present(r, f) ==
  /\ AtLoops(r)
  /\ f \in run[r].todo
  /\ f \in blob
  /\ blob' = blob \ {f}
  /\ run' = [run EXCEPT ![r].pc = "mark", ![r].todo = @ \ {f}, ![r].file = f]
  /\ UNCHANGED file /\ RunOnly
Shred(r, f) ==
  /\ AtLoops(r)
  /\ f \in run[r].todo
  /\ blob' = blob \ {f}
  /\ run' = [run EXCEPT ![r].pc = "mark", ![r].todo = @ \ {f}, ![r].file = f]
  /\ UNCHANGED file /\ RunOnly

\* The update names the row it collected: a row the worker has replaced since is not touched.
MarkFile_ByKind(r) ==
  LET f == run[r].file IN
  /\ At(r, "mark")
  /\ file' = [file EXCEPT ![f[1]][f[2]].purged = TRUE]
  /\ run' = [run EXCEPT ![r].pc = "files", ![r].file = None, ![r].touched = @ \cup {f[1]}]
  /\ UNCHANGED blob /\ RunOnly
MarkFile(r) ==
  LET f == run[r].file IN
  /\ At(r, "mark")
  /\ file' = IF Current(f[1], f[2]) = f THEN [file EXCEPT ![f[1]][f[2]].purged = TRUE] ELSE file
  /\ run' = [run EXCEPT ![r].pc = "files", ![r].file = None, ![r].touched = @ \cup {f[1]}]
  /\ UNCHANGED blob /\ RunOnly

\* The jobs that lost a file, one by one: those with nothing left become purged.
Remaining(r, j) ==
  /\ AtLoops(r)
  /\ run[r].todo = {}
  /\ j \in run[r].touched
  /\ run' = [run EXCEPT ![r].touched = @ \ {j}, ![r].target = j,
                        ![r].pc = IF Live(j) = {} THEN "close" ELSE "files"]
  /\ UNCHANGED <<file, blob>> /\ RunOnly

CloseJob(r) ==
  /\ At(r, "close")
  /\ job' = [job EXCEPT ![run[r].target].status = "purged"]
  /\ run' = [run EXCEPT ![r].pc = "wipe"]
  /\ UNCHANGED <<file, blob, amounts, holdVars, dismissing, policyVars, sheltered, day, counters>>

\* The amounts of its overrides; the shares that follow are in Shares (PurgeJob).
WipeAmounts(r) ==
  /\ At(r, "wipe")
  /\ amounts' = amounts \ {run[r].target}
  /\ run' = [run EXCEPT ![r].pc = "files"]
  /\ UNCHANGED <<jobVars, holdVars, dismissing, policyVars, sheltered, day, counters>>

End(r) ==
  /\ AtLoops(r)
  /\ run[r].todo = {} /\ run[r].touched = {}
  /\ run' = [run EXCEPT ![r] = IdleRun]
  /\ UNCHANGED <<file, blob>> /\ RunOnly

\* A database or disk call throws, or the process dies: the run ends where it is.
FailRun(r) ==
  /\ ~At(r, "idle")
  /\ failures < MaxFailures
  /\ failures' = failures + 1
  /\ run' = [run EXCEPT ![r] = IdleRun]
  /\ UNCHANGED <<jobVars, amounts, holdVars, dismissing, policyVars, sheltered, day, retries, changes>>

Advance(r) ==
  \/ ReadRows(r) \/ ReadHolds(r) \/ MarkFile(r) \/ CloseJob(r) \/ WipeAmounts(r)
  \/ End(r)
  \/ \E j \in Jobs : ListFiles(r, j) \/ Remaining(r, j)
  \/ \E f \in Files : Shred(r, f)

Environment ==
  \/ Tomorrow
  \/ \E j \in Jobs :
       \/ Retry(j) \/ Work(j) \/ Finish(j) \/ Decide(j)
       \/ \E k \in Kinds : Store(j, k)
       \/ \E u \in Users : GiveFeedback(u, j) \/ ReadDismissed(u, j) \/ Dismiss(u, j)
  \/ \E k \in Kinds \cup {"failed"} : SetWindow(k)
  \/ \E c \in Clients : SetLegalHold(c) \/ \E k \in Kinds : SetOverride(c, k)

Next ==
  \/ Environment
  \/ \E r \in Hourly : BeginDue(r)
  \/ \E r \in Manual :
       \/ \E j \in Jobs : BeginJob(r, j)
       \/ \E c \in Clients : BeginClient(r, c)
  \/ \E r \in Runs : Advance(r) \/ FailRun(r)

Spec == Init /\ [][Next]_vars

\* cron starts the hourly run again and again, whoever else purges in between, and a run that was
\* started goes on to its end unless it fails; people promise nothing.
FairSpec == /\ Spec
            /\ \A r \in Hourly : SF_vars(BeginDue(r))
            /\ \A r \in Runs : WF_vars(Advance(r))

----------------------------------------------------------------------------

Places == {"idle", "rows", "holds", "files", "mark", "close", "wipe"}
OptionalDay == Days \cup {None}

\* Every variable holds what its table, document or local variable can hold.
TypeOK ==
  /\ job \in [Jobs -> [status : AllStatuses, readyAt : OptionalDay, failedAt : OptionalDay,
                       releasedAt : OptionalDay]]
  /\ file \in [Jobs -> [Kinds -> [version : 0..MaxVersions, purged : BOOLEAN]]]
  /\ blob \subseteq Files
  /\ amounts \subseteq Jobs
  /\ feedback \in [Users -> [Jobs -> [verdict : {"up", "down", None},
                                      holdUntil : (0..(MaxDay + HoldDays)) \cup {None},
                                      dismissed : BOOLEAN]]]
  /\ dismissing \subseteq Users \X Jobs
  /\ hold \subseteq Clients
  /\ policy \in [Kinds \cup {"failed"} -> Windows]
  /\ override \in [Clients -> [Kinds -> Windows \cup {None}]]
  /\ run \in [Runs -> [pc : Places, scope : {"due", "job", "client"},
                       target : Jobs \cup Clients \cup {None}, now : Days,
                       due : SUBSET (Jobs \X Kinds), todo : SUBSET Files,
                       file : Files \cup {None}, touched : SUBSET Jobs]]
  /\ sheltered \in [Runs -> SUBSET ({"legal", "feedback"} \X Jobs)]
  /\ day \in Days
  /\ retries \in 0..MaxRetries /\ changes \in 0..MaxChanges /\ failures \in 0..MaxFailures

\* What a run that has read its holds is going to shred.
Doomed(r) ==
  (IF run[r].pc = "files" THEN {p[1] : p \in run[r].due} ELSE {})
  \cup {f[1] : f \in run[r].todo}

\* feedback.ts:6 and purge.ts:6: a legal hold, or a thumbs-down nobody dismissed, that was in force
\* when a run of the purge began and has not been lifted since keeps every file of the job from that
\* run, whatever the run's scope ("purge now" included) and whatever happened between its reads.
HoldsRespected ==
  \A r \in Runs : \A h \in sheltered[r] : h[2] \notin Doomed(r)

\* storage.ts:8: a row marked purged has lost its blob for good, also when two runs, a failed run
\* and the worker's replacements meet at the same file.
PurgedIsShredded ==
  \A j \in Jobs, k \in Kinds : file[j][k].purged => Current(j, k) \notin blob

\* Whatever is due and not held is purged in the end, or stops being due or held: a run that dies between
\* shredding a file and marking it leaves work that the next run can finish.
DueIsPurged ==
  \A j \in Jobs, k \in Kinds :
    LET pending == /\ ~file[j][k].purged /\ job[j].status # "purged" /\ Due(j, k)
                   /\ j \notin OnLegalHold \cup HeldJobs(day)
    IN  pending ~> ~pending

\* purge.ts:12, "The job moves to `purged` when no unpurged files remain", and purge.ts:155, "the
\* client's amounts go with the files": once no run is under way.
EmptiedIsClosed ==
  (\A r \in Runs : At(r, "idle"))
    => \A j \in Jobs : Live(j) = {} => job[j].status = "purged" /\ j \notin amounts
=============================================================================

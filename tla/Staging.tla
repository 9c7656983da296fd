------------------------------ MODULE Staging ------------------------------
(***************************************************************************)
(* Upload sessions: the document in Redis, read whole and written back     *)
(* whole by every request; the bytes under blobs/staging/, which the       *)
(* queueing of a session moves to its jobs inside a database transaction;  *)
(* the sweep of expired sessions; and the page, whose edits go out as      *)
(* fields lose focus and whose answers come back in any order.             *)
(* Sources: services/staging.ts, routes/uploads.ts, web Upload.tsx.        *)
(***************************************************************************)
EXTENDS Integers, FiniteSets

CONSTANTS
  Files,       \* the files of all uploads, numbered in the order they were sent
  Sessions,
  SessionOf,   \* the upload each file is part of
  Doubtful,    \* the files that the checks of an upload may refuse
  Taxpayer,    \* what the stager detects: the taxpayer's key (None if unreadable)
  DetectedYear,\* ... the year (None if unreadable)
  Match,       \* ... and the client: an existing one, a name for a new one, or None
  Names,       \* names of new clients
  Edits,       \* requests that may change a file's row ...
  Queueings,   \* ... and that may queue a session, each used once
  None,
  Staging      \* the scope of a session, blobs/staging/<id>

Requests == Edits \cup Queueings
JobIds == Requests \X Files

\* What a document says of each file it lists.
Entries == [ok : BOOLEAN, role : {"source", "prior"}, include : BOOLEAN, prior : Files \cup {None},
            year : Nat \cup {None}, client : Names \cup {Match[f] : f \in Files} \cup {None}]
IsDoc(d) == \E D \in SUBSET Files : d \in [D -> Entries]

ASSUME StagingAssumption ==
  /\ Files \subseteq Nat /\ IsFiniteSet(Files)
  /\ SessionOf \in [Files -> Sessions] /\ Doubtful \subseteq Files
  /\ DOMAIN Taxpayer = Files /\ DOMAIN Match = Files
  /\ DetectedYear \in [Files -> Nat \cup {None}]
  /\ None \notin Nat \cup Names \cup Sessions \cup JobIds /\ ~IsDoc(None)
  /\ Staging \notin JobIds \cup {None}

VARIABLES
  doc,       \* the session's document in Redis: the files it lists
  key, blob, \* where the key file and the blob of each file are: staging/ or a job's directory
  upload,    \* the upload request of each session, with the document it builds in memory
  req,       \* the edits and queueings
  jobs,      \* committed jobs with their files
  clients,   \* clients created by uploads: name and the job they were created for
  enqueued,  \* jobs that BullMQ knows
  view,      \* the document each page shows
  sweep,     \* the sweep, between EXISTS and rm
  revived    \* sessions of which a save brought back a document that was gone

disk == <<key, blob>>
tables == <<jobs, clients, enqueued>>
vars == <<doc, key, blob, upload, req, jobs, clients, enqueued, view, sweep, revived>>

FilesOf(s) == {f \in Files : SessionOf[f] = s}
InStaging(s) == \E f \in FilesOf(s) : key[f] = Staging \/ blob[f] = Staging
NoUpload == [pc |-> "none", stage |-> <<>>, file |-> None]
NoRequest == [pc |-> "new", session |-> None, stage |-> <<>>, moves |-> {}, created |-> {}, jobs |-> {}]

Init ==
  /\ doc = [s \in Sessions |-> None]
  /\ key = [f \in Files |-> None] /\ blob = [f \in Files |-> None]
  /\ upload = [s \in Sessions |-> NoUpload]
  /\ req = [r \in Requests |-> NoRequest]
  /\ jobs = {} /\ clients = {} /\ enqueued = {}
  /\ view = [s \in Sessions |-> None]
  /\ sweep = None
  /\ revived = {}

(***************************************************************************)
(* Documents: the listed files with their entries.                         *)
(***************************************************************************)

Listed(d) == DOMAIN d
Ok(d) == {f \in Listed(d) : d[f].ok}
Skipped == [ok |-> FALSE, role |-> "source", include |-> FALSE, prior |-> None, year |-> None,
            client |-> None]
Accepted(f) == [Skipped EXCEPT !.ok = TRUE, !.include = TRUE, !.year = DetectedYear[f],
                               !.client = Match[f]]
With(d, f, entry) == [g \in Listed(d) \cup {f} |-> IF g = f THEN entry ELSE d[g]]

\* autoPair: year N with year N - 1 of the same taxpayer, each the only one, N the latest.
Of(d, t, year) == {f \in Ok(d) : Taxpayer[f] = t /\ d[f].year = year}
Paired(d) ==
  {p \in Ok(d) \X Ok(d) :
     LET t == Taxpayer[p[1]]
         year == d[p[1]].year
     IN /\ t # None /\ year # None
        /\ Of(d, t, year) = {p[1]}
        /\ Of(d, t, year - 1) = {p[2]}
        /\ Of(d, t, year + 1) = {}}
AutoPair(d) ==
  [f \in Listed(d) |->
     [d[f] EXCEPT !.prior = IF \E p \in Paired(d) : p[1] = f
                            THEN (CHOOSE p \in Paired(d) : p[1] = f)[2] ELSE @,
                  !.role = IF \E p \in Paired(d) : p[2] = f THEN "prior" ELSE @,
                  !.include = @ /\ ~\E p \in Paired(d) : p[2] = f]]

\* updateFile with a new prior year file p, or None; it throws unless Pairable.
Pairable_Again(d, f, p) == p = None \/ (p \in Ok(d) /\ p # f)
Pairable(d, f, p) ==
  p = None \/ (p \in Ok(d) /\ p # f /\ \A g \in Listed(d) \ {f} : d[g].prior # p)
SetPrior(d, f, p) ==
  [g \in Listed(d) |->
     [d[g] EXCEPT !.prior = IF g = f THEN p ELSE @,
                  !.role = IF g = p THEN "prior" ELSE IF g = d[f].prior THEN "source" ELSE @,
                  !.include = IF g = p THEN FALSE ELSE IF g = d[f].prior THEN d[g].ok ELSE @]]
SetInclude(d, f, b) == [d EXCEPT ![f].include = b /\ d[f].ok /\ d[f].role = "source"]
SetClient(d, f, c) == [d EXCEPT ![f].client = c]
SetYear_Client(d, f, y) == [d EXCEPT ![f].client = y]
SetYear(d, f, y) == [d EXCEPT ![f].year = y]

\* What queue() takes: it refuses an empty choice and files without year or client.
ToQueue(d) == {f \in Ok(d) : d[f].include /\ d[f].role = "source"}
Ready(d) == ToQueue(d) # {} /\ \A f \in ToQueue(d) : d[f].year # None /\ d[f].client # None

(***************************************************************************)
(* POST /api/uploads/stage.                                                *)
(***************************************************************************)

UploadOnly == UNCHANGED <<req, tables, sweep>>
Open(s, pc) == upload[s].pc = pc

Create(s) ==
  /\ Open(s, "none")
  /\ doc' = [doc EXCEPT ![s] = <<>>]
  /\ upload' = [upload EXCEPT ![s].pc = "next"]
  /\ UNCHANGED <<disk, view, revived>> /\ UploadOnly

\* The files come one after the other.
NextFile(s, f) ==
  /\ Open(s, "next")
  /\ f \in FilesOf(s) \ Listed(upload[s].stage)
  /\ \A g \in FilesOf(s) \ Listed(upload[s].stage) : f <= g

\* A file that is not a PDF, too large, encrypted or sent before is listed as skipped ...
Skip(s, f) ==
  /\ NextFile(s, f)
  /\ f \in Doubtful
  /\ upload' = [upload EXCEPT ![s].stage = With(@, f, Skipped)]
  /\ UNCHANGED <<doc, disk, view, revived>> /\ UploadOnly

\* ... any other is stored, its key file first, and shown to the worker's stager,
PutKey(s, f) ==
  /\ NextFile(s, f)
  /\ key' = [key EXCEPT ![f] = Staging]
  /\ upload' = [upload EXCEPT ![s].pc = "blob", ![s].file = f]
  /\ UNCHANGED <<doc, blob, view, revived>> /\ UploadOnly
PutBlob(s) ==
  /\ Open(s, "blob")
  /\ blob' = [blob EXCEPT ![upload[s].file] = Staging]
  /\ upload' = [upload EXCEPT ![s].pc = "staged"]
  /\ UNCHANGED <<doc, key, view, revived>> /\ UploadOnly

\* whose answer keeps it or has it shredded and skipped.
Staged(s) ==
  LET f == upload[s].file
      keep == upload' = [upload EXCEPT ![s] = [pc |-> "next", stage |-> With(@.stage, f, Accepted(f)),
                                               file |-> None]]
      drop == upload' = [upload EXCEPT ![s] = [pc |-> "next", stage |-> With(@.stage, f, Skipped),
                                               file |-> None]]
  IN /\ Open(s, "staged")
     /\ \/ keep /\ UNCHANGED disk
        \/ f \in Doubtful /\ drop /\ key' = [key EXCEPT ![f] = None] /\ blob' = [blob EXCEPT ![f] = None]
     /\ UNCHANGED <<doc, view, revived>> /\ UploadOnly

\* save(): the document is written whole, also when the one it was made from is gone.
Save(s, d) ==
  /\ doc' = [doc EXCEPT ![s] = d]
  /\ revived' = IF doc[s] = None THEN revived \cup {s} ELSE revived

\* finalize(): all files are there.
Finalize(s) ==
  /\ Open(s, "next")
  /\ Listed(upload[s].stage) = FilesOf(s) /\ FilesOf(s) # {}
  /\ Save(s, AutoPair(upload[s].stage))
  /\ view' = [view EXCEPT ![s] = AutoPair(upload[s].stage)]
  /\ upload' = [upload EXCEPT ![s] = [NoUpload EXCEPT !.pc = "over"]]
  /\ UNCHANGED disk /\ UploadOnly

\* The upload breaks off, or the stager does not answer in time.
UploadFails(s) ==
  /\ upload[s].pc \in {"next", "blob", "staged"}
  /\ upload' = [upload EXCEPT ![s] = [NoUpload EXCEPT !.pc = "over"]]
  /\ UNCHANGED <<doc, disk, view, revived>> /\ UploadOnly

(***************************************************************************)
(* PATCH /api/uploads/stage/:id/files/:fileId.  The page offers what the   *)
(* document it shows allows; more than one edit may be under way.          *)
(***************************************************************************)

RequestOnly == UNCHANGED <<upload, sweep>>
In(r, pc) == req[r].pc = pc
Goto(r, pc) == req' = [req EXCEPT ![r].pc = pc]
Shown(s) == IF view[s] = None THEN <<>> ELSE view[s]
Stored(s) == IF doc[s] = None THEN <<>> ELSE doc[s]

\* The request reads the document, changes it in memory, and looks the client up.
LoadEdit(r, s, new) ==
  /\ r \in Edits
  /\ In(r, "new")
  /\ req' = [req EXCEPT ![r] = [NoRequest EXCEPT !.pc = "save", !.session = s, !.stage = new]]
  /\ UNCHANGED <<doc, disk, tables, view, revived>> /\ RequestOnly

\* Rows of the page: files that are not shown as somebody's prior year. A field that loses focus
\* unchanged is sent too; EditInclude stands for every edit that changes nothing.
Editable(s, f) == f \in Ok(Shown(s)) /\ Shown(s)[f].role = "source" /\ f \in Listed(Stored(s))
Offered(s) == {p \in Ok(Shown(s)) : Shown(s)[p].role = "prior" \/ Shown(s)[p].prior = None}
EditPrior(r, s, f) ==
  /\ Editable(s, f)
  /\ \E p \in {None} \cup Offered(s) :
       /\ Pairable(doc[s], f, p) = TRUE
       /\ LoadEdit(r, s, SetPrior(doc[s], f, p))
EditInclude(r, s, f) ==
  /\ Editable(s, f)
  /\ \E b \in BOOLEAN : LoadEdit(r, s, SetInclude(doc[s], f, b))
EditClient(r, s, f) ==
  /\ Editable(s, f)
  /\ \E c \in (Names \cup {None}) \ {doc[s][f].client} : LoadEdit(r, s, SetClient(doc[s], f, c))
EditYear(r, s, f) ==
  /\ Editable(s, f)
  /\ \E y \in ({DetectedYear[g] : g \in Files} \cup {None}) \ {doc[s][f].year} :
       LoadEdit(r, s, SetYear(doc[s], f, y))

\* The document is written back, over whatever was written since.
SaveEdit(r) ==
  /\ In(r, "save")
  /\ Save(req[r].session, req[r].stage)
  /\ Goto(r, "answer")
  /\ UNCHANGED <<disk, tables, view>> /\ RequestOnly

\* The page shows the answer, in the order the answers arrive.
ShowEdit(r) ==
  /\ In(r, "answer")
  /\ view' = [view EXCEPT ![req[r].session] = req[r].stage]
  /\ req' = [req EXCEPT ![r] = [NoRequest EXCEPT !.pc = "over"]]
  /\ UNCHANGED <<doc, disk, tables, revived>> /\ RequestOnly

(***************************************************************************)
(* POST /api/uploads/stage/:id/queue.                                      *)
(***************************************************************************)

\* The moves of the transaction, in its order: of each chosen file, then of its prior year file.
\* A job is named by its request and its source file.
Moves(d) == {<<f, f>> : f \in ToQueue(d)}
              \cup {<<f, d[f].prior>> : f \in {f \in ToQueue(d) : d[f].prior \in Listed(d)}}
Earlier(m, n) == m[1] < n[1] \/ (m[1] = n[1] /\ m[2] = m[1])
NextMove(r) == CHOOSE m \in req[r].moves : \A n \in req[r].moves \ {m} : Earlier(m, n)
Job(r, m) == <<r, m[1]>>

\* Clicking Queue, in one tab or again after an answer that never came.
LoadQueue(r, s) ==
  /\ r \in Queueings
  /\ In(r, "new")
  /\ ToQueue(Shown(s)) # {} /\ Ready(Shown(s))
  /\ Ready(Stored(s))
  /\ req' = [req EXCEPT ![r] = [NoRequest EXCEPT !.pc = "client", !.session = s, !.stage = doc[s],
                                                 !.moves = Moves(doc[s])]]
  /\ UNCHANGED <<doc, disk, tables, view, revived>> /\ RequestOnly

\* The client of the next job: the one picked, one with the new name, in the table or in this
\* transaction, or a new one.
FindClient(r) ==
  LET m == NextMove(r)
      name == req[r].stage[m[1]].client
      known == {c[1] : c \in clients \cup req[r].created}
  IN /\ In(r, "client")
     /\ req' = [req EXCEPT ![r].pc = "key",
                           ![r].created = IF name \in Names \ known THEN @ \cup {<<name, Job(r, m)>>} ELSE @]
     /\ UNCHANGED <<doc, disk, tables, view, revived>> /\ RequestOnly

\* storage.move: two renames; one that finds nothing throws (Break).
MoveKey_Forced(r) ==
  LET m == NextMove(r) IN
  /\ In(r, "key")
  /\ key' = IF key[m[2]] = Staging THEN [key EXCEPT ![m[2]] = Job(r, m)] ELSE key
  /\ Goto(r, "blob")
  /\ UNCHANGED <<doc, blob, tables, view, revived>> /\ RequestOnly
MoveKey(r) ==
  LET m == NextMove(r) IN
  /\ In(r, "key")
  /\ key[m[2]] = Staging
  /\ key' = [key EXCEPT ![m[2]] = Job(r, m)]
  /\ Goto(r, "blob")
  /\ UNCHANGED <<doc, blob, tables, view, revived>> /\ RequestOnly

AfterMove(r) ==
  LET m == NextMove(r)
      rest == req[r].moves \ {m}
      source == [job |-> Job(r, m), source |-> m[1], prior |-> None]
  IN req' = [req EXCEPT
       ![r].moves = rest,
       ![r].jobs = IF m[1] = m[2] THEN @ \cup {source}
                   ELSE (@ \ {source}) \cup {[source EXCEPT !.prior = m[2]]},
       ![r].pc = IF rest = {} THEN "commit"
                 ELSE IF \E n \in rest : n[1] = m[1] THEN "key" ELSE "client"]
MoveBlob(r) ==
  LET m == NextMove(r) IN
  /\ In(r, "blob")
  /\ blob[m[2]] = Staging
  /\ blob' = [blob EXCEPT ![m[2]] = Job(r, m)]
  /\ AfterMove(r)
  /\ UNCHANGED <<doc, key, tables, view, revived>> /\ RequestOnly

\* A rename finds nothing, a statement throws, Redis refuses, the API dies: the request ends where it
\* is. Rows that are not committed are rolled back; files stay where they are, and so does a document.
Break(r) ==
  /\ req[r].pc \notin {"new", "over"}
  /\ req' = [req EXCEPT ![r] = [NoRequest EXCEPT !.pc = "over"]]
  /\ UNCHANGED <<doc, disk, tables, view, revived>> /\ RequestOnly

Commit(r) ==
  /\ In(r, "commit")
  /\ jobs' = jobs \cup req[r].jobs
  /\ clients' = clients \cup req[r].created
  /\ Goto(r, "enqueue")
  /\ UNCHANGED <<doc, disk, enqueued, view, revived>> /\ RequestOnly

Enqueue(r) ==
  LET rest == {j \in req[r].jobs : j.job \notin enqueued} IN
  /\ In(r, "enqueue")
  /\ \/ \E j \in rest : enqueued' = enqueued \cup {j.job} /\ UNCHANGED req
     \/ rest = {} /\ Goto(r, "del") /\ UNCHANGED enqueued
  /\ UNCHANGED <<doc, disk, jobs, clients, view, revived>> /\ RequestOnly

DeleteDoc(r) ==
  /\ In(r, "del")
  /\ doc' = [doc EXCEPT ![req[r].session] = None]
  /\ Goto(r, "remove")
  /\ UNCHANGED <<disk, tables, view, revived>> /\ RequestOnly

\* removeScope: whatever is left under staging/<id>.
Gone_Uploaded(s, where) ==
  [f \in Files |-> IF f \in Listed(Shown(s)) /\ SessionOf[f] = s /\ where[f] = Staging THEN None
                   ELSE where[f]]
Gone(s, where) == [f \in Files |-> IF SessionOf[f] = s /\ where[f] = Staging THEN None ELSE where[f]]
RemoveScope(r) ==
  /\ In(r, "remove")
  /\ key' = Gone(req[r].session, key) /\ blob' = Gone(req[r].session, blob)
  /\ req' = [req EXCEPT ![r] = [NoRequest EXCEPT !.pc = "over"]]
  /\ view' = [view EXCEPT ![req[r].session] = None]
  /\ UNCHANGED <<doc, tables, revived>> /\ RequestOnly

(***************************************************************************)
(* Expiry, the sweep, and the end of the process.                          *)
(***************************************************************************)

OtherOnly == UNCHANGED <<req, tables, view, revived>>

\* An hour without a save, whatever is at work on the session: an upload sets the time only before
\* its first file and after its last.
Expire(s) ==
  /\ doc[s] # None
  /\ doc' = [doc EXCEPT ![s] = None]
  /\ UNCHANGED <<disk, upload, sweep>> /\ OtherOnly

\* sweepExpired finds a directory whose session is gone ...
SweepFind_Any(s) ==
  /\ sweep = None
  /\ InStaging(s)
  /\ sweep' = s
  /\ UNCHANGED <<doc, disk, upload>> /\ OtherOnly
SweepFind(s) ==
  /\ sweep = None
  /\ InStaging(s)
  /\ doc[s] = None
  /\ sweep' = s
  /\ UNCHANGED <<doc, disk, upload>> /\ OtherOnly

\* ... and removes it.
SweepRemove ==
  /\ sweep # None
  /\ key' = Gone(sweep, key) /\ blob' = Gone(sweep, blob)
  /\ sweep' = None
  /\ UNCHANGED <<doc, upload>> /\ OtherOnly

Upload(s) ==
  \/ Create(s) \/ PutBlob(s) \/ Staged(s) \/ Finalize(s) \/ UploadFails(s)
  \/ \E f \in Files : Skip(s, f) \/ PutKey(s, f)
Click(r) ==
  \E s \in Sessions :
    \/ LoadQueue(r, s)
    \/ \E f \in Files : EditPrior(r, s, f) \/ EditInclude(r, s, f) \/ EditClient(r, s, f) \/ EditYear(r, s, f)
Serve(r) ==
  \/ SaveEdit(r) \/ ShowEdit(r)
  \/ FindClient(r) \/ MoveKey(r) \/ MoveBlob(r) \/ Commit(r)
  \/ Enqueue(r) \/ DeleteDoc(r) \/ RemoveScope(r)

Sweep == SweepRemove \/ \E s \in Sessions : SweepFind(s)

Next ==
  \/ \E s \in Sessions : Upload(s) \/ Expire(s)
  \/ \E r \in Requests : Click(r) \/ Serve(r) \/ Break(r)
  \/ Sweep

Spec == Init /\ [][Next]_vars

\* A handler that was started goes on or breaks (each is finite), an hour passes, cron goes on sweeping.
Handlers == (\E s \in Sessions : Upload(s)) \/ (\E r \in Requests : Serve(r) \/ Break(r))
FairSpec == Spec /\ WF_vars(Handlers) /\ WF_vars(Sweep) /\ \A s \in Sessions : WF_vars(Expire(s))

----------------------------------------------------------------------------

Places == JobIds \cup {Staging, None}
JobRows == [job : JobIds, source : Files, prior : Files \cup {None}]

\* Every variable holds what its document, directory or table can hold.
TypeOK ==
  /\ \A s \in Sessions : (doc[s] # None => IsDoc(doc[s])) /\ (view[s] # None => IsDoc(view[s]))
  /\ key \in [Files -> Places] /\ blob \in [Files -> Places]
  /\ \A s \in Sessions : upload[s].pc \in {"none", "next", "blob", "staged", "over"} /\ IsDoc(upload[s].stage)
  /\ \A r \in Requests : /\ req[r].pc \in {"new", "save", "answer", "client", "key", "blob", "commit",
                                           "enqueue", "del", "remove", "over"}
                         /\ IsDoc(req[r].stage)
                         /\ req[r].session \in Sessions \cup {None}
                         /\ req[r].created \subseteq Names \X JobIds /\ req[r].jobs \subseteq JobRows
  /\ jobs \subseteq JobRows /\ clients \subseteq Names \X JobIds /\ enqueued \subseteq JobIds
  /\ sweep \in Sessions \cup {None} /\ revived \subseteq Sessions

\* A job that exists has its PDFs, whole and for itself, however often its session was queued,
\* swept, edited or given up halfway.
FileList(j) == {j.source, j.prior} \ {None}
JobHasFiles == \A j \in jobs : \A f \in FileList(j) : key[f] = j.job /\ blob[f] = j.job

\* In every document a file is the prior year of at most one other and then never queued itself,
\* and a file marked prior year is named by some other. So a queueing never has a PDF to move
\* twice, however the edits before it overwrote each other. (That other need not be queued: two
\* files may name each other, see PairedWithReturn.)
PairedOnce(d) ==
  /\ \A f, g \in Listed(d) : d[f].prior # None /\ d[f].prior = d[g].prior => f = g
  /\ \A f \in Listed(d) : d[f].prior # None =>
       d[f].prior \in Listed(d) /\ d[d[f].prior].role = "prior" /\ ~d[d[f].prior].include
  /\ \A p \in Listed(d) : d[p].role = "prior" => \E f \in Listed(d) \ {p} : d[f].prior = p
MovesOnce(r) == \A m, n \in req[r].moves : m[2] = n[2] => m = n
PairingConsistent ==
  /\ \A s \in Sessions : doc[s] # None => PairedOnce(doc[s])
  /\ \A r \in Requests : MovesOnce(r)

\* Both files of a PDF that a document lists are in staging, or where a queueing of the session has
\* taken them: expiry, the sweep, broken uploads and the end of other queueings remove nothing that
\* is listed. What a late save brought back is excepted (revived): its bytes may be gone.
StagedPlaces(s) == {Staging} \cup ({r \in Requests : ~In(r, "new")} \X FilesOf(s))
StagedIsStored ==
  \A s \in Sessions \ revived : doc[s] # None =>
    \A f \in Ok(doc[s]) : key[f] \in StagedPlaces(s) /\ blob[f] \in StagedPlaces(s)

\* What is left in staging does not stay: abandoned, broken off or queued, its directory is
\* removed in the end.
StagingEmpties == \A s \in Sessions : InStaging(s) ~> ~InStaging(s)

\* Claims of the page and of the upload that the code does not keep.
\* "N file(s) paired as prior-year returns": each is the prior year of a return on the list.
PairedWithReturn ==
  \A s \in Sessions : doc[s] # None => \A p \in Ok(doc[s]) : doc[s][p].role = "prior" =>
    \E f \in Ok(doc[s]) : doc[s][f].role = "source" /\ doc[s][f].prior = p
\* "Staged files expire in one hour": what a session lists is there to be queued as long as it lives.
StagedQueueable ==
  \A s \in Sessions : doc[s] # None => \A f \in Ok(doc[s]) : key[f] = Staging /\ blob[f] = Staging
\* One client for one name.
OneClientPerName == \A c, d \in clients : c[1] = d[1] => c = d
=============================================================================

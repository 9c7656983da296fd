------------------------------ MODULE Storage ------------------------------
(***************************************************************************)
(* The encrypted blobs under DATA_DIR: a blob is readable with its key     *)
(* file, and a key file with the master key it is wrapped to.  Every call  *)
(* is several file operations, and the database row that names a blob      *)
(* comes after them: the processes may die in between, the master key may  *)
(* be rotated, and each start of the API moves blobs without a row away.   *)
(* Nothing keeps a rotation or a check apart from the two processes: three *)
(* sets record which blobs one of them met in the middle of a call.        *)
(* Sources: services/storage.ts, worker storage.py, cli/rotate-master-key, *)
(* orphanCheck of services/purge.ts, index.ts.                             *)
(***************************************************************************)
EXTENDS Integers

CONSTANTS
  Blobs,
  Api, Worker,   \* the two processes that keep the master key in memory
  None,          \* no file, no process, no row
  Zeroed,        \* a key file overwritten by shred
  MaxMaster,     \* bound: rotations begun, one at a time
  MaxStops       \* bound: times a process dies or is stopped

ASSUME StorageAssumption ==
  /\ Api # Worker
  /\ None \notin Nat /\ Zeroed \notin Nat /\ None # Zeroed
  /\ None \notin Blobs /\ None \notin {"staging", "job", "orphans", "live", "purged"}
  /\ MaxMaster \in Nat /\ MaxStops \in Nat

Procs == {Api, Worker}
Scopes == {"staging", "job", "orphans"}
Masters == 0..MaxMaster

VARIABLES
  master,    \* the identity in keys/master.key
  newest,    \* the last identity that was generated
  loaded,    \* the identity each process read when it started
  key,       \* the key files of each blob, by directory: to which master they are wrapped
  blob,      \* the directory each blob is in
  row,       \* the row of files that names it
  op,        \* the storage call each process is in the middle of
  rotation,  \* the rotation that runs
  check,     \* the orphan check that runs
  shredded,  \* the blobs whose key was overwritten
  astray,    \* the blobs whose key a rotation missed, or re-wrapped to a master it never saved
  copied,    \* the blobs whose key was renamed or overwritten between a rotation's read and write
  caught,    \* the blobs that were being stored while a check read the rows and the directories
  stops

files == <<key, blob, row>>
races == <<astray, copied, caught>>
vars == <<master, newest, loaded, key, blob, row, op, rotation, check, shredded, astray, copied,
          caught, stops>>

Idle == [pc |-> "idle", blob |-> None, dir |-> None]
NoRotation == [pc |-> "idle", todo |-> {}, at |-> None]
NoCheck == [pc |-> "idle", known |-> {}, todo |-> {}, blob |-> None]

Running(p) == loaded[p] # None
At(p, pc) == Running(p) /\ op[p].pc = pc
Step(p, pc) == op' = [op EXCEPT ![p] = [@ EXCEPT !.pc = pc]]
Serving == check.pc = "idle"
If(c, b) == IF c THEN {b} ELSE {}

\* The worker runs; the API has not been started yet, or is started anew.
Init ==
  /\ master = 0 /\ newest = 0
  /\ loaded = [p \in Procs |-> IF p = Api THEN None ELSE 0]
  /\ key = [b \in Blobs |-> [s \in Scopes |-> None]]
  /\ blob = [b \in Blobs |-> None]
  /\ row = [b \in Blobs |-> None]
  /\ op = [p \in Procs |-> Idle]
  /\ rotation = NoRotation
  /\ check = NoCheck
  /\ shredded = {}
  /\ astray = {} /\ copied = {} /\ caught = {}
  /\ stops = 0

(***************************************************************************)
(* Processes.                                                              *)
(***************************************************************************)

\* Storage.init() reads the master key; the API goes on to the orphan check before it listens.
Start(p) ==
  /\ ~Running(p)
  /\ loaded' = [loaded EXCEPT ![p] = master]
  /\ check' = IF p = Api THEN [NoCheck EXCEPT !.pc = "rows"] ELSE check
  /\ UNCHANGED <<master, newest, files, op, rotation, shredded, races, stops>>

\* Stopped or killed, at any point of the call it was in.
Stop(p) ==
  /\ Running(p)
  /\ stops < MaxStops
  /\ stops' = stops + 1
  /\ loaded' = [loaded EXCEPT ![p] = None]
  /\ op' = [op EXCEPT ![p] = Idle]
  /\ check' = IF p = Api THEN NoCheck ELSE check
  /\ UNCHANGED <<master, newest, files, rotation, shredded, races>>

(***************************************************************************)
(* Calls.                                                                  *)
(***************************************************************************)

CallOnly == UNCHANGED <<master, newest, loaded, rotation, check, stops>>
Held(b) == rotation.pc = "write" /\ rotation.at[1] = b

\* put(): the key first, wrapped to the identity the process has in memory. The API stores uploads
\* under staging/, and like the worker what it makes of them under the job.
Homes(p) == IF p = Api THEN {"staging", "job"} ELSE {"job"}
PutKey(p, b, dir) ==
  /\ At(p, "idle")
  /\ p = Api => Serving
  /\ \A s \in Scopes : key[b][s] = None
  /\ blob[b] = None /\ row[b] = None /\ b \notin shredded
  /\ key' = [key EXCEPT ![b][dir] = loaded[p]]
  /\ op' = [op EXCEPT ![p] = [pc |-> "put blob", blob |-> b, dir |-> dir]]
  /\ astray' = astray \cup If(rotation.pc # "idle" \/ loaded[p] # master, b)
  /\ caught' = caught \cup If(check.pc = "list", b)
  /\ UNCHANGED <<blob, row, shredded, copied>> /\ CallOnly

\* ... then the blob, and a row for it; an upload is named by its session document instead.
PutBlob(p) ==
  LET dir == op[p].dir IN
  /\ At(p, "put blob")
  /\ blob' = [blob EXCEPT ![op[p].blob] = dir]
  /\ IF dir = "job" THEN Step(p, "insert row") ELSE op' = [op EXCEPT ![p] = Idle]
  /\ UNCHANGED <<key, row, shredded, races>> /\ CallOnly

\* move(), when a session is queued: two renames, each of which throws when there is no such file.
MoveKey(b) ==
  /\ At(Api, "idle") /\ Serving
  /\ row[b] = None
  /\ blob[b] = "staging"
  /\ key[b]["staging"] # None
  /\ key' = [key EXCEPT ![b]["staging"] = None, ![b]["job"] = key[b]["staging"]]
  /\ op' = [op EXCEPT ![Api] = [pc |-> "move blob", blob |-> b, dir |-> "job"]]
  /\ copied' = copied \cup If(Held(b), b)
  /\ UNCHANGED <<blob, row, shredded, astray, caught>> /\ CallOnly

MoveBlob ==
  LET b == op[Api].blob IN
  /\ At(Api, "move blob")
  /\ IF blob[b] = "staging"
     THEN blob' = [blob EXCEPT ![b] = "job"] /\ Step(Api, "insert row")
     ELSE blob' = blob /\ op' = [op EXCEPT ![Api] = Idle]
  /\ UNCHANGED <<key, row, shredded, races>> /\ CallOnly

\* The row of files, committed.
InsertRow(p) ==
  /\ At(p, "insert row")
  /\ row' = [row EXCEPT ![op[p].blob] = "live"]
  /\ op' = [op EXCEPT ![p] = Idle]
  /\ UNCHANGED <<key, blob, shredded, races>> /\ CallOnly

\* shred(): overwrite the key if it is there ...
ShredKey_Unlink(p, b) ==
  /\ At(p, "idle")
  /\ row[b] = "live"
  /\ key' = IF p = Worker THEN [key EXCEPT ![b]["job"] = IF @ = None THEN None ELSE Zeroed] ELSE key
  /\ shredded' = shredded \cup {b}
  /\ op' = [op EXCEPT ![p] = [pc |-> "unlink key", blob |-> b, dir |-> "job"]]
  /\ astray' = astray \ {b}
  /\ copied' = copied \cup If(Held(b), b)
  /\ UNCHANGED <<blob, row, caught>> /\ CallOnly
ShredKey(p, b) ==
  /\ At(p, "idle")
  /\ row[b] = "live"
  /\ key' = [key EXCEPT ![b]["job"] = IF @ = None THEN None ELSE Zeroed]
  /\ shredded' = shredded \cup {b}
  /\ op' = [op EXCEPT ![p] = [pc |-> "unlink key", blob |-> b, dir |-> "job"]]
  /\ astray' = astray \ {b}
  /\ copied' = copied \cup If(Held(b), b)
  /\ UNCHANGED <<blob, row, caught>> /\ CallOnly

\* ... unlink the key, unlink the blob, and mark the row (a purge) or delete it (a replaced file).
UnlinkKey(p) ==
  /\ At(p, "unlink key")
  /\ key' = [key EXCEPT ![op[p].blob]["job"] = None]
  /\ Step(p, "unlink blob")
  /\ UNCHANGED <<blob, row, shredded, races>> /\ CallOnly

UnlinkBlob(p) ==
  LET b == op[p].blob IN
  /\ At(p, "unlink blob")
  /\ blob' = [blob EXCEPT ![b] = IF @ = "job" THEN None ELSE @]
  /\ Step(p, "mark row")
  /\ UNCHANGED <<key, row, shredded, races>> /\ CallOnly

MarkRow_Shredded(p, mark) ==
  LET b == op[p].blob IN
  /\ At(p, "mark row")
  /\ row' = [row EXCEPT ![b] = IF mark THEN "shredded" ELSE None]
  /\ op' = [op EXCEPT ![p] = Idle]
  /\ UNCHANGED <<key, blob, shredded, races>> /\ CallOnly
MarkRow(p, mark) ==
  LET b == op[p].blob IN
  /\ At(p, "mark row")
  /\ mark => p = Api
  /\ row' = [row EXCEPT ![b] = IF ~mark THEN None ELSE IF @ = "live" THEN "purged" ELSE @]
  /\ op' = [op EXCEPT ![p] = Idle]
  /\ UNCHANGED <<key, blob, shredded, races>> /\ CallOnly

(***************************************************************************)
(* rotate-master-key, a process of its own beside whatever else runs.      *)
(***************************************************************************)

RotateOnly == UNCHANGED <<loaded, blob, row, op, check, shredded, copied, caught, stops>>
KeyFiles == {f \in Blobs \X {"staging", "job"} : key[f[1]][f[2]] # None}

\* Generate the new identity and list the key files under blobs/.
RotateBegin_Jobs ==
  /\ rotation.pc = "idle"
  /\ newest < MaxMaster
  /\ newest' = newest + 1
  /\ rotation' = [NoRotation EXCEPT !.pc = "read", !.todo = {f \in KeyFiles : f[2] = "job"}]
  /\ UNCHANGED <<master, key, astray>> /\ RotateOnly
RotateBegin ==
  /\ rotation.pc = "idle"
  /\ newest < MaxMaster
  /\ newest' = newest + 1
  /\ rotation' = [NoRotation EXCEPT !.pc = "read", !.todo = KeyFiles]
  /\ UNCHANGED <<master, key, astray>> /\ RotateOnly

\* Unwrap the next key with the old identity ...
RotateRead(f) ==
  /\ rotation.pc = "read"
  /\ f \in rotation.todo
  /\ key[f[1]][f[2]] = master
  /\ rotation' = [rotation EXCEPT !.pc = "write", !.at = f, !.todo = @ \ {f}]
  /\ UNCHANGED <<master, newest, key, astray>> /\ RotateOnly

\* ... and write it back, wrapped to the new one, whatever became of the file since.
RotateWrite ==
  LET f == rotation.at IN
  /\ rotation.pc = "write"
  /\ key' = [key EXCEPT ![f[1]][f[2]] = newest]
  /\ rotation' = [rotation EXCEPT !.pc = "read", !.at = None]
  /\ UNCHANGED <<master, newest, astray>> /\ RotateOnly

RotateSave_First ==
  /\ rotation.pc = "read"
  /\ master' = newest
  /\ rotation' = NoRotation
  /\ UNCHANGED <<newest, key, astray>> /\ RotateOnly
RotateSave ==
  /\ rotation.pc = "read"
  /\ rotation.todo = {}
  /\ master' = newest
  /\ rotation' = NoRotation
  /\ UNCHANGED <<newest, key, astray>> /\ RotateOnly

\* A key it cannot unwrap (overwritten, gone, of another master) throws; or the process dies.
RotateFail ==
  /\ rotation.pc # "idle"
  /\ astray' = astray \cup {b \in Blobs \ shredded : \E s \in Scopes : key[b][s] = newest}
  /\ rotation' = NoRotation
  /\ UNCHANGED <<master, newest, key>> /\ RotateOnly

(***************************************************************************)
(* orphanCheck(), once per start of the API.                               *)
(***************************************************************************)

CheckOnly == UNCHANGED <<master, newest, loaded, row, op, rotation, shredded, astray, stops>>
Stored == {b \in Blobs : \E p \in Procs : op[p].blob = b /\ op[p].pc \in {"put blob", "insert row"}}

\* The paths of all rows, purged ones too.
CheckRows_Purged ==
  /\ check.pc = "rows"
  /\ check' = [check EXCEPT !.pc = "list", !.known = {b \in Blobs : row[b] = "purged"}]
  /\ caught' = caught \cup Stored
  /\ UNCHANGED <<key, blob, copied>> /\ CheckOnly
CheckRows ==
  /\ check.pc = "rows"
  /\ check' = [check EXCEPT !.pc = "list", !.known = {b \in Blobs : row[b] # None}]
  /\ caught' = caught \cup Stored
  /\ UNCHANGED <<key, blob, copied>> /\ CheckOnly

\* The blobs on disk, but for staging/.
CheckList ==
  /\ check.pc = "list"
  /\ check' = [check EXCEPT !.pc = "blob", !.known = {},
                           !.todo = {b \in Blobs : blob[b] = "job"} \ check.known]
  /\ UNCHANGED <<key, blob, copied, caught>> /\ CheckOnly

\* Two renames, whose errors are ignored.
QuarantineBlob(b) ==
  /\ check.pc = "blob"
  /\ b \in check.todo
  /\ blob' = [blob EXCEPT ![b] = IF @ = "job" THEN "orphans" ELSE @]
  /\ check' = [check EXCEPT !.pc = "key", !.todo = @ \ {b}, !.blob = b]
  /\ UNCHANGED <<key, copied, caught>> /\ CheckOnly

QuarantineKey ==
  LET b == check.blob IN
  /\ check.pc = "key"
  /\ key' = IF key[b]["job"] = None THEN key
            ELSE [key EXCEPT ![b]["orphans"] = key[b]["job"], ![b]["job"] = None]
  /\ check' = [check EXCEPT !.pc = "blob", !.blob = None]
  /\ copied' = copied \cup If(Held(b), b)
  /\ UNCHANGED <<blob, caught>> /\ CheckOnly

CheckEnd ==
  /\ check.pc = "blob"
  /\ check.todo = {}
  /\ check' = NoCheck
  /\ UNCHANGED <<key, blob, copied, caught>> /\ CheckOnly

Next ==
  \/ \E p \in Procs :
       \/ Start(p) \/ Stop(p)
       \/ PutBlob(p) \/ InsertRow(p) \/ UnlinkKey(p) \/ UnlinkBlob(p)
       \/ \E mark \in BOOLEAN : MarkRow(p, mark)
       \/ \E b \in Blobs : ShredKey(p, b) \/ \E dir \in Homes(p) : PutKey(p, b, dir)
  \/ MoveBlob \/ \E b \in Blobs : MoveKey(b)
  \/ RotateBegin \/ RotateWrite \/ RotateSave \/ RotateFail
  \/ \E f \in Blobs \X Scopes : RotateRead(f)
  \/ CheckRows \/ CheckList \/ QuarantineKey \/ CheckEnd
  \/ \E b \in Blobs : QuarantineBlob(b)

Spec == Init /\ [][Next]_vars

----------------------------------------------------------------------------

Calls == {"idle", "put blob", "move blob", "insert row", "unlink key", "unlink blob", "mark row"}

\* Every variable holds what its file, row or local variable can hold.
TypeOK ==
  /\ master \in Masters /\ newest \in Masters
  /\ loaded \in [Procs -> Masters \cup {None}]
  /\ key \in [Blobs -> [Scopes -> Masters \cup {None, Zeroed}]]
  /\ blob \in [Blobs -> Scopes \cup {None}]
  /\ row \in [Blobs -> {None, "live", "purged"}]
  /\ op \in [Procs -> [pc : Calls, blob : Blobs \cup {None}, dir : {"staging", "job", None}]]
  /\ rotation \in [pc : {"idle", "read", "write"}, todo : SUBSET (Blobs \X Scopes),
                   at : (Blobs \X Scopes) \cup {None}]
  /\ check \in [pc : {"idle", "rows", "list", "blob", "key"}, known : SUBSET Blobs,
                todo : SUBSET Blobs, blob : Blobs \cup {None}]
  /\ shredded \subseteq Blobs
  /\ astray \subseteq Blobs /\ copied \subseteq Blobs /\ caught \subseteq Blobs
  /\ stops \in 0..MaxStops

\* The identities that are or may still become the master key.
Usable == {master} \cup IF rotation.pc = "idle" THEN {} ELSE {newest}
Readable(b) == blob[b] \in Scopes /\ key[b][blob[b]] \in Usable

\* What the database lists can be read by a process that starts now. Puts, moves, shreds, checks and
\* rotations may meet in any order and die anywhere: a document is lost only when its own put met a
\* rotation or a check, its own move a rotation's write, or a rotation died after it re-wrapped it.
Kept(b) == blob[b] = "job" /\ Readable(b)
Recoverable ==
  \A b \in Blobs \ (shredded \cup astray \cup copied \cup caught) : row[b] = "live" => Kept(b)

\* An upload that waits in staging can be read and moved, but for the same races.
Waiting(b) == blob[b] = "staging" /\ key[b]["staging"] # None
Queueable == \A b \in Blobs \ (astray \cup copied) : Waiting(b) => key[b]["staging"] \in Usable

\* "Without the per-file identity the blob is unrecoverable": a key that was overwritten comes back
\* by no rename, rotation or quarantine, and no call that was cut, except by a rotation that had
\* read it before it was moved or overwritten; and a check leaves no second one but of a blob that
\* it caught being stored.
ShredIsFinal ==
  \A b \in shredded \ (copied \cup caught), s \in Scopes : key[b][s] \in {None, Zeroed}

\* What the check quarantines has no row, and never gets one, unless it was being stored meanwhile.
QuarantinedIsUnnamed ==
  \A b \in Blobs \ (shredded \cup caught) : blob[b] = "orphans" => row[b] = None

\* What the comments of the code promise of every blob; the code keeps neither beside a rotation,
\* nor the first beside a check.
AlwaysRecoverable == \A b \in Blobs \ shredded : row[b] = "live" => Kept(b)
AlwaysFinal == \A b \in shredded : \A s \in Scopes : key[b][s] \in {None, Zeroed}
=============================================================================

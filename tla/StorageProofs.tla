--------------------------- MODULE StorageProofs ---------------------------
(***************************************************************************)
(* Proofs about Storage for every value of its constants, and for every    *)
(* order in which calls, deaths, rotations and checks meet: type           *)
(* correctness, and that no document the database lists is lost, that a    *)
(* shredded key stays gone and that what is quarantined has no row, but    *)
(* for the blobs that a rotation or a check met in the middle of a call.   *)
(***************************************************************************)
EXTENDS Storage, TLAPS

(***************************************************************************)
(* Type correctness is inductive only together with the blob that a call,  *)
(* a rotation and a check are at.                                          *)
(***************************************************************************)
Wrapping == {"staging", "job"}     \* the directories a rotation looks at

Placed ==
  /\ \A p \in Procs : op[p].pc # "idle" => op[p].blob \in Blobs /\ op[p].dir \in Wrapping
  /\ rotation.todo \subseteq Blobs \X Wrapping
  /\ rotation.pc = "write" => rotation.at \in Blobs \X Wrapping
  /\ check.pc = "key" => check.blob \in Blobs

TypeInv == TypeOK /\ Placed

(***************************************************************************)
(* What keeps documents readable: who works on a blob, where its one key   *)
(* file is meanwhile, and what a rotation or a check that meets it knows.  *)
(***************************************************************************)
Putting   == {"put blob", "move blob", "insert row"}
Shredding == {"unlink key", "unlink blob", "mark row"}

Fresh(b)  == row[b] = None /\ b \notin shredded
Has(b, s) == key[b][s] \in Nat
Clean(b)  == b \notin shredded /\ b \notin copied /\ b \notin caught
Storing(p, b) == op[p].pc \in Putting /\ op[p].blob = b

\* A call knows where its blob is; no two processes store the same one.
CallOK(p) == LET b == op[p].blob IN
  /\ op[p].pc \in Putting => Fresh(b)
  /\ op[p].pc = "put blob" => blob[b] = None /\ Has(b, op[p].dir)
  /\ op[p].pc = "move blob" => /\ p = Api /\ blob[b] = "staging"
                               /\ b \notin copied => key[b]["staging"] = None /\ Has(b, "job")
  /\ op[p].pc = "insert row" => /\ blob[b] = "job" \/ (blob[b] = "orphans" /\ b \in caught)
                                /\ b \notin copied => key[b]["staging"] = None
                                /\ Clean(b) => Has(b, "job")
  /\ op[p].pc \in Shredding => b \in shredded
Apart == op[Api].pc \in Putting /\ op[Worker].pc \in Putting => op[Api].blob # op[Worker].blob

\* Between calls: a blob has one key file, unless a rotation wrote a second one, and a document has
\* its own under the job, unless it was quarantined.
BlobOK(b) ==
  /\ b \notin copied => \A s, t \in Scopes : key[b][s] # None /\ key[b][t] # None => s = t
  /\ blob[b] = "staging" => Fresh(b) /\ key[b]["staging"] # Zeroed
  /\ row[b] = "live" /\ Clean(b) => blob[b] = "job" /\ Has(b, "job")
  /\ row[b] # None /\ b \notin copied => key[b]["staging"] = None
  /\ blob[b] = "orphans" /\ b \notin shredded /\ b \notin caught => row[b] = None
  /\ b \in shredded /\ b \notin copied => ~Has(b, "staging") /\ ~Has(b, "job")
  /\ b \in shredded /\ b \notin copied /\ b \notin caught => ~Has(b, "orphans")

\* The identity a key is wrapped to, unless the rotation went past it.
Pending(b, s) == <<b, s>> \in rotation.todo \/ (rotation.pc = "write" /\ rotation.at = <<b, s>>)
WrapOK(b) == b \notin copied /\ b \notin astray => \A s \in Wrapping : Has(b, s) =>
  key[b][s] = IF rotation.pc = "idle" \/ \E t \in Wrapping : Pending(b, t) THEN master ELSE newest

\* A rotation re-wraps the keys it has listed one by one; one that was renamed it never gets done.
HeldOK(b) == b \notin copied =>
  /\ Held(b) => key[b][rotation.at[2]] = master
  /\ \A s, t \in Wrapping : Pending(b, s) /\ Pending(b, t) => s = t

\* What a check lists has no row and is not being stored, unless the check caught it.
Listed(b) == b \in check.todo \/ (check.pc = "key" /\ check.blob = b)
ListOK(b) ==
  /\ check.pc = "list" => /\ row[b] # None => b \in check.known \/ b \in caught
                          /\ \A p \in Procs : Storing(p, b) => b \in caught
  /\ Listed(b) => /\ blob[b] # "staging" /\ (blob[b] = None => b \in shredded)
                  /\ b \notin caught => row[b] = None /\ \A p \in Procs : ~Storing(p, b)

\* A process that does not run is in no call; the API stores nothing while it checks.
ProcsOK == \A p \in Procs : ~Running(p) => op[p].pc = "idle"
CheckOK == /\ check.pc # "idle" => Running(Api) /\ op[Api].pc \notin Putting
           /\ check.pc \in {"idle", "rows", "list"} => check.todo = {}
RotationOK == /\ rotation.pc = "idle" => rotation.todo = {}
              /\ rotation.pc = "write" => rotation.at \notin rotation.todo

Good(b) == BlobOK(b) /\ WrapOK(b) /\ HeldOK(b) /\ ListOK(b)

Safe ==
  /\ \A p \in Procs : CallOK(p)
  /\ \A b \in Blobs : Good(b)
  /\ Apart /\ ProcsOK /\ CheckOK /\ RotationOK

IInv == TypeInv /\ Safe

-----------------------------------------------------------------------------
(* Types. *)

KeySet    == Masters \cup {None, Zeroed}
KeyMaps   == [Blobs -> [Scopes -> KeySet]]
Positions == [pc : Calls, blob : Blobs \cup {None}, dir : {"staging", "job", None}]
Rotations == [pc : {"idle", "read", "write"}, todo : SUBSET (Blobs \X Scopes),
              at : (Blobs \X Scopes) \cup {None}]
Checks    == [pc : {"idle", "rows", "list", "blob", "key"}, known : SUBSET Blobs,
              todo : SUBSET Blobs, blob : Blobs \cup {None}]

TypeMaster == master \in Masters /\ newest \in Masters /\ stops \in 0..MaxStops
TypeLoaded == loaded \in [Procs -> Masters \cup {None}]
TypeFiles  == /\ key \in KeyMaps
              /\ blob \in [Blobs -> Scopes \cup {None}]
              /\ row \in [Blobs -> {None, "live", "purged"}]
              /\ shredded \subseteq Blobs
TypeRaces  == astray \subseteq Blobs /\ copied \subseteq Blobs /\ caught \subseteq Blobs
TypeOp     == /\ op \in [Procs -> Positions]
              /\ \A p \in Procs : op[p].pc # "idle" =>
                   op[p].blob \in Blobs /\ op[p].dir \in Wrapping
TypeRotation == /\ rotation \in Rotations
                /\ rotation.todo \subseteq Blobs \X Wrapping
                /\ rotation.pc = "write" => rotation.at \in Blobs \X Wrapping
TypeCheck  == check \in Checks /\ (check.pc = "key" => check.blob \in Blobs)

Parts == /\ TypeMaster /\ TypeLoaded /\ TypeFiles /\ TypeRaces
         /\ TypeOp /\ TypeRotation /\ TypeCheck

LEMMA TypeParts == TypeInv <=> Parts
BY DEF TypeInv, TypeOK, Placed, Parts, TypeMaster, TypeLoaded, TypeFiles, TypeRaces, TypeOp,
       TypeRotation, TypeCheck, KeySet, KeyMaps, Positions, Rotations, Checks

LEMMA Bounds ==
  /\ MaxMaster \in Nat /\ MaxStops \in Nat /\ Masters \subseteq Nat
  /\ None \notin Nat /\ Zeroed \notin Nat /\ None # Zeroed /\ Api # Worker
  /\ None \notin Blobs /\ None \notin {"staging", "job", "orphans", "live", "purged"}
BY StorageAssumption DEF Masters

(* One key file is written: the others keep what they hold. *)
LEMMA OneKey ==
  ASSUME NEW k \in KeyMaps, NEW b \in Blobs, NEW s \in Scopes, NEW v \in KeySet
  PROVE  LET n == [k EXCEPT ![b][s] = v] IN
         /\ n \in KeyMaps
         /\ n[b][s] = v
         /\ \A t \in Scopes \ {s} : n[b][t] = k[b][t]
         /\ \A c \in Blobs \ {b} : n[c] = k[c]
BY DEF KeyMaps

(* A key file is renamed. *)
LEMMA RenamedKey ==
  ASSUME NEW k \in KeyMaps, NEW b \in Blobs, NEW s \in Scopes, NEW t \in Scopes, s # t
  PROVE  LET n == [k EXCEPT ![b][s] = None, ![b][t] = k[b][s]] IN
         /\ n \in KeyMaps
         /\ n[b][s] = None /\ n[b][t] = k[b][s]
         /\ \A u \in Scopes \ {s, t} : n[b][u] = k[b][u]
         /\ \A c \in Blobs \ {b} : n[c] = k[c]
BY DEF KeyMaps, KeySet

LEMMA Resting == Idle \in Positions /\ NoRotation \in Rotations /\ NoCheck \in Checks
BY DEF Idle, NoRotation, NoCheck, Positions, Rotations, Checks, Calls

LEMMA InitTypes == Init => TypeInv
<1> SUFFICES ASSUME Init PROVE Parts BY TypeParts
<1> USE Bounds
<1>0. Idle \in Positions /\ NoRotation \in Rotations /\ NoCheck \in Checks BY Resting
<1>1. TypeMaster /\ TypeLoaded
  <2>1. 0 \in Masters /\ 0 \in 0..MaxStops BY DEF Masters
  <2> QED BY <2>1 DEF Init, TypeMaster, TypeLoaded
<1>2. TypeFiles /\ TypeRaces BY DEF Init, TypeFiles, TypeRaces, KeyMaps, KeySet
<1>3. TypeOp BY <1>0 DEF Init, TypeOp, Idle
<1>4. TypeRotation /\ TypeCheck
  BY <1>0 DEF Init, TypeRotation, TypeCheck, NoRotation, NoCheck
<1> QED BY <1>1, <1>2, <1>3, <1>4 DEF Parts

LEMMA StepTypes == TypeInv /\ [Next]_vars => TypeInv'
<1> SUFFICES ASSUME TypeInv, [Next]_vars PROVE TypeInv' OBVIOUS
<1> USE Bounds
<1>0. TypeMaster /\ TypeLoaded /\ TypeFiles /\ TypeRaces /\ TypeOp /\ TypeRotation /\ TypeCheck
  BY TypeParts DEF Parts
<1> USE <1>0
<1> SUFFICES Parts'
  BY DEF TypeInv, TypeOK, Placed, Parts, TypeMaster, TypeLoaded, TypeFiles, TypeRaces, TypeOp,
         TypeRotation, TypeCheck, KeySet, KeyMaps, Positions, Rotations, Checks
<1> USE DEF CallOnly, RotateOnly, CheckOnly, files, races, Running, At, Step, If
<1>1. ASSUME NEW p \in Procs, Start(p) PROVE TypeLoaded' /\ TypeCheck'
  BY <1>1 DEF Start, TypeMaster, TypeLoaded, TypeCheck, Checks, NoCheck
<1>2. ASSUME NEW p \in Procs, Stop(p) PROVE TypeMaster' /\ TypeLoaded' /\ TypeOp' /\ TypeCheck'
  <2>1. TypeMaster' /\ TypeLoaded' BY <1>2 DEF Stop, TypeMaster, TypeLoaded
  <2>2. TypeOp' BY <1>2, Resting DEF Stop, TypeOp, Idle
  <2>3. TypeCheck' BY <1>2, Resting DEF Stop, TypeCheck, NoCheck
  <2> QED BY <2>1, <2>2, <2>3
<1>3. ASSUME NEW p \in Procs, NEW b \in Blobs, NEW dir \in Homes(p), PutKey(p, b, dir)
      PROVE  TypeFiles' /\ TypeRaces' /\ TypeOp'
  <2>1. loaded[p] \in KeySet /\ dir \in Scopes /\ dir \in Wrapping
    BY <1>3 DEF PutKey, TypeLoaded, KeySet, Homes, Scopes, Wrapping
  <2>2. key' \in KeyMaps BY <1>3, <2>1, OneKey DEF PutKey, TypeFiles
  <2>3. TypeRaces' BY <1>3 DEF PutKey, TypeRaces
  <2>4. TypeOp' BY <1>3, <2>1 DEF PutKey, TypeOp, Positions, Calls, Wrapping
  <2> QED BY <1>3, <2>2, <2>3, <2>4 DEF PutKey, TypeFiles
<1>4. ASSUME NEW p \in Procs, PutBlob(p) PROVE TypeFiles' /\ TypeOp'
  <2>0. op[p].blob \in Blobs /\ op[p].dir \in Scopes
    BY <1>4 DEF PutBlob, TypeOp, Wrapping, Scopes
  <2>1. TypeFiles' BY <1>4, <2>0 DEF PutBlob, TypeFiles
  <2>2. ASSUME op[p].dir = "job" PROVE TypeOp'
    <3>1. op' = [op EXCEPT ![p] = [@ EXCEPT !.pc = "insert row"]] BY <1>4, <2>2 DEF PutBlob
    <3> QED BY <1>4, <2>0, <3>1 DEF PutBlob, TypeOp, Positions, Calls
  <2>3. ASSUME ~(op[p].dir = "job") PROVE TypeOp'
    <3>1. op' = [op EXCEPT ![p] = Idle] BY <1>4, <2>3 DEF PutBlob
    <3> QED BY <3>1, Resting DEF TypeOp, Idle
  <2> QED BY <2>1, <2>2, <2>3
<1>5. ASSUME NEW b \in Blobs, MoveKey(b) PROVE TypeFiles' /\ TypeRaces' /\ TypeOp'
  <2>1. key' \in KeyMaps BY <1>5, RenamedKey DEF MoveKey, TypeFiles, Scopes
  <2>2. TypeRaces' BY <1>5 DEF MoveKey, TypeRaces
  <2>3. TypeOp' BY <1>5 DEF MoveKey, TypeOp, Positions, Calls, Procs, Wrapping
  <2> QED BY <1>5, <2>1, <2>2, <2>3 DEF MoveKey, TypeFiles
<1>6. ASSUME MoveBlob PROVE TypeFiles' /\ TypeOp'
  <2>0. Api \in Procs /\ op[Api].blob \in Blobs BY <1>6 DEF MoveBlob, TypeOp, Procs
  <2>1. TypeFiles' BY <1>6, <2>0 DEF MoveBlob, TypeFiles, Scopes
  <2>2. ASSUME blob[op[Api].blob] = "staging" PROVE TypeOp'
    <3>1. op' = [op EXCEPT ![Api] = [@ EXCEPT !.pc = "insert row"]] BY <1>6, <2>2 DEF MoveBlob
    <3> QED BY <1>6, <2>0, <3>1 DEF MoveBlob, TypeOp, Positions, Calls
  <2>3. ASSUME ~(blob[op[Api].blob] = "staging") PROVE TypeOp'
    <3>1. op' = [op EXCEPT ![Api] = Idle] BY <1>6, <2>3 DEF MoveBlob
    <3> QED BY <3>1, Resting DEF TypeOp, Idle
  <2> QED BY <2>1, <2>2, <2>3
<1>7. ASSUME NEW p \in Procs, InsertRow(p) PROVE TypeFiles' /\ TypeOp'
  BY <1>7 DEF InsertRow, TypeFiles, TypeOp, Positions, Calls, Idle
<1>8. ASSUME NEW p \in Procs, NEW b \in Blobs, ShredKey(p, b)
      PROVE  TypeFiles' /\ TypeRaces' /\ TypeOp'
  <2>1. key' \in KeyMaps BY <1>8, OneKey DEF ShredKey, TypeFiles, Scopes, KeySet
  <2>2. TypeRaces' BY <1>8 DEF ShredKey, TypeRaces
  <2>3. TypeOp' BY <1>8 DEF ShredKey, TypeOp, Positions, Calls, Wrapping
  <2> QED BY <1>8, <2>1, <2>2, <2>3 DEF ShredKey, TypeFiles
<1>9. ASSUME NEW p \in Procs, UnlinkKey(p) PROVE TypeFiles' /\ TypeOp'
  <2>0. op[p].blob \in Blobs BY <1>9 DEF UnlinkKey, TypeOp
  <2>1. key' = [key EXCEPT ![op[p].blob]["job"] = None] /\ key \in KeyMaps
    BY <1>9 DEF UnlinkKey, TypeFiles
  <2>2. "job" \in Scopes /\ None \in KeySet BY DEF Scopes, KeySet
  <2>3. key' \in KeyMaps BY <2>0, <2>1, <2>2, OneKey
  <2> QED BY <1>9, <2>3 DEF UnlinkKey, TypeFiles, TypeOp, Positions, Calls
<1>10. ASSUME NEW p \in Procs, UnlinkBlob(p) PROVE TypeFiles' /\ TypeOp'
  BY <1>10 DEF UnlinkBlob, TypeFiles, TypeOp, Positions, Calls
<1>11. ASSUME NEW p \in Procs, NEW mark \in BOOLEAN, MarkRow(p, mark) PROVE TypeFiles' /\ TypeOp'
  BY <1>11 DEF MarkRow, TypeFiles, TypeOp, Positions, Calls, Idle
<1>12. ASSUME RotateBegin PROVE TypeMaster' /\ TypeRotation'
  <2>1. TypeMaster' BY <1>12 DEF RotateBegin, TypeMaster, Masters
  <2>2. KeyFiles \subseteq Blobs \X Wrapping /\ Wrapping \subseteq Scopes
    BY DEF KeyFiles, Wrapping, Scopes
  <2>3. rotation'.pc = "read" /\ rotation'.todo = KeyFiles
    BY <1>12 DEF RotateBegin, NoRotation
  <2>4. rotation' \in Rotations BY <1>12, <2>2 DEF RotateBegin, NoRotation, Rotations
  <2> QED BY <2>1, <2>2, <2>3, <2>4 DEF TypeRotation
<1>13. ASSUME NEW f \in Blobs \X Scopes, RotateRead(f) PROVE TypeRotation'
  BY <1>13 DEF RotateRead, TypeRotation, Rotations
<1>14. ASSUME RotateWrite PROVE TypeFiles' /\ TypeRotation'
  <2>1. /\ rotation.at[1] \in Blobs /\ rotation.at[2] \in Scopes /\ newest \in KeySet
    BY <1>14 DEF RotateWrite, TypeRotation, TypeMaster, KeySet, Wrapping, Scopes
  <2>2. key' \in KeyMaps BY <1>14, <2>1, OneKey DEF RotateWrite, TypeFiles
  <2> QED BY <1>14, <2>2 DEF RotateWrite, TypeFiles, TypeRotation, Rotations
<1>15. ASSUME RotateSave PROVE TypeMaster' /\ TypeRotation'
  BY <1>15 DEF RotateSave, TypeMaster, TypeRotation, Rotations, NoRotation
<1>16. ASSUME RotateFail PROVE TypeRaces' /\ TypeRotation'
  BY <1>16 DEF RotateFail, TypeRaces, TypeRotation, Rotations, NoRotation
<1>17. ASSUME CheckRows \/ CheckList \/ CheckEnd PROVE TypeRaces' /\ TypeCheck'
  <2>1. CASE CheckRows BY <2>1 DEF CheckRows, TypeRaces, TypeCheck, Checks, Stored
  <2>2. CASE CheckList BY <2>2 DEF CheckList, TypeRaces, TypeCheck, Checks
  <2>3. CASE CheckEnd BY <2>3, Resting DEF CheckEnd, TypeRaces, TypeCheck, NoCheck
  <2> QED BY <1>17, <2>1, <2>2, <2>3
<1>18. ASSUME NEW b \in Blobs, QuarantineBlob(b) PROVE TypeFiles' /\ TypeCheck'
  BY <1>18 DEF QuarantineBlob, TypeFiles, TypeCheck, Checks, Scopes
<1>19. ASSUME QuarantineKey PROVE TypeFiles' /\ TypeRaces' /\ TypeCheck'
  <2> DEFINE b == check.blob
  <2>0. b \in Blobs BY <1>19 DEF QuarantineKey, TypeCheck
  <2>1. [key EXCEPT ![b]["orphans"] = key[b]["job"], ![b]["job"] = None] \in KeyMaps
    BY <2>0 DEF TypeFiles, KeyMaps, KeySet, Scopes
  <2>2. key' \in KeyMaps BY <1>19, <2>1 DEF QuarantineKey, TypeFiles
  <2>3. TypeRaces' BY <1>19, <2>0 DEF QuarantineKey, TypeRaces
  <2> QED BY <1>19, <2>2, <2>3 DEF QuarantineKey, TypeFiles, TypeCheck, Checks
<1> USE DEF Parts, TypeMaster, TypeLoaded, TypeFiles, TypeRaces, TypeOp, TypeRotation, TypeCheck
<1>20. ASSUME NEW p \in Procs, Start(p) \/ Stop(p) PROVE Parts'
  BY <1>20, <1>1, <1>2 DEF Start, Stop
<1>21. ASSUME NEW p \in Procs,
              \/ PutBlob(p) \/ InsertRow(p) \/ UnlinkKey(p) \/ UnlinkBlob(p)
              \/ \E mark \in BOOLEAN : MarkRow(p, mark)
              \/ \E b \in Blobs : ShredKey(p, b) \/ \E dir \in Homes(p) : PutKey(p, b, dir)
      PROVE  Parts'
  <2>1. ASSUME NEW b \in Blobs, NEW dir \in Homes(p), PutKey(p, b, dir) PROVE Parts'
    BY <1>3, <2>1 DEF PutKey
  <2>2. ASSUME NEW b \in Blobs, ShredKey(p, b) PROVE Parts' BY <1>8, <2>2 DEF ShredKey
  <2>3. ASSUME NEW mark \in BOOLEAN, MarkRow(p, mark) PROVE Parts' BY <1>11, <2>3 DEF MarkRow
  <2>4. CASE PutBlob(p) BY <1>4, <2>4 DEF PutBlob
  <2>5. CASE InsertRow(p) BY <1>7, <2>5 DEF InsertRow
  <2>6. CASE UnlinkKey(p) BY <1>9, <2>6 DEF UnlinkKey
  <2>7. CASE UnlinkBlob(p) BY <1>10, <2>7 DEF UnlinkBlob
  <2> QED BY <1>21, <2>1, <2>2, <2>3, <2>4, <2>5, <2>6, <2>7
<1>22. ASSUME MoveBlob \/ \E b \in Blobs : MoveKey(b) PROVE Parts'
  BY <1>22, <1>5, <1>6 DEF MoveKey, MoveBlob
<1>23. ASSUME RotateBegin \/ RotateWrite \/ RotateSave \/ RotateFail
              \/ \E f \in Blobs \X Scopes : RotateRead(f)
      PROVE  Parts'
  BY <1>23, <1>12, <1>13, <1>14, <1>15, <1>16
  DEF RotateBegin, RotateRead, RotateWrite, RotateSave, RotateFail
<1>24. ASSUME \/ CheckRows \/ CheckList \/ QuarantineKey \/ CheckEnd
              \/ \E b \in Blobs : QuarantineBlob(b)
      PROVE  Parts'
  BY <1>24, <1>17, <1>18, <1>19 DEF CheckRows, CheckList, CheckEnd, QuarantineBlob, QuarantineKey
<1>25. CASE UNCHANGED vars
  BY <1>25 DEF vars
<1> QED BY <1>20, <1>21, <1>22, <1>23, <1>24, <1>25 DEF Next

(* Every variable holds what its file, row or local variable can hold, for any blobs and however
   often the processes die and the key is rotated. *)
THEOREM TypeCorrect == Spec => []TypeOK
<1>1. Init => TypeInv BY InitTypes
<1>2. TypeInv /\ [Next]_vars => TypeInv' BY StepTypes
<1>3. TypeInv => TypeOK BY DEF TypeInv
<1> QED BY <1>1, <1>2, <1>3, PTL DEF Spec

-----------------------------------------------------------------------------
(* What a step leaves alone. *)

LEMMA InitSafe == Init => Safe
<1> SUFFICES ASSUME Init PROVE Safe OBVIOUS
<1> USE Bounds DEF Init, Idle, NoRotation, NoCheck
<1>1. \A p \in Procs : CallOK(p) BY DEF CallOK, Shredding, Putting
<1>2. Apart BY DEF Apart, Procs, Putting
<1>3. \A b \in Blobs : BlobOK(b) BY DEF BlobOK, Has
<1>4. \A b \in Blobs : WrapOK(b) BY DEF WrapOK, Has, Wrapping, Scopes
<1>5. \A b \in Blobs : HeldOK(b) BY DEF HeldOK, Held, Pending
<1>6. \A b \in Blobs : ListOK(b) BY DEF ListOK, Listed
<1>7. ProcsOK /\ CheckOK /\ RotationOK BY DEF ProcsOK, Running, CheckOK, RotationOK
<1> QED BY <1>1, <1>2, <1>3, <1>4, <1>5, <1>6, <1>7 DEF Safe, Good

(* The files and the row of a blob are left alone, and no race is noted of it. *)
Same(b) ==
  /\ key'[b] = key[b] /\ blob'[b] = blob[b] /\ row'[b] = row[b]
  /\ b \in shredded' <=> b \in shredded
  /\ b \in astray' <=> b \in astray
  /\ b \in copied' <=> b \in copied
  /\ b \in caught' <=> b \in caught

LEMMA CallKept ==
  ASSUME NEW p \in Procs, CallOK(p), op'[p] = op[p],
         op[p].pc \in Putting => Same(op[p].blob), shredded \subseteq shredded'
  PROVE  CallOK(p)'
<1> DEFINE b == op[p].blob
<1>1. CASE op[p].pc \in Putting
  <2>1. Same(b) /\ op'[p] = op[p] BY <1>1
  <2> QED BY <2>1 DEF CallOK, Same, Fresh, Has, Clean, Putting, Shredding
<1>2. CASE op[p].pc \notin Putting BY <1>2 DEF CallOK, Putting
<1> QED BY <1>1, <1>2

LEMMA BlobKept == ASSUME NEW b \in Blobs, BlobOK(b), Same(b) PROVE BlobOK(b)'
BY DEF BlobOK, Same, Fresh, Has, Clean

(* A blob whose keys are left alone while no rotation moves. *)
LEMMA KeysKept ==
  ASSUME NEW b \in Blobs, WrapOK(b), HeldOK(b), key'[b] = key[b],
         UNCHANGED <<rotation, master, newest>>,
         b \in copied => b \in copied', b \in astray => b \in astray'
  PROVE  WrapOK(b)' /\ HeldOK(b)'
BY DEF WrapOK, HeldOK, Has, Held, Pending

LEMMA ListKept ==
  ASSUME NEW b \in Blobs, ListOK(b), UNCHANGED check, blob'[b] = blob[b], row'[b] = row[b],
         b \in shredded => b \in shredded', b \in caught => b \in caught',
         \A q \in Procs : Storing(q, b)' => Storing(q, b)
  PROVE  ListOK(b)'
BY DEF ListOK, Listed

LEMMA GoodKept ==
  ASSUME NEW b \in Blobs, Good(b), Same(b), UNCHANGED <<rotation, check, master, newest>>,
         \A q \in Procs : Storing(q, b)' => Storing(q, b)
  PROVE  Good(b)'
<1>1. BlobOK(b)' BY BlobKept DEF Good
<1>2. WrapOK(b)' /\ HeldOK(b)' BY KeysKept DEF Good, Same
<1>3. ListOK(b)' BY ListKept DEF Good, Same
<1> QED BY <1>1, <1>2, <1>3 DEF Good

-----------------------------------------------------------------------------
(* A storage call. *)

(* A step of p that touches blob b alone: what there is to show about it. *)
Touches(p, b) ==
  /\ Running(p) /\ CallOnly
  /\ \A q \in Procs \ {p} : op'[q] = op[q]
  /\ \A c \in Blobs \ {b} : Same(c)
  /\ shredded \subseteq shredded'
  /\ op[p].pc # "idle" => op[p].blob = b
  /\ op'[p].pc # "idle" => op'[p].blob = b
  /\ \A q \in Procs \ {p} : op[q].pc \in Putting => op[q].blob # b
  /\ check.pc # "idle" /\ p = Api => op'[p].pc \notin Putting

LEMMA CallStep ==
  ASSUME Safe, TypeInv, NEW p \in Procs, NEW b \in Blobs,
         Touches(p, b), CallOK(p)', Good(b)'
  PROVE  Safe'
<1> USE Bounds DEF Touches
<1>1. ASSUME NEW q \in Procs PROVE CallOK(q)'
  <2>1. CASE q = p BY <2>1
  <2>2. CASE q # p
    <3>1. op'[q] = op[q] /\ CallOK(q) BY <2>2 DEF Safe
    <3>2. op[q].pc \in Putting => op[q].blob \in Blobs \ {b}
      BY <2>2 DEF TypeInv, Placed, Putting
    <3> QED BY <3>1, <3>2, CallKept
  <2> QED BY <2>1, <2>2
<1>2. Apart'
  <2>1. \A q \in Procs \ {p} : op'[q].pc \in Putting => op'[q].blob # b OBVIOUS
  <2>2. op'[p].pc \in Putting => op'[p].blob = b BY DEF Putting
  <2>3. CASE p = Api BY <2>1, <2>2, <2>3 DEF Apart, Procs
  <2>4. CASE p = Worker BY <2>1, <2>2, <2>4 DEF Apart, Procs
  <2> QED BY <2>3, <2>4 DEF Procs
<1>3. ASSUME NEW c \in Blobs PROVE Good(c)'
  <2>1. CASE c = b BY <2>1
  <2>2. CASE c # b
    <3>1. Good(c) /\ Same(c) BY <2>2 DEF Safe
    <3>2. ASSUME NEW q \in Procs, Storing(q, c)' PROVE Storing(q, c)
      <4>1. q # p BY <2>2, <3>2 DEF Storing, Putting
      <4> QED BY <3>2, <4>1 DEF Storing
    <3> QED BY <3>1, <3>2, GoodKept DEF CallOnly
  <2> QED BY <2>1, <2>2
<1>4. ProcsOK'
  <2>1. UNCHANGED loaded BY DEF CallOnly
  <2>2. \A q \in Procs \ {p} : op'[q] = op[q] OBVIOUS
  <2> QED BY <2>1, <2>2 DEF Safe, ProcsOK, Running
<1>5. CheckOK'
  <2>1. check' = check /\ loaded' = loaded /\ CheckOK BY DEF CallOnly, Safe
  <2>2. check.pc # "idle" => op'[Api].pc \notin Putting BY <2>1 DEF CheckOK, Procs
  <2> QED BY <2>1, <2>2 DEF CheckOK, Running
<1>6. RotationOK' BY DEF CallOnly, Safe, RotationOK
<1> QED BY <1>1, <1>2, <1>3, <1>4, <1>5, <1>6 DEF Safe

(* Nobody else puts or moves the blob of a put or a move, nor one that has a row or was shredded. *)
LEMMA OthersApart ==
  ASSUME Safe, NEW p \in Procs, op[p].pc \in Putting
  PROVE  \A q \in Procs \ {p} : op[q].pc \in Putting => op[q].blob # op[p].blob
<1>1. CASE p = Api BY <1>1, Bounds DEF Safe, Apart, Procs
<1>2. CASE p = Worker BY <1>2, Bounds DEF Safe, Apart, Procs
<1> QED BY <1>1, <1>2 DEF Procs

LEMMA PutIsFresh ==
  ASSUME Safe, NEW q \in Procs, op[q].pc \in Putting
  PROVE  Fresh(op[q].blob)
BY DEF Safe, CallOK

LEMMA PutKeySafe ==
  ASSUME Safe, TypeInv, NEW p \in Procs, NEW b \in Blobs, NEW dir \in Homes(p), PutKey(p, b, dir)
  PROVE  Safe'
<1> USE Bounds
<1>1. /\ key \in KeyMaps /\ loaded[p] \in Nat /\ loaded[p] \in KeySet /\ dir \in Wrapping
      /\ Wrapping \subseteq Scopes /\ op[p].pc = "idle" /\ Running(p) /\ op \in [Procs -> Positions]
      /\ master \in Nat
  BY TypeParts
  DEF Parts, PutKey, At, Running, TypeLoaded, TypeFiles, TypeOp, TypeMaster, Homes, Wrapping,
      Scopes, KeySet
<1>2. /\ key'[b][dir] = loaded[p]
      /\ \A t \in Scopes \ {dir} : key'[b][t] = None
      /\ \A c \in Blobs \ {b} : key'[c] = key[c]
  <2>1. key' = [key EXCEPT ![b][dir] = loaded[p]] /\ \A t \in Scopes : key[b][t] = None
    BY <1>1 DEF PutKey
  <2> QED BY <1>1, <2>1, OneKey
<1>3. /\ op'[p].pc = "put blob" /\ op'[p].blob = b /\ op'[p].dir = dir
      /\ \A q \in Procs \ {p} : op'[q] = op[q]
  BY <1>1 DEF PutKey
<1>4. /\ UNCHANGED <<blob, row, shredded, copied>> /\ CallOnly /\ Fresh(b) /\ blob[b] = None
      /\ astray' = astray \cup If(rotation.pc # "idle" \/ loaded[p] # master, b)
      /\ caught' = caught \cup If(check.pc = "list", b)
      /\ \A t \in Scopes : key[b][t] = None
  BY DEF PutKey, Fresh
<1>5. Good(b) BY DEF Safe
<1>6. CallOK(p)'
  <2>1. Fresh(b)' /\ Has(b, dir)' /\ blob'[b] = None BY <1>1, <1>2, <1>4 DEF Fresh, Has
  <2> QED BY <1>3, <2>1 DEF CallOK, Shredding
<1>7. BlobOK(b)' BY <1>1, <1>2, <1>4 DEF BlobOK, Fresh
<1>8. WrapOK(b)'
  <2> SUFFICES ASSUME b \notin astray', NEW s \in Wrapping, Has(b, s)'
               PROVE  rotation'.pc = "idle" /\ key'[b][s] = master'
    BY DEF WrapOK
  <2>1. rotation.pc = "idle" /\ loaded[p] = master BY <1>4 DEF If
  <2>2. s = dir BY <1>1, <1>2 DEF Has
  <2> QED BY <1>2, <1>4, <2>1, <2>2 DEF CallOnly
<1>9. HeldOK(b)'
  <2>1. b \notin copied => ~Held(b)
    <3>1. Held(b) => rotation.at[2] \in Scopes
      BY <1>1 DEF Held, TypeInv, Placed
    <3> QED BY <1>1, <1>4, <1>5, <3>1 DEF Good, HeldOK
  <2> QED BY <1>4, <1>5, <2>1 DEF Good, HeldOK, Held, Pending, CallOnly
<1>10. ListOK(b)'
  <2>1. ~Listed(b) BY <1>4, <1>5 DEF Good, ListOK, Fresh
  <2>2. check.pc = "list" => b \in caught' BY <1>4 DEF If
  <2> QED BY <1>4, <2>1, <2>2 DEF ListOK, Listed, CallOnly
<1>11. \A q \in Procs \ {p} : op[q].pc \in Putting => op[q].blob # b
  <2> SUFFICES ASSUME NEW q \in Procs \ {p}, op[q].pc \in Putting, op[q].blob = b PROVE FALSE
    OBVIOUS
  <2>1. blob[b] = None /\ ~Has(b, op[q].dir)
    <3>1. op[q].dir \in Scopes BY <1>1 DEF TypeInv, Placed, Putting
    <3> QED BY <1>4, <3>1 DEF Has
  <2> QED BY <2>1 DEF Safe, CallOK, Putting
<1>12. \A c \in Blobs \ {b} : Same(c) BY <1>2, <1>4 DEF Same, If
<1>13. check.pc # "idle" => p # Api BY DEF PutKey, Serving
<1>14. Touches(p, b) BY <1>1, <1>3, <1>4, <1>11, <1>12, <1>13 DEF Touches
<1> QED BY <1>6, <1>7, <1>8, <1>9, <1>10, <1>14, CallStep DEF Good

LEMMA PutBlobSafe ==
  ASSUME Safe, TypeInv, NEW p \in Procs, NEW b \in Blobs, op[p].blob = b, PutBlob(p)
  PROVE  Safe'
<1> USE Bounds
<1> DEFINE dir == op[p].dir
<1>1. /\ op \in [Procs -> Positions] /\ Running(p) /\ op[p].pc = "put blob"
      /\ dir \in Wrapping /\ dir \in Scopes /\ blob \in [Blobs -> Scopes \cup {None}]
  BY TypeParts DEF Parts, PutBlob, At, TypeOp, TypeFiles, Wrapping, Scopes
<1>2. Fresh(b) /\ blob[b] = None /\ Has(b, dir) BY <1>1 DEF Safe, CallOK, Putting
<1>3. /\ UNCHANGED <<key, row, shredded, astray, copied, caught>> /\ CallOnly
      /\ UNCHANGED <<rotation, check, master, newest>>
  BY DEF PutBlob, races, CallOnly
<1>4. blob'[b] = dir /\ \A c \in Blobs \ {b} : blob'[c] = blob[c] BY <1>1 DEF PutBlob
<1>5. \A q \in Procs \ {p} : op'[q] = op[q] BY <1>1 DEF PutBlob, Step
<1>6. IF dir = "job" THEN op'[p].pc = "insert row" /\ op'[p].blob = b ELSE op'[p].pc = "idle"
  <2>1. CASE dir = "job"
    <3>1. op' = [op EXCEPT ![p] = [@ EXCEPT !.pc = "insert row"]] BY <2>1 DEF PutBlob, Step
    <3> QED BY <1>1, <2>1, <3>1 DEF Positions
  <2>2. CASE dir # "job"
    <3>1. op' = [op EXCEPT ![p] = Idle] BY <2>2 DEF PutBlob
    <3> QED BY <1>1, <2>2, <3>1 DEF Idle
  <2> QED BY <2>1, <2>2
<1>7. Good(b) BY DEF Safe
<1>8. CallOK(p)'
  <2>1. CASE dir = "job"
    <3>1. b \notin copied => key[b]["staging"] = None
      BY <1>2, <1>7, <2>1 DEF Good, BlobOK, Has, Scopes
    <3>2. op'[p].pc = "insert row" /\ op'[p].blob = b BY <1>6, <2>1
    <3>3. Fresh(b)' /\ Has(b, "job")' /\ blob'[b] = "job"
      BY <1>2, <1>3, <1>4, <2>1 DEF Fresh, Has
    <3> QED BY <1>3, <3>1, <3>2, <3>3 DEF CallOK, Shredding
  <2>2. CASE dir # "job" BY <1>6, <2>2 DEF CallOK, Shredding, Putting
  <2> QED BY <2>1, <2>2
<1>9. BlobOK(b)'
  <2>1. dir = "staging" => key[b]["staging"] # Zeroed BY <1>2 DEF Has
  <2>2. dir # "orphans" BY <1>1 DEF Wrapping
  <2> QED BY <1>2, <1>3, <1>4, <1>7, <2>1, <2>2 DEF Good, BlobOK, Fresh, Has
<1>10. WrapOK(b)' /\ HeldOK(b)' BY <1>3, <1>7, KeysKept DEF Good
<1>11. ListOK(b)'
  <2>1. ~Listed(b) BY <1>2, <1>7 DEF Good, ListOK, Fresh
  <2>2. check.pc = "list" => b \in caught
    BY <1>1, <1>7 DEF Good, ListOK, Storing, Putting
  <2> QED BY <1>3, <2>1, <2>2 DEF ListOK, Listed
<1>12. \A c \in Blobs \ {b} : Same(c) BY <1>3, <1>4 DEF Same
<1>13. \A q \in Procs \ {p} : op[q].pc \in Putting => op[q].blob # b
  BY <1>1, OthersApart DEF Putting
<1>14. check.pc # "idle" => p # Api BY <1>1 DEF Safe, CheckOK, Putting
<1>15. Touches(p, b) BY <1>1, <1>3, <1>5, <1>6, <1>12, <1>13, <1>14 DEF Touches
<1> QED BY <1>8, <1>9, <1>10, <1>11, <1>15, CallStep DEF Good

LEMMA MoveKeySafe ==
  ASSUME Safe, TypeInv, NEW b \in Blobs, MoveKey(b)
  PROVE  Safe'
<1> USE Bounds
<1>1. /\ Api \in Procs /\ op \in [Procs -> Positions] /\ Running(Api) /\ key \in KeyMaps
      /\ "staging" \in Scopes /\ "job" \in Scopes /\ op[Api].pc = "idle"
  BY TypeParts DEF Parts, MoveKey, At, TypeOp, TypeFiles, Scopes, Procs
<1>2. Good(b) BY DEF Safe
<1>3. Fresh(b) /\ blob[b] = "staging" /\ Has(b, "staging")
  <2>1. Fresh(b) /\ blob[b] = "staging" /\ key[b]["staging"] \notin {None, Zeroed}
    BY <1>2 DEF MoveKey, Good, BlobOK
  <2>2. key[b]["staging"] \in KeySet BY <1>1 DEF KeyMaps
  <2> QED BY <2>1, <2>2 DEF Has, KeySet
<1>4. /\ UNCHANGED <<blob, row, shredded, astray, caught>> /\ CallOnly /\ check.pc = "idle"
      /\ copied' = copied \cup If(Held(b), b)
      /\ UNCHANGED <<rotation, check, master, newest>>
  BY DEF MoveKey, Serving, CallOnly
<1>5. /\ key'[b]["staging"] = None /\ key'[b]["job"] = key[b]["staging"]
      /\ \A t \in Scopes \ {"staging", "job"} : key'[b][t] = key[b][t]
      /\ \A c \in Blobs \ {b} : key'[c] = key[c]
  <2>1. key' = [key EXCEPT ![b]["staging"] = None, ![b]["job"] = key[b]["staging"]] BY DEF MoveKey
  <2> QED BY <1>1, <2>1 DEF KeyMaps
<1>6. op'[Api].pc = "move blob" /\ op'[Api].blob = b /\ \A q \in Procs \ {Api} : op'[q] = op[q]
  BY <1>1 DEF MoveKey
<1>7. b \notin copied' => b \notin copied /\ ~Held(b) BY <1>4 DEF If
<1>8. CallOK(Api)'
  <2>1. Fresh(b)' /\ Has(b, "job")' /\ blob'[b] = "staging"
    BY <1>3, <1>4, <1>5 DEF Fresh, Has
  <2> QED BY <1>5, <1>6, <2>1 DEF CallOK, Shredding
<1>9. BlobOK(b)'
  <2>1. b \notin copied => \A t \in Scopes \ {"staging"} : key[b][t] = None
    BY <1>1, <1>2, <1>3 DEF Good, BlobOK, Has
  <2>2. b \notin copied' => \A t \in Scopes \ {"job"} : key'[b][t] = None
    BY <1>5, <1>7, <2>1
  <2>3. Fresh(b)' /\ blob'[b] = "staging" BY <1>3, <1>4 DEF Fresh
  <2> QED BY <1>5, <2>2, <2>3 DEF BlobOK, Fresh
<1>10. WrapOK(b)'
  <2> SUFFICES ASSUME b \notin copied', b \notin astray, NEW s \in Wrapping, Has(b, s)'
               PROVE  key[b]["staging"] =
                        IF rotation.pc = "idle" \/ \E t \in Wrapping : Pending(b, t)
                        THEN master ELSE newest
    <3>1. \A s \in Wrapping : Has(b, s)' => key'[b][s] = key[b]["staging"]
      BY <1>5 DEF Wrapping, Has
    <3> QED BY <1>4, <3>1 DEF WrapOK, Pending
  <2> QED BY <1>2, <1>3, <1>7 DEF Good, WrapOK, Wrapping
<1>11. HeldOK(b)' BY <1>2, <1>4, <1>7 DEF Good, HeldOK, Held, Pending
<1>12. ListOK(b)'
  <2>1. ~Listed(b) BY <1>4 DEF Safe, CheckOK, Listed
  <2> QED BY <1>4, <2>1 DEF ListOK, Listed
<1>13. \A q \in Procs \ {Api} : op[q].pc \in Putting => op[q].blob # b
  BY <1>3 DEF Safe, CallOK, Putting
<1>14. \A c \in Blobs \ {b} : Same(c) BY <1>4, <1>5 DEF Same, If
<1>15. Touches(Api, b) BY <1>1, <1>4, <1>6, <1>13, <1>14 DEF Touches
<1> QED BY <1>1, <1>8, <1>9, <1>10, <1>11, <1>12, <1>15, CallStep DEF Good

LEMMA MoveBlobSafe ==
  ASSUME Safe, TypeInv, NEW b \in Blobs, op[Api].blob = b, MoveBlob
  PROVE  Safe'
<1> USE Bounds
<1>1. /\ Api \in Procs /\ op \in [Procs -> Positions] /\ Running(Api) /\ op[Api].pc = "move blob"
      /\ blob \in [Blobs -> Scopes \cup {None}]
  BY TypeParts DEF Parts, MoveBlob, At, TypeOp, TypeFiles, Procs
<1>2. /\ Fresh(b) /\ blob[b] = "staging"
      /\ b \notin copied => key[b]["staging"] = None /\ Has(b, "job")
  BY <1>1 DEF Safe, CallOK, Putting
<1>3. /\ blob' = [blob EXCEPT ![b] = "job"] /\ CallOnly
      /\ UNCHANGED <<key, row, shredded, astray, copied, caught>>
      /\ UNCHANGED <<rotation, check, master, newest>>
  BY <1>2 DEF MoveBlob, Step, races, CallOnly
<1>4. blob'[b] = "job" /\ \A c \in Blobs \ {b} : blob'[c] = blob[c] BY <1>1, <1>3
<1>5. op'[Api].pc = "insert row" /\ op'[Api].blob = b /\ \A q \in Procs \ {Api} : op'[q] = op[q]
  <2>1. op' = [op EXCEPT ![Api] = [@ EXCEPT !.pc = "insert row"]] BY <1>2 DEF MoveBlob, Step
  <2> QED BY <1>1, <2>1 DEF Positions
<1>6. Good(b) BY DEF Safe
<1>7. CallOK(Api)'
  <2>1. /\ Fresh(b)' /\ blob'[b] = "job"
        /\ b \notin copied' => key'[b]["staging"] = None /\ Has(b, "job")'
    BY <1>2, <1>3, <1>4 DEF Fresh, Has
  <2> QED BY <1>5, <2>1 DEF CallOK, Clean, Shredding
<1>8. BlobOK(b)' BY <1>2, <1>3, <1>4, <1>6 DEF Good, BlobOK, Fresh, Has
<1>9. WrapOK(b)' /\ HeldOK(b)' BY <1>3, <1>6, KeysKept DEF Good
<1>10. check.pc = "idle" BY <1>1 DEF Safe, CheckOK, Putting
<1>11. ListOK(b)'
  <2>1. ~Listed(b) BY <1>10 DEF Safe, CheckOK, Listed
  <2> QED BY <1>3, <1>10, <2>1 DEF ListOK, Listed
<1>12. \A q \in Procs \ {Api} : op[q].pc \in Putting => op[q].blob # b
  BY <1>1, OthersApart DEF Putting
<1>13. \A c \in Blobs \ {b} : Same(c) BY <1>3, <1>4 DEF Same
<1>14. Touches(Api, b) BY <1>1, <1>3, <1>5, <1>10, <1>12, <1>13 DEF Touches
<1> QED BY <1>1, <1>7, <1>8, <1>9, <1>11, <1>14, CallStep DEF Good

LEMMA InsertRowSafe ==
  ASSUME Safe, TypeInv, NEW p \in Procs, NEW b \in Blobs, op[p].blob = b, InsertRow(p)
  PROVE  Safe'
<1> USE Bounds
<1>1. /\ op \in [Procs -> Positions] /\ Running(p) /\ op[p].pc = "insert row"
      /\ row \in [Blobs -> {None, "live", "purged"}]
  BY TypeParts DEF Parts, InsertRow, At, TypeOp, TypeFiles
<1>2. /\ Fresh(b) /\ (blob[b] = "job" \/ (blob[b] = "orphans" /\ b \in caught))
      /\ b \notin copied => key[b]["staging"] = None
      /\ Clean(b) => Has(b, "job")
  BY <1>1 DEF Safe, CallOK, Putting
<1>3. /\ row' = [row EXCEPT ![b] = "live"] /\ CallOnly
      /\ UNCHANGED <<key, blob, shredded, astray, copied, caught>>
      /\ UNCHANGED <<rotation, check, master, newest>>
  BY DEF InsertRow, races, CallOnly
<1>4. row'[b] = "live" /\ \A c \in Blobs \ {b} : row'[c] = row[c] BY <1>1, <1>3
<1>5. op'[p].pc = "idle" /\ \A q \in Procs \ {p} : op'[q] = op[q]
  <2>1. op' = [op EXCEPT ![p] = Idle] BY DEF InsertRow
  <2> QED BY <1>1, <2>1 DEF Idle
<1>6. Good(b) BY DEF Safe
<1>7. CallOK(p)' BY <1>5 DEF CallOK, Shredding, Putting
<1>8. BlobOK(b)' BY <1>2, <1>3, <1>4, <1>6 DEF Good, BlobOK, Fresh, Clean, Has
<1>9. WrapOK(b)' /\ HeldOK(b)' BY <1>3, <1>6, KeysKept DEF Good
<1>10. ListOK(b)'
  <2>1. (check.pc = "list" \/ Listed(b)) => b \in caught
    BY <1>1, <1>6 DEF Good, ListOK, Storing, Putting
  <2> QED BY <1>3, <1>6, <2>1 DEF Good, ListOK, Listed
<1>11. \A q \in Procs \ {p} : op[q].pc \in Putting => op[q].blob # b
  BY <1>1, OthersApart DEF Putting
<1>12. \A c \in Blobs \ {b} : Same(c) BY <1>3, <1>4 DEF Same
<1>13. Touches(p, b) BY <1>1, <1>3, <1>5, <1>11, <1>12 DEF Touches, Putting
<1> QED BY <1>7, <1>8, <1>9, <1>10, <1>13, CallStep DEF Good

LEMMA ShredKeySafe ==
  ASSUME Safe, TypeInv, NEW p \in Procs, NEW b \in Blobs, ShredKey(p, b)
  PROVE  Safe'
<1> USE Bounds
<1>1. /\ op \in [Procs -> Positions] /\ Running(p) /\ row[b] = "live" /\ key \in KeyMaps
      /\ op[p].pc = "idle" /\ "job" \in Scopes /\ shredded \subseteq Blobs
  BY TypeParts DEF Parts, ShredKey, At, TypeOp, TypeFiles, Scopes
<1>2. Good(b) BY DEF Safe
<1>3. /\ UNCHANGED <<blob, row, caught>> /\ CallOnly /\ shredded' = shredded \cup {b}
      /\ astray' = astray \ {b} /\ copied' = copied \cup If(Held(b), b)
      /\ UNCHANGED <<rotation, check, master, newest>>
  BY DEF ShredKey, CallOnly
<1>4. /\ key'[b]["job"] \in {None, Zeroed} /\ (key[b]["job"] = None => key'[b]["job"] = None)
      /\ \A t \in Scopes \ {"job"} : key'[b][t] = key[b][t]
      /\ \A c \in Blobs \ {b} : key'[c] = key[c]
  <2> DEFINE v == IF key[b]["job"] = None THEN None ELSE Zeroed
  <2>1. key' = [key EXCEPT ![b]["job"] = v] BY DEF ShredKey
  <2>2. v \in KeySet /\ v \in {None, Zeroed} /\ (key[b]["job"] = None => v = None) BY DEF KeySet
  <2> HIDE DEF v
  <2> QED BY <1>1, <2>1, <2>2, OneKey
<1>5. op'[p].pc = "unlink key" /\ op'[p].blob = b /\ \A q \in Procs \ {p} : op'[q] = op[q]
  <2>1. op' = [op EXCEPT ![p] = [pc |-> "unlink key", blob |-> b, dir |-> "job"]] BY DEF ShredKey
  <2> QED BY <1>1, <2>1
<1>6. b \notin copied' => b \notin copied /\ ~Held(b) BY <1>3 DEF If
<1>7. b \in shredded' /\ blob[b] # "staging" BY <1>1, <1>2, <1>3 DEF Good, BlobOK, Fresh
<1>8. CallOK(p)' BY <1>5, <1>7 DEF CallOK, Shredding, Putting
<1>9. b \notin copied' => ~Has(b, "staging")' /\ ~Has(b, "job")'
  BY <1>1, <1>2, <1>4, <1>6 DEF Good, BlobOK, Has, Scopes
<1>10. BlobOK(b)'
  <2>1. b \notin copied' => \A s, t \in Scopes : key'[b][s] # None /\ key'[b][t] # None => s = t
    <3>1. \A s \in Scopes : key'[b][s] # None => key[b][s] # None BY <1>4
    <3> QED BY <1>2, <1>6, <3>1 DEF Good, BlobOK
  <2>2. b \notin copied' => key'[b]["staging"] = None
    BY <1>1, <1>2, <1>4, <1>6 DEF Good, BlobOK, Scopes
  <2>3. b \notin copied' /\ b \notin caught' => ~Has(b, "orphans")'
    <3> SUFFICES ASSUME b \notin copied, b \notin caught PROVE ~Has(b, "orphans")
      BY <1>3, <1>4, <1>6 DEF Has, Scopes
    <3>1. CASE b \in shredded BY <1>2, <3>1 DEF Good, BlobOK
    <3>2. CASE b \notin shredded
      BY <1>1, <1>2, <3>2 DEF Good, BlobOK, Clean, Has, Scopes
    <3> QED BY <3>1, <3>2
  <2> QED BY <1>3, <1>7, <1>9, <2>1, <2>2, <2>3 DEF BlobOK, Clean
<1>11. WrapOK(b)' BY <1>9 DEF WrapOK, Wrapping
<1>12. HeldOK(b)' BY <1>2, <1>3, <1>6 DEF Good, HeldOK, Held, Pending
<1>13. \A q \in Procs \ {p} : op[q].pc \in Putting => op[q].blob # b
  BY <1>1, PutIsFresh DEF Fresh
<1>14. ListOK(b)'
  <2>1. \A q \in Procs : Storing(q, b)' => Storing(q, b) BY <1>5 DEF Storing, Putting
  <2> QED BY <1>2, <1>3, <2>1, ListKept DEF Good
<1>15. \A c \in Blobs \ {b} : Same(c) BY <1>3, <1>4 DEF Same, If
<1>16. Touches(p, b) BY <1>1, <1>3, <1>5, <1>13, <1>15 DEF Touches, Putting
<1> QED BY <1>8, <1>10, <1>11, <1>12, <1>14, <1>16, CallStep DEF Good

LEMMA UnlinkKeySafe ==
  ASSUME Safe, TypeInv, NEW p \in Procs, NEW b \in Blobs, op[p].blob = b, UnlinkKey(p)
  PROVE  Safe'
<1> USE Bounds
<1>1. /\ op \in [Procs -> Positions] /\ Running(p) /\ op[p].pc = "unlink key" /\ key \in KeyMaps
      /\ "job" \in Scopes /\ None \in KeySet /\ master \in Nat
  BY TypeParts DEF Parts, UnlinkKey, At, TypeOp, TypeFiles, TypeMaster, Scopes, KeySet
<1>2. b \in shredded /\ Good(b) BY <1>1 DEF Safe, CallOK, Shredding
<1>3. /\ UNCHANGED <<blob, row, shredded, astray, copied, caught>> /\ CallOnly
      /\ key' = [key EXCEPT ![b]["job"] = None]
      /\ UNCHANGED <<rotation, check, master, newest>>
  BY DEF UnlinkKey, Step, races, CallOnly
<1>4. /\ key'[b]["job"] = None
      /\ \A t \in Scopes \ {"job"} : key'[b][t] = key[b][t]
      /\ \A c \in Blobs \ {b} : key'[c] = key[c]
  <2>1. key' = [key EXCEPT ![b]["job"] = None] BY <1>3
  <2> QED BY <1>1, <2>1 DEF KeyMaps
<1>5. op'[p].pc = "unlink blob" /\ op'[p].blob = b /\ \A q \in Procs \ {p} : op'[q] = op[q]
  <2>1. op' = [op EXCEPT ![p] = [@ EXCEPT !.pc = "unlink blob"]] BY DEF UnlinkKey, Step
  <2> QED BY <1>1, <2>1 DEF Positions
<1>6. CallOK(p)' BY <1>2, <1>3, <1>5 DEF CallOK, Shredding, Putting
<1>7. BlobOK(b)'
  <2>1. \A s \in Scopes : key'[b][s] # None => key'[b][s] = key[b][s] BY <1>4
  <2> QED BY <1>2, <1>3, <2>1, <1>4 DEF Good, BlobOK, Fresh, Clean, Has, Scopes
<1>8. b \notin copied => ~Has(b, "staging")' /\ ~Has(b, "job")'
  BY <1>2, <1>3, <1>7 DEF BlobOK
<1>9. WrapOK(b)' BY <1>3, <1>8 DEF WrapOK, Wrapping
<1>10. HeldOK(b)'
  <2>1. b \notin copied => ~Held(b)
    <3>1. Held(b) => rotation.at[2] \in Wrapping BY DEF Held, TypeInv, Placed
    <3> QED BY <1>1, <1>2, <3>1 DEF Good, HeldOK, BlobOK, Has, Wrapping
  <2> QED BY <1>2, <1>3, <2>1 DEF Good, HeldOK, Held, Pending
<1>11. \A q \in Procs \ {p} : op[q].pc \in Putting => op[q].blob # b
  BY <1>2, PutIsFresh DEF Fresh
<1>12. ListOK(b)'
  <2>1. \A q \in Procs : Storing(q, b)' => Storing(q, b) BY <1>5 DEF Storing, Putting
  <2> QED BY <1>2, <1>3, <2>1, ListKept DEF Good
<1>13. \A c \in Blobs \ {b} : Same(c) BY <1>3, <1>4 DEF Same
<1>14. Touches(p, b) BY <1>1, <1>3, <1>5, <1>11, <1>13 DEF Touches, Putting
<1> QED BY <1>6, <1>7, <1>9, <1>10, <1>12, <1>14, CallStep DEF Good

LEMMA UnlinkBlobSafe ==
  ASSUME Safe, TypeInv, NEW p \in Procs, NEW b \in Blobs, op[p].blob = b, UnlinkBlob(p)
  PROVE  Safe'
<1> USE Bounds
<1>1. /\ op \in [Procs -> Positions] /\ Running(p) /\ op[p].pc = "unlink blob"
      /\ blob \in [Blobs -> Scopes \cup {None}]
  BY TypeParts DEF Parts, UnlinkBlob, At, TypeOp, TypeFiles
<1>2. b \in shredded /\ Good(b) BY <1>1 DEF Safe, CallOK, Shredding
<1>3. /\ UNCHANGED <<key, row, shredded, astray, copied, caught>> /\ CallOnly
      /\ blob' = [blob EXCEPT ![b] = IF @ = "job" THEN None ELSE @]
      /\ UNCHANGED <<rotation, check, master, newest>>
  BY DEF UnlinkBlob, Step, races, CallOnly
<1>4. /\ blob'[b] \in {None, blob[b]}
      /\ \A c \in Blobs \ {b} : blob'[c] = blob[c]
  BY <1>1, <1>3
<1>5. op'[p].pc = "mark row" /\ op'[p].blob = b /\ \A q \in Procs \ {p} : op'[q] = op[q]
  <2>1. op' = [op EXCEPT ![p] = [@ EXCEPT !.pc = "mark row"]] BY DEF UnlinkBlob, Step
  <2> QED BY <1>1, <2>1 DEF Positions
<1>6. CallOK(p)' BY <1>2, <1>3, <1>5 DEF CallOK, Shredding, Putting
<1>7. BlobOK(b)' BY <1>2, <1>3, <1>4 DEF Good, BlobOK, Fresh, Clean, Has
<1>8. WrapOK(b)' /\ HeldOK(b)' BY <1>2, <1>3, KeysKept DEF Good
<1>9. \A q \in Procs \ {p} : op[q].pc \in Putting => op[q].blob # b
  BY <1>2, PutIsFresh DEF Fresh
<1>10. ListOK(b)'
  <2>1. \A q \in Procs : Storing(q, b)' => Storing(q, b) BY <1>5 DEF Storing, Putting
  <2> QED BY <1>2, <1>3, <1>4, <2>1 DEF Good, ListOK, Listed
<1>11. \A c \in Blobs \ {b} : Same(c) BY <1>3, <1>4 DEF Same
<1>12. Touches(p, b) BY <1>1, <1>3, <1>5, <1>9, <1>11 DEF Touches, Putting
<1> QED BY <1>6, <1>7, <1>8, <1>10, <1>12, CallStep DEF Good

LEMMA MarkRowSafe ==
  ASSUME Safe, TypeInv, NEW p \in Procs, NEW b \in Blobs, op[p].blob = b,
         NEW mark \in BOOLEAN, MarkRow(p, mark)
  PROVE  Safe'
<1> USE Bounds
<1>1. /\ op \in [Procs -> Positions] /\ Running(p) /\ op[p].pc = "mark row"
      /\ row \in [Blobs -> {None, "live", "purged"}]
  BY TypeParts DEF Parts, MarkRow, At, TypeOp, TypeFiles
<1>2. b \in shredded /\ Good(b) BY <1>1 DEF Safe, CallOK, Shredding
<1>3. /\ UNCHANGED <<key, blob, shredded, astray, copied, caught>> /\ CallOnly
      /\ row' = [row EXCEPT ![b] = IF ~mark THEN None ELSE IF @ = "live" THEN "purged" ELSE @]
      /\ UNCHANGED <<rotation, check, master, newest>>
  BY DEF MarkRow, races, CallOnly
<1>4. /\ row'[b] # None => row[b] # None
      /\ \A c \in Blobs \ {b} : row'[c] = row[c]
  BY <1>1, <1>3
<1>5. op'[p].pc = "idle" /\ \A q \in Procs \ {p} : op'[q] = op[q]
  <2>1. op' = [op EXCEPT ![p] = Idle] BY DEF MarkRow
  <2> QED BY <1>1, <2>1 DEF Idle
<1>6. CallOK(p)' BY <1>5 DEF CallOK, Shredding, Putting
<1>7. BlobOK(b)' BY <1>2, <1>3, <1>4 DEF Good, BlobOK, Fresh, Clean, Has
<1>8. WrapOK(b)' /\ HeldOK(b)' BY <1>2, <1>3, KeysKept DEF Good
<1>9. \A q \in Procs \ {p} : op[q].pc \in Putting => op[q].blob # b
  BY <1>2, PutIsFresh DEF Fresh
<1>10. ListOK(b)'
  <2>1. \A q \in Procs : Storing(q, b)' => Storing(q, b) BY <1>5 DEF Storing, Putting
  <2> QED BY <1>2, <1>3, <1>4, <2>1 DEF Good, ListOK, Listed
<1>11. \A c \in Blobs \ {b} : Same(c) BY <1>3, <1>4 DEF Same
<1>12. Touches(p, b) BY <1>1, <1>3, <1>5, <1>9, <1>11 DEF Touches, Putting
<1> QED BY <1>6, <1>7, <1>8, <1>10, <1>12, CallStep DEF Good

-----------------------------------------------------------------------------
(* The processes. *)

LEMMA StartSafe ==
  ASSUME Safe, TypeInv, NEW p \in Procs, Start(p)
  PROVE  Safe'
<1> USE Bounds
<1>1. UNCHANGED <<master, newest, op, key, blob, row, shredded, astray, copied, caught, rotation>>
  BY DEF Start, files, races
<1>2. /\ loaded'[p] = master /\ \A q \in Procs \ {p} : loaded'[q] = loaded[q]
      /\ op[p].pc = "idle" /\ master \in Nat
  BY TypeParts DEF Parts, Start, TypeLoaded, TypeMaster, Safe, ProcsOK
<1>3. \A b \in Blobs : Same(b) BY <1>1 DEF Same
<1>4. \A q \in Procs : CallOK(q)'
  <2>1. ASSUME NEW q \in Procs PROVE CallOK(q)'
    <3>1. op[q].pc \in Putting => Same(op[q].blob) BY <1>1 DEF Same
    <3> QED BY <1>1, <3>1, CallKept DEF Safe
  <2> QED BY <2>1
<1>5. Apart' BY <1>1 DEF Safe, Apart
<1>6. ProcsOK'
  <2>1. ProcsOK BY DEF Safe
  <2> QED BY <1>1, <1>2, <2>1 DEF ProcsOK, Running
<1>7. p = Api => check'.pc = "rows" /\ check'.todo = {}
  BY DEF Start, NoCheck
<1>8. p # Api => check' = check /\ loaded'[Api] = loaded[Api]
  BY <1>2 DEF Start, Procs
<1>9. CheckOK'
  <2>1. CASE p = Api
    BY <1>1, <1>2, <1>7, <2>1 DEF CheckOK, Running, Putting
  <2>2. CASE p # Api BY <1>1, <1>8, <2>2 DEF Safe, CheckOK, Running
  <2> QED BY <2>1, <2>2
<1>10. RotationOK' BY <1>1 DEF Safe, RotationOK
<1>11. ASSUME NEW b \in Blobs PROVE Good(b)'
  <2>1. Good(b) BY DEF Safe
  <2>2. BlobOK(b)' BY <1>3, <2>1, BlobKept DEF Good
  <2>3. WrapOK(b)' /\ HeldOK(b)' BY <1>1, <2>1, KeysKept DEF Good
  <2>4. ListOK(b)'
    <3>1. CASE p = Api BY <1>7, <3>1 DEF ListOK, Listed
    <3>2. CASE p # Api
      <4>1. \A q \in Procs : Storing(q, b)' => Storing(q, b) BY <1>1 DEF Storing
      <4> QED BY <1>1, <1>8, <2>1, <3>2, <4>1, ListKept DEF Good
    <3> QED BY <3>1, <3>2
  <2> QED BY <2>2, <2>3, <2>4 DEF Good
<1> QED BY <1>4, <1>5, <1>6, <1>9, <1>10, <1>11 DEF Safe

LEMMA StopSafe ==
  ASSUME Safe, TypeInv, NEW p \in Procs, Stop(p)
  PROVE  Safe'
<1> USE Bounds
<1>1. UNCHANGED <<master, newest, key, blob, row, shredded, astray, copied, caught, rotation>>
  BY DEF Stop, files, races
<1>2. /\ loaded'[p] = None /\ \A q \in Procs \ {p} : loaded'[q] = loaded[q]
      /\ op'[p].pc = "idle" /\ \A q \in Procs \ {p} : op'[q] = op[q]
  BY TypeParts DEF Parts, Stop, TypeLoaded, TypeOp, Idle
<1>3. \A b \in Blobs : Same(b) BY <1>1 DEF Same
<1>4. \A q \in Procs : CallOK(q)'
  <2>1. CallOK(p)' BY <1>2 DEF CallOK, Shredding, Putting
  <2>2. ASSUME NEW q \in Procs \ {p} PROVE CallOK(q)'
    <3>1. op[q].pc \in Putting => Same(op[q].blob) BY <1>1 DEF Same
    <3> QED BY <1>1, <1>2, <3>1, CallKept DEF Safe
  <2> QED BY <2>1, <2>2
<1>5. \A q \in Procs : op'[q] = op[q] \/ op'[q].pc \notin Putting BY <1>2 DEF Putting
<1>6. Apart' BY <1>5 DEF Safe, Apart, Procs
<1>7. ProcsOK'
  <2>1. ProcsOK BY DEF Safe
  <2> QED BY <1>1, <1>2, <2>1 DEF ProcsOK, Running
<1>8. p = Api => check' = NoCheck BY DEF Stop
<1>9. p # Api => check' = check /\ loaded'[Api] = loaded[Api] BY <1>2 DEF Stop, Procs
<1>10. CheckOK'
  <2>1. CASE p = Api BY <1>8, <2>1 DEF NoCheck, CheckOK
  <2>2. CASE p # Api BY <1>5, <1>9, <2>2 DEF Safe, CheckOK, Running, Procs
  <2> QED BY <2>1, <2>2
<1>11. RotationOK' BY <1>1 DEF Safe, RotationOK
<1>12. ASSUME NEW b \in Blobs PROVE Good(b)'
  <2>1. Good(b) BY DEF Safe
  <2>2. BlobOK(b)' BY <1>3, <2>1, BlobKept DEF Good
  <2>3. WrapOK(b)' /\ HeldOK(b)' BY <1>1, <2>1, KeysKept DEF Good
  <2>4. ListOK(b)'
    <3>1. CASE p = Api BY <1>8, <3>1 DEF NoCheck, ListOK, Listed
    <3>2. CASE p # Api
      <4>1. \A q \in Procs : Storing(q, b)' => Storing(q, b) BY <1>5 DEF Storing
      <4> QED BY <1>1, <1>9, <2>1, <3>2, <4>1, ListKept DEF Good
    <3> QED BY <3>1, <3>2
  <2> QED BY <2>2, <2>3, <2>4 DEF Good
<1> QED BY <1>4, <1>6, <1>7, <1>10, <1>11, <1>12 DEF Safe

-----------------------------------------------------------------------------
(* The rotation, beside whatever the processes do. *)

(* A step of the rotation: what there is to show about it. *)
LEMMA RotationStep ==
  ASSUME Safe, TypeInv, RotateOnly, RotationOK', \A p \in Procs : CallOK(p)',
         \A b \in Blobs : BlobOK(b)' /\ WrapOK(b)' /\ HeldOK(b)'
  PROVE  Safe'
<1>1. UNCHANGED <<loaded, blob, row, op, check, shredded, caught>> BY DEF RotateOnly
<1>2. Apart' /\ ProcsOK' /\ CheckOK'
  BY <1>1 DEF Safe, Apart, ProcsOK, CheckOK, Running
<1>3. ASSUME NEW b \in Blobs PROVE ListOK(b)'
  <2>1. ListOK(b) BY DEF Safe, Good
  <2> QED BY <1>1, <2>1, ListKept DEF Storing
<1> QED BY <1>2, <1>3 DEF Safe, Good

(* ... and when it writes no key. *)
LEMMA RotationFilesKept ==
  ASSUME Safe, TypeInv, RotateOnly, UNCHANGED key
  PROVE  /\ \A p \in Procs : CallOK(p)'
         /\ \A b \in Blobs : BlobOK(b)'
<1>1. UNCHANGED <<blob, row, op, shredded, copied, caught>> BY DEF RotateOnly
<1>2. ASSUME NEW p \in Procs PROVE CallOK(p)'
  BY <1>1 DEF Safe, CallOK, Fresh, Has, Clean
<1>3. ASSUME NEW b \in Blobs PROVE BlobOK(b)'
  BY <1>1 DEF Safe, Good, BlobOK, Fresh, Has, Clean
<1> QED BY <1>2, <1>3

LEMMA RotateBeginSafe ==
  ASSUME Safe, TypeInv, RotateBegin
  PROVE  Safe'
<1> USE Bounds
<1>1. rotation.pc = "idle" /\ UNCHANGED <<master, key, astray, copied>> /\ RotateOnly
  BY DEF RotateBegin, RotateOnly
<1>2. rotation'.pc = "read" /\ rotation'.todo = KeyFiles BY DEF RotateBegin, NoRotation
<1>3. \A b \in Blobs, s \in Wrapping : Pending(b, s)' <=> key[b][s] # None
  BY <1>2 DEF Pending, KeyFiles, Wrapping
<1>4. RotationOK' BY <1>2 DEF RotationOK
<1>5. ASSUME NEW b \in Blobs PROVE WrapOK(b)' /\ HeldOK(b)'
  <2>1. Good(b) BY DEF Safe
  <2>2. WrapOK(b)'
    <3>1. ASSUME b \notin copied, b \notin astray, NEW s \in Wrapping, Has(b, s)
          PROVE  key[b][s] = master /\ key[b][s] # None
      BY <1>1, <2>1, <3>1 DEF Good, WrapOK, Has
    <3> QED BY <1>1, <1>3, <3>1 DEF WrapOK, Has
  <2>3. HeldOK(b)'
    BY <1>1, <1>2, <1>3, <2>1 DEF Good, BlobOK, HeldOK, Held, Wrapping, Scopes
  <2> QED BY <2>2, <2>3
<1> QED BY <1>1, <1>4, <1>5, RotationFilesKept, RotationStep

LEMMA RotateReadSafe ==
  ASSUME Safe, TypeInv, NEW f \in Blobs \X Scopes, RotateRead(f)
  PROVE  Safe'
<1> USE Bounds
<1>1. /\ rotation.pc = "read" /\ f \in rotation.todo /\ key[f[1]][f[2]] = master
      /\ UNCHANGED <<master, newest, key, astray, copied>> /\ RotateOnly
  BY DEF RotateRead, RotateOnly
<1>2. rotation'.pc = "write" /\ rotation'.at = f /\ rotation'.todo = rotation.todo \ {f}
  BY TypeParts DEF Parts, RotateRead, TypeRotation, Rotations
<1>3. RotationOK' BY <1>2 DEF RotationOK
<1>4. ASSUME NEW b \in Blobs PROVE WrapOK(b)' /\ HeldOK(b)'
  <2>1. Good(b) BY DEF Safe
  <2>2. \A s \in Wrapping : Pending(b, s)' <=> Pending(b, s) BY <1>1, <1>2 DEF Pending
  <2>3. WrapOK(b)' BY <1>1, <1>2, <2>1, <2>2 DEF Good, WrapOK, Has
  <2>4. HeldOK(b)' BY <1>1, <1>2, <2>1, <2>2 DEF Good, HeldOK, Held
  <2> QED BY <2>3, <2>4
<1> QED BY <1>1, <1>3, <1>4, RotationFilesKept, RotationStep

LEMMA RotateWriteSafe ==
  ASSUME Safe, TypeInv, RotateWrite, NEW f \in Blobs \X Wrapping, f = rotation.at
  PROVE  Safe'
<1> USE Bounds
<1>1. /\ rotation.pc = "write" /\ f \notin rotation.todo
      /\ UNCHANGED <<master, newest, astray>> /\ RotateOnly
      /\ UNCHANGED <<blob, row, op, shredded, copied, caught>>
  BY DEF RotateWrite, RotateOnly, Safe, RotationOK
<1>2. rotation'.pc = "read" /\ rotation'.todo = rotation.todo
  BY TypeParts DEF Parts, RotateWrite, TypeRotation, Rotations
<1>3. /\ f[1] \in Blobs /\ f[2] \in Scopes /\ f[2] \in Wrapping /\ key \in KeyMaps
      /\ newest \in KeySet /\ newest \in Nat /\ master \in Nat /\ f = <<f[1], f[2]>>
      /\ Wrapping \subseteq Scopes
  <2>1. f[1] \in Blobs /\ f[2] \in Wrapping /\ f = <<f[1], f[2]>> OBVIOUS
  <2>2. key \in KeyMaps /\ newest \in Masters /\ master \in Masters
    BY TypeParts DEF Parts, TypeFiles, TypeMaster
  <2> QED BY <2>1, <2>2 DEF KeySet, Wrapping, Scopes
<1>4. /\ key'[f[1]][f[2]] = newest
      /\ \A t \in Scopes \ {f[2]} : key'[f[1]][t] = key[f[1]][t]
      /\ \A c \in Blobs \ {f[1]} : key'[c] = key[c]
  <2>1. key' = [key EXCEPT ![f[1]][f[2]] = newest] BY DEF RotateWrite
  <2> QED BY <1>3, <2>1, OneKey
<1>5. \A b \in Blobs, s \in Scopes : Has(b, s) => Has(b, s)' BY <1>3, <1>4 DEF Has
<1>6. \A b \in Blobs, s \in Scopes : b \notin copied =>
        key'[b][s] = key[b][s] \/ (Has(b, s) /\ Has(b, s)')
  <2> SUFFICES ASSUME NEW b \in Blobs, NEW s \in Scopes, b \notin copied, b = f[1], s = f[2]
               PROVE  Has(b, s) /\ Has(b, s)'
    BY <1>4
  <2>1. Held(b) BY <1>1 DEF Held
  <2>2. key[b][s] = master BY <2>1 DEF Safe, Good, HeldOK
  <2> QED BY <1>3, <1>4, <2>2 DEF Has
<1>7. ASSUME NEW p \in Procs PROVE CallOK(p)'
  <2>1. CallOK(p) /\ (op[p].pc \in Putting => op[p].blob \in Blobs /\ op[p].dir \in Scopes)
    BY <1>3 DEF Safe, TypeInv, Placed, Putting
  <2>2. CASE op[p].pc \in Putting
    <3>1. PICK b \in Blobs, d \in Scopes : b = op[p].blob /\ d = op[p].dir BY <2>1, <2>2
    <3>2. b \notin copied /\ key[b]["staging"] = None => key'[b]["staging"] = None
      BY <1>6, Bounds DEF Has, Scopes
    <3>3. (Has(b, "job") => Has(b, "job")') /\ (Has(b, d) => Has(b, d)') BY <1>5 DEF Scopes
    <3>4. (Fresh(b) => Fresh(b)') /\ (Clean(b)' => Clean(b)) BY <1>1 DEF Fresh, Clean
    <3>5. op'[p] = op[p] /\ UNCHANGED <<blob, copied, caught>> BY <1>1
    <3> QED BY <2>1, <2>2, <3>1, <3>2, <3>3, <3>4, <3>5 DEF CallOK, Putting, Shredding
  <2>3. CASE op[p].pc \notin Putting
    BY <1>1, <2>1, <2>3 DEF CallOK, Putting, Shredding
  <2> QED BY <2>2, <2>3
<1>8. ASSUME NEW b \in Blobs PROVE BlobOK(b)'
  <2>0. BlobOK(b) BY DEF Safe, Good
  <2>1. key'[b]["staging"] = Zeroed => key[b]["staging"] = Zeroed
    BY <1>3, <1>4 DEF Scopes
  <2>2. CASE b \in copied
    BY <1>1, <2>0, <2>1, <2>2 DEF BlobOK, Fresh, Clean
  <2>3. CASE b \notin copied
    <3>1. \A s \in Scopes : /\ key'[b][s] # None => key[b][s] # None
                            /\ Has(b, s)' <=> Has(b, s)
      BY <1>6, <2>3 DEF Has
    <3>2. \A s, t \in Scopes : key'[b][s] # None /\ key'[b][t] # None => s = t
      BY <2>0, <2>3, <3>1 DEF BlobOK
    <3> QED BY <1>1, <2>0, <2>1, <2>3, <3>1, <3>2 DEF BlobOK, Fresh, Clean, Scopes
  <2> QED BY <2>2, <2>3
<1>9. ASSUME NEW b \in Blobs PROVE WrapOK(b)' /\ HeldOK(b)'
  <2>0. Good(b) BY DEF Safe
  <2>1. CASE b = f[1]
    <3>1. Pending(b, f[2]) /\ Held(b) BY <1>1, <1>3, <2>1 DEF Pending, Held
    <3>2. b \notin copied => \A t \in Wrapping : ~Pending(b, t)'
      <4> SUFFICES ASSUME b \notin copied, NEW t \in Wrapping, Pending(b, t)' PROVE FALSE
        OBVIOUS
      <4>1. <<b, t>> \in rotation.todo BY <1>2 DEF Pending
      <4>2. t = f[2] BY <1>3, <2>0, <3>1, <4>1 DEF Good, HeldOK, Pending
      <4> QED BY <1>1, <1>3, <2>1, <4>1, <4>2
    <3>3. b \notin copied => \A s \in Wrapping : Has(b, s)' => s = f[2]
      <4> SUFFICES ASSUME b \notin copied, NEW s \in Wrapping, Has(b, s)', s # f[2] PROVE FALSE
        OBVIOUS
      <4>1. key[b][f[2]] = master BY <2>0, <3>1 DEF Good, HeldOK
      <4>2. key'[b][s] = key[b][s] BY <1>3, <1>4, <2>1
      <4> QED BY <1>3, <2>0, <4>1, <4>2 DEF Good, BlobOK, Has
    <3>4. WrapOK(b)' BY <1>1, <1>2, <1>4, <2>1, <3>2, <3>3 DEF WrapOK
    <3>5. HeldOK(b)' BY <1>1, <1>2, <3>2 DEF HeldOK, Held
    <3> QED BY <3>4, <3>5
  <2>2. CASE b # f[1]
    <3>1. \A s \in Wrapping : Pending(b, s)' <=> Pending(b, s) BY <1>1, <1>2, <2>2 DEF Pending
    <3>2. key'[b] = key[b] BY <1>4, <2>2
    <3>3. WrapOK(b)' BY <1>1, <1>2, <2>0, <3>1, <3>2 DEF Good, WrapOK, Has
    <3>4. HeldOK(b)' BY <1>1, <1>2, <2>0, <3>1 DEF Good, HeldOK, Held
    <3> QED BY <3>3, <3>4
  <2> QED BY <2>1, <2>2
<1>10. RotationOK' BY <1>2 DEF RotationOK
<1> QED BY <1>1, <1>7, <1>8, <1>9, <1>10, RotationStep

LEMMA RotateEndSafe ==
  ASSUME Safe, TypeInv, RotateSave \/ RotateFail
  PROVE  Safe'
<1> USE Bounds
<1>1. UNCHANGED <<key, copied>> /\ RotateOnly /\ rotation.pc # "idle"
  BY DEF RotateSave, RotateFail, RotateOnly
<1>2. rotation'.pc = "idle" /\ rotation'.todo = {} BY DEF RotateSave, RotateFail, NoRotation
<1>3. RotationOK' BY <1>2 DEF RotationOK
<1>4. ASSUME NEW b \in Blobs PROVE WrapOK(b)' /\ HeldOK(b)'
  <2>0. Good(b) BY DEF Safe
  <2>1. HeldOK(b)' BY <1>2 DEF HeldOK, Held, Pending
  <2>2. CASE RotateSave
    <3>1. \A s \in Wrapping : ~Pending(b, s) BY <2>2 DEF RotateSave, Pending
    <3>2. master' = newest /\ astray' = astray BY <2>2 DEF RotateSave
    <3>3. WrapOK(b)' BY <1>1, <1>2, <2>0, <3>1, <3>2 DEF Good, WrapOK, Has
    <3> QED BY <2>1, <3>3
  <2>3. CASE RotateFail
    <3>1. /\ master' = master
          /\ astray' = astray \cup {c \in Blobs \ shredded : \E s \in Scopes : key[c][s] = newest}
      BY <2>3 DEF RotateFail
    <3>2. ASSUME b \notin copied, b \notin astray', NEW s \in Wrapping, Has(b, s)
          PROVE  key[b][s] = master
      <4>1. b \notin shredded BY <2>0, <3>2 DEF Good, BlobOK, Wrapping
      <4>2. s \in Scopes BY DEF Wrapping, Scopes
      <4>3. key[b][s] # newest BY <3>1, <3>2, <4>1, <4>2
      <4> QED BY <2>0, <3>1, <3>2, <4>3 DEF Good, WrapOK
    <3>3. WrapOK(b)' BY <1>1, <1>2, <3>1, <3>2 DEF WrapOK, Has
    <3> QED BY <2>1, <3>3
  <2> QED BY <2>2, <2>3
<1> QED BY <1>1, <1>3, <1>4, RotationFilesKept, RotationStep

-----------------------------------------------------------------------------
(* The orphan check, which may meet puts, shreds and a rotation. *)

(* A step of the check that leaves the files alone. *)
LEMMA CheckReadSafe ==
  ASSUME Safe, TypeInv, CheckRows \/ CheckList \/ CheckEnd
  PROVE  Safe'
<1> USE Bounds
<1>1. /\ UNCHANGED <<key, blob, row, shredded, astray, copied, op, loaded, rotation, master>>
      /\ UNCHANGED newest
      /\ caught \subseteq caught' /\ check.pc # "idle"
  BY DEF CheckRows, CheckList, CheckEnd, CheckOnly
<1>2. ASSUME NEW p \in Procs PROVE CallOK(p)'
  BY <1>1 DEF Safe, CallOK, Fresh, Has, Clean
<1>3. Apart' /\ ProcsOK' /\ RotationOK' BY <1>1 DEF Safe, Apart, ProcsOK, Running, RotationOK
<1>4. check \in Checks BY TypeParts DEF Parts, TypeCheck
<1>5. op[Api].pc \notin Putting /\ Running(Api) BY <1>1 DEF Safe, CheckOK
<1>6. CASE CheckRows
  <2>1. /\ check'.pc = "list" /\ check'.known = {b \in Blobs : row[b] # None}
        /\ check'.todo = check.todo /\ check.todo = {} /\ caught' = caught \cup Stored
    BY <1>4, <1>6 DEF CheckRows, Checks, Safe, CheckOK
  <2>2. CheckOK' BY <1>1, <1>5, <2>1 DEF CheckOK, Running
  <2>3. ASSUME NEW b \in Blobs, NEW p \in Procs, Storing(p, b)' PROVE b \in caught'
    <3>1. op[p].pc # "move blob" BY <1>5 DEF Safe, CallOK, Putting
    <3>2. b \in Stored BY <1>1, <2>3, <3>1 DEF Storing, Putting, Stored
    <3> QED BY <2>1, <3>2
  <2>4. \A b \in Blobs : ListOK(b)' BY <1>1, <2>1, <2>3 DEF ListOK, Listed
  <2>5. ASSUME NEW b \in Blobs PROVE BlobOK(b)' /\ WrapOK(b)' /\ HeldOK(b)'
    <3>1. Good(b) BY DEF Safe
    <3>2. BlobOK(b)' BY <1>1, <3>1 DEF Good, BlobOK, Fresh, Has, Clean
    <3> QED BY <1>1, <3>1, <3>2, KeysKept DEF Good
  <2> QED BY <1>2, <1>3, <2>2, <2>4, <2>5 DEF Safe, Good
<1>7. CASE CheckList \/ CheckEnd
  <2>1. UNCHANGED caught BY <1>7 DEF CheckList, CheckEnd
  <2>2. CheckOK' /\ \A b \in Blobs : ListOK(b)'
    <3>1. CASE CheckList
      <4>1. /\ check'.pc = "blob" /\ check.pc = "list"
            /\ check'.todo = {b \in Blobs : blob[b] = "job"} \ check.known
        BY <1>4, <3>1 DEF CheckList, Checks
      <4>2. CheckOK' BY <1>1, <1>5, <4>1 DEF CheckOK, Running
      <4>3. ASSUME NEW b \in Blobs PROVE ListOK(b)'
        <5>1. ListOK(b) BY DEF Safe, Good
        <5>2. Listed(b)' => blob[b] = "job" /\ b \notin check.known BY <4>1 DEF Listed
        <5> QED BY <1>1, <2>1, <4>1, <5>1, <5>2 DEF ListOK, Storing
      <4> QED BY <4>2, <4>3
    <3>2. CASE CheckEnd BY <3>2 DEF CheckEnd, NoCheck, CheckOK, ListOK, Listed
    <3> QED BY <1>7, <3>1, <3>2
  <2>3. ASSUME NEW b \in Blobs PROVE BlobOK(b)' /\ WrapOK(b)' /\ HeldOK(b)'
    <3>1. Good(b) BY DEF Safe
    <3>2. Same(b) BY <1>1, <2>1 DEF Same
    <3> QED BY <1>1, <3>1, <3>2, BlobKept, KeysKept DEF Good
  <2> QED BY <1>2, <1>3, <2>2, <2>3 DEF Safe, Good
<1> QED BY <1>6, <1>7

(* A rename of the check touches blob b alone: what there is to show about it. *)
LEMMA QuarantineStep ==
  ASSUME Safe, TypeInv, CheckOnly, UNCHANGED caught, NEW b \in Blobs, Listed(b),
         check.pc # "idle", \A c \in Blobs \ {b} : Same(c), blob'[b] \in {blob[b], "orphans"},
         key'[b]["staging"] = key[b]["staging"], blob'[b] = None => blob[b] = None,
         CheckOK', \A c \in Blobs : Listed(c)' => Listed(c), check'.pc # "list",
         BlobOK(b)', WrapOK(b)', HeldOK(b)', b \notin copied' => b \notin copied
  PROVE  Safe'
<1> USE Bounds
<1>1. UNCHANGED <<master, newest, loaded, row, op, rotation, shredded, astray, caught>>
  BY DEF CheckOnly
<1>2. /\ blob[b] # "staging" /\ (blob[b] = None => b \in shredded)
      /\ b \notin caught => row[b] = None /\ \A q \in Procs : ~Storing(q, b)
  BY DEF Safe, Good, ListOK
<1>3. ASSUME NEW q \in Procs PROVE CallOK(q)'
  <2>1. CASE op[q].pc \in Putting /\ op[q].blob = b
    <3>1. CallOK(q) /\ b \in caught /\ Fresh(b) BY <1>2, <2>1 DEF Safe, Storing, CallOK
    <3>2. op[q].pc = "insert row" /\ (blob[b] = "job" \/ blob[b] = "orphans")
          /\ (b \notin copied => key[b]["staging"] = None)
      BY <1>2, <2>1, <3>1 DEF CallOK, Putting, Fresh
    <3>3. blob'[b] = "job" \/ blob'[b] = "orphans" BY <3>2
    <3>4. Fresh(b)' /\ b \in caught' /\ ~Clean(b)' BY <1>1, <3>1 DEF Fresh, Clean
    <3>5. op'[q] = op[q] /\ op[q].blob = b BY <1>1, <2>1
    <3> QED BY <3>2, <3>3, <3>4, <3>5 DEF CallOK, Shredding
  <2>2. CASE ~(op[q].pc \in Putting /\ op[q].blob = b)
    <3>1. op[q].pc \in Putting => Same(op[q].blob) BY <2>2 DEF TypeInv, Placed, Putting
    <3> QED BY <1>1, <3>1, CallKept DEF Safe
  <2> QED BY <2>1, <2>2
<1>4. ASSUME NEW c \in Blobs PROVE Good(c)'
  <2>0. Good(c) BY DEF Safe
  <2>1. CASE c = b
    <3>1. ListOK(b)' BY <1>1, <1>2 DEF ListOK, Storing
    <3> QED BY <2>1, <3>1 DEF Good
  <2>2. CASE c # b
    <3>1. Same(c) BY <2>2
    <3>2. BlobOK(c)' BY <2>0, <3>1, BlobKept DEF Good
    <3>3. WrapOK(c)' /\ HeldOK(c)' BY <1>1, <2>0, <3>1, KeysKept DEF Good, Same
    <3>4. ListOK(c)' BY <1>1, <2>0, <3>1 DEF Good, ListOK, Storing, Same
    <3> QED BY <3>2, <3>3, <3>4 DEF Good
  <2> QED BY <2>1, <2>2
<1>5. Apart' /\ ProcsOK' /\ RotationOK' BY <1>1 DEF Safe, Apart, ProcsOK, Running, RotationOK
<1> QED BY <1>3, <1>4, <1>5 DEF Safe

LEMMA QuarantineBlobSafe ==
  ASSUME Safe, TypeInv, NEW b \in Blobs, QuarantineBlob(b)
  PROVE  Safe'
<1> USE Bounds
<1>1. /\ UNCHANGED <<key, row, shredded, astray, copied, caught, rotation, master, op, loaded>>
      /\ UNCHANGED newest
      /\ CheckOnly /\ check.pc = "blob" /\ b \in check.todo
  BY DEF QuarantineBlob, CheckOnly
<1>2. /\ check'.pc = "key" /\ check'.todo = check.todo \ {b} /\ check'.blob = b
  BY TypeParts DEF Parts, QuarantineBlob, TypeCheck, Checks
<1>3. /\ blob'[b] = IF blob[b] = "job" THEN "orphans" ELSE blob[b]
      /\ \A c \in Blobs \ {b} : blob'[c] = blob[c]
  BY TypeParts DEF Parts, QuarantineBlob, TypeFiles
<1>4. Listed(b) /\ Good(b) BY <1>1 DEF Listed, Safe
<1>5. /\ blob[b] # "staging" /\ (blob[b] = None => b \in shredded)
      /\ b \notin caught => row[b] = None
  BY <1>4 DEF Good, ListOK
<1>6. BlobOK(b)' BY <1>1, <1>3, <1>4, <1>5, Bounds DEF Good, BlobOK, Fresh, Clean, Has
<1>7. WrapOK(b)' /\ HeldOK(b)' BY <1>1, <1>4, KeysKept DEF Good
<1>8. CheckOK' BY <1>1, <1>2 DEF Safe, CheckOK, Running
<1>9. \A c \in Blobs : Listed(c)' => Listed(c) BY <1>1, <1>2 DEF Listed
<1>10. \A c \in Blobs \ {b} : Same(c) BY <1>1, <1>3 DEF Same
<1> QED BY <1>1, <1>2, <1>3, <1>4, <1>6, <1>7, <1>8, <1>9, <1>10, QuarantineStep

LEMMA QuarantineKeySafe ==
  ASSUME Safe, TypeInv, QuarantineKey, NEW b \in Blobs, b = check.blob
  PROVE  Safe'
<1> USE Bounds
<1>1. /\ UNCHANGED <<blob, row, shredded, astray, caught, rotation, master, newest, op, loaded>>
      /\ CheckOnly /\ check.pc = "key" /\ copied' = copied \cup If(Held(b), b)
  BY DEF QuarantineKey, CheckOnly
<1>2. check'.pc = "blob" /\ check'.todo = check.todo
  BY TypeParts DEF Parts, QuarantineKey, TypeCheck, Checks
<1>3. /\ key \in KeyMaps /\ "job" \in Scopes /\ "orphans" \in Scopes /\ "staging" \in Scopes
      /\ Scopes = {"staging", "job", "orphans"}
  BY TypeParts DEF Parts, TypeFiles, Scopes
<1>4. /\ key'[b]["staging"] = key[b]["staging"]
      /\ IF key[b]["job"] = None THEN key'[b] = key[b]
         ELSE key'[b]["job"] = None /\ key'[b]["orphans"] = key[b]["job"]
      /\ \A c \in Blobs \ {b} : key'[c] = key[c]
  <2>1. CASE key[b]["job"] = None
    <3>1. key' = key BY <2>1 DEF QuarantineKey
    <3> QED BY <2>1, <3>1
  <2>2. CASE key[b]["job"] # None
    <3>1. key' = [key EXCEPT ![b]["orphans"] = key[b]["job"], ![b]["job"] = None]
      BY <2>2 DEF QuarantineKey
    <3> QED BY <1>3, <2>2, <3>1 DEF KeyMaps
  <2> QED BY <2>1, <2>2
<1>5. Listed(b) /\ Good(b) BY <1>1 DEF Listed, Safe
<1>6. /\ blob[b] # "staging" /\ (blob[b] = None => b \in shredded)
      /\ b \notin caught => row[b] = None
  BY <1>5 DEF Good, ListOK
<1>7. b \notin copied' => b \notin copied /\ ~Held(b) BY <1>1 DEF If
<1>8. BlobOK(b)'
  <2>1. b \notin copied' => \A s, t \in Scopes : key'[b][s] # None /\ key'[b][t] # None => s = t
    BY <1>3, <1>4, <1>5, <1>7 DEF Good, BlobOK
  <2>2. b \notin copied' => /\ Has(b, "job")' => Has(b, "job")
                            /\ Has(b, "staging")' => Has(b, "staging")
                            /\ Has(b, "orphans")' => Has(b, "orphans") \/ Has(b, "job")
    BY <1>3, <1>4 DEF Has
  <2> QED BY <1>1, <1>4, <1>5, <1>6, <1>7, <2>1, <2>2 DEF Good, BlobOK, Clean
<1>9. WrapOK(b)'
  <2>1. \A s \in Wrapping : Has(b, s)' => Has(b, s) /\ key'[b][s] = key[b][s]
    BY <1>4 DEF Has, Wrapping
  <2>2. WrapOK(b) BY <1>5 DEF Good
  <2> QED BY <1>1, <1>7, <2>1, <2>2 DEF WrapOK, Pending
<1>10. HeldOK(b)' BY <1>1, <1>5, <1>7 DEF Good, HeldOK, Held, Pending
<1>11. CheckOK' BY <1>1, <1>2 DEF Safe, CheckOK, Running
<1>12. \A c \in Blobs : Listed(c)' => Listed(c) BY <1>1, <1>2 DEF Listed
<1>13. \A c \in Blobs \ {b} : Same(c) BY <1>1, <1>4 DEF Same, If
<1> QED BY <1>1, <1>2, <1>4, <1>5, <1>7, <1>8, <1>9, <1>10, <1>11, <1>12, <1>13, QuarantineStep

-----------------------------------------------------------------------------
(* The inductive invariant, and what it is for. *)

LEMMA StepSafe ==
  ASSUME IInv, [Next]_vars
  PROVE  Safe'
<1>0. Safe /\ TypeInv BY DEF IInv
<1> USE <1>0
<1>1. ASSUME NEW p \in Procs, Start(p) \/ Stop(p) PROVE Safe' BY <1>1, StartSafe, StopSafe
<1>2. ASSUME NEW p \in Procs, NEW b \in Blobs,
             ShredKey(p, b) \/ \E dir \in Homes(p) : PutKey(p, b, dir)
      PROVE  Safe'
  BY <1>2, PutKeySafe, ShredKeySafe
<1>3. ASSUME NEW p \in Procs,
             \/ PutBlob(p) \/ InsertRow(p) \/ UnlinkKey(p) \/ UnlinkBlob(p)
             \/ \E mark \in BOOLEAN : MarkRow(p, mark)
      PROVE  Safe'
  <2>1. op[p].pc # "idle"
    BY <1>3 DEF PutBlob, InsertRow, UnlinkKey, UnlinkBlob, MarkRow, At
  <2>2. PICK b \in Blobs : op[p].blob = b BY <2>1 DEF TypeInv, Placed
  <2> QED BY <1>3, <2>2, PutBlobSafe, InsertRowSafe, UnlinkKeySafe, UnlinkBlobSafe, MarkRowSafe
<1>4. CASE MoveBlob
  <2>1. Api \in Procs /\ op[Api].pc # "idle" BY <1>4 DEF MoveBlob, At, Procs
  <2>2. PICK b \in Blobs : op[Api].blob = b BY <2>1 DEF TypeInv, Placed
  <2> QED BY <1>4, <2>2, MoveBlobSafe
<1>5. ASSUME NEW b \in Blobs, MoveKey(b) PROVE Safe' BY <1>5, MoveKeySafe
<1>6. CASE RotateBegin BY <1>6, RotateBeginSafe
<1>7. ASSUME NEW f \in Blobs \X Scopes, RotateRead(f) PROVE Safe' BY <1>7, RotateReadSafe
<1>8. CASE RotateWrite
  <2>1. rotation.at \in Blobs \X Wrapping BY <1>8 DEF RotateWrite, TypeInv, Placed
  <2> QED BY <1>8, <2>1, RotateWriteSafe
<1>9. CASE RotateSave \/ RotateFail BY <1>9, RotateEndSafe
<1>10. CASE CheckRows \/ CheckList \/ CheckEnd BY <1>10, CheckReadSafe
<1>11. ASSUME NEW b \in Blobs, QuarantineBlob(b) PROVE Safe' BY <1>11, QuarantineBlobSafe
<1>12. CASE QuarantineKey
  <2>1. check.blob \in Blobs BY <1>12 DEF QuarantineKey, TypeInv, Placed
  <2> QED BY <1>12, <2>1, QuarantineKeySafe
<1>13. CASE UNCHANGED vars
  <2>1. UNCHANGED <<master, newest, loaded, key, blob, row, op, rotation, check, shredded, astray,
                    copied, caught>>
    BY <1>13 DEF vars
  <2>2. Apart' /\ ProcsOK' /\ CheckOK' /\ RotationOK'
    BY <2>1 DEF Safe, Apart, ProcsOK, CheckOK, RotationOK, Running
  <2>3. \A p \in Procs : CallOK(p)' BY <2>1 DEF Safe, CallOK, Fresh, Has, Clean
  <2>4. ASSUME NEW b \in Blobs PROVE Good(b)'
    <3>1. Good(b) /\ Same(b) BY <2>1 DEF Safe, Same
    <3> QED BY <2>1, <3>1, GoodKept DEF Storing
  <2> QED BY <2>2, <2>3, <2>4 DEF Safe
<1> QED BY <1>1, <1>2, <1>3, <1>4, <1>5, <1>6, <1>7, <1>8, <1>9, <1>10, <1>11, <1>12, <1>13 DEF Next

LEMMA Invariance == Spec => []IInv
<1>1. Init => IInv BY InitTypes, InitSafe DEF IInv
<1>2. IInv /\ [Next]_vars => IInv' BY StepTypes, StepSafe DEF IInv
<1> QED BY <1>1, <1>2, PTL DEF Spec

(* However puts, moves, shreds, checks and rotations meet and wherever their process dies, a
   document the database lists is there, under a key that the master key in use unwraps: unless its
   own put met a rotation or a check, its own move a rotation's write, or a rotation died after it
   had re-wrapped it. Nothing is assumed of when the key is rotated and the API started. *)
THEOREM DocumentsRecoverable == Spec => []Recoverable
<1>1. IInv => Recoverable
  <2> SUFFICES ASSUME IInv, NEW b \in Blobs, b \notin shredded, b \notin astray, b \notin copied,
                      b \notin caught, row[b] = "live"
               PROVE  Kept(b)
    BY DEF Recoverable
  <2>0. Good(b) BY DEF IInv, Safe
  <2>1. blob[b] = "job" /\ Has(b, "job") BY <2>0 DEF Good, BlobOK, Clean
  <2>2. key[b]["job"] \in Usable BY <2>0, <2>1 DEF Good, WrapOK, Wrapping, Usable
  <2> QED BY <2>1, <2>2 DEF Kept, Readable, Scopes
<1> QED BY <1>1, Invariance, PTL

(* An upload that waits in staging with its key, so that neither its put nor its move was cut, can
   be read when its session is queued, unless its put met a rotation, its move a rotation's write,
   or a rotation died after it had re-wrapped it. *)
THEOREM UploadsQueueable == Spec => []Queueable
<1>1. IInv => Queueable
  <2> SUFFICES ASSUME IInv, NEW b \in Blobs, b \notin astray, b \notin copied, Waiting(b)
               PROVE  key[b]["staging"] \in Usable
    BY DEF Queueable
  <2>0. Good(b) BY DEF IInv, Safe
  <2>1. key[b]["staging"] \in Nat
    <3>1. key[b]["staging"] \in KeySet BY TypeParts DEF IInv, Parts, TypeFiles, KeyMaps, Scopes
    <3> QED BY <2>0, <3>1, Bounds DEF Good, BlobOK, Waiting, KeySet
  <2> QED BY <2>0, <2>1 DEF Good, WrapOK, Has, Wrapping, Usable
<1> QED BY <1>1, Invariance, PTL

(* The key of a shredded blob comes back by no rename, no quarantine and no call that was cut, and
   by a rotation only when it had read the key before that was moved or overwritten; a check leaves
   a second one only of a blob that it caught being stored. *)
THEOREM ShredFinal == Spec => []ShredIsFinal
<1>1. IInv => ShredIsFinal
  <2> SUFFICES ASSUME IInv, NEW b \in shredded, b \notin copied, b \notin caught, NEW s \in Scopes
               PROVE  key[b][s] \in {None, Zeroed}
    BY DEF ShredIsFinal
  <2>0. b \in Blobs /\ key[b][s] \in KeySet
    BY TypeParts DEF IInv, Parts, TypeFiles, KeyMaps
  <2>1. Good(b) BY <2>0 DEF IInv, Safe
  <2>2. ~Has(b, s) BY <2>1 DEF Good, BlobOK, Scopes
  <2> QED BY <2>0, <2>2, Bounds DEF Has, KeySet
<1> QED BY <1>1, Invariance, PTL

(* What the check of a starting API moves to orphans has no row and never gets one, whatever the
   worker does meanwhile, unless it was being stored while the check read the rows and the disk. *)
THEOREM OnlyUnnamedQuarantined == Spec => []QuarantinedIsUnnamed
<1>1. IInv => QuarantinedIsUnnamed
  <2> SUFFICES ASSUME IInv, NEW b \in Blobs, b \notin shredded, b \notin caught, blob[b] = "orphans"
               PROVE  row[b] = None
    BY DEF QuarantinedIsUnnamed
  <2> QED BY DEF IInv, Safe, Good, BlobOK
<1> QED BY <1>1, Invariance, PTL
=============================================================================

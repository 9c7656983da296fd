-------------------------- MODULE RetentionProofs --------------------------
(***************************************************************************)
(* Proofs about Retention, for any jobs, clients, users and purge runs:    *)
(* type correctness, that the purge respects the holds it began under, and *)
(* that a row marked purged has no blob.                                   *)
(***************************************************************************)
EXTENDS Retention, TLAPS

LEMMA Bounds ==
  /\ MaxDay \in Nat /\ MaxVersions \in Nat /\ MaxRetries \in Nat /\ MaxChanges \in Nat
  /\ MaxFailures \in Nat /\ HoldDays \in Nat /\ None \notin Nat /\ None \notin {"up", "down"}
  /\ Statuses \subseteq AllStatuses
BY RetentionAssumption, NullAssumption DEF AllStatuses

RunSet == [pc : Places, scope : {"due", "job", "client"}, target : Jobs \cup Clients \cup {None},
           now : Days, due : SUBSET (Jobs \X Kinds), todo : SUBSET Files,
           file : Files \cup {None}, touched : SUBSET Jobs]

(* A thumbs-down carries the day its hold ends. *)
VerdictsOK == \A u \in Users, j \in Jobs : feedback[u][j].verdict = "down" => feedback[u][j].holdUntil \in Nat

(* A hold that has been in force since a run began is in force now. *)
SheltersOK == \A r \in Runs : sheltered[r] \subseteq Shelters

(* The versions a run collected, and the one it has shredded and not marked yet. *)
Stale(f) == f[3] <= file[f[1]][f[2]].version
FilesOK(r) ==
  /\ \A f \in run[r].todo : Stale(f)
  /\ run[r].pc = "mark" => run[r].file \in Files /\ run[r].file \notin blob /\ Stale(run[r].file)

(* What a run has left out so far: legal holds once it has read the rows, feedback holds once it
   has read those too. *)
Spares(r, h) ==
  /\ run[r].pc = "holds" /\ h[1] = "legal" => \A p \in run[r].due : p[1] # h[2]
  /\ run[r].pc = "files" => \A p \in run[r].due : p[1] # h[2]
  /\ \A f \in run[r].todo : f[1] # h[2]
PhaseOK(r) ==
  /\ run[r].now <= day
  /\ run[r].pc \in {"idle", "rows", "holds"} => run[r].todo = {}
  /\ run[r].pc \in {"idle", "rows", "mark", "close", "wipe"} => run[r].due = {}
RunOK(r) == PhaseOK(r) /\ FilesOK(r) /\ \A h \in sheltered[r] : Spares(r, h)

IInv ==
  /\ TypeOK /\ VerdictsOK /\ SheltersOK /\ PurgedIsShredded
  /\ \A r \in Runs : RunOK(r)

-----------------------------------------------------------------------------
(* Initially. *)

LEMMA InitIInv == Init => IInv
<1> SUFFICES ASSUME Init PROVE IInv OBVIOUS
<1> USE Bounds
<1>1. job \in [Jobs -> [status : AllStatuses, readyAt : OptionalDay, failedAt : OptionalDay,
                        releasedAt : OptionalDay]]
  <2> DEFINE A == {[status |-> s,
                    readyAt |-> IF s \in {"needs_review", "released", "rejected"} THEN 0 ELSE None,
                    failedAt |-> IF s = "failed" THEN 0 ELSE None,
                    releasedAt |-> IF s = "released" THEN 0 ELSE None] : s \in Statuses}
             B == [status : AllStatuses, readyAt : OptionalDay, failedAt : OptionalDay,
                   releasedAt : OptionalDay]
  <2>1. 0 \in OptionalDay /\ None \in OptionalDay BY DEF OptionalDay, Days
  <2>2. A \subseteq B BY <2>1
  <2>3. job \in [Jobs -> A] BY DEF Init
  <2> HIDE DEF A, B
  <2>4. job \in [Jobs -> B] BY <2>2, <2>3
  <2> QED BY <2>4 DEF B
<1>2. /\ file \in [Jobs -> [Kinds -> [version : 0..MaxVersions, purged : BOOLEAN]]]
      /\ blob \subseteq Files
  BY DEF Init, Files
<1>3. feedback \in [Users -> [Jobs -> [verdict : {"up", "down", None},
                                      holdUntil : (0..(MaxDay + HoldDays)) \cup {None},
                                      dismissed : BOOLEAN]]]
  <2>1. NoFeedback \in [verdict : {"up", "down", None},
                        holdUntil : (0..(MaxDay + HoldDays)) \cup {None}, dismissed : BOOLEAN]
    BY DEF NoFeedback
  <2>2. [verdict |-> "down", holdUntil |-> HoldDays, dismissed |-> FALSE]
          \in [verdict : {"up", "down", None},
               holdUntil : (0..(MaxDay + HoldDays)) \cup {None}, dismissed : BOOLEAN]
    OBVIOUS
  <2>3. {NoFeedback, [verdict |-> "down", holdUntil |-> HoldDays, dismissed |-> FALSE]}
          \subseteq [verdict : {"up", "down", None},
               holdUntil : (0..(MaxDay + HoldDays)) \cup {None}, dismissed : BOOLEAN]
    BY <2>1, <2>2
  <2>4. feedback \in [Users -> [Jobs -> {NoFeedback, [verdict |-> "down", holdUntil |-> HoldDays, dismissed |-> FALSE]}]]
    BY DEF Init
  <2> DEFINE A == {NoFeedback, [verdict |-> "down", holdUntil |-> HoldDays, dismissed |-> FALSE]}
             B == [verdict : {"up", "down", None},
                   holdUntil : (0..(MaxDay + HoldDays)) \cup {None}, dismissed : BOOLEAN]
  <2> HIDE DEF A, B
  <2>5. A \subseteq B /\ feedback \in [Users -> [Jobs -> A]] BY <2>3, <2>4 DEF A, B
  <2>6. feedback \in [Users -> [Jobs -> B]] BY <2>5
  <2> QED BY <2>6 DEF B
<1>4. run \in [Runs -> RunSet] /\ \A r \in Runs : run[r] = IdleRun
  BY DEF Init, RunSet, IdleRun, Places, Days, Files
<1>5. /\ policy \in [Kinds \cup {"failed"} -> Windows]
      /\ override \in [Clients -> [Kinds -> Windows \cup {None}]]
      /\ sheltered \in [Runs -> SUBSET ({"legal", "feedback"} \X Jobs)]
      /\ amounts \subseteq Jobs /\ dismissing \subseteq Users \X Jobs /\ hold \subseteq Clients
      /\ day \in Days /\ retries \in 0..MaxRetries /\ changes \in 0..MaxChanges
      /\ failures \in 0..MaxFailures
  <2>1. policy \in [Kinds \cup {"failed"} -> Windows] BY DEF Init
  <2>2. override \in [Clients -> [Kinds -> Windows \cup {None}]] BY DEF Init
  <2>3. sheltered \in [Runs -> SUBSET ({"legal", "feedback"} \X Jobs)] BY DEF Init
  <2>4. amounts \subseteq Jobs /\ dismissing \subseteq Users \X Jobs /\ hold \subseteq Clients
    BY DEF Init
  <2> QED BY <2>1, <2>2, <2>3, <2>4 DEF Init, Days
<1>6. TypeOK
  BY <1>1, <1>2, <1>3, <1>4, <1>5 DEF TypeOK, RunSet
<1>7. VerdictsOK
  BY DEF Init, VerdictsOK, NoFeedback
<1>8. SheltersOK /\ PurgedIsShredded
  BY DEF Init, SheltersOK, PurgedIsShredded
<1>9. \A r \in Runs : RunOK(r)
  BY <1>4 DEF Init, RunOK, PhaseOK, FilesOK, IdleRun
<1> QED BY <1>6, <1>7, <1>8, <1>9 DEF IInv

-----------------------------------------------------------------------------
(* Types. *)

(* The parts of TypeOK, so that a step is asked only about what it writes. *)
TypeJob == job \in [Jobs -> [status : AllStatuses, readyAt : OptionalDay, failedAt : OptionalDay,
                             releasedAt : OptionalDay]]
TypeFile == /\ file \in [Jobs -> [Kinds -> [version : 0..MaxVersions, purged : BOOLEAN]]]
            /\ blob \subseteq Files
TypeFeedback == feedback \in [Users -> [Jobs -> [verdict : {"up", "down", None},
                                 holdUntil : (0..(MaxDay + HoldDays)) \cup {None},
                                 dismissed : BOOLEAN]]]
TypeRun == run \in [Runs -> RunSet]
TypeRest == /\ amounts \subseteq Jobs
            /\ dismissing \subseteq Users \X Jobs
            /\ hold \subseteq Clients
            /\ policy \in [Kinds \cup {"failed"} -> Windows]
            /\ override \in [Clients -> [Kinds -> Windows \cup {None}]]
            /\ sheltered \in [Runs -> SUBSET ({"legal", "feedback"} \X Jobs)]
            /\ day \in Days
            /\ retries \in 0..MaxRetries /\ changes \in 0..MaxChanges /\ failures \in 0..MaxFailures

LEMMA TypeParts == TypeOK <=> TypeJob /\ TypeFile /\ TypeFeedback /\ TypeRun /\ TypeRest
BY DEF TypeOK, TypeJob, TypeFile, TypeFeedback, TypeRun, TypeRest, RunSet

LEMMA TypePartsNext ==
  ASSUME TypeJob', TypeFile', TypeFeedback', TypeRun', TypeRest' PROVE TypeOK'
BY DEF TypeOK, TypeJob, TypeFile, TypeFeedback, TypeRun, TypeRest, RunSet

LEMMA SheltersTyped == Shelters \subseteq {"legal", "feedback"} \X Jobs
BY DEF Shelters, OnLegalHold, HeldJobs

LEMMA TypeEnvironment == ASSUME TypeOK, Environment PROVE TypeOK'
<1> USE Bounds
<1> TypeJob /\ TypeFile /\ TypeFeedback /\ TypeRun /\ TypeRest BY TypeParts
<1> USE DEF JobOnly, jobVars, holdVars, policyVars, counters
<1>1. ASSUME UNCHANGED job PROVE TypeJob' BY <1>1 DEF TypeJob
<1>2. ASSUME UNCHANGED <<file, blob>> PROVE TypeFile' BY <1>2 DEF TypeFile
<1>3. ASSUME UNCHANGED feedback PROVE TypeFeedback' BY <1>3 DEF TypeFeedback
<1>4. ASSUME UNCHANGED run PROVE TypeRun' BY <1>4 DEF TypeRun
<1>5. ASSUME NEW j \in Jobs, Retry(j) \/ Work(j) \/ Finish(j) \/ Decide(j) PROVE TypeOK'
  <2>1. TypeJob'
    <3>1. job[j] \in [status : AllStatuses, readyAt : OptionalDay, failedAt : OptionalDay,
                      releasedAt : OptionalDay]
      BY DEF TypeJob
    <3>2. day \in OptionalDay BY DEF TypeRest, OptionalDay
    <3>3. {"queued", "processing", "needs_review", "failed", "released", "rejected"} \subseteq AllStatuses
      BY DEF AllStatuses
    <3>4. PICK row \in [status : AllStatuses, readyAt : OptionalDay, failedAt : OptionalDay,
                        releasedAt : OptionalDay] : job' = [job EXCEPT ![j] = row]
      <4>1. CASE Retry(j) BY <3>1, <3>3, <4>1 DEF Retry, TypeJob
      <4>2. CASE Work(j) BY <3>1, <3>3, <4>2 DEF Work, TypeJob
      <4>3. CASE Finish(j) BY <3>1, <3>2, <3>3, <4>3 DEF Finish, TypeJob
      <4>4. CASE Decide(j) BY <3>1, <3>2, <3>3, <4>4 DEF Decide, TypeJob
      <4> QED BY <1>5, <4>1, <4>2, <4>3, <4>4
    <3> QED BY <3>4 DEF TypeJob
  <2>2. TypeRest' BY <1>5 DEF Retry, Work, Finish, Decide, TypeRest
  <2>3. UNCHANGED <<file, blob, feedback, run>> BY <1>5 DEF Retry, Work, Finish, Decide
  <2> QED BY <2>1, <2>2, <2>3, <1>2, <1>3, <1>4, TypePartsNext
<1>6. ASSUME NEW j \in Jobs, NEW k \in Kinds, Store(j, k) PROVE TypeOK'
  <2>1. /\ file[j][k] \in [version : 0..MaxVersions, purged : BOOLEAN]
        /\ file[j][k].version + 1 \in 0..MaxVersions
    BY <1>6 DEF Store, TypeFile
  <2>2. file' = [file EXCEPT ![j] = [file[j] EXCEPT ![k] = [version |-> file[j][k].version + 1, purged |-> FALSE]]]
    BY <1>6 DEF Store, TypeFile
  <2>3. file' \in [Jobs -> [Kinds -> [version : 0..MaxVersions, purged : BOOLEAN]]]
    BY <2>1, <2>2 DEF TypeFile
  <2>4. blob' \subseteq Files BY <1>6, <2>1 DEF Store, TypeFile, Files
  <2>5. TypeFile' BY <2>3, <2>4 DEF TypeFile, Files
  <2>6. TypeRest' BY <1>6 DEF Store, TypeRest
  <2>7. UNCHANGED <<job, feedback, run>> BY <1>6 DEF Store
  <2> QED BY <2>5, <2>6, <2>7, <1>1, <1>3, <1>4, TypePartsNext
<1>7. ASSUME NEW u \in Users, NEW j \in Jobs, GiveFeedback(u, j) \/ Dismiss(u, j) PROVE TypeOK'
  <2>1. feedback[u][j] \in [verdict : {"up", "down", None},
                            holdUntil : (0..(MaxDay + HoldDays)) \cup {None}, dismissed : BOOLEAN]
    BY DEF TypeFeedback
  <2>2. day + HoldDays \in 0..(MaxDay + HoldDays) BY DEF TypeRest, Days
  <2>3. PICK f \in [verdict : {"up", "down", None},
                    holdUntil : (0..(MaxDay + HoldDays)) \cup {None}, dismissed : BOOLEAN] :
          feedback' = [feedback EXCEPT ![u] = [feedback[u] EXCEPT ![j] = f]]
    <3>1. CASE GiveFeedback(u, j) BY <2>2, <3>1 DEF GiveFeedback, TypeFeedback
    <3>2. CASE Dismiss(u, j)
      BY <2>1, <3>2 DEF Dismiss, TypeFeedback
    <3> QED BY <1>7, <3>1, <3>2
  <2>4. TypeFeedback' BY <2>3 DEF TypeFeedback
  <2>5. TypeRest'
    <3>1. sheltered' \in [Runs -> SUBSET ({"legal", "feedback"} \X Jobs)]
      BY <1>7 DEF GiveFeedback, Dismiss, Shelter, TypeRest
    <3> QED BY <1>7, <3>1 DEF GiveFeedback, Dismiss, Change, TypeRest
  <2>6. UNCHANGED <<job, file, blob, run>> BY <1>7 DEF GiveFeedback, Dismiss
  <2> QED BY <2>4, <2>5, <2>6, <1>1, <1>2, <1>4, TypePartsNext
<1>8. ASSUME NEW u \in Users, NEW j \in Jobs, ReadDismissed(u, j) PROVE TypeOK'
  <2>1. TypeRest' BY <1>8 DEF ReadDismissed, Change, TypeRest
  <2>2. UNCHANGED <<job, file, blob, feedback, run>> BY <1>8 DEF ReadDismissed
  <2> QED BY <2>1, <2>2, <1>1, <1>2, <1>3, <1>4, TypePartsNext
<1>9. ASSUME NEW k \in Kinds \cup {"failed"}, SetWindow(k) PROVE TypeOK'
  <2>1. TypeRest' BY <1>9 DEF SetWindow, Change, TypeRest
  <2>2. UNCHANGED <<job, file, blob, feedback, run>> BY <1>9 DEF SetWindow
  <2> QED BY <2>1, <2>2, <1>1, <1>2, <1>3, <1>4, TypePartsNext
<1>10. ASSUME NEW c \in Clients, NEW k \in Kinds, SetOverride(c, k) PROVE TypeOK'
  <2>1. TypeRest' BY <1>10 DEF SetOverride, Change, TypeRest
  <2>2. UNCHANGED <<job, file, blob, feedback, run>> BY <1>10 DEF SetOverride
  <2> QED BY <2>1, <2>2, <1>1, <1>2, <1>3, <1>4, TypePartsNext
<1>11. ASSUME NEW c \in Clients, SetLegalHold(c) PROVE TypeOK'
  <2>1. sheltered' \in [Runs -> SUBSET ({"legal", "feedback"} \X Jobs)]
    BY <1>11 DEF SetLegalHold, Shelter, TypeRest
  <2>2. TypeRest' BY <1>11, <2>1 DEF SetLegalHold, Change, TypeRest
  <2>3. UNCHANGED <<job, file, blob, feedback, run>> BY <1>11 DEF SetLegalHold
  <2> QED BY <2>2, <2>3, <1>1, <1>2, <1>3, <1>4, TypePartsNext
<1>12. CASE Tomorrow
  <2>1. sheltered' \in [Runs -> SUBSET ({"legal", "feedback"} \X Jobs)]
    BY <1>12 DEF Tomorrow, Shelter, TypeRest
  <2>2. TypeRest' BY <1>12, <2>1 DEF Tomorrow, Days, TypeRest
  <2>3. UNCHANGED <<job, file, blob, feedback, run>> BY <1>12 DEF Tomorrow
  <2> QED BY <2>2, <2>3, <1>1, <1>2, <1>3, <1>4, TypePartsNext
<1> QED
  BY <1>5, <1>6, <1>7, <1>8, <1>9, <1>10, <1>11, <1>12 DEF Environment

(* The runs of the purge. *)
LEMMA TypePurge ==
  ASSUME TypeOK, NEW r \in Runs, Advance(r) \/ FailRun(r), At(r, "mark") => run[r].file \in Files
  PROVE  TypeOK'
<1> USE Bounds
<1> TypeJob /\ TypeFile /\ TypeFeedback /\ TypeRun /\ TypeRest BY TypeParts
<1> USE DEF RunOnly, jobVars, holdVars, policyVars, counters
<1>1. ASSUME UNCHANGED job PROVE TypeJob' BY <1>1 DEF TypeJob
<1>2. ASSUME UNCHANGED <<file, blob>> PROVE TypeFile' BY <1>2 DEF TypeFile
<1>3. ASSUME UNCHANGED feedback PROVE TypeFeedback' BY <1>3 DEF TypeFeedback
<1>4. run[r] \in RunSet BY DEF TypeRun
<1>5. ASSUME NEW v \in RunSet, run' = [run EXCEPT ![r] = v] PROVE TypeRun' BY <1>5 DEF TypeRun
<1>6. IdleRun \in RunSet BY DEF IdleRun, RunSet, Places, Days, Files
<1>7. CASE ReadRows(r)
  <2>1. Unheld(r) \subseteq Jobs \X Kinds BY DEF Unheld
  <2>2. TypeRun' BY <1>4, <1>7, <2>1 DEF ReadRows, RunSet, TypeRun, Places
  <2>3. TypeRest' BY <1>7 DEF ReadRows, TypeRest
  <2> QED BY <1>7, <2>2, <2>3, <1>1, <1>2, <1>3, TypePartsNext DEF ReadRows
<1>8. CASE ReadHolds(r)
  <2>1. TypeRun' BY <1>4, <1>8 DEF ReadHolds, RunSet, TypeRun, Places
  <2>2. TypeRest' BY <1>8 DEF ReadHolds, TypeRest
  <2> QED BY <1>8, <2>1, <2>2, <1>1, <1>2, <1>3, TypePartsNext DEF ReadHolds
<1>9. CASE \E j \in Jobs : ListFiles(r, j)
  <2>1. PICK j \in Jobs : ListFiles(r, j) BY <1>9
  <2>2. \A k \in Kinds : Current(j, k) \in Files BY DEF Current, Files, TypeFile
  <2> DEFINE found == {Current(j, k) : k \in {k \in Live(j) : <<j, k>> \in run[r].due}}
             v == [run[r] EXCEPT !.due = {p \in @ : p[1] # j}, !.todo = @ \cup found]
  <2>5. found \subseteq Files BY <2>2 DEF Live
  <2> HIDE DEF found
  <2>6. v \in RunSet BY <1>4, <2>5 DEF RunSet
  <2>7. run' = [run EXCEPT ![r] = v] BY <2>1 DEF ListFiles, TypeRun, RunSet, found
  <2>3. TypeRun' BY <2>6, <2>7, <1>5
  <2>4. TypeRest' BY <2>1 DEF ListFiles, TypeRest
  <2> QED BY <2>1, <2>3, <2>4, <1>1, <1>2, <1>3, TypePartsNext DEF ListFiles
<1>10. CASE \E f \in Files : Shred(r, f)
  <2>1. PICK f \in Files : Shred(r, f) BY <1>10
  <2>2. TypeRun' BY <1>4, <2>1 DEF Shred, RunSet, TypeRun, Places
  <2>3. TypeFile' BY <2>1 DEF Shred, TypeFile
  <2>4. TypeRest' BY <2>1 DEF Shred, TypeRest
  <2> QED BY <2>1, <2>2, <2>3, <2>4, <1>1, <1>3, TypePartsNext DEF Shred
<1>11. CASE MarkFile(r)
  <2>1. run[r].file \in Files /\ run[r].file[1] \in Jobs /\ run[r].file[2] \in Kinds
    BY <1>11 DEF MarkFile, Files
  <2>2. TypeRun' BY <1>4, <1>11, <2>1 DEF MarkFile, RunSet, TypeRun, Places
  <2>3. TypeFile'
    <3> DEFINE j == run[r].file[1]
               k == run[r].file[2]
    <3>0. j \in Jobs /\ k \in Kinds /\ file[j][k] \in [version : 0..MaxVersions, purged : BOOLEAN]
      BY <2>1 DEF TypeFile
    <3>1. file' \in {file, [file EXCEPT ![j] = [file[j] EXCEPT ![k] = [file[j][k] EXCEPT !.purged = TRUE]]]}
      BY <1>11, <2>1 DEF MarkFile, TypeFile
    <3>2. [file[j][k] EXCEPT !.purged = TRUE] \in [version : 0..MaxVersions, purged : BOOLEAN]
      BY <3>0
    <3>3. file' \in [Jobs -> [Kinds -> [version : 0..MaxVersions, purged : BOOLEAN]]]
      <4> DEFINE w == [file[j][k] EXCEPT !.purged = TRUE]
      <4> HIDE DEF w
      <4>1. [file[j] EXCEPT ![k] = w] \in [Kinds -> [version : 0..MaxVersions, purged : BOOLEAN]]
        BY <3>0, <3>2 DEF TypeFile, w
      <4> QED BY <3>0, <3>1, <4>1 DEF TypeFile, w
    <3> QED BY <1>11, <3>3 DEF MarkFile, TypeFile
  <2>4. TypeRest' BY <1>11 DEF MarkFile, TypeRest
  <2> QED BY <1>11, <2>2, <2>3, <2>4, <1>1, <1>3, TypePartsNext DEF MarkFile
<1>12. CASE \E j \in Jobs : Remaining(r, j)
  <2>1. PICK j \in Jobs : Remaining(r, j) BY <1>12
  <2> DEFINE v == [run[r] EXCEPT !.touched = @ \ {j}, !.target = j,
                                 !.pc = IF Live(j) = {} THEN "close" ELSE "files"]
  <2>4. v \in RunSet BY <1>4 DEF RunSet, Places
  <2>5. run' = [run EXCEPT ![r] = v] BY <2>1 DEF Remaining, TypeRun, RunSet
  <2>2. TypeRun' BY <2>4, <2>5, <1>5
  <2>3. TypeRest' BY <2>1 DEF Remaining, TypeRest
  <2> QED BY <2>1, <2>2, <2>3, <1>1, <1>2, <1>3, TypePartsNext DEF Remaining
<1>13. CASE CloseJob(r)
  <2>1. TypeRun' BY <1>4, <1>13 DEF CloseJob, RunSet, TypeRun, Places
  <2>2. TypeJob'
    <3>1. "purged" \in AllStatuses BY DEF AllStatuses
    <3> QED BY <1>13, <3>1 DEF CloseJob, TypeJob
  <2>3. TypeRest' BY <1>13 DEF CloseJob, TypeRest
  <2> QED BY <1>13, <2>1, <2>2, <2>3, <1>2, <1>3, TypePartsNext DEF CloseJob
<1>14. CASE WipeAmounts(r)
  <2>1. TypeRun' BY <1>4, <1>14 DEF WipeAmounts, RunSet, TypeRun, Places
  <2>2. TypeRest' BY <1>14 DEF WipeAmounts, TypeRest
  <2> QED BY <1>14, <2>1, <2>2, <1>1, <1>2, <1>3, TypePartsNext DEF WipeAmounts
<1>15. CASE End(r)
  <2>1. TypeRest' BY <1>15 DEF End, TypeRest
  <2> QED BY <1>15, <2>1, <1>5, <1>6, <1>1, <1>2, <1>3, TypePartsNext DEF End
<1>16. CASE FailRun(r)
  <2>1. TypeRest' BY <1>16 DEF FailRun, TypeRest
  <2> QED BY <1>16, <2>1, <1>5, <1>6, <1>1, <1>2, <1>3, TypePartsNext DEF FailRun
<1> QED
  BY <1>7, <1>8, <1>9, <1>10, <1>11, <1>12, <1>13, <1>14, <1>15, <1>16 DEF Advance

Beginning(r) ==
  \/ BeginDue(r)
  \/ \E j \in Jobs : BeginJob(r, j)
  \/ \E c \in Clients : BeginClient(r, c)

(* A run that begins knows only its scope, its day and the holds in force. *)
LEMMA Begun ==
  ASSUME TypeOK, NEW r \in Runs, Beginning(r)
  PROVE  /\ TypeOK'
         /\ \A s \in Runs \ {r} : run'[s] = run[s] /\ sheltered'[s] = sheltered[s]
         /\ run'[r].pc = "rows" /\ run'[r].todo = {} /\ run'[r].due = {} /\ run'[r].now = day
         /\ sheltered'[r] = Shelters
         /\ UNCHANGED <<job, file, blob, feedback, hold, day>>
<1> TypeJob /\ TypeFile /\ TypeFeedback /\ TypeRun /\ TypeRest BY TypeParts
<1>1. PICK scope \in {"due", "job", "client"}, target \in Jobs \cup Clients \cup {None} :
        Begin(r, scope, target)
  BY DEF Beginning, BeginDue, BeginJob, BeginClient
<1> DEFINE v == [IdleRun EXCEPT !.pc = "rows", !.scope = scope, !.target = target, !.now = day]
<1>2. v \in RunSet /\ v.pc = "rows" /\ v.todo = {} /\ v.due = {} /\ v.now = day
  BY DEF IdleRun, RunSet, Places, Days, Files, TypeRest
<1>3. /\ run' = [run EXCEPT ![r] = v] /\ sheltered' = [sheltered EXCEPT ![r] = Shelters]
      /\ UNCHANGED <<job, file, blob, amounts, feedback, dismissing, hold, policy, override, day,
                     retries, changes, failures>>
  BY <1>1 DEF Begin, jobVars, holdVars, policyVars, counters
<1> HIDE DEF v
<1>4. TypeRun' BY <1>2, <1>3 DEF TypeRun
<1>5. TypeRest' BY <1>3, SheltersTyped DEF TypeRest
<1>6. TypeOK' BY <1>3, <1>4, <1>5, TypePartsNext DEF TypeJob, TypeFile, TypeFeedback
<1> QED BY <1>2, <1>3, <1>6 DEF TypeRun, TypeRest

-----------------------------------------------------------------------------
(* What a step leaves true of the runs that do not take it. *)

(* Time goes forward, versions grow, and a blob is only ever added as a new version. *)
Drift ==
  /\ day <= day'
  /\ \A j \in Jobs, k \in Kinds : file[j][k].version <= file'[j][k].version
  /\ \A f \in Files : f \in blob' /\ f \notin blob => ~Stale(f)

MarksTyped == \A r \in Runs : run[r].pc = "mark" => run[r].file \in Files

LEMMA Drifts == ASSUME TypeOK, MarksTyped, [Next]_vars PROVE Drift
<1> USE Bounds
<1> TypeFile /\ TypeRest BY TypeParts
<1> USE DEF RunOnly, JobOnly, jobVars, holdVars, policyVars, counters
<1>1. ASSUME UNCHANGED file, blob' \subseteq blob, day' \in {day, day + 1} PROVE Drift
  BY <1>1 DEF Drift, TypeFile, TypeRest, Days
<1>2. ASSUME NEW j \in Jobs, NEW k \in Kinds, Store(j, k) PROVE Drift
  <2>1. day' = day BY <1>2 DEF Store
  <2>2. \A i \in Jobs, l \in Kinds : file[i][l].version \in 0..MaxVersions BY DEF TypeFile
  <2>3. file' = [file EXCEPT ![j] = [file[j] EXCEPT ![k] = [version |-> file[j][k].version + 1, purged |-> FALSE]]]
    BY <1>2 DEF Store, TypeFile
  <2>4. \A i \in Jobs, l \in Kinds : file[i][l].version <= file'[i][l].version
    BY <2>2, <2>3 DEF TypeFile
  <2>5. ASSUME NEW f \in Files, f \in blob', f \notin blob PROVE ~Stale(f)
    <3>1. f = <<j, k, file[j][k].version + 1>> BY <1>2, <2>5 DEF Store
    <3> QED BY <2>2, <3>1 DEF Stale
  <2> QED BY <2>1, <2>4, <2>5 DEF Drift, TypeRest, Days
<1>3. ASSUME NEW r \in Runs, MarkFile(r) PROVE Drift
  <2>1. day' = day /\ blob' = blob BY <1>3 DEF MarkFile
  <2>2. \A i \in Jobs, l \in Kinds : file'[i][l].version = file[i][l].version
    <3>1. PICK j \in Jobs, k \in Kinds, n \in 0..MaxVersions : run[r].file = <<j, k, n>>
      <4>1. run[r].file \in Files BY <1>3 DEF MarkFile, MarksTyped, At
      <4> QED BY <4>1 DEF Files
    <3>2. file' = file \/ file' = [file EXCEPT ![j] = [file[j] EXCEPT ![k] = [file[j][k] EXCEPT !.purged = TRUE]]]
      BY <1>3, <3>1 DEF MarkFile, TypeFile
    <3>3. CASE file' = file BY <3>3
    <3>4. CASE file' = [file EXCEPT ![j] = [file[j] EXCEPT ![k] = [file[j][k] EXCEPT !.purged = TRUE]]]
      <4>1. file[j][k] \in [version : 0..MaxVersions, purged : BOOLEAN] BY DEF TypeFile
      <4>2. [file[j][k] EXCEPT !.purged = TRUE].version = file[j][k].version BY <4>1
      <4> DEFINE w == [file[j][k] EXCEPT !.purged = TRUE]
      <4> HIDE DEF w
      <4>3. file' = [file EXCEPT ![j] = [file[j] EXCEPT ![k] = w]] /\ w.version = file[j][k].version
        BY <3>4, <4>2 DEF w
      <4> QED BY <4>3 DEF TypeFile
    <3> QED BY <3>2, <3>3, <3>4
  <2> QED BY <2>1, <2>2 DEF Drift, TypeRest, TypeFile, Days
<1>4. ASSUME NEW r \in Runs, NEW f \in Files, Shred(r, f) PROVE Drift
  BY <1>4, <1>1 DEF Shred
<1>5. ASSUME NEW r \in Runs, Advance(r) \/ FailRun(r) PROVE Drift
  BY <1>5, <1>1, <1>3, <1>4 DEF Advance, ReadRows, ReadHolds, CloseJob, WipeAmounts, End, ListFiles,
     Remaining, FailRun
<1>6. CASE Environment
  BY <1>6, <1>1, <1>2 DEF Environment, Tomorrow, Retry, Work, Finish, Decide, GiveFeedback,
     ReadDismissed, Dismiss, SetWindow, SetLegalHold, SetOverride
<1>7. ASSUME NEW r \in Runs, Beginning(r) PROVE Drift
  BY <1>7, <1>1, Begun
<1>8. CASE UNCHANGED vars BY <1>8, <1>1 DEF vars
<1> QED BY <1>5, <1>6, <1>7, <1>8 DEF Next, Beginning, Runs

LEMMA RunKept ==
  ASSUME TypeOK, TypeOK', NEW s \in Runs, RunOK(s), run'[s] = run[s],
         sheltered'[s] \subseteq sheltered[s], Drift
  PROVE  RunOK(s)'
<1> USE Bounds
<1> TypeFile /\ TypeRun /\ TypeRest BY TypeParts
<1>1. PhaseOK(s)'
  <2>1. run[s].now \in Int /\ day \in Int /\ day' \in Int BY DEF TypeRun, RunSet, TypeOK, Days
  <2> QED BY <2>1 DEF RunOK, PhaseOK, Drift
<1>2. FilesOK(s)'
  <2>1. ASSUME NEW f \in Files, Stale(f) PROVE Stale(f)'
    <3>1. PICK j \in Jobs, k \in Kinds, n \in 0..MaxVersions : f = <<j, k, n>> BY DEF Files
    <3>2. /\ file[j][k].version \in Int /\ file'[j][k].version \in Int
          /\ file[j][k].version <= file'[j][k].version
      BY DEF TypeOK, Drift
    <3>3. n <= file[j][k].version BY <2>1, <3>1 DEF Stale
    <3> QED BY <3>1, <3>2, <3>3 DEF Stale
  <2>2. run[s].todo \subseteq Files BY DEF TypeRun, RunSet
  <2> QED BY <2>1, <2>2 DEF RunOK, FilesOK, Drift
<1>3. \A h \in sheltered'[s] : Spares(s, h)' BY DEF RunOK, Spares
<1> QED BY <1>1, <1>2, <1>3 DEF RunOK

(* Holds.  Who lifts one, or lets it lapse, takes it away from every run's shelter. *)
LEMMA HoldsKept ==
  ASSUME IInv, TypeOK', Environment
  PROVE  /\ VerdictsOK' /\ SheltersOK'
         /\ \A r \in Runs : run'[r] = run[r] /\ sheltered'[r] \subseteq sheltered[r]
<1> USE Bounds
<1> TypeFeedback /\ TypeRest BY TypeParts DEF IInv
<1> USE DEF JobOnly, jobVars, holdVars, policyVars, counters
<1>1. ASSUME UNCHANGED <<feedback, hold, day, run, sheltered>>
      PROVE  /\ VerdictsOK' /\ SheltersOK'
             /\ \A r \in Runs : run'[r] = run[r] /\ sheltered'[r] \subseteq sheltered[r]
  BY <1>1 DEF IInv, VerdictsOK, SheltersOK, Shelters, OnLegalHold, HeldJobs
<1>2. ASSUME Shelter, UNCHANGED run
      PROVE  /\ SheltersOK'
             /\ \A r \in Runs : run'[r] = run[r] /\ sheltered'[r] \subseteq sheltered[r]
  <2>1. \A r \in Runs : sheltered'[r] = sheltered[r] \cap Shelters' BY <1>2 DEF Shelter
  <2> QED BY <1>2, <2>1 DEF SheltersOK
<1>3. ASSUME NEW u \in Users, NEW j \in Jobs, GiveFeedback(u, j) \/ Dismiss(u, j) PROVE VerdictsOK'
  <2>1. CASE GiveFeedback(u, j)
    <3>1. PICK v \in {"up", "down"} :
            feedback' = [feedback EXCEPT ![u] = [feedback[u] EXCEPT ![j] =
              [verdict |-> v, holdUntil |-> IF v = "down" THEN day + HoldDays ELSE None,
               dismissed |-> FALSE]]]
      BY <2>1 DEF GiveFeedback, TypeFeedback
    <3>2. day + HoldDays \in Nat BY DEF TypeRest, Days
    <3> QED BY <3>1, <3>2 DEF VerdictsOK, IInv, TypeFeedback
  <2>2. CASE Dismiss(u, j)
    <3>1. feedback' = [feedback EXCEPT ![u] = [feedback[u] EXCEPT ![j] =
                         [feedback[u][j] EXCEPT !.dismissed = TRUE]]]
      BY <2>2 DEF Dismiss, TypeFeedback
    <3>2. feedback[u][j] \in [verdict : {"up", "down", None},
                             holdUntil : (0..(MaxDay + HoldDays)) \cup {None}, dismissed : BOOLEAN]
      BY DEF TypeFeedback
    <3> DEFINE f == [feedback[u][j] EXCEPT !.dismissed = TRUE]
    <3>3. f.verdict = feedback[u][j].verdict /\ f.holdUntil = feedback[u][j].holdUntil BY <3>2
    <3> HIDE DEF f
    <3>4. feedback' = [feedback EXCEPT ![u] = [feedback[u] EXCEPT ![j] = f]] BY <3>1 DEF f
    <3> QED BY <3>3, <3>4 DEF VerdictsOK, IInv, TypeFeedback
  <2> QED BY <1>3, <2>1, <2>2
<1>4. ASSUME NEW u \in Users, NEW j \in Jobs, GiveFeedback(u, j) \/ Dismiss(u, j)
      PROVE  Shelter /\ UNCHANGED run
  BY <1>4 DEF GiveFeedback, Dismiss
<1>5. ASSUME Tomorrow \/ \E c \in Clients : SetLegalHold(c)
      PROVE  Shelter /\ UNCHANGED <<run, feedback>> /\ VerdictsOK'
  BY <1>5 DEF Tomorrow, SetLegalHold, VerdictsOK, IInv
<1>6. ASSUME NEW j \in Jobs, Retry(j) \/ Work(j) \/ Finish(j) \/ Decide(j) \/ \E k \in Kinds : Store(j, k)
      PROVE  UNCHANGED <<feedback, hold, day, run, sheltered>>
  BY <1>6 DEF Retry, Work, Finish, Decide, Store
<1>7. ASSUME \/ \E u \in Users, j \in Jobs : ReadDismissed(u, j)
             \/ \E k \in Kinds \cup {"failed"} : SetWindow(k)
             \/ \E c \in Clients, k \in Kinds : SetOverride(c, k)
      PROVE  UNCHANGED <<feedback, hold, day, run, sheltered>>
  BY <1>7 DEF ReadDismissed, SetWindow, SetOverride
<1> QED BY <1>1, <1>2, <1>3, <1>4, <1>5, <1>6, <1>7 DEF Environment

(* The worker's replacement of a file, and everything else people and jobs do, leaves the rows
   marked purged without a blob. *)
LEMMA PurgedKept == ASSUME IInv, Environment PROVE PurgedIsShredded'
<1> USE Bounds
<1> TypeFile BY TypeParts DEF IInv
<1> USE DEF JobOnly, jobVars, holdVars, policyVars, counters
<1>1. ASSUME UNCHANGED <<file, blob>> PROVE PurgedIsShredded'
  BY <1>1 DEF IInv, PurgedIsShredded, Current
<1>2. ASSUME NEW j \in Jobs, NEW k \in Kinds, Store(j, k) PROVE PurgedIsShredded'
  <2>1. file' = [file EXCEPT ![j] = [file[j] EXCEPT ![k] = [version |-> file[j][k].version + 1, purged |-> FALSE]]]
    BY <1>2 DEF Store, TypeFile
  <2>2. ASSUME NEW i \in Jobs, NEW l \in Kinds, file'[i][l].purged, i # j \/ l # k
        PROVE  Current(i, l)' \notin blob'
    <3>1. file'[i][l] = file[i][l] BY <2>1, <2>2 DEF TypeFile
    <3>2. Current(i, l) \notin blob BY <2>2, <3>1 DEF IInv, PurgedIsShredded
    <3> QED BY <1>2, <2>2, <3>1, <3>2 DEF Store, Current
  <2>3. ~file'[j][k].purged BY <2>1 DEF TypeFile
  <2> QED BY <2>2, <2>3 DEF PurgedIsShredded
<1> QED
  BY <1>1, <1>2 DEF Environment, Tomorrow, Retry, Work, Finish, Decide, GiveFeedback,
     ReadDismissed, Dismiss, SetWindow, SetLegalHold, SetOverride

-----------------------------------------------------------------------------
(* The steps of a run. *)

(* The rows leave out what is on legal hold, then what feedback holds: of the holds that have
   been in force since the run began, those that have not been lifted still shelter their job. *)
LEMMA StillSheltered ==
  ASSUME IInv, NEW r \in Runs, NEW h \in sheltered[r]
  PROVE  /\ h[1] \in {"legal", "feedback"} /\ h[2] \in Jobs
         /\ h[1] = "legal" => h[2] \in OnLegalHold
         /\ h[1] = "feedback" => h[2] \in HeldJobs(run[r].now)
<1> USE Bounds
<1> TypeRest /\ TypeRun BY TypeParts DEF IInv
<1>1. h \in Shelters BY DEF IInv, SheltersOK
<1>2. /\ h[1] \in {"legal", "feedback"} /\ h[2] \in Jobs
      /\ h[1] = "legal" => h[2] \in OnLegalHold
      /\ h[1] = "feedback" => h[2] \in HeldJobs(day)
  BY <1>1 DEF Shelters, OnLegalHold, HeldJobs
<1>3. HeldJobs(day) \subseteq HeldJobs(run[r].now)
  <2>1. run[r].now <= day /\ run[r].now \in Int /\ day \in Int
    BY DEF IInv, RunOK, PhaseOK, TypeRun, RunSet, TypeRest, Days
  <2>2. \A u \in Users, j \in Jobs :
          feedback[u][j].verdict = "down" => feedback[u][j].holdUntil \in Nat
    BY DEF IInv, VerdictsOK
  <2> QED BY <2>1, <2>2 DEF HeldJobs
<1> QED BY <1>2, <1>3

LEMMA RunStep ==
  ASSUME IInv, TypeOK', NEW r \in Runs, Advance(r) \/ FailRun(r)
  PROVE  RunOK(r)' /\ PurgedIsShredded'
<1> USE Bounds
<1> TypeFile /\ TypeRun /\ TypeRest BY TypeParts DEF IInv
<1> RunOK(r) BY DEF IInv
<1> USE DEF RunOnly
<1>1. run[r] \in RunSet BY DEF TypeRun
<1>2. ASSUME UNCHANGED <<file, blob>> PROVE PurgedIsShredded'
  BY <1>2 DEF IInv, PurgedIsShredded, Current
<1>3. CASE ReadRows(r)
  <2>1. run'[r] = [run[r] EXCEPT !.pc = "holds", !.due = Unheld(r)] /\ run[r].pc = "rows"
    BY <1>3 DEF ReadRows, At, TypeRun
  <2>2. run'[r].pc = "holds" /\ run'[r].due = Unheld(r) /\ run'[r].todo = {}
        /\ run'[r].now = run[r].now /\ UNCHANGED <<day, sheltered, file, blob>>
    <3>1. run[r].todo = {} BY <2>1 DEF RunOK, PhaseOK
    <3>2. UNCHANGED <<day, sheltered, file, blob>> BY <1>3 DEF ReadRows
    <3> QED BY <1>1, <2>1, <3>1, <3>2 DEF RunSet
  <2>3. ASSUME NEW h \in sheltered[r] PROVE Spares(r, h)'
    BY <2>2, <2>3, StillSheltered DEF Spares, Unheld
  <2>4. PhaseOK(r)' /\ FilesOK(r)' BY <2>2 DEF RunOK, PhaseOK, FilesOK
  <2> QED BY <2>2, <2>3, <2>4, <1>2 DEF RunOK
<1>4. CASE ReadHolds(r)
  <2>1. run'[r] = [run[r] EXCEPT !.pc = "files", !.due = {p \in @ : p[1] \notin HeldJobs(run[r].now)}]
        /\ run[r].pc = "holds"
    BY <1>4 DEF ReadHolds, At, TypeRun
  <2>2. /\ run'[r].pc = "files" /\ run'[r].due = {p \in run[r].due : p[1] \notin HeldJobs(run[r].now)}
        /\ run'[r].todo = {} /\ run'[r].now = run[r].now /\ UNCHANGED <<day, sheltered, file, blob>>
    <3>1. run[r].todo = {} BY <2>1 DEF RunOK, PhaseOK
    <3>2. UNCHANGED <<day, sheltered, file, blob>> BY <1>4 DEF ReadHolds
    <3> QED BY <1>1, <2>1, <3>1, <3>2 DEF RunSet
  <2>3. ASSUME NEW h \in sheltered[r] PROVE Spares(r, h)'
    <3>1. h[1] = "legal" => \A p \in run[r].due : p[1] # h[2] BY <2>1, <2>3 DEF RunOK, Spares
    <3> QED BY <2>2, <2>3, <3>1, StillSheltered DEF Spares
  <2>4. PhaseOK(r)' /\ FilesOK(r)' BY <2>2 DEF RunOK, PhaseOK, FilesOK
  <2> QED BY <2>2, <2>3, <2>4, <1>2 DEF RunOK
<1>5. ASSUME NEW j \in Jobs, ListFiles(r, j) PROVE RunOK(r)' /\ PurgedIsShredded'
  <2> DEFINE found == {Current(j, k) : k \in {k \in Live(j) : <<j, k>> \in run[r].due}}
  <2>1. /\ run'[r] = [run[r] EXCEPT !.due = {p \in @ : p[1] # j}, !.todo = @ \cup found]
        /\ run[r].pc = "files" /\ UNCHANGED <<day, sheltered, file, blob>>
    BY <1>5 DEF ListFiles, At, TypeRun
  <2>2. ASSUME NEW f \in found PROVE Stale(f) /\ f[1] = j /\ \E k \in Kinds : <<j, k>> \in run[r].due
    <3>1. PICK k \in Live(j) : f = Current(j, k) /\ <<j, k>> \in run[r].due BY <2>2
    <3>2. file[j][k].version \in Int BY DEF TypeFile, Live
    <3> QED BY <3>1, <3>2 DEF Stale, Current, Live
  <2> HIDE DEF found
  <2>3. /\ run'[r].pc = "files" /\ run'[r].due = {p \in run[r].due : p[1] # j}
        /\ run'[r].todo = run[r].todo \cup found /\ run'[r].now = run[r].now
    BY <1>1, <2>1 DEF RunSet
  <2>4. ASSUME NEW h \in sheltered[r] PROVE Spares(r, h)'
    <3>1. \A p \in run[r].due : p[1] # h[2] BY <2>1, <2>4 DEF RunOK, Spares
    <3>2. \A f \in found : f[1] # h[2]
      <4> SUFFICES ASSUME NEW f \in found PROVE f[1] # h[2] OBVIOUS
      <4>1. PICK k \in Kinds : <<j, k>> \in run[r].due BY <2>2
      <4> QED BY <2>2, <3>1, <4>1
    <3>3. \A f \in run[r].todo : f[1] # h[2] BY <2>4 DEF RunOK, Spares
    <3> QED BY <2>3, <3>1, <3>2, <3>3 DEF Spares
  <2>5. PhaseOK(r)' BY <2>1, <2>3 DEF RunOK, PhaseOK
  <2>6. FilesOK(r)'
    <3>1. \A f \in run'[r].todo : Stale(f) BY <2>2, <2>3 DEF RunOK, FilesOK
    <3> QED BY <2>1, <2>3, <3>1 DEF FilesOK, Stale
  <2> QED BY <2>1, <2>4, <2>5, <2>6, <1>2 DEF RunOK
<1>6. ASSUME NEW f \in Files, Shred(r, f) PROVE RunOK(r)' /\ PurgedIsShredded'
  <2>1. /\ run'[r] = [run[r] EXCEPT !.pc = "mark", !.todo = @ \ {f}, !.file = f]
        /\ run[r].pc = "files" /\ run[r].due = {} /\ f \in run[r].todo
        /\ blob' = blob \ {f} /\ UNCHANGED <<day, sheltered, file>>
    BY <1>6 DEF Shred, AtLoops, At, TypeRun
  <2>2. /\ run'[r].pc = "mark" /\ run'[r].due = {} /\ run'[r].todo = run[r].todo \ {f}
        /\ run'[r].now = run[r].now /\ run'[r].file = f
    BY <1>1, <2>1 DEF RunSet
  <2>3. PhaseOK(r)' /\ \A h \in sheltered'[r] : Spares(r, h)'
    BY <2>1, <2>2 DEF RunOK, PhaseOK, Spares
  <2>4. FilesOK(r)'
    <3>1. \A g \in run[r].todo : Stale(g) BY DEF RunOK, FilesOK
    <3> QED BY <2>1, <2>2, <3>1 DEF FilesOK, Stale
  <2>5. PurgedIsShredded' BY <2>1 DEF IInv, PurgedIsShredded, Current
  <2> QED BY <2>3, <2>4, <2>5 DEF RunOK
<1>7. CASE MarkFile(r)
  <2>1. run[r].pc = "mark" /\ run[r].file \in Files /\ run[r].file \notin blob
    BY <1>7 DEF MarkFile, At, RunOK, FilesOK
  <2>2. PICK j \in Jobs, k \in Kinds, n \in 0..MaxVersions : run[r].file = <<j, k, n>>
    BY <2>1 DEF Files
  <2>3. /\ run'[r] = [run[r] EXCEPT !.pc = "files", !.file = None, !.touched = @ \cup {j}]
        /\ UNCHANGED <<day, sheltered, blob>>
    BY <1>7, <2>2 DEF MarkFile, TypeRun
  <2>4. /\ run'[r].pc = "files" /\ run'[r].due = run[r].due /\ run'[r].todo = run[r].todo
        /\ run'[r].now = run[r].now /\ run[r].due = {}
    BY <1>1, <2>1, <2>3 DEF RunSet, RunOK, PhaseOK
  <2>5. \A i \in Jobs, l \in Kinds : file'[i][l].version = file[i][l].version
    <3>1. CASE Current(j, k) # <<j, k, n>>
      BY <1>7, <2>2, <3>1 DEF MarkFile
    <3>2. CASE Current(j, k) = <<j, k, n>>
      <4> DEFINE w == [file[j][k] EXCEPT !.purged = TRUE]
      <4>1. w.version = file[j][k].version BY DEF TypeFile
      <4>2. file' = [file EXCEPT ![j] = [file[j] EXCEPT ![k] = w]]
        BY <1>7, <2>2, <3>2 DEF MarkFile, TypeFile
      <4> HIDE DEF w
      <4> QED BY <4>1, <4>2 DEF TypeFile
    <3> QED BY <3>1, <3>2
  <2>6. PhaseOK(r)' /\ \A h \in sheltered'[r] : Spares(r, h)'
    BY <2>1, <2>3, <2>4 DEF RunOK, PhaseOK, Spares
  <2>7. FilesOK(r)'
    <3>1. ASSUME NEW f \in run[r].todo PROVE Stale(f)'
      <4>1. Stale(f) /\ f \in Files BY <1>1 DEF RunOK, FilesOK, RunSet
      <4>2. PICK i \in Jobs, l \in Kinds, m \in 0..MaxVersions : f = <<i, l, m>> BY <4>1 DEF Files
      <4> QED BY <2>5, <4>1, <4>2 DEF Stale
    <3> QED BY <2>4, <3>1 DEF FilesOK
  <2>8. PurgedIsShredded'
    <3> SUFFICES ASSUME NEW i \in Jobs, NEW l \in Kinds, file'[i][l].purged
                 PROVE  Current(i, l)' \notin blob
      BY <2>3 DEF PurgedIsShredded
    <3>1. Current(i, l)' = Current(i, l) BY <2>5 DEF Current
    <3>2. CASE file[i][l].purged BY <3>1, <3>2 DEF IInv, PurgedIsShredded
    <3>3. CASE ~file[i][l].purged
      <4>1. Current(j, k) = <<j, k, n>>
        BY <1>7, <2>2, <3>3 DEF MarkFile
      <4>2. file' = [file EXCEPT ![j] = [file[j] EXCEPT ![k] = [file[j][k] EXCEPT !.purged = TRUE]]]
        BY <1>7, <2>2, <4>1 DEF MarkFile, TypeFile
      <4>3. i = j /\ l = k BY <3>3, <4>2 DEF TypeFile
      <4> QED BY <2>1, <2>2, <3>1, <4>1, <4>3
    <3> QED BY <3>2, <3>3
  <2> QED BY <2>6, <2>7, <2>8 DEF RunOK
<1>8. ASSUME UNCHANGED <<day, sheltered, file, blob>>,
             run'[r].pc \in {"files", "close", "wipe"}, run'[r].due = {}, run[r].due = {},
             run'[r].todo = run[r].todo, run'[r].now = run[r].now
      PROVE  RunOK(r)' /\ PurgedIsShredded'
  <2>1. PhaseOK(r)' /\ \A h \in sheltered'[r] : Spares(r, h)'
    BY <1>8 DEF RunOK, PhaseOK, Spares
  <2>2. FilesOK(r)' BY <1>8 DEF RunOK, FilesOK, Stale
  <2> QED BY <2>1, <2>2, <1>2, <1>8 DEF RunOK
<1>9. ASSUME NEW j \in Jobs, Remaining(r, j) PROVE RunOK(r)' /\ PurgedIsShredded'
  <2>1. run'[r] = [run[r] EXCEPT !.touched = @ \ {j}, !.target = j,
                                 !.pc = IF Live(j) = {} THEN "close" ELSE "files"]
        /\ run[r].due = {} /\ UNCHANGED <<day, sheltered, file, blob>>
    BY <1>9 DEF Remaining, AtLoops, TypeRun
  <2> QED BY <1>1, <1>8, <2>1 DEF RunSet
<1>10. CASE CloseJob(r)
  <2>1. run'[r] = [run[r] EXCEPT !.pc = "wipe"] /\ UNCHANGED <<day, sheltered, file, blob>>
        /\ run[r].due = {}
    BY <1>10 DEF CloseJob, At, TypeRun, RunOK, PhaseOK
  <2> QED BY <1>1, <1>8, <2>1 DEF RunSet
<1>11. CASE WipeAmounts(r)
  <2>1. run'[r] = [run[r] EXCEPT !.pc = "files"] /\ UNCHANGED <<day, sheltered, file, blob>>
        /\ run[r].due = {}
    BY <1>11 DEF WipeAmounts, At, TypeRun, RunOK, PhaseOK, jobVars
  <2> QED BY <1>1, <1>8, <2>1 DEF RunSet
<1>12. CASE End(r) \/ FailRun(r)
  <2>1. run'[r] = IdleRun /\ UNCHANGED <<day, sheltered, file, blob>>
    BY <1>12 DEF End, FailRun, TypeRun, jobVars
  <2>2. PhaseOK(r)' BY <2>1 DEF PhaseOK, IdleRun, TypeRest, Days
  <2>3. FilesOK(r)' /\ \A h \in sheltered'[r] : Spares(r, h)'
    BY <2>1 DEF FilesOK, Spares, IdleRun
  <2> QED BY <2>1, <2>2, <2>3, <1>2 DEF RunOK
<1> QED
  BY <1>3, <1>4, <1>5, <1>6, <1>7, <1>9, <1>10, <1>11, <1>12 DEF Advance

LEMMA Inductive == ASSUME IInv, [Next]_vars PROVE IInv'
<1> USE Bounds
<1>1. MarksTyped BY DEF MarksTyped, IInv, RunOK, FilesOK
<1>2. Drift BY <1>1, Drifts DEF IInv
<1>3. CASE Environment
  <2>1. TypeOK' BY <1>3, TypeEnvironment DEF IInv
  <2>2. \A r \in Runs : RunOK(r)' BY <1>2, <1>3, <2>1, HoldsKept, RunKept DEF IInv
  <2> QED BY <1>3, <2>1, <2>2, HoldsKept, PurgedKept DEF IInv
<1>4. ASSUME NEW r \in Runs, Beginning(r) PROVE IInv'
  <2>1. TypeOK' BY <1>4, Begun DEF IInv
  <2>2. ASSUME NEW s \in Runs \ {r} PROVE RunOK(s)' BY <1>2, <1>4, <2>1, Begun, RunKept DEF IInv
  <2>3. RunOK(r)'
    BY <1>4, Begun, Bounds DEF IInv, TypeOK, Days, RunOK, PhaseOK, FilesOK, Spares
  <2>4. Shelters' = Shelters BY <1>4, Begun DEF Shelters, OnLegalHold, HeldJobs, IInv
  <2>5. SheltersOK' BY <1>4, <2>4, Begun DEF IInv, SheltersOK
  <2>6. VerdictsOK' /\ PurgedIsShredded'
    BY <1>4, Begun DEF IInv, VerdictsOK, PurgedIsShredded, Current
  <2> QED BY <2>1, <2>2, <2>3, <2>5, <2>6 DEF IInv
<1>5. ASSUME NEW r \in Runs, Advance(r) \/ FailRun(r) PROVE IInv'
  <2>1. TypeOK' BY <1>1, <1>5, TypePurge DEF IInv, MarksTyped, At
  <2>2. RunOK(r)' /\ PurgedIsShredded' BY <1>5, <2>1, RunStep
  <2>3. /\ \A s \in Runs \ {r} : run'[s] = run[s]
        /\ UNCHANGED <<sheltered, feedback, hold, day>>
    BY <1>5 DEF Advance, ReadRows, ReadHolds, MarkFile, CloseJob, WipeAmounts, End, ListFiles, Remaining,
       Shred, FailRun, RunOnly, holdVars, IInv, TypeOK
  <2>4. \A s \in Runs \ {r} : RunOK(s)' BY <1>2, <2>1, <2>3, RunKept DEF IInv
  <2>5. SheltersOK' /\ VerdictsOK'
    BY <2>3 DEF IInv, SheltersOK, VerdictsOK, Shelters, OnLegalHold, HeldJobs
  <2> QED BY <2>1, <2>2, <2>4, <2>5 DEF IInv
<1>6. CASE UNCHANGED vars
  <2>1. TypeOK' BY <1>6 DEF vars, IInv, TypeOK
  <2>2. \A s \in Runs : RunOK(s)' BY <1>2, <1>6, <2>1, RunKept DEF IInv, vars
  <2>3. SheltersOK' /\ VerdictsOK' /\ PurgedIsShredded'
    BY <1>6 DEF vars, IInv, SheltersOK, VerdictsOK, PurgedIsShredded, Current, Shelters, OnLegalHold, HeldJobs
  <2> QED BY <2>1, <2>2, <2>3 DEF IInv
<1> QED BY <1>3, <1>4, <1>5, <1>6 DEF Next, Beginning, Runs

LEMMA AlwaysIInv == Spec => []IInv
BY InitIInv, Inductive, PTL DEF Spec

-----------------------------------------------------------------------------
(* Type correctness of the retention engine (purge.ts, retention.ts). *)
THEOREM TypeCorrect == Spec => []TypeOK
BY AlwaysIInv, PTL DEF IInv

(* However many runs of the purge and changes of holds interleave, no run shreds a file of a job
   that a hold has sheltered ever since the run began (purge.ts:94-116, feedback.ts:42). *)
THEOREM HoldsAreRespected == Spec => []HoldsRespected
<1>1. IInv => HoldsRespected
  <2> SUFFICES ASSUME IInv, NEW r \in Runs, NEW h \in sheltered[r] PROVE h[2] \notin Doomed(r)
    BY DEF HoldsRespected
  <2>1. Spares(r, h) BY DEF IInv, RunOK
  <2> QED BY <2>1 DEF Spares, Doomed
<1> QED BY <1>1, AlwaysIInv, PTL

(* A row that says purged has lost its blob for good (purge.ts:136-147): the version a run marks
   is the one it shredded, whatever the worker has stored meanwhile. *)
THEOREM PurgedStaysShredded == Spec => []PurgedIsShredded
BY AlwaysIInv, PTL DEF IInv
=============================================================================

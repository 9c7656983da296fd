---------------------------- MODULE AdminsProofs ----------------------------
(***************************************************************************)
(* Proofs about Admins, for any accounts and any number of handlers: type  *)
(* correctness, that setup creates one founder, that the break-glass       *)
(* account stays an administrator, and that only an overtaken change of a  *)
(* role takes the last administrator away.                                 *)
(***************************************************************************)
EXTENDS Admins, TLAPS, FiniteSetTheorems

USE AdminsAssumption

(* What a handler knows between its steps, whatever the others do. *)
Knows(r) ==
  /\ req[r].at \in {"setup", "setup_insert", "seed"} => req[r].user \in Users
  /\ req[r].at \in {"create", "sso_create", "sso_role", "sso_count", "sso_set"}
       => req[r].user \in People
  /\ req[r].at \in {"patch", "patch_set"}
       => /\ req[r].user \in Users
          /\ req[r].user = Breakglass => req[r].arg \cap {"staff", "disable"} = {}
  /\ req[r].at \in {"patch", "patch_set", "sso_role", "sso_count", "sso_set"}
       => Exists(req[r].user)

(* The handler between the count of setup and its commit holds the lock and found nobody. *)
Founders == founders \cap People
LockHeld ==
  /\ \A r \in Requests : req[r].at \in {"setup", "setup_insert"} => setupLock = r
  /\ \A r \in Requests : At(r, "setup_insert") => Founders = {}
  /\ Founders = {} \/ \E f \in Persons : Founders = {f}

BreakglassOK == role[Breakglass] \in {"admin", None} /\ ~disabled[Breakglass]

(* The inductive invariant of everything but AdminStays. *)
IInv == TypeOK /\ (\A r \in Requests : Knows(r)) /\ LockHeld /\ BreakglassOK

LEMMA InitIInv == Init => IInv
BY DEF Init, IInv, TypeOK, Knows, LockHeld, BreakglassOK, Idle, Steps, RoleOrNone, Roles, Changes,
       Patches, People, Persons, Founders, Exists, At

-----------------------------------------------------------------------------
(* What the ways to move a handler on do to req. *)
HandlerSet == [at : Steps, user : Users \cup {None}, arg : Patches,
               seen : [role : RoleOrNone, disabled : BOOLEAN]]
Moved(r, step, u, arg) ==
  /\ req' \in [Requests -> HandlerSet]
  /\ \A s \in Requests \ {r} : req'[s] = req[s]
  /\ req'[r].at = step /\ req'[r].user = u /\ req'[r].arg = arg

LEMMA SmallPatches ==
  /\ {} \in Patches /\ \A as \in Roles : {as} \in Patches
  /\ \A patch : RoleIn(patch) \in Roles
BY DEF Patches, Changes, Roles, RoleIn

LEMMA BeginMoves ==
  ASSUME TypeOK, NEW r \in Requests, NEW step \in Steps, NEW u \in Users \cup {None},
         NEW arg \in Patches, Begin(r, step, u, arg)
  PROVE  Moved(r, step, u, arg)
BY DEF TypeOK, Begin, Idle, HandlerSet, Moved, RoleOrNone

LEMMA DoneMoves ==
  ASSUME TypeOK, NEW r \in Requests, Done(r) PROVE Moved(r, "idle", None, {}) /\ req'[r] = Idle
BY SmallPatches DEF TypeOK, Done, Idle, HandlerSet, Moved, RoleOrNone, Steps

LEMMA GoMoves ==
  ASSUME TypeOK, NEW r \in Requests, NEW step \in Steps, Go(r, step)
  PROVE  Moved(r, step, req[r].user, req[r].arg)
BY DEF TypeOK, Go, HandlerSet, Moved

LEMMA PatchMoves ==
  ASSUME TypeOK, NEW r \in Requests, NEW u \in Users, NEW patch \in Patches,
         PatchRead(r, u, patch)
  PROVE  /\ Moved(r, "patch", u, patch)
         /\ req'[r].seen.role = role[u] /\ req'[r].seen.disabled = disabled[u]
BY DEF TypeOK, PatchRead, HandlerSet, Moved, Steps, RoleOrNone

LEMMA InsertType ==
  ASSUME TypeOK, NEW u \in Users, NEW as \in Roles, Insert(u, as)
  PROVE  /\ role' \in [Users -> RoleOrNone]
         /\ \A v \in Users \ {u} : role'[v] = role[v]
         /\ Exists(u) => role'[u] = role[u]
         /\ ~Exists(u) => role'[u] = as
BY DEF TypeOK, Insert, RoleOrNone, Exists

-----------------------------------------------------------------------------
(* The four kinds of step.  First those that write no row. *)
ReadsOnly(r) ==
  /\ UNCHANGED <<users, founders>>
  /\ overtaken' \subseteq Requests
  /\ setupLock' \in Requests \cup {None}
  /\ setupLock' = setupLock \/ (setupLock \in {None, r} /\ setupLock' \in {None, r})
  /\ req'[r].at \in {"setup", "setup_insert"} => setupLock' = r
  /\ req'[r].at = "setup_insert" => Founders = {}

LEMMA ReadKeeps ==
  ASSUME IInv, NEW r \in Requests, NEW step, NEW u, NEW arg, Moved(r, step, u, arg),
         ReadsOnly(r), Knows(r)'
  PROVE  IInv'
<1>1. role' = role /\ disabled' = disabled /\ founders' = founders BY DEF ReadsOnly, users
<1>2. TypeOK' BY <1>1 DEF IInv, TypeOK, Moved, HandlerSet, ReadsOnly
<1>3. \A s \in Requests : Knows(s)'
  BY <1>1 DEF IInv, Knows, Moved, Exists
<1>4. BreakglassOK' BY <1>1 DEF IInv, BreakglassOK
<1>5. ASSUME NEW s \in Requests, req'[s].at \in {"setup", "setup_insert"} PROVE setupLock' = s
  <2>1. CASE s = r BY <1>5, <2>1 DEF ReadsOnly
  <2>2. CASE s # r BY <1>5, <2>2 DEF ReadsOnly, Moved, IInv, LockHeld
  <2> QED BY <2>1, <2>2
<1>6. Founders' = Founders /\ Persons' = Persons BY <1>1 DEF Founders, Persons, Exists
<1>7. ASSUME NEW s \in Requests, At(s, "setup_insert")' PROVE Founders' = {}
  <2>1. CASE s = r BY <1>6, <1>7, <2>1 DEF ReadsOnly, At
  <2>2. CASE s # r BY <1>6, <1>7, <2>2 DEF Moved, IInv, LockHeld, At
  <2> QED BY <2>1, <2>2
<1>8. LockHeld' BY <1>5, <1>6, <1>7 DEF IInv, LockHeld
<1> QED BY <1>2, <1>3, <1>4, <1>8 DEF IInv

(* A handler that ends and takes no part in setup. *)
LEMMA Founded ==
  ASSUME IInv, NEW r \in Requests, Moved(r, "idle", None, {}), UNCHANGED <<setupLock, founders>>,
         \A v \in Users : Exists(v) => role'[v] # None
  PROVE  LockHeld' /\ \A s \in Requests : Knows(s)'
<1>1. \A s \in Requests : Knows(s)' BY DEF IInv, Knows, Moved, Exists, People
<1>2. Founders' = Founders BY DEF Founders
<1>3. Persons \subseteq Persons' BY DEF Persons, People, Exists
<1>4. \A s \in Requests : req'[s].at \in {"setup", "setup_insert"} => req'[s] = req[s]
  BY DEF Moved
<1>5. \A s \in Requests : At(s, "setup_insert")' => Founders' = {}
  BY <1>2, <1>4 DEF IInv, LockHeld, At
<1>6. \A s \in Requests : req'[s].at \in {"setup", "setup_insert"} => setupLock' = s
  BY <1>4 DEF IInv, LockHeld
<1>7. Founders' = {} \/ \E f \in Persons' : Founders' = {f}
  BY <1>2, <1>3 DEF IInv, LockHeld
<1>8. LockHeld' BY <1>5, <1>6, <1>7 DEF LockHeld
<1> QED BY <1>1, <1>8

LEMMA InsertKeeps ==
  ASSUME IInv, NEW r \in Requests, Done(r), NEW u \in Users, NEW as \in Roles, Insert(u, as),
         u = Breakglass => as = "admin", UNCHANGED <<disabled, setupLock, founders, overtaken>>
  PROVE  IInv'
<1> TypeOK BY DEF IInv
<1>1. Moved(r, "idle", None, {}) BY DoneMoves
<1>2. /\ role' \in [Users -> RoleOrNone]
      /\ \A v \in Users \ {u} : role'[v] = role[v]
      /\ Exists(u) => role'[u] = role[u]
      /\ ~Exists(u) => role'[u] = as
  BY InsertType
<1>3. TypeOK' BY <1>1, <1>2 DEF TypeOK, Moved, HandlerSet
<1>4. BreakglassOK' BY <1>2 DEF IInv, BreakglassOK
<1>5. \A v \in Users : Exists(v) => role'[v] # None BY <1>2 DEF Exists, Roles
<1> QED BY <1>1, <1>3, <1>4, <1>5, Founded DEF IInv

LEMMA SetupInserts == ASSUME IInv, NEW r \in Requests, SetupInsert(r) PROVE IInv'
<1> TypeOK BY DEF IInv
<1> DEFINE u == req[r].user
<1>1. Moved(r, "idle", None, {}) BY DoneMoves DEF SetupInsert
<1>2. u \in Users /\ Founders = {} /\ setupLock = r /\ setupLock' = None
  BY DEF SetupInsert, At, IInv, Knows, LockHeld
<1>3. /\ role' \in [Users -> RoleOrNone]
      /\ \A v \in Users \ {u} : role'[v] = role[v]
      /\ Exists(u) => role'[u] = role[u]
      /\ ~Exists(u) => role'[u] = "admin"
  BY <1>2, InsertType DEF SetupInsert, Roles
<1>4. TypeOK' BY <1>1, <1>2, <1>3 DEF TypeOK, Moved, HandlerSet, SetupInsert
<1>5. BreakglassOK' BY <1>3 DEF IInv, BreakglassOK, SetupInsert
<1>6. \A v \in Users : Exists(v) => role'[v] # None BY <1>3 DEF Exists
<1>7. \A s \in Requests : Knows(s)' BY <1>1, <1>6 DEF IInv, Knows, Moved, Exists, People
<1>8. \A s \in Requests : req'[s].at \notin {"setup", "setup_insert"}
  BY <1>1, <1>2 DEF IInv, LockHeld, Moved
<1>9. Founders' = {} \/ \E f \in Persons' : Founders' = {f}
  <2>1. CASE Exists(u) \/ u = Breakglass
    <3>1. Founders' = Founders BY <2>1 DEF SetupInsert, Founders, People
    <3> QED BY <1>2, <3>1
  <2>2. CASE ~Exists(u) /\ u # Breakglass
    <3>1. Founders' = {u} BY <1>2, <2>2 DEF SetupInsert, Founders, People
    <3>2. u \in Persons' BY <1>2, <1>3, <2>2 DEF Persons, People, Exists
    <3> QED BY <3>1, <3>2
  <2> QED BY <2>1, <2>2
<1>10. LockHeld' BY <1>8, <1>9 DEF LockHeld, At
<1> QED BY <1>4, <1>5, <1>7, <1>10 DEF IInv

LEMMA PatchSetKeeps == ASSUME IInv, NEW r \in Requests, PatchSet(r) PROVE IInv'
<1> TypeOK BY DEF IInv
<1> DEFINE u == req[r].user
           patch == req[r].arg
<1>1. Moved(r, "idle", None, {}) BY DoneMoves DEF PatchSet
<1>2. /\ u \in Users /\ Exists(u) /\ patch \in Patches
      /\ u = Breakglass => patch \cap {"staff", "disable"} = {}
  BY DEF PatchSet, At, IInv, Knows, TypeOK
<1>3. /\ role' = [role EXCEPT ![u] = IF patch \cap Roles = {} THEN @ ELSE RoleIn(patch)]
      /\ disabled' = [disabled EXCEPT ![u] = "disable" \in patch \/ (@ /\ "enable" \notin patch)]
      /\ UNCHANGED <<setupLock, founders>>
      /\ overtaken' \subseteq overtaken \cup Requests
  BY DEF PatchSet, Overtakes
<1>4. RoleIn(patch) \in Roles BY SmallPatches
<1>5. role' \in [Users -> RoleOrNone] /\ \A v \in Users : Exists(v) => role'[v] # None
  BY <1>2, <1>3, <1>4 DEF TypeOK, RoleOrNone, Roles, Exists
<1>6. disabled' \in [Users -> BOOLEAN] BY <1>2, <1>3 DEF TypeOK
<1>7. TypeOK' BY <1>1, <1>3, <1>5, <1>6 DEF TypeOK, Moved, HandlerSet
<1>8. BreakglassOK'
  BY <1>2, <1>3 DEF IInv, TypeOK, BreakglassOK, RoleIn, Roles
<1> QED BY <1>1, <1>3, <1>5, <1>7, <1>8, Founded DEF IInv

LEMMA SsoSetKeeps == ASSUME IInv, NEW r \in Requests, SsoSet(r) PROVE IInv'
<1> TypeOK BY DEF IInv
<1>1. Moved(r, "idle", None, {}) BY DoneMoves DEF SsoSet
<1>2. req[r].user \in People BY DEF SsoSet, At, IInv, Knows
<1>3. /\ role' = [role EXCEPT ![req[r].user] = RoleIn(req[r].arg)]
      /\ UNCHANGED <<disabled, setupLock, founders>>
      /\ overtaken' \subseteq overtaken \cup Requests
  BY DEF SsoSet, Overtakes
<1>4. RoleIn(req[r].arg) \in Roles BY SmallPatches
<1>5. role' \in [Users -> RoleOrNone] /\ \A v \in Users : Exists(v) => role'[v] # None
  BY <1>2, <1>3, <1>4 DEF TypeOK, RoleOrNone, Roles, Exists
<1>6. TypeOK' BY <1>1, <1>3, <1>5 DEF TypeOK, Moved, HandlerSet
<1>7. BreakglassOK' BY <1>2, <1>3 DEF IInv, TypeOK, BreakglassOK, People
<1> QED BY <1>1, <1>3, <1>5, <1>6, <1>7, Founded DEF IInv

-----------------------------------------------------------------------------
LEMMA Inductive == ASSUME IInv, [Next]_vars PROVE IInv'
<1> TypeOK BY DEF IInv
<1> USE DEF At
<1>1. ASSUME NEW r \in Requests, NEW u \in Users, Setup(r, u) PROVE IInv'
  <2>1. Moved(r, "setup", u, {}) BY <1>1, BeginMoves, SmallPatches DEF Setup, Steps
  <2>2. ReadsOnly(r) BY <1>1, <2>1 DEF Setup, ReadsOnly, Moved, IInv, TypeOK
  <2>3. Knows(r)' BY <2>1 DEF Moved, Knows
  <2> QED BY <2>1, <2>2, <2>3, ReadKeeps
<1>2. ASSUME NEW r \in Requests, NEW u \in Users, SeedCount(r, u) PROVE IInv'
  <2>1. Moved(r, "seed", u, {}) BY <1>2, BeginMoves, SmallPatches DEF SeedCount, Steps
  <2>2. ReadsOnly(r) BY <1>2, <2>1 DEF SeedCount, ReadsOnly, Moved, IInv, TypeOK
  <2>3. Knows(r)' BY <2>1 DEF Moved, Knows
  <2> QED BY <2>1, <2>2, <2>3, ReadKeeps
<1>3. ASSUME NEW r \in Requests, NEW u \in Users, Load(r, u) PROVE IInv'
  <2>1. Moved(r, "loaded", None, {}) BY <1>3, BeginMoves, SmallPatches DEF Load, Steps
  <2>2. ReadsOnly(r) BY <1>3, <2>1 DEF Load, ReadsOnly, Moved, IInv, TypeOK
  <2>3. Knows(r)' BY <2>1 DEF Moved, Knows
  <2> QED BY <2>1, <2>2, <2>3, ReadKeeps
<1>4. ASSUME NEW r \in Requests, NEW u \in Users, NEW as \in Roles, CreateRead(r, u, as)
      PROVE  IInv'
  <2>1. Moved(r, "create", u, {as}) BY <1>4, BeginMoves, SmallPatches DEF CreateRead, Steps
  <2>2. ReadsOnly(r) BY <1>4, <2>1 DEF CreateRead, ReadsOnly, Moved, IInv, TypeOK
  <2>3. Knows(r)' BY <1>4, <2>1 DEF CreateRead, Moved, Knows, People
  <2> QED BY <2>1, <2>2, <2>3, ReadKeeps
<1>5. ASSUME NEW r \in Requests, NEW u \in Users, NEW as \in Roles, SsoFind(r, u, as)
      PROVE  IInv'
  <2>1. Moved(r, IF Exists(u) THEN "sso_role" ELSE "sso_create", u, {as})
    BY <1>5, BeginMoves, SmallPatches DEF SsoFind, Steps
  <2>2. ReadsOnly(r) BY <1>5, <2>1 DEF SsoFind, ReadsOnly, Moved, IInv, TypeOK
  <2>3. Knows(r)'
    BY <1>5, <2>1, <2>2 DEF SsoFind, ReadsOnly, users, Moved, Knows, People, Exists
  <2> QED BY <2>1, <2>2, <2>3, ReadKeeps
<1>6. ASSUME NEW r \in Requests, NEW u \in Users, NEW patch \in Patches, PatchRead(r, u, patch)
      PROVE  IInv'
  <2>1. Moved(r, "patch", u, patch) BY <1>6, PatchMoves
  <2>2. ReadsOnly(r) BY <1>6, <2>1 DEF PatchRead, ReadsOnly, Moved, IInv, TypeOK
  <2>3. Knows(r)'
    BY <1>6, <2>1, <2>2 DEF PatchRead, ReadsOnly, users, Moved, Knows, Exists
  <2> QED BY <2>1, <2>2, <2>3, ReadKeeps
<1>7. ASSUME NEW r \in Requests, SetupCount(r) PROVE IInv'
  <2>1. CASE Persons = {}
    <3>1. Moved(r, "setup_insert", req[r].user, req[r].arg)
      BY <1>7, <2>1, GoMoves DEF SetupCount, Steps
    <3>2. Founders = {} /\ setupLock = r BY <1>7, <2>1 DEF SetupCount, IInv, LockHeld
    <3>3. ReadsOnly(r) BY <1>7, <2>1, <3>1, <3>2 DEF SetupCount, ReadsOnly, Moved, IInv, TypeOK
    <3>4. Knows(r)' BY <1>7, <3>1 DEF SetupCount, Moved, IInv, Knows
    <3> QED BY <3>1, <3>3, <3>4, ReadKeeps
  <2>2. CASE Persons # {}
    <3>1. Moved(r, "idle", None, {}) BY <1>7, <2>2, DoneMoves DEF SetupCount
    <3>2. ReadsOnly(r)
      BY <1>7, <2>2, <3>1 DEF SetupCount, ReadsOnly, Moved, IInv, TypeOK, LockHeld
    <3>3. Knows(r)' BY <3>1 DEF Moved, Knows
    <3> QED BY <3>1, <3>2, <3>3, ReadKeeps
  <2> QED BY <2>1, <2>2
<1>8. ASSUME NEW r \in Requests, SeedInsert(r) PROVE IInv'
  <2>1. req[r].user \in Users BY <1>8 DEF SeedInsert, IInv, Knows
  <2>2. "admin" \in Roles BY DEF Roles
  <2> QED BY <1>8, <2>1, <2>2, InsertKeeps DEF SeedInsert
<1>9. ASSUME NEW r \in Requests, CreateInsert(r) \/ SsoCreate(r) PROVE IInv'
  <2>1. req[r].user \in People BY <1>9 DEF CreateInsert, SsoCreate, IInv, Knows
  <2>2. req[r].user \in Users /\ req[r].user # Breakglass BY <2>1 DEF People
  <2> QED BY <1>9, <2>2, SmallPatches, InsertKeeps DEF CreateInsert, SsoCreate
<1>10. ASSUME NEW r \in Requests, PatchCheck(r) PROVE IInv'
  <2>1. \/ Moved(r, "idle", None, {})
        \/ Moved(r, "patch_set", req[r].user, req[r].arg)
    <3>1. req[r].user \in Users \cup {None} /\ req[r].arg \in Patches BY DEF TypeOK
    <3> QED BY <1>10, <3>1, DoneMoves, BeginMoves DEF PatchCheck, Steps
  <2>2. ReadsOnly(r) BY <1>10, <2>1 DEF PatchCheck, ReadsOnly, Moved, IInv, TypeOK
  <2>3. Knows(r)'
    BY <1>10, <2>1, <2>2 DEF PatchCheck, ReadsOnly, users, Moved, IInv, Knows, Exists
  <2> QED BY <2>1, <2>2, <2>3, ReadKeeps
<1>11. ASSUME NEW r \in Requests, Other(r) PROVE IInv'
  <2>1. Moved(r, "idle", None, {}) BY <1>11, DoneMoves DEF Other
  <2>2. ReadsOnly(r) BY <1>11, <2>1 DEF Other, ReadsOnly, Moved, IInv, TypeOK
  <2>3. Knows(r)' BY <2>1 DEF Moved, Knows
  <2> QED BY <2>1, <2>2, <2>3, ReadKeeps
<1>12. ASSUME NEW r \in Requests, SsoRole(r) \/ SsoCount(r) PROVE IInv'
  <2>1. \/ Moved(r, "idle", None, {})
        \/ Moved(r, "sso_count", req[r].user, req[r].arg)
        \/ Moved(r, "sso_set", req[r].user, req[r].arg)
    BY <1>12, DoneMoves, GoMoves DEF SsoRole, SsoCount, Steps
  <2>2. ReadsOnly(r) BY <1>12, <2>1 DEF SsoRole, SsoCount, ReadsOnly, Moved, IInv, TypeOK
  <2>3. Knows(r)'
    BY <1>12, <2>1, <2>2 DEF SsoRole, SsoCount, ReadsOnly, users, Moved, IInv, Knows, Exists
  <2> QED BY <2>1, <2>2, <2>3, ReadKeeps
<1>13. CASE EnsureBreakglass
  BY <1>13 DEF EnsureBreakglass, Insert, Exists, IInv, TypeOK, Knows, LockHeld, BreakglassOK,
     RoleOrNone, Roles, Persons, People, Founders
<1>14. CASE UNCHANGED vars
  BY <1>14 DEF vars, users, IInv, TypeOK, Knows, LockHeld, BreakglassOK, Exists, Persons, Founders
<1> QED
  BY <1>1, <1>2, <1>3, <1>4, <1>5, <1>6, <1>7, <1>8, <1>9, <1>10, <1>11, <1>12, <1>13, <1>14,
     SetupInserts, PatchSetKeeps, SsoSetKeeps DEF Next

LEMMA AlwaysIInv == Spec => []IInv
BY InitIInv, Inductive, PTL DEF Spec

(* No step removes a row of users. *)
LEMMA RowsStay ==
  ASSUME IInv, [Next]_vars, NEW u \in Users, Exists(u) PROVE role'[u] # None
<1> USE DEF IInv, TypeOK, Exists
<1>1. CASE UNCHANGED role BY <1>1
<1>2. ASSUME NEW v \in Users, NEW as, Insert(v, as) PROVE role'[u] # None
  BY <1>2 DEF Insert
<1>3. ASSUME NEW r \in Requests, PatchSet(r) PROVE role'[u] # None
  BY <1>3, SmallPatches DEF PatchSet, Knows, At, Roles
<1>4. ASSUME NEW r \in Requests, SsoSet(r) PROVE role'[u] # None
  BY <1>4, SmallPatches DEF SsoSet, Knows, At, Roles
<1>5. ASSUME NEW r \in Requests,
             SetupInsert(r) \/ SeedInsert(r) \/ CreateInsert(r) \/ SsoCreate(r)
      PROVE  role'[u] # None
  BY <1>2, <1>5 DEF SetupInsert, SeedInsert, CreateInsert, SsoCreate, Knows, At, People
<1>6. CASE EnsureBreakglass BY <1>2, <1>6 DEF EnsureBreakglass
<1> QED
  BY <1>1, <1>3, <1>4, <1>5, <1>6 DEF Next, Setup, SeedCount, Load, CreateRead, SsoFind,
     PatchRead, SetupCount, PatchCheck, Other, SsoRole, SsoCount, users, vars

-----------------------------------------------------------------------------
(* Type correctness, for every reachable state of Admins (routes/users, routes/setup,
   cli/seed-admin, lib/vibeAuthUsers). *)
THEOREM TypeCorrect == Spec => []TypeOK
BY AlwaysIInv, PTL DEF IInv

(* However many first-run setups race for the advisory lock (setup.ts:47), and whatever seed
   command, emergency account and single sign-on do around them, one at most makes a person an
   administrator. *)
THEOREM OneFounder == Spec => []SetupOnce
<1>1. IInv => SetupOnce
  <2> SUFFICES ASSUME IInv PROVE SetupOnce OBVIOUS
  <2>1. founders \ {Breakglass} = Founders BY DEF IInv, TypeOK, Founders, People
  <2>2. CASE Founders = {} BY <2>1, <2>2, FS_EmptySet DEF SetupOnce
  <2>3. ASSUME NEW f \in Persons, Founders = {f} PROVE SetupOnce
    <3>1. Cardinality({f}) = 1 BY FS_Singleton
    <3> QED BY <2>1, <2>3, <3>1 DEF SetupOnce
  <2> QED BY <2>2, <2>3 DEF IInv, LockHeld
<1> QED BY <1>1, AlwaysIInv, PTL

(* The break-glass account of docs/sso.md, once seeded, stays an enabled administrator
   whatever administrators and role syncs do (users.ts:118). *)
THEOREM BreakglassGuarded == Spec => BreakglassStays
<1>1. IInv /\ IInv' /\ [Next]_vars =>
        [Exists(Breakglass) => role'[Breakglass] = "admin" /\ ~disabled'[Breakglass]]_vars
  <2> SUFFICES ASSUME IInv, IInv', [Next]_vars, Exists(Breakglass)
               PROVE  role'[Breakglass] = "admin" /\ ~disabled'[Breakglass]
    OBVIOUS
  <2>1. role'[Breakglass] # None BY RowsStay DEF IInv
  <2> QED BY <2>1 DEF IInv, BreakglassOK
<1>2. IInv /\ [Next]_vars => IInv' BY Inductive
<1> QED BY <1>1, <1>2, AlwaysIInv, PTL DEF Spec, BreakglassStays

-----------------------------------------------------------------------------
(* The last administrator.  What a handler that nobody has overtaken knows: the row it decides
   on is as it read it, and a change that would demote has another administrator to rely on. *)
Another(u) == u \in Admins => \E v \in Admins : v # u
Decided(r) == r \notin overtaken =>
  /\ At(r, "patch") => /\ req[r].seen.role = role[req[r].user]
                      /\ req[r].seen.disabled = disabled[req[r].user]
  /\ At(r, "patch_set") /\ req[r].arg \cap {"staff", "disable"} # {} => Another(req[r].user)
  /\ At(r, "sso_set") /\ RoleIn(req[r].arg) # "admin" => Another(req[r].user)

AllDecided == \A r \in Requests : Decided(r)

(* A step that changes no row can only add administrators. *)
Grown == \A u \in Users : Exists(u) => role'[u] = role[u] /\ disabled'[u] = disabled[u]

LEMMA GrownAdmins == ASSUME IInv, Grown PROVE Admins \subseteq Admins'
BY DEF IInv, TypeOK, Grown, Admins, Exists, People, Roles, RoleOrNone

LEMMA GrownDecided ==
  ASSUME IInv, Grown, NEW s \in Requests, Decided(s), req'[s] = req[s],
         s \notin overtaken' => s \notin overtaken
  PROVE  Decided(s)'
<1> SUFFICES ASSUME s \notin overtaken' PROVE Decided(s)' BY DEF Decided
<1>1. s \notin overtaken /\ Decided(s) OBVIOUS
<1>2. req[s].at \in {"patch", "patch_set", "sso_set"}
        => req[s].user \in Users /\ Exists(req[s].user)
  BY DEF IInv, Knows, People
<1>3. At(s, "patch")' => /\ req'[s].seen.role = role'[req'[s].user]
                        /\ req'[s].seen.disabled = disabled'[req'[s].user]
  BY <1>1, <1>2 DEF Decided, Grown, At
<1>4. ASSUME Exists(req[s].user), req[s].user \in Users, Another(req[s].user)
      PROVE  Another(req[s].user)'
  BY <1>4, GrownAdmins DEF Another, Admins, Grown
<1>5. At(s, "patch_set")' /\ req'[s].arg \cap {"staff", "disable"} # {} => Another(req[s].user)'
  BY <1>1, <1>2, <1>4 DEF Decided, At
<1>6. At(s, "sso_set")' /\ RoleIn(req'[s].arg) # "admin" => Another(req[s].user)'
  BY <1>1, <1>2, <1>4 DEF Decided, At
<1> QED BY <1>3, <1>5, <1>6 DEF Decided, At, Another

LastStep == Admins # {} /\ Admins' = {} =>
              \E r \in overtaken : req[r].at \in {"patch_set", "sso_set"} /\ req'[r] = Idle
Kept == AllDecided' /\ LastStep

(* The steps that change no row: left to show is what the moved handler knows. *)
LEMMA GrownKeeps ==
  ASSUME IInv, AllDecided, Grown, NEW r \in Requests, \A s \in Requests \ {r} : req'[s] = req[s],
         \A s \in Requests \ {r} : s \in overtaken => s \in overtaken', Decided(r)'
  PROVE  Kept
<1>1. \A s \in Requests : Decided(s)' BY GrownDecided DEF AllDecided
<1>2. LastStep BY GrownAdmins DEF LastStep
<1> QED BY <1>1, <1>2 DEF Kept, AllDecided

LEMMA InsertGrows ==
  ASSUME IInv, NEW u \in Users, NEW as, Insert(u, as), UNCHANGED disabled PROVE Grown
BY DEF IInv, TypeOK, Insert, Grown

(* A handler that has decided nothing. *)
LEMMA OtherStep ==
  ASSUME IInv, AllDecided, Grown, NEW r \in Requests, NEW step, NEW u, NEW arg,
         Moved(r, step, u, arg), step \notin {"patch", "patch_set", "sso_set"},
         overtaken' \in {overtaken, overtaken \ {r}}
  PROVE  Kept
<1>1. Decided(r)' BY DEF Moved, Decided, At
<1> QED BY <1>1, GrownKeeps DEF Moved

(* A change of a row: whoever decides meanwhile has been overtaken. *)
LEMMA ChangeDecides ==
  ASSUME IInv, AllDecided, NEW r \in Requests, Done(r), Overtakes(r) PROVE AllDecided'
<1>1. /\ Moved(r, "idle", None, {})
      /\ \A s \in Requests \ {r} : s \in overtaken => s \in overtaken'
  BY DoneMoves DEF IInv, Overtakes
<1>2. Decided(r)' BY <1>1 DEF Moved, Decided, At
<1>3. CASE UNCHANGED users
  <2>1. Grown BY <1>3 DEF users, Grown
  <2> QED BY <1>1, <1>2, <2>1, GrownKeeps DEF Moved, Kept
<1>4. CASE ~UNCHANGED users
  <2>1. ASSUME NEW s \in Requests \ {r} PROVE Decided(s)'
    <3>1. req'[s] = req[s] BY <1>1 DEF Moved
    <3>2. req[s].at \in Deciding => s \in overtaken' BY <1>4 DEF Overtakes
    <3> QED BY <3>1, <3>2 DEF Decided, At, Deciding
  <2> QED BY <1>2, <2>1 DEF AllDecided
<1> QED BY <1>3, <1>4

LEMMA PatchSetLast == ASSUME IInv, AllDecided, NEW r \in Requests, PatchSet(r) PROVE LastStep
<1> DEFINE u == req[r].user
           patch == req[r].arg
<1>1. /\ req[r].at = "patch_set" /\ req'[r] = Idle
      /\ role' = [role EXCEPT ![u] = IF patch \cap Roles = {} THEN @ ELSE RoleIn(patch)]
      /\ disabled' = [disabled EXCEPT ![u] = "disable" \in patch \/ (@ /\ "enable" \notin patch)]
  BY DoneMoves DEF PatchSet, At, IInv
<1>2. CASE r \in overtaken BY <1>1, <1>2 DEF LastStep
<1>3. CASE r \notin overtaken
  <2> SUFFICES ASSUME Admins # {} PROVE Admins' # {} BY DEF LastStep
  <2>1. u \in Users BY <1>1 DEF IInv, Knows
  <2>2. CASE patch \cap {"staff", "disable"} # {}
    <3>1. Another(u) BY <1>1, <1>3, <2>2 DEF AllDecided, Decided, At
    <3>2. PICK v \in Admins : v # u BY <3>1 DEF Another
    <3> QED BY <1>1, <3>2 DEF Admins, People, IInv, TypeOK
  <2>3. CASE patch \cap {"staff", "disable"} = {}
    <3>1. PICK v \in Admins : TRUE OBVIOUS
    <3>2. "disable" \notin patch /\ "staff" \notin patch BY <2>3
    <3>3. patch \cap Roles # {} => RoleIn(patch) = "admin" BY <3>2 DEF Roles, RoleIn
    <3>4. role'[v] = "admin" BY <1>1, <3>1, <3>3 DEF Admins, People, IInv, TypeOK
    <3>5. ~disabled'[v]
      <4>1. CASE v = u
        <5>1. disabled'[u] = ("disable" \in patch \/ (disabled[u] /\ "enable" \notin patch))
          BY <1>1, <2>1 DEF IInv, TypeOK
        <5> QED BY <3>1, <3>2, <4>1, <5>1 DEF Admins
      <4>2. CASE v # u BY <1>1, <3>1, <4>2 DEF Admins, People, IInv, TypeOK
      <4> QED BY <4>1, <4>2
    <3> QED BY <3>1, <3>4, <3>5 DEF Admins
  <2> QED BY <2>2, <2>3
<1> QED BY <1>2, <1>3

LEMMA SsoSetLast == ASSUME IInv, AllDecided, NEW r \in Requests, SsoSet(r) PROVE LastStep
<1>1. /\ req[r].at = "sso_set" /\ req'[r] = Idle
      /\ role' = [role EXCEPT ![req[r].user] = RoleIn(req[r].arg)] /\ UNCHANGED disabled
  BY DoneMoves DEF SsoSet, At, IInv
<1>2. CASE r \in overtaken BY <1>1, <1>2 DEF LastStep
<1>3. CASE r \notin overtaken
  <2> SUFFICES ASSUME Admins # {} PROVE Admins' # {} BY DEF LastStep
  <2>1. CASE RoleIn(req[r].arg) # "admin"
    <3>1. Another(req[r].user) BY <1>1, <1>3, <2>1 DEF AllDecided, Decided, At
    <3>2. PICK v \in Admins : v # req[r].user BY <3>1 DEF Another
    <3> QED BY <1>1, <3>2 DEF Admins, People, IInv, TypeOK
  <2>2. CASE RoleIn(req[r].arg) = "admin"
    <3>1. PICK v \in Admins : TRUE OBVIOUS
    <3> QED BY <1>1, <2>2, <3>1 DEF Admins, People, IInv, TypeOK
  <2> QED BY <2>1, <2>2
<1> QED BY <1>2, <1>3

LEMMA LastKept == ASSUME IInv, AllDecided, [Next]_vars PROVE Kept
<1> TypeOK BY DEF IInv
<1>1. ASSUME NEW r \in Requests, NEW u \in Users,
             \/ Setup(r, u) \/ SeedCount(r, u) \/ Load(r, u)
             \/ \E as \in Roles : CreateRead(r, u, as) \/ SsoFind(r, u, as)
      PROVE  Kept
  <2>1. Grown /\ UNCHANGED overtaken
    BY <1>1 DEF Setup, SeedCount, Load, CreateRead, SsoFind, users, Grown
  <2>2. PICK step \in {"setup", "seed", "loaded", "create", "sso_role", "sso_create"},
             v \in Users \cup {None}, arg \in Patches : Begin(r, step, v, arg)
    BY <1>1, SmallPatches DEF Setup, SeedCount, Load, CreateRead, SsoFind
  <2>3. step \in Steps BY DEF Steps
  <2>4. Moved(r, step, v, arg) BY <2>2, <2>3, BeginMoves
  <2> QED BY <2>1, <2>4, OtherStep
<1>2. ASSUME NEW r \in Requests, SetupCount(r) PROVE Kept
  <2>1. Grown /\ UNCHANGED overtaken BY <1>2 DEF SetupCount, users, Grown
  <2>2. Go(r, "setup_insert") \/ Done(r) BY <1>2 DEF SetupCount
  <2>3. "setup_insert" \in Steps BY DEF Steps
  <2> QED BY <2>1, <2>2, <2>3, GoMoves, DoneMoves, OtherStep
<1>3. ASSUME NEW r \in Requests,
             SetupInsert(r) \/ SeedInsert(r) \/ CreateInsert(r) \/ SsoCreate(r)
      PROVE  Kept
  <2>1. req[r].user \in Users
    BY <1>3 DEF SetupInsert, SeedInsert, CreateInsert, SsoCreate, IInv, Knows, At, People
  <2>2. Done(r) /\ Grown /\ UNCHANGED overtaken
    BY <1>3, <2>1, InsertGrows DEF SetupInsert, SeedInsert, CreateInsert, SsoCreate
  <2> QED BY <2>2, DoneMoves, OtherStep
<1>4. ASSUME NEW r \in Requests, Other(r) PROVE Kept
  <2>1. Done(r) /\ Grown /\ UNCHANGED overtaken BY <1>4 DEF Other, users, Grown
  <2> QED BY <2>1, DoneMoves, OtherStep
<1>5. ASSUME NEW r \in Requests, NEW u \in Users, NEW patch \in Patches, PatchRead(r, u, patch)
      PROVE  Kept
  <2>1. Grown /\ UNCHANGED users /\ UNCHANGED overtaken BY <1>5 DEF PatchRead, users, Grown
  <2>2. /\ Moved(r, "patch", u, patch)
        /\ req'[r].seen.role = role[u] /\ req'[r].seen.disabled = disabled[u]
    BY <1>5, PatchMoves
  <2>3. Decided(r)' BY <2>1, <2>2 DEF Moved, Decided, At, users
  <2> QED BY <2>1, <2>2, <2>3, GrownKeeps DEF Moved
<1>6. ASSUME NEW r \in Requests, PatchCheck(r) PROVE Kept
  <2>1. Grown /\ UNCHANGED users BY <1>6 DEF PatchCheck, users, Grown
  <2>2. CASE Demoting(r) /\ Admins \ {req[r].user} = {}
    <3>1. Done(r) /\ overtaken' = overtaken \ {r} BY <1>6, <2>2 DEF PatchCheck
    <3> QED BY <2>1, <3>1, DoneMoves, OtherStep
  <2>3. CASE ~(Demoting(r) /\ Admins \ {req[r].user} = {})
    <3>1. /\ req[r].at = "patch" /\ Begin(r, "patch_set", req[r].user, req[r].arg)
          /\ UNCHANGED overtaken
      BY <1>6, <2>3 DEF PatchCheck, At
    <3>2. req[r].user \in Users \cup {None} /\ req[r].arg \in Patches BY DEF TypeOK
    <3>3. Moved(r, "patch_set", req[r].user, req[r].arg) BY <3>1, <3>2, BeginMoves DEF Steps
    <3>4. ASSUME r \notin overtaken, req[r].arg \cap {"staff", "disable"} # {}
          PROVE  Another(req[r].user)
      <4>1. /\ req[r].seen.role = role[req[r].user]
            /\ req[r].seen.disabled = disabled[req[r].user]
        BY <3>1, <3>4 DEF AllDecided, Decided, At
      <4>2. req[r].user \in Admins => Demoting(r) BY <3>4, <4>1 DEF Demoting, Admins
      <4> QED BY <2>3, <4>2 DEF Another
    <3>5. Another(req[r].user)' <=> Another(req[r].user)
      <4>1. req'[r].user = req[r].user /\ Admins' = Admins
        BY <2>1, <3>3 DEF Moved, Admins, users
      <4> QED BY <4>1 DEF Another
    <3>6. Decided(r)' BY <3>1, <3>3, <3>4, <3>5 DEF Moved, Decided, At
    <3> QED BY <2>1, <3>1, <3>3, <3>6, GrownKeeps DEF Moved
  <2> QED BY <2>2, <2>3
<1>7. ASSUME NEW r \in Requests, SsoRole(r) \/ SsoCount(r) PROVE Kept
  <2>1. Grown /\ UNCHANGED users /\ UNCHANGED overtaken
    BY <1>7 DEF SsoRole, SsoCount, users, Grown
  <2>2. CASE Done(r) \/ Go(r, "sso_count")
    BY <2>1, <2>2, DoneMoves, GoMoves, OtherStep DEF Steps
  <2>3. CASE Go(r, "sso_set") /\ (RoleIn(req[r].arg) # "admin" => Another(req[r].user))
    <3>1. Moved(r, "sso_set", req[r].user, req[r].arg) BY <2>3, GoMoves DEF Steps
    <3>2. Another(req[r].user)' <=> Another(req[r].user)
      <4>1. req'[r].user = req[r].user /\ Admins' = Admins
        BY <2>1, <3>1 DEF Moved, Admins, users
      <4> QED BY <4>1 DEF Another
    <3>3. Decided(r)' BY <2>3, <3>1, <3>2 DEF Moved, Decided, At
    <3> QED BY <2>1, <3>1, <3>3, GrownKeeps DEF Moved
  <2>4. \/ Done(r) \/ Go(r, "sso_count")
        \/ Go(r, "sso_set") /\ (RoleIn(req[r].arg) # "admin" => Another(req[r].user))
    BY <1>7 DEF SsoRole, SsoCount, Another, Admins
  <2> QED BY <2>2, <2>3, <2>4
<1>8. ASSUME NEW r \in Requests, PatchSet(r) \/ SsoSet(r) PROVE Kept
  <2>1. Done(r) /\ Overtakes(r) BY <1>8 DEF PatchSet, SsoSet
  <2> QED BY <1>8, <2>1, ChangeDecides, PatchSetLast, SsoSetLast DEF Kept
<1>9. CASE EnsureBreakglass \/ UNCHANGED vars
  <2>1. Grown /\ UNCHANGED <<req, overtaken>>
    BY <1>9, InsertGrows DEF EnsureBreakglass, vars, users, Grown
  <2>2. AllDecided' BY <2>1, GrownDecided DEF AllDecided
  <2> QED BY <2>1, <2>2, GrownAdmins DEF Kept, LastStep
<1> QED
  BY <1>1, <1>2, <1>3, <1>4, <1>5, <1>6, <1>7, <1>8, <1>9 DEF Next

(* The last active administrator is lost by one kind of step only, for any accounts and any
   number of handlers: the write of a handler that another change of a role or a flag came
   between what it read and that write (users.ts:122, vibeAuthUsers.ts:145). *)
THEOREM LastAdminStays == Spec => AdminStays
<1>1. Init => AllDecided
  <2> SUFFICES ASSUME Init PROVE AllDecided OBVIOUS
  <2>1. \A r \in Requests : req[r].at = "idle" BY DEF Init, Idle
  <2> QED BY <2>1 DEF AllDecided, Decided, At
<1>2. IInv /\ AllDecided /\ [Next]_vars => AllDecided' BY LastKept DEF Kept
<1>3. IInv /\ AllDecided /\ [Next]_vars =>
        [Admins # {} /\ Admins' = {} =>
           \E r \in overtaken : req[r].at \in {"patch_set", "sso_set"} /\ req'[r] = Idle]_vars
  BY LastKept DEF Kept, LastStep
<1> QED BY <1>1, <1>2, <1>3, AlwaysIInv, PTL DEF Spec, AdminStays
=============================================================================

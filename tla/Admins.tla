------------------------------- MODULE Admins -------------------------------
(***************************************************************************)
(* Who may administer the installation: the role and the disabled flag of  *)
(* each account, as first-run setup, the seed command, administrators and  *)
(* role sync from single sign-on change them.  Each of these counts the    *)
(* accounts first and writes afterwards.  Sessions and passwords are the   *)
(* subject of Credentials.                                                 *)
(* Sources: routes/users, routes/setup, cli/seed-admin, plugins/auth,      *)
(* lib/vibeAuthUsers.                                                      *)
(***************************************************************************)
EXTENDS Naturals, FiniteSets

CONSTANTS
  Users,          \* the e-mail addresses a row of users may have
  Breakglass,     \* the address of the single sign-on emergency account
  Requests,       \* bound: handlers in progress at a time
  None

ASSUME AdminsAssumption ==
  /\ Breakglass \in Users
  /\ None \notin Users /\ None \notin Requests /\ None \notin {"admin", "staff"}

Roles == {"admin", "staff"}
Changes == Roles \cup {"disable", "enable"}

(* What a PATCH may carry: a role or none, a flag or none. *)
Patches == {p \in SUBSET Changes : ~(Roles \subseteq p) /\ ~({"disable", "enable"} \subseteq p)}
RoleIn(p) == IF "admin" \in p THEN "admin" ELSE "staff"
People == Users \ {Breakglass}

VARIABLES
  role,       \* role of each row of users; None is no row
  disabled,
  req,        \* the handlers in progress
  setupLock,  \* the handler that holds the advisory lock of setup
  founders,   \* the accounts first-run setup created
  overtaken   \* handlers that decide on a role while another one changes a role or a flag

users == <<role, disabled>>
vars == <<users, req, setupLock, founders, overtaken>>

Idle == [at |-> "idle", user |-> None, arg |-> {}, seen |-> [role |-> None, disabled |-> FALSE]]

Exists(u) == role[u] # None
Persons == {u \in People : Exists(u)}                              \* userCount
Admins == {u \in People : role[u] = "admin" /\ ~disabled[u]}       \* adminCount

At(r, step) == req[r].at = step
Go(r, step) == req' = [req EXCEPT ![r].at = step]
Done(r) == req' = [req EXCEPT ![r] = Idle]
Begin(r, step, u, arg) ==
  req' = [req EXCEPT ![r] = [Idle EXCEPT !.at = step, !.user = u, !.arg = arg]]

(* An address is unique: an insert that comes second fails. *)
Insert(u, as) == role' = [role EXCEPT ![u] = IF Exists(u) THEN @ ELSE as]

Init ==
  /\ role = [u \in Users |-> None]
  /\ disabled = [u \in Users |-> FALSE]
  /\ req = [r \in Requests |-> Idle]
  /\ setupLock = None
  /\ founders = {}
  /\ overtaken = {}

-----------------------------------------------------------------------------
(* The first administrator: the setup page, under an advisory lock; or the CLI, without.  Both
   take any address, the emergency account's too, which neither counts as a person's. *)

(* Mutant: setup without its lock. *)
Setup_Unlocked(r, u) ==
  /\ At(r, "idle")
  /\ setupLock' = r
  /\ Begin(r, "setup", u, {})
  /\ UNCHANGED <<users, founders, overtaken>>

Setup(r, u) ==
  /\ At(r, "idle")
  /\ setupLock = None
  /\ setupLock' = r
  /\ Begin(r, "setup", u, {})
  /\ UNCHANGED <<users, founders, overtaken>>

SetupCount(r) ==
  /\ At(r, "setup")
  /\ IF Persons = {} THEN Go(r, "setup_insert") /\ UNCHANGED setupLock
     ELSE Done(r) /\ setupLock' = None
  /\ UNCHANGED <<users, founders, overtaken>>

(* The insert and the commit, which releases the lock. *)
SetupInsert(r) ==
  LET u == req[r].user IN
  /\ At(r, "setup_insert")
  /\ setupLock' = None
  /\ Insert(u, "admin")
  /\ founders' = IF Exists(u) THEN founders ELSE founders \cup {u}
  /\ Done(r)
  /\ UNCHANGED <<disabled, overtaken>>

SeedCount(r, u) ==
  /\ At(r, "idle")
  /\ Persons = {}
  /\ Begin(r, "seed", u, {})
  /\ UNCHANGED <<users, setupLock, founders, overtaken>>

SeedInsert(r) ==
  /\ At(r, "seed")
  /\ Insert(req[r].user, "admin")
  /\ Done(r)
  /\ UNCHANGED <<disabled, setupLock, founders, overtaken>>

(* The break-glass CLI: createLocalUser when the account is missing. *)
EnsureBreakglass ==
  /\ ~Exists(Breakglass)
  /\ Insert(Breakglass, "admin")
  /\ UNCHANGED <<disabled, req, setupLock, founders, overtaken>>

-----------------------------------------------------------------------------
(* Administrators.  requireRole judges the role the onRequest hook has read: the handler goes
   on when its administrator is demoted or disabled meanwhile. *)

Load(r, u) ==
  /\ At(r, "idle")
  /\ role[u] = "admin" /\ ~disabled[u]
  /\ Begin(r, "loaded", None, {})
  /\ UNCHANGED <<users, setupLock, founders, overtaken>>

CreateRead(r, u, as) ==
  /\ At(r, "loaded")
  /\ u # Breakglass /\ ~Exists(u)
  /\ Begin(r, "create", u, {as})
  /\ UNCHANGED <<users, setupLock, founders, overtaken>>

CreateInsert(r) ==
  /\ At(r, "create")
  /\ Insert(req[r].user, RoleIn(req[r].arg))
  /\ Done(r)
  /\ UNCHANGED <<disabled, setupLock, founders, overtaken>>

(* A handler that has read what it decides on and has not written. *)
Deciding == {"patch", "patch_set", "sso_set"}
Overtakes(r) ==
  overtaken' = (IF UNCHANGED users THEN overtaken
                ELSE overtaken \cup {s \in Requests : req[s].at \in Deciding}) \ {r}

(* Mutant: the break-glass account may be patched like any other. *)
PatchRead_Any(r, u, patch) ==
  /\ At(r, "loaded")
  /\ Exists(u)
  /\ req' = [req EXCEPT ![r] = [at |-> "patch", user |-> u, arg |-> patch,
                                seen |-> [role |-> role[u], disabled |-> disabled[u]]]]
  /\ UNCHANGED <<users, setupLock, founders, overtaken>>

PatchRead(r, u, patch) ==
  /\ At(r, "loaded")
  /\ Exists(u)
  /\ u = Breakglass => patch \cap {"staff", "disable"} = {}
  /\ req' = [req EXCEPT ![r] = [at |-> "patch", user |-> u, arg |-> patch,
                                seen |-> [role |-> role[u], disabled |-> disabled[u]]]]
  /\ UNCHANGED <<users, setupLock, founders, overtaken>>

Demoting(r) ==
  /\ req[r].seen.role = "admin"
  /\ \/ "staff" \in req[r].arg
     \/ "disable" \in req[r].arg /\ ~req[r].seen.disabled

(* Mutant: adminCount counts the break-glass account as another administrator. *)
PatchCheck_Breakglass(r) ==
  /\ At(r, "patch")
  /\ IF /\ Demoting(r)
        /\ {u \in Users : role[u] = "admin" /\ ~disabled[u]} \ {req[r].user} = {}
     THEN Done(r) /\ overtaken' = overtaken \ {r}
     ELSE Begin(r, "patch_set", req[r].user, req[r].arg) /\ UNCHANGED overtaken
  /\ UNCHANGED <<users, setupLock, founders>>

(* Demoting or disabling an administrator needs another one: adminCount, then the update. *)
PatchCheck(r) ==
  /\ At(r, "patch")
  /\ IF Demoting(r) /\ Admins \ {req[r].user} = {}
     THEN Done(r) /\ overtaken' = overtaken \ {r}
     ELSE Begin(r, "patch_set", req[r].user, req[r].arg) /\ UNCHANGED overtaken
  /\ UNCHANGED <<users, setupLock, founders>>

(* Mutant: whatever the patch holds is written as the role. *)
PatchSet_Whole(r) ==
  /\ At(r, "patch_set") /\ req[r].arg # {}
  /\ role' = [role EXCEPT ![req[r].user] = CHOOSE change \in req[r].arg : TRUE]
  /\ Done(r)
  /\ UNCHANGED <<disabled, setupLock, founders>>
  /\ Overtakes(r)

PatchSet(r) ==
  LET u == req[r].user  patch == req[r].arg IN
  /\ At(r, "patch_set")
  /\ role' = [role EXCEPT ![u] = IF patch \cap Roles = {} THEN @ ELSE RoleIn(patch)]
  /\ disabled' = [disabled EXCEPT ![u] = "disable" \in patch \/ (@ /\ "enable" \notin patch)]
  /\ Done(r) /\ Overtakes(r)
  /\ UNCHANGED <<setupLock, founders>>

(* Requests that end here: refused, or of another part of the API. *)
Other(r) ==
  /\ At(r, "loaded")
  /\ Done(r)
  /\ UNCHANGED <<users, setupLock, founders, overtaken>>

-----------------------------------------------------------------------------
(* Single sign-on: the vibe-auth package finds or creates the account and syncs its role. *)

(* The package leaves local accounts alone, and the adapter marks the break-glass account as one. *)
SsoFind(r, u, as) ==
  /\ At(r, "idle")
  /\ u # Breakglass /\ ~disabled[u]
  /\ Begin(r, IF Exists(u) THEN "sso_role" ELSE "sso_create", u, {as})
  /\ UNCHANGED <<users, setupLock, founders, overtaken>>

SsoCreate(r) ==
  /\ At(r, "sso_create")
  /\ Insert(req[r].user, RoleIn(req[r].arg))
  /\ Done(r)
  /\ UNCHANGED <<disabled, setupLock, founders, overtaken>>

(* setRole: an administrator who would lose the role keeps it while no other is active. *)
SsoRole(r) ==
  /\ At(r, "sso_role")
  /\ Go(r, IF RoleIn(req[r].arg) # "admin" /\ role[req[r].user] = "admin" THEN "sso_count"
           ELSE "sso_set")
  /\ UNCHANGED <<users, setupLock, founders, overtaken>>

SsoCount(r) ==
  /\ At(r, "sso_count")
  /\ IF Admins \ {req[r].user} = {} THEN Done(r) ELSE Go(r, "sso_set")
  /\ UNCHANGED <<users, setupLock, founders, overtaken>>

SsoSet(r) ==
  /\ At(r, "sso_set")
  /\ role' = [role EXCEPT ![req[r].user] = RoleIn(req[r].arg)]
  /\ Done(r)
  /\ UNCHANGED <<disabled, setupLock, founders>>
  /\ Overtakes(r)

-----------------------------------------------------------------------------
Next ==
  \/ \E r \in Requests :
       \/ \E u \in Users :
            \/ Setup(r, u) \/ SeedCount(r, u) \/ Load(r, u)
            \/ \E as \in Roles : CreateRead(r, u, as) \/ SsoFind(r, u, as)
            \/ \E patch \in Patches : PatchRead(r, u, patch)
       \/ SetupCount(r) \/ SetupInsert(r) \/ SeedInsert(r)
       \/ CreateInsert(r) \/ PatchCheck(r) \/ PatchSet(r) \/ Other(r)
       \/ SsoCreate(r) \/ SsoRole(r) \/ SsoCount(r) \/ SsoSet(r)
  \/ EnsureBreakglass

Spec == Init /\ [][Next]_vars

-----------------------------------------------------------------------------
Steps == {"idle", "setup", "setup_insert", "seed", "loaded", "create", "patch", "patch_set",
          "sso_create", "sso_role", "sso_count", "sso_set"}
RoleOrNone == Roles \cup {None}

TypeOK ==
  /\ role \in [Users -> RoleOrNone]
  /\ disabled \in [Users -> BOOLEAN]
  /\ req \in [Requests -> [at : Steps, user : Users \cup {None}, arg : Patches,
                           seen : [role : RoleOrNone, disabled : BOOLEAN]]]
  /\ setupLock \in Requests \cup {None}
  /\ founders \subseteq Users
  /\ overtaken \subseteq Requests

(* The emergency account of docs/sso.md, once it exists, stays an administrator who can sign
   in, whatever administrators and role syncs do around it. *)
BreakglassStays == [][Exists(Breakglass) => role'[Breakglass] = "admin" /\ ~disabled'[Breakglass]]_vars

(* users.ts:122 and vibeAuthUsers.ts:145: the last active administrator, and the break-glass
   account is none, goes by one kind of step only: the change of a handler that was overtaken,
   between what it read and its write, by another change of a role or a flag. *)
AdminStays ==
  [][Admins # {} /\ Admins' = {} =>
       \E r \in overtaken : req[r].at \in {"patch_set", "sso_set"} /\ req'[r] = Idle]_vars

(* setup.ts:47: of the first-run setups, however they race and whatever else makes accounts
   meanwhile, one at most makes a person an administrator. *)
SetupOnce == Cardinality(founders \ {Breakglass}) <= 1

(* docs/PHASES.md:200: the last administrator cannot be demoted or disabled. *)
NeverWithoutAdmin == [][Admins # {} => Admins' # {}]_vars

(* setup.ts:28: setup creates one account, whatever its address. *)
OneSetup == Cardinality(founders) <= 1
=============================================================================

---------------------------- MODULE Credentials -----------------------------
(***************************************************************************)
(* Passwords, sessions and the tokens that set a password: rows of users   *)
(* and sessions in Postgres, reset and invite tokens in Redis.  A handler  *)
(* reads its row, hashes a password for a tenth of a second and writes     *)
(* afterwards, so two handlers of one account interleave between any two   *)
(* awaits; every step below is one of them.  Who may administer is the     *)
(* subject of Admins: here an administrator is always at hand.             *)
(* Sources: routes/auth, routes/users, plugins/auth, auth/session,         *)
(* auth/reset, lib/vibeAuth.                                               *)
(***************************************************************************)
EXTENDS Integers

CONSTANTS
  Users,
  Sessions,       \* bound: sessions at a time
  Tokens,         \* bound: reset tokens ever issued
  Requests,       \* bound: handlers in progress at a time
  None,
  MaxFailures,    \* LOGIN_MAX_FAILURES
  MaxPassword     \* bound: password changes per account

ASSUME CredentialsAssumption ==
  /\ None \notin Users /\ None \notin Sessions /\ None \notin Tokens
  /\ MaxFailures \in Nat \ {0} /\ MaxPassword \in Nat \ {0}

VARIABLES
  user,      \* the rows of users.  Password 0 is the hash of random bytes
  session,   \* the rows of sessions; user None is no row
  token,     \* pwreset:<hash>: the account a live reset token is for
  issued,    \* the tokens that were generated
  current,   \* pwreset:user:<id>: the token an account was issued last
  invite,    \* the accounts with a live invite
  req,       \* the handlers in progress
  ended,     \* the last password set by a change that promises to end older sessions
  used       \* how many passwords each reset token has set

redis == <<token, issued, current, invite>>
ghosts == <<ended, used>>
vars == <<user, session, redis, req, ghosts>>

NoRow == [exists |-> FALSE, disabled |-> FALSE, password |-> 0, failed |-> 0,
          locked |-> FALSE, ssoOnly |-> FALSE]
NoSession == [user |-> None, oidc |-> FALSE, password |-> 0, spared |-> FALSE]
Idle == [at |-> "idle", by |-> None, user |-> None, seen |-> NoRow, token |-> None]

Exists(u) == user[u].exists
Active(u) == Exists(u) /\ ~user[u].disabled

At(r, step) == req[r].at = step
Go(r, step) == req' = [req EXCEPT ![r].at = step]
Done(r) == req' = [req EXCEPT ![r] = Idle]
Begin(r, step, u, t) ==
  req' = [req EXCEPT ![r] = [Idle EXCEPT !.at = step, !.user = u, !.token = t]]
(* `seen` is what a handler keeps of the row it has read and uses after its next await. *)
Read(r, step, u, s, seen) ==
  req' = [req EXCEPT ![r] = [Idle EXCEPT !.at = step, !.user = u, !.by = s, !.seen = seen]]

Init ==
  /\ user = [u \in Users |-> NoRow]
  /\ session = [s \in Sessions |-> NoSession]
  /\ token = [t \in Tokens |-> None]
  /\ issued = {}
  /\ current = [u \in Users |-> None]
  /\ invite = {}
  /\ req = [r \in Requests |-> Idle]
  /\ ended = [u \in Users |-> 0]
  /\ used = [t \in Tokens |-> 0]

-----------------------------------------------------------------------------
(* Rows of users: created with a temporary password, or with one nobody knows. *)

Create(u, password, ssoOnly) ==
  /\ ~Exists(u)
  /\ user' = [user EXCEPT ![u] = [NoRow EXCEPT !.exists = TRUE, !.password = password,
                                               !.ssoOnly = ssoOnly]]

CreateLocal(u) ==
  /\ Create(u, 1, FALSE)
  /\ UNCHANGED <<session, redis, req, ghosts>>

CreateInvited(r, u) ==
  /\ At(r, "idle")
  /\ Create(u, 0, FALSE)
  /\ Begin(r, "invite", u, None)
  /\ UNCHANGED <<session, redis, ghosts>>

InviteSet(r) ==
  /\ At(r, "invite")
  /\ invite' = invite \cup {req[r].user}
  /\ Done(r)
  /\ UNCHANGED <<user, session, token, issued, current, ghosts>>

(* PATCH of `disabled`: the update, then (EndAll) the sessions, by a statement of its own. *)
Disable(r, u) ==
  /\ At(r, "idle") /\ Exists(u)
  /\ user' = [user EXCEPT ![u].disabled = TRUE]
  /\ Begin(r, "end_all", u, None)
  /\ UNCHANGED <<session, redis, ghosts>>

Enable(u) ==
  /\ Exists(u) /\ user[u].disabled
  /\ user' = [user EXCEPT ![u].disabled = FALSE]
  /\ UNCHANGED <<session, redis, req, ghosts>>

-----------------------------------------------------------------------------
(* Sessions. *)

(* A session, or what a sign-in has read, is older than a change that ends older sessions. *)
Outdated(u, password) == user[u].disabled \/ password < ended[u]

(* createSession: `spared` when the account was disabled, or lost its older sessions, after
   the handler had read its row. *)
CreateSession(r, oidc) ==
  \E s \in Sessions :
    /\ session[s].user = None
    /\ LET u == req[r].user IN
       session' = [session EXCEPT ![s] =
         [user |-> u, oidc |-> oidc, password |-> req[r].seen.password,
          spared |-> Outdated(u, req[r].seen.password)]]

Destroy(gone) == session' = [s \in Sessions |-> IF s \in gone THEN NoSession ELSE session[s]]
SessionsOf(u) == {s \in Sessions : session[s].user = u}

(* loadSession of the onRequest hook: the handler goes on with what it read here. *)
Load(r, s) ==
  LET u == session[s].user IN
  /\ At(r, "idle") /\ u # None
  /\ ~user[u].disabled
  /\ Read(r, "loaded", u, s, [NoRow EXCEPT !.password = user[u].password])
  /\ UNCHANGED <<user, session, redis, ghosts>>

(* A session past its idle or absolute window, or of a disabled account, is deleted. *)
LoadExpired(s) ==
  /\ session[s].user # None
  /\ Destroy({s})
  /\ UNCHANGED <<user, redis, req, ghosts>>

Logout(r) ==
  /\ At(r, "loaded")
  /\ Destroy({req[r].by})
  /\ Done(r)
  /\ UNCHANGED <<user, redis, ghosts>>

(* Requests that change nothing here: refused, or of another part of the API. *)
Other(r) ==
  /\ At(r, "loaded")
  /\ Done(r)
  /\ UNCHANGED <<user, session, redis, ghosts>>

ForceLogout(u) ==
  /\ Destroy(SessionsOf(u))
  /\ UNCHANGED <<user, redis, req, ghosts>>

(* Mutant: the sessions of single sign-on are spared, as back-channel logout spares the others. *)
EndAll_Local(r) ==
  /\ At(r, "end_all")
  /\ Destroy({s \in SessionsOf(req[r].user) : ~session[s].oidc})
  /\ Done(r)
  /\ UNCHANGED <<user, redis, ghosts>>

EndAll(r) ==
  /\ At(r, "end_all")
  /\ Destroy(SessionsOf(req[r].user))
  /\ Done(r)
  /\ UNCHANGED <<user, redis, ghosts>>

(* Single sign-on (the vibe-auth package): the account is found or created, then a session. *)
SsoCreate(u) ==
  /\ Create(u, 0, TRUE)
  /\ UNCHANGED <<session, redis, req, ghosts>>

SsoFind(r, u) ==
  /\ At(r, "idle") /\ Active(u)
  /\ Read(r, "sso_session", u, None, [NoRow EXCEPT !.password = user[u].password])
  /\ UNCHANGED <<user, session, redis, ghosts>>

SsoSession(r) ==
  /\ At(r, "sso_session")
  /\ CreateSession(r, TRUE)
  /\ Done(r)
  /\ UNCHANGED <<user, redis, ghosts>>

(* Back-channel logout: by the provider's session, or by its subject. *)
BackChannel(u) ==
  /\ LET theirs == {s \in SessionsOf(u) : session[s].oidc} IN
     \E gone \in {theirs} \cup {{s} : s \in theirs} : gone # {} /\ Destroy(gone)
  /\ UNCHANGED <<user, redis, req, ghosts>>

-----------------------------------------------------------------------------
(* Local sign-in. *)

LoginRead(r, u) ==
  /\ At(r, "idle") /\ Exists(u)
  /\ ~user[u].locked
  /\ Read(r, "login", u, None, [user[u] EXCEPT !.locked = FALSE, !.ssoOnly = FALSE])
  /\ UNCHANGED <<user, session, redis, ghosts>>

(* Mutant: the account is locked one failure too late. *)
LoginWrong_Late(r) ==
  LET failed == req[r].seen.failed + 1
      lock == failed > MaxFailures IN
  /\ At(r, "login")
  /\ user' = [user EXCEPT ![req[r].user].failed = IF lock THEN 0 ELSE failed,
                          ![req[r].user].locked = lock]
  /\ Done(r)
  /\ UNCHANGED <<session, redis, ghosts>>

LoginWrong(r) ==
  LET failed == req[r].seen.failed + 1
      lock == failed >= MaxFailures IN
  /\ At(r, "login")
  /\ user' = [user EXCEPT ![req[r].user].failed = IF lock THEN 0 ELSE failed,
                          ![req[r].user].locked = lock]
  /\ Done(r)
  /\ UNCHANGED <<session, redis, ghosts>>

LoginRight(r) ==
  LET u == req[r].user IN
  /\ At(r, "login")
  /\ ~req[r].seen.disabled
  /\ req[r].seen.password > 0     \* nobody knows the preimage of a random hash
  /\ user' = [user EXCEPT ![u].failed = 0, ![u].locked = FALSE]
  /\ Read(r, "session", u, None, [NoRow EXCEPT !.password = req[r].seen.password])
  /\ UNCHANGED <<session, redis, ghosts>>

OpenSession(r) ==
  /\ At(r, "session")
  /\ CreateSession(r, FALSE)
  /\ Done(r)
  /\ UNCHANGED <<user, redis, ghosts>>

(* lockedUntil passes. *)
Unlock(u) ==
  /\ user[u].locked
  /\ user' = [user EXCEPT ![u].locked = FALSE]
  /\ UNCHANGED <<session, redis, req, ghosts>>

-----------------------------------------------------------------------------
(* Passwords. *)

NextPassword(u) == user[u].password + 1

(* An administrator's reset and a reset link clear the counters and open the local form. *)
ResetRow(u) ==
  /\ NextPassword(u) <= MaxPassword
  /\ user' = [user EXCEPT ![u] = [@ EXCEPT !.password = NextPassword(u), !.ssoOnly = FALSE,
                                           !.failed = 0, !.locked = FALSE]]
  /\ ended' = [ended EXCEPT ![u] = NextPassword(u)]

AdminReset(r, u) ==
  /\ At(r, "idle") /\ Exists(u)
  /\ ResetRow(u)
  /\ Begin(r, "end_all", u, None)
  /\ UNCHANGED <<session, redis, used>>

(* The session that asks keeps its login: it counts as one with the new password. *)
ChangePassword(r) ==
  LET u == req[r].user  s == req[r].by IN
  /\ At(r, "loaded")
  /\ req[r].seen.password > 0
  /\ NextPassword(u) <= MaxPassword
  /\ user' = [user EXCEPT ![u].password = NextPassword(u)]
  /\ ended' = [ended EXCEPT ![u] = NextPassword(u)]
  /\ session' = [session EXCEPT ![s] =
                   IF @.user = u THEN [@ EXCEPT !.password = NextPassword(u)] ELSE @]
  /\ Read(r, "end_others", u, s, NoRow)
  /\ UNCHANGED <<redis, used>>

EndOthers(r) ==
  /\ At(r, "end_others")
  /\ Destroy(SessionsOf(req[r].user) \ {req[r].by})
  /\ Begin(r, "revoke", req[r].user, None)
  /\ UNCHANGED <<user, redis, ghosts>>

(* revokeResetTokens: GETDEL of the account's key, then DEL of the token it named. *)
Revoke(r) ==
  LET u == req[r].user IN
  /\ At(r, "revoke")
  /\ current' = [current EXCEPT ![u] = None]
  /\ IF current[u] = None THEN Done(r) ELSE Begin(r, "revoke_token", u, current[u])
  /\ UNCHANGED <<user, session, token, issued, invite, ghosts>>

RevokeToken(r) ==
  /\ At(r, "revoke_token")
  /\ token' = [token EXCEPT ![req[r].token] = None]
  /\ Done(r)
  /\ UNCHANGED <<user, session, issued, current, invite, ghosts>>

-----------------------------------------------------------------------------
(* Reset links. *)

IssueFor(r, u) ==
  /\ At(r, "idle")
  /\ Active(u)
  /\ Read(r, "issue", u, None, [NoRow EXCEPT !.ssoOnly = user[u].ssoOnly])
  /\ UNCHANGED <<user, session, redis, ghosts>>

Forgot(r, u) == ~user[u].ssoOnly /\ IssueFor(r, u)
(* The button of an administrator also serves single sign-on accounts. *)
SendLink(r, u) == IssueFor(r, u)

(* createResetToken: the previous token, by the account's key; then the new one; then the key. *)
Issue(r) ==
  /\ At(r, "issue")
  /\ req' = [req EXCEPT ![r].at = "issue_revoke", ![r].token = current[req[r].user]]
  /\ UNCHANGED <<user, session, redis, ghosts>>

IssueRevoke(r) ==
  /\ At(r, "issue_revoke")
  /\ token' = [t \in Tokens |-> IF t = req[r].token THEN None ELSE token[t]]
  /\ req' = [req EXCEPT ![r].at = "issue_set", ![r].token = None]
  /\ UNCHANGED <<user, session, issued, current, invite, ghosts>>

IssueSet(r) ==
  /\ At(r, "issue_set")
  /\ \E t \in Tokens \ issued :
       /\ issued' = issued \cup {t}
       /\ token' = [token EXCEPT ![t] = req[r].user]
       /\ req' = [req EXCEPT ![r].at = "issue_key", ![r].token = t]
  /\ UNCHANGED <<user, session, current, invite, ghosts>>

(* The e-mail may fail: the token stays, and ssoOnly is not cleared. *)
IssueKey(r) ==
  /\ At(r, "issue_key")
  /\ current' = [current EXCEPT ![req[r].user] = req[r].token]
  /\ \/ Done(r)
     \/ req[r].seen.ssoOnly /\ Begin(r, "clear_sso", req[r].user, None)
  /\ UNCHANGED <<user, session, token, issued, invite, ghosts>>

ClearSso(r) ==
  /\ At(r, "clear_sso")
  /\ user' = [user EXCEPT ![req[r].user].ssoOnly = FALSE]
  /\ Done(r)
  /\ UNCHANGED <<session, redis, ghosts>>

(* The hour passes: the two keys expire one after the other. *)
ExpireToken(t) ==
  /\ token[t] # None
  /\ token' = [token EXCEPT ![t] = None]
  /\ UNCHANGED <<user, session, issued, current, invite, req, ghosts>>

ExpireKey(u) ==
  /\ current[u] # None /\ token[current[u]] = None
  /\ current' = [current EXCEPT ![u] = None]
  /\ UNCHANGED <<user, session, token, issued, invite, req, ghosts>>

(* peekResetToken and the row it names. *)
ResetPeek(r, t) ==
  /\ At(r, "idle")
  /\ token[t] # None /\ ~user[token[t]].disabled
  /\ Begin(r, "take", token[t], t)
  /\ UNCHANGED <<user, session, redis, ghosts>>

(* Mutant: the answer of GETDEL is ignored, the token having been looked at before. *)
ResetTake_Peeked(r) ==
  /\ At(r, "take")
  /\ Go(r, "take_key")
  /\ token' = [token EXCEPT ![req[r].token] = None]
  /\ UNCHANGED <<user, session, issued, current, invite, ghosts>>

(* consumeResetToken: GETDEL of the token, then DEL of the account's key. *)
ResetTake(r) ==
  LET t == req[r].token IN
  /\ At(r, "take")
  /\ IF token[t] = None THEN Done(r) ELSE Go(r, "take_key")
  /\ token' = [token EXCEPT ![t] = None]
  /\ UNCHANGED <<user, session, issued, current, invite, ghosts>>

ResetTakeKey(r) ==
  /\ At(r, "take_key")
  /\ current' = [current EXCEPT ![req[r].user] = None]
  /\ Go(r, "reset")
  /\ UNCHANGED <<user, session, token, issued, invite, ghosts>>

ResetPassword(r) ==
  /\ At(r, "reset")
  /\ ResetRow(req[r].user)
  /\ used' = [used EXCEPT ![req[r].token] = @ + 1]
  /\ Begin(r, "end_all", req[r].user, None)
  /\ UNCHANGED <<session, redis>>

-----------------------------------------------------------------------------
(* Invites: GET, the update, then DEL; ExpireInvite is their 24 hours. *)

AcceptRead(r, u) ==
  /\ At(r, "idle")
  /\ u \in invite
  /\ Begin(r, "accept", u, None)
  /\ UNCHANGED <<user, session, redis, ghosts>>

Accept(r) ==
  LET u == req[r].user IN
  /\ At(r, "accept")
  /\ NextPassword(u) <= MaxPassword
  /\ user' = [user EXCEPT ![u].password = NextPassword(u)]
  /\ Begin(r, "accepted", u, None)
  /\ UNCHANGED <<session, redis, ghosts>>

Accepted(r) ==
  /\ At(r, "accepted")
  /\ invite' = invite \ {req[r].user}
  /\ Done(r)
  /\ UNCHANGED <<user, session, token, issued, current, ghosts>>

ExpireInvite(u) ==
  /\ u \in invite
  /\ invite' = invite \ {u}
  /\ UNCHANGED <<user, session, token, issued, current, req, ghosts>>

-----------------------------------------------------------------------------
(* A handler dies, or its next statement fails, between the change of a row and the deletion of
   the sessions, which no transaction joins: the older ones stay.  Elsewhere a handler that dies
   is one that takes no further step. *)
Doomed(r) ==
  {s \in SessionsOf(req[r].user) : At(r, "end_all") \/ (At(r, "end_others") /\ req[r].by # s)}

Cut(r) ==
  /\ req[r].at \in {"end_all", "end_others"}
  /\ session' = [s \in Sessions |->
       IF s \in Doomed(r) /\ Outdated(req[r].user, session[s].password)
       THEN [session[s] EXCEPT !.spared = TRUE] ELSE session[s]]
  /\ Done(r)
  /\ UNCHANGED <<user, redis, ghosts>>

-----------------------------------------------------------------------------
Arrive(r) ==
  \/ \E u \in Users :
       \/ LoginRead(r, u) \/ SsoFind(r, u) \/ AcceptRead(r, u)
       \/ Forgot(r, u) \/ SendLink(r, u)
       \/ CreateInvited(r, u) \/ Disable(r, u) \/ AdminReset(r, u)
  \/ \E t \in Tokens : ResetPeek(r, t)
  \/ \E s \in Sessions : Load(r, s)

Continue(r) ==
  \/ LoginWrong(r) \/ LoginRight(r) \/ OpenSession(r) \/ SsoSession(r)
  \/ Logout(r) \/ Other(r) \/ ChangePassword(r)
  \/ EndOthers(r) \/ Revoke(r) \/ RevokeToken(r) \/ EndAll(r)
  \/ Issue(r) \/ IssueRevoke(r) \/ IssueSet(r) \/ IssueKey(r) \/ ClearSso(r)
  \/ ResetTake(r) \/ ResetTakeKey(r) \/ ResetPassword(r)
  \/ InviteSet(r) \/ Accept(r) \/ Accepted(r)
  \/ Cut(r)

(* Handlers of one step, and the clock. *)
Elsewhere ==
  \/ \E u \in Users :
       \/ CreateLocal(u) \/ SsoCreate(u) \/ Enable(u) \/ ForceLogout(u) \/ BackChannel(u)
       \/ Unlock(u) \/ ExpireKey(u) \/ ExpireInvite(u)
  \/ \E s \in Sessions : LoadExpired(s)
  \/ \E t \in Tokens : ExpireToken(t)

Next ==
  \/ \E r \in Requests : Arrive(r) \/ Continue(r)
  \/ Elsewhere

Spec == Init /\ [][Next]_vars

-----------------------------------------------------------------------------
Steps == {"idle", "loaded", "login", "session", "sso_session", "end_others", "revoke",
          "revoke_token", "end_all", "issue", "issue_revoke", "issue_set", "issue_key",
          "clear_sso", "take", "take_key", "reset", "invite", "accept", "accepted"}
Row == [exists : BOOLEAN, disabled : BOOLEAN, password : 0..MaxPassword,
        failed : 0..(MaxFailures - 1), locked : BOOLEAN, ssoOnly : BOOLEAN]

(* The rows and keys as the schema declares them; a locked account starts again at zero
   failures, so the counter never reaches LOGIN_MAX_FAILURES. *)
TypeOK ==
  /\ user \in [Users -> Row]
  /\ session \in [Sessions -> [user : Users \cup {None}, oidc : BOOLEAN,
                               password : 0..MaxPassword, spared : BOOLEAN]]
  /\ token \in [Tokens -> Users \cup {None}]
  /\ issued \subseteq Tokens
  /\ current \in [Users -> Tokens \cup {None}]
  /\ invite \subseteq Users
  /\ req \in [Requests -> [at : Steps, by : Sessions \cup {None}, user : Users \cup {None},
                           seen : Row, token : Tokens \cup {None}]]
  /\ ended \in [Users -> 0..MaxPassword]
  /\ used \in [Tokens -> Nat]

(* auth.ts:247 "Consume first so two submissions of the same link cannot both succeed": a
   reset token sets one password at most, however its submissions interleave. *)
TokenUsedOnce == \A t \in Tokens : used[t] <= 1

(* A password changed by its owner, by a reset link or by an administrator, and a disabled
   account, leave no older session behind: for one that is still there, a handler is under way
   that will delete it.  Two kinds escape (`spared`): a session whose sign-in had read the row
   before the change and was written after the deletion, and those that were left when the
   handler died, or its statement failed, between the change and the deletion. *)
Old(s) == session[s].user # None /\ ~session[s].spared
          /\ Outdated(session[s].user, session[s].password)
OldSessionsEnd == \A s \in Sessions : Old(s) => \E r \in Requests : s \in Doomed(r)

(* users.ts:154 calls an invite "single use"; reset.ts:4 promises one live reset token per
   account.  Neither holds when two requests overlap, see README. *)
OneLiveToken == \A t1, t2 \in Tokens : (token[t1] # None /\ token[t1] = token[t2]) => t1 = t2
=============================================================================

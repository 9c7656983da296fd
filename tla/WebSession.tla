----------------------------- MODULE WebSession -----------------------------
(***************************************************************************)
(* Signing in, staying signed in and signing out, as the tabs of a staff   *)
(* member's browser see it.  All tabs of a browser share one cookie, which *)
(* names a row of sessions; every tab holds, in memory, the person it      *)
(* shows and the CSRF token of the session it learned that person from.    *)
(* The API believes the cookie, and takes a command only with the token of *)
(* the same session.  A token is drawn at random per session, so it is     *)
(* named here by its session.  The pages of other modules send their calls *)
(* through PageCall and answer them through PageDone.  Passwords, lockout  *)
(* and reset links are in Credentials, the last administrator in Admins.   *)
(* Sources: apps/web: lib/auth, lib/api, App, Login, Account, Layout,      *)
(* SettingsUsers; apps/api: plugins/auth, routes/auth, lib/vibeAuth.       *)
(***************************************************************************)
EXTENDS Integers

CONSTANTS
  None,
  Users,
  Admins0,        \* who is an administrator to begin with
  Tabs, Browsers,
  BrowserOf,      \* the browser of each tab
  Tab0, User0,    \* the tab that shows somebody to begin with, and whom
  Requests,       \* slots for calls under way
  PageReads,      \* GETs of other pages
  PageCommands,   \* POSTs and PUTs of other pages
  NeedsAdmin,     \* those of either that the API takes from administrators only
  UserOps,        \* what the users page is used for
  MaxSessions,    \* bound: sessions created
  MaxSent,        \* bound: calls people make
  MaxLosses       \* bound: calls that fail on the way and sessions that run out

ASSUME WebSessionAssumption ==
  /\ None \notin Users /\ None \notin 1..MaxSessions /\ None \notin Tabs
  /\ Admins0 \subseteq Users /\ Admins0 # {} /\ Tab0 \in Tabs /\ User0 \in Users
  /\ BrowserOf \in [Tabs -> Browsers]
  /\ PageReads \cap (PageCommands \cup {"none", "me", "status", "login", "logout", "password", "user"}) = {}
  /\ PageCommands \cap {"none", "me", "status", "login"} = {}
  /\ NeedsAdmin \subseteq PageReads \cup PageCommands
  /\ UserOps \subseteq {"promote", "demote", "disable", "enable", "reset", "logout"}
  /\ MaxSessions \in Nat \ {0} /\ MaxSent \in Nat /\ MaxLosses \in Nat

Sessions == 1..MaxSessions
Roles == {"staff", "admin"}
Commands == {"logout", "password", "user"} \cup PageCommands
Kinds == {"none", "me", "status", "login"} \cup PageReads \cup Commands

VARIABLES
  account,  \* users: role, active (not disabled), must (change the password)
  session,  \* sessions: whose, whether the row is there, born of single sign-on
  cookie,   \* per browser: the session its cookie names
  tab,      \* per tab: whether it is loading, and the person it shows with the token it holds
  call,     \* per slot: a call, its progress at the API and its answer
  sent, losses

vars == <<account, session, cookie, tab, call, sent, losses>>

(* What GET /me and a sign-in answer, and what a tab keeps of it. *)
Identity == [user : Users, role : Roles, must : BOOLEAN, csrf : Sessions, sso : BOOLEAN]
Nobody == [user |-> None, role |-> "staff", must |-> FALSE, csrf |-> None, sso |-> FALSE]

SignInPage == [loading |-> FALSE, me |-> Nobody]
Loading == [loading |-> TRUE, me |-> Nobody]

Idle == [pc |-> "idle", kind |-> "none", tab |-> None, boot |-> FALSE, as |-> None,
         cookie |-> None, csrf |-> None, target |-> None, op |-> "none",
         who |-> None, status |-> "none", me |-> Nobody, jar |-> "keep"]

(* A call leaves a tab with the cookie of its browser; a command also carries the token. *)
Call(t, kind) ==
  [Idle EXCEPT !.pc = "sent", !.kind = kind, !.tab = t, !.as = tab[t].me.user,
               !.cookie = cookie[BrowserOf[t]],
               !.csrf = IF kind \in Commands THEN tab[t].me.csrf ELSE None]

(* A page waits for the answer of one call at a time, beside the call it made when it opened. *)
Acting(t) == \E r \in Requests : call[r].tab = t /\ ~call[r].boot
MayAct(t) == tab[t].me # Nobody /\ ~Acting(t)
(* RequireAuth and RequireRole: a person who must change the password sees only the account page. *)
Shows(page, min) == page.me # Nobody /\ ~page.me.must /\ (min = "admin" => page.me.role = "admin")

Init ==
  /\ account = [u \in Users |-> [role |-> IF u \in Admins0 THEN "admin" ELSE "staff",
                                 active |-> TRUE, must |-> FALSE]]
  /\ session = [s \in Sessions |-> [user |-> IF s = 1 THEN User0 ELSE None, live |-> s = 1, sso |-> FALSE]]
  /\ cookie = [b \in Browsers |-> IF b = BrowserOf[Tab0] THEN 1 ELSE None]
  /\ tab = [t \in Tabs |-> IF t # Tab0 THEN SignInPage ELSE
       [SignInPage EXCEPT !.me = [user |-> User0, role |-> IF User0 \in Admins0 THEN "admin" ELSE "staff",
                                  must |-> FALSE, csrf |-> 1, sso |-> FALSE]]]
  /\ call = [r \in Requests |-> Idle]
  /\ sent = 0
  /\ losses = 0

-----------------------------------------------------------------------------
(* The browser: opening a page, signing in and out, and the commands of the account and user pages. *)

Person == sent < MaxSent /\ sent' = sent + 1
Send(r, c) == call[r] = Idle /\ call' = [call EXCEPT ![r] = c]

(* Nobody waits for the answer of a call any more, and its cookie is lost with it. *)
Orphan(c) == IF c.pc = "answered" THEN Idle ELSE [c EXCEPT !.tab = None]

(* A page that loads has forgotten everything and asks who is signed in; whoever waited for an
   answer in that tab is gone. *)
Load(r, t, jar) ==
  /\ call[r] = Idle
  /\ tab' = [tab EXCEPT ![t] = Loading]
  /\ call' = [q \in Requests |->
       IF q = r THEN [Call(t, "me") EXCEPT !.boot = TRUE, !.as = None, !.cookie = jar]
       ELSE IF call[q].tab = t THEN Orphan(call[q]) ELSE call[q]]

Open(r, t) ==
  /\ Person /\ Load(r, t, cookie[BrowserOf[t]])
  /\ UNCHANGED <<account, session, cookie, losses>>

(* The form of /login is there at once, while the page is still asking who is signed in. *)
SignIn(r, t, u) ==
  /\ Person /\ tab[t].me = Nobody /\ ~Acting(t)
  /\ Send(r, [Call(t, "login") EXCEPT !.target = u])
  /\ UNCHANGED <<account, session, cookie, tab, losses>>

SignOut(r, t) ==
  /\ Person /\ MayAct(t) /\ ~tab[t].me.sso
  /\ Send(r, Call(t, "logout"))
  /\ UNCHANGED <<account, session, cookie, tab, losses>>

ChangePassword(r, t) ==
  /\ Person /\ MayAct(t)
  /\ Send(r, Call(t, "password"))
  /\ UNCHANGED <<account, session, cookie, tab, losses>>

(* The page offers role and disabling for everybody but the person it shows. *)
ManageUser(r, t, u, op) ==
  /\ Person /\ MayAct(t) /\ Shows(tab[t], "admin")
  /\ u = tab[t].me.user => op \in {"reset", "logout"}
  /\ Send(r, [Call(t, "user") EXCEPT !.target = u, !.op = op])
  /\ UNCHANGED <<account, session, cookie, tab, losses>>

PageCall(r, t, kind) ==
  /\ Person /\ MayAct(t) /\ Shows(tab[t], IF kind \in NeedsAdmin THEN "admin" ELSE "staff")
  /\ Send(r, Call(t, kind))
  /\ UNCHANGED <<account, session, cookie, tab, losses>>

Fresh(s) == session[s].user = None /\ \A q \in 1..(s - 1) : session[q].user # None
Ended(s) == [session EXCEPT ![s].live = FALSE]

(* Single sign-on navigates: the session adapter creates the row and the cookie, and the page
   that loads next learns the token from GET /me. *)
SsoSignIn(r, t, u, s) ==
  /\ Person /\ tab[t].me = Nobody /\ account[u].active /\ Fresh(s)
  /\ session' = [session EXCEPT ![s] = [user |-> u, live |-> TRUE, sso |-> TRUE]]
  /\ cookie' = [cookie EXCEPT ![BrowserOf[t]] = s]
  /\ Load(r, t, s)
  /\ UNCHANGED <<account, losses>>

(* So does signing out of it: a GET, which the token does not guard; it ends the session the cookie names. *)
SsoSignOut(r, t) ==
  LET s == cookie[BrowserOf[t]] IN
  /\ Person /\ MayAct(t) /\ tab[t].me.sso
  /\ session' = IF s = None THEN session ELSE Ended(s)
  /\ cookie' = [cookie EXCEPT ![BrowserOf[t]] = None]
  /\ Load(r, t, None)
  /\ UNCHANGED <<account, losses>>

-----------------------------------------------------------------------------
(* The API.  loadSession joins the session with its user; the hooks judge what it found. *)

Known(s) == s # None /\ session[s].live
Allowed(s) == Known(s) /\ account[session[s].user].active
MeOf(s) == [user |-> session[s].user, role |-> account[session[s].user].role,
            must |-> account[session[s].user].must, csrf |-> s, sso |-> session[s].sso]
Answer(r, status) == [call EXCEPT ![r].pc = "answered", ![r].status = status]
RoleFits(c) == c.kind \in NeedsAdmin \cup {"user"} => account[session[c.cookie].user].role = "admin"

(* Mutant: the hook looks at the session only. *)
TokenFits_Session(c) == TRUE

(* The double submit of the CSRF hook. *)
TokenFits(c) == c.kind \in Commands => c.csrf = c.cookie

Arrived(r) == call[r].pc = "sent" /\ call[r].kind \notin {"status", "login"}

(* No session, an expired one, or one of a disabled user, whose row is deleted. *)
TurnAway(r) ==
  /\ Arrived(r) /\ ~Allowed(call[r].cookie)
  /\ session' = IF Known(call[r].cookie) THEN Ended(call[r].cookie) ELSE session
  /\ call' = Answer(r, "unauthorized")
  /\ UNCHANGED <<account, cookie, tab, sent, losses>>

Refuse(r) ==
  /\ Arrived(r) /\ Allowed(call[r].cookie) /\ ~(TokenFits(call[r]) /\ RoleFits(call[r]))
  /\ call' = Answer(r, "refused")
  /\ UNCHANGED <<account, session, cookie, tab, sent, losses>>

Identify(r) ==
  /\ Arrived(r) /\ call[r].kind = "me" /\ Allowed(call[r].cookie)
  /\ call' = [Answer(r, "ok") EXCEPT ![r].me = MeOf(call[r].cookie)]
  /\ UNCHANGED <<account, session, cookie, tab, sent, losses>>

Admit(r) ==
  /\ Arrived(r) /\ call[r].kind # "me" /\ Allowed(call[r].cookie)
  /\ TokenFits(call[r]) /\ RoleFits(call[r])
  /\ call' = [call EXCEPT ![r].pc = "admitted", ![r].who = session[call[r].cookie].user]
  /\ UNCHANGED <<account, session, cookie, tab, sent, losses>>

(* Whether this is a new installation: it is not. *)
TellStatus(r) ==
  /\ call[r].pc = "sent" /\ call[r].kind = "status"
  /\ call' = Answer(r, "ok")
  /\ UNCHANGED <<account, session, cookie, tab, sent, losses>>

(* POST /login reads the user and compares the password, ... *)
CheckPassword(r) ==
  LET u == call[r].target IN
  /\ call[r].pc = "sent" /\ call[r].kind = "login"
  /\ \/ call' = Answer(r, "unauthorized")
     \/ /\ account[u].active
        /\ call' = [call EXCEPT ![r].pc = "signing", ![r].who = u,
             ![r].me = [Nobody EXCEPT !.user = u, !.role = account[u].role, !.must = account[u].must]]
  /\ UNCHANGED <<account, session, cookie, tab, sent, losses>>

(* ... and creates the session, answering with the user as it was read. *)
CreateSession(r, s) ==
  /\ call[r].pc = "signing" /\ Fresh(s)
  /\ session' = [session EXCEPT ![s] = [user |-> call[r].who, live |-> TRUE, sso |-> FALSE]]
  /\ call' = [Answer(r, "ok") EXCEPT ![r].me.csrf = s, ![r].jar = "set"]
  /\ UNCHANGED <<account, cookie, tab, sent, losses>>

Admitted(r, kind) == call[r].pc = "admitted" /\ call[r].kind = kind

EndSession(r) ==
  /\ Admitted(r, "logout")
  /\ session' = Ended(call[r].cookie)
  /\ call' = [Answer(r, "ok") EXCEPT ![r].jar = "clear"]
  /\ UNCHANGED <<account, cookie, tab, sent, losses>>

SetPassword(r) ==
  /\ Admitted(r, "password")
  /\ \/ call' = Answer(r, "refused") /\ UNCHANGED account
     \/ /\ account' = [account EXCEPT ![call[r].who].must = FALSE]
        /\ call' = [call EXCEPT ![r].pc = "sessions"]
  /\ UNCHANGED <<session, cookie, tab, sent, losses>>

(* The last active administrator is neither demoted nor disabled (Admins has the interleavings of that check). *)
LastAdmin(u) == account[u].role = "admin" /\
                \A v \in Users \ {u} : ~(account[v].role = "admin" /\ account[v].active)
Managed(row, op) ==
  CASE op = "promote" -> [row EXCEPT !.role = "admin"] [] op = "demote" -> [row EXCEPT !.role = "staff"]
    [] op = "disable" -> [row EXCEPT !.active = FALSE] [] op = "enable" -> [row EXCEPT !.active = TRUE]
    [] op = "reset" -> [row EXCEPT !.must = TRUE] [] OTHER -> row

UpdateUser(r) ==
  LET u == call[r].target  op == call[r].op IN
  /\ Admitted(r, "user")
  /\ IF op \in {"demote", "disable"} /\ LastAdmin(u)
     THEN call' = Answer(r, "refused") /\ UNCHANGED account
     ELSE /\ account' = [account EXCEPT ![u] = Managed(@, op)]
          /\ call' = IF op \in {"disable", "reset", "logout"} THEN [call EXCEPT ![r].pc = "sessions"]
                     ELSE Answer(r, "ok")
  /\ UNCHANGED <<session, cookie, tab, sent, losses>>

(* A changed password ends the person's other sessions, the users page all sessions of its target. *)
EndSessions(r) ==
  LET over(s) == IF call[r].kind = "password"
                 THEN session[s].user = call[r].who /\ s # call[r].cookie
                 ELSE session[s].user = call[r].target IN
  /\ call[r].pc = "sessions"
  /\ session' = [s \in Sessions |-> IF over(s) THEN [session[s] EXCEPT !.live = FALSE] ELSE session[s]]
  /\ call' = Answer(r, "ok")
  /\ UNCHANGED <<account, cookie, tab, sent, losses>>

PageDone(r, status) ==
  /\ call[r].pc = "admitted" /\ call[r].kind \in PageReads \cup PageCommands
  /\ call' = Answer(r, status)
  /\ UNCHANGED <<account, session, cookie, tab, sent, losses>>

(* The idle or the absolute window of a session ends. *)
Expire(s) ==
  /\ session[s].live
  /\ losses < MaxLosses /\ losses' = losses + 1
  /\ session' = Ended(s)
  /\ UNCHANGED <<account, cookie, tab, call, sent>>

-----------------------------------------------------------------------------
(* The answer reaches the browser, which takes its cookie, and the page that waits for it. *)

Jar(c, b) == [cookie EXCEPT ![b] = CASE c.jar = "set" -> c.me.csrf [] c.jar = "clear" -> None [] OTHER -> @]
Heard(r, kinds) == call[r].pc = "answered" /\ call[r].tab # None /\ call[r].kind \in kinds
Free(r) == call' = [call EXCEPT ![r] = Idle]
(* The same page goes on with another call. *)
Again(r, kind) == call' = [call EXCEPT ![r] = [Call(call[r].tab, kind) EXCEPT !.boot = call[r].boot]]
Knows(t, me, loading) == tab' = [tab EXCEPT ![t].me = me, ![t].loading = loading]

(* Mutant: only an answer that names a user ends the spinner. *)
HearMe_Waiting(r) ==
  /\ Heard(r, {"me"})
  /\ IF call[r].status = "ok" THEN Knows(call[r].tab, call[r].me, FALSE)
     ELSE Knows(call[r].tab, Nobody, tab[call[r].tab].loading)
  /\ Free(r)
  /\ UNCHANGED <<account, session, cookie, sent, losses>>

(* refresh(): nobody is signed in, so the page asks whether this is a new installation. *)
HearMe(r) ==
  /\ Heard(r, {"me"})
  /\ IF call[r].status = "ok" THEN Knows(call[r].tab, call[r].me, FALSE) /\ Free(r)
     ELSE Knows(call[r].tab, Nobody, tab[call[r].tab].loading) /\ Again(r, "status")
  /\ UNCHANGED <<account, session, cookie, sent, losses>>

HearStatus(r) ==
  /\ Heard(r, {"status"})
  /\ tab' = [tab EXCEPT ![call[r].tab].loading = FALSE]
  /\ Free(r)
  /\ UNCHANGED <<account, session, cookie, sent, losses>>

HearSignIn(r) ==
  /\ Heard(r, {"login"})
  /\ IF call[r].status = "ok"
     THEN /\ tab' = [tab EXCEPT ![call[r].tab].me = call[r].me]
          /\ cookie' = Jar(call[r], BrowserOf[call[r].tab])
     ELSE UNCHANGED <<tab, cookie>>
  /\ Free(r)
  /\ UNCHANGED <<account, session, sent, losses>>

(* Whatever the answer, the page forgets the person. *)
HearSignOut(r) ==
  /\ Heard(r, {"logout"})
  /\ tab' = [tab EXCEPT ![call[r].tab].me = Nobody]
  /\ cookie' = Jar(call[r], BrowserOf[call[r].tab])
  /\ Free(r)
  /\ UNCHANGED <<account, session, sent, losses>>

HearPassword(r) ==
  /\ Heard(r, {"password"})
  /\ IF call[r].status = "ok" THEN Again(r, "me") ELSE Free(r)
  /\ UNCHANGED <<account, session, cookie, tab, sent, losses>>

(* The users page reads its list again; other pages take their answer here. *)
HearPage(r) ==
  /\ Heard(r, {"user"} \cup PageReads \cup PageCommands)
  /\ Free(r)
  /\ UNCHANGED <<account, session, cookie, tab, sent, losses>>

(* A command of another page was taken, and the page reads again. *)
HearThenRead(r, kind) ==
  /\ Heard(r, PageCommands) /\ call[r].status = "ok" /\ kind \in PageReads
  /\ Again(r, kind)
  /\ UNCHANGED <<account, session, cookie, tab, sent, losses>>

(* The call fails on the way, before or after the API saw it: the page sees an exception. *)
Lose(r) ==
  LET t == call[r].tab IN
  /\ call[r].pc # "idle" /\ t # None
  /\ losses < MaxLosses /\ losses' = losses + 1
  /\ call' = [call EXCEPT ![r] = Orphan(@)]
  /\ tab' = CASE call[r].kind = "me" -> [tab EXCEPT ![t].me = Nobody, ![t].loading = FALSE]
              [] call[r].kind = "status" -> [tab EXCEPT ![t].loading = FALSE]
              [] call[r].kind = "logout" -> [tab EXCEPT ![t].me = Nobody]
              [] OTHER -> tab
  /\ UNCHANGED <<account, session, cookie, sent>>

(* The answer of a call nobody waits for. *)
Drop(r) ==
  /\ call[r].pc = "answered" /\ call[r].tab = None
  /\ Free(r)
  /\ UNCHANGED <<account, session, cookie, tab, sent, losses>>

-----------------------------------------------------------------------------
Navigate(r, t) ==
  Open(r, t) \/ SsoSignOut(r, t) \/ \E u \in Users, s \in Sessions : SsoSignIn(r, t, u, s)
Act(r, t) ==
  \/ SignOut(r, t) \/ ChangePassword(r, t)
  \/ \E u \in Users : SignIn(r, t, u) \/ \E op \in UserOps : ManageUser(r, t, u, op)
Serve(r) ==
  \/ TurnAway(r) \/ Refuse(r) \/ Identify(r) \/ Admit(r) \/ TellStatus(r)
  \/ CheckPassword(r) \/ EndSession(r) \/ SetPassword(r) \/ UpdateUser(r) \/ EndSessions(r)
  \/ \E s \in Sessions : CreateSession(r, s)
Hear(r) == HearMe(r) \/ HearStatus(r) \/ HearSignIn(r) \/ HearSignOut(r) \/ HearPassword(r)

Next ==
  \/ \E r \in Requests :
       \/ \E t \in Tabs : \/ Navigate(r, t) \/ Act(r, t)
                          \/ \E k \in PageReads \cup PageCommands : PageCall(r, t, k)
       \/ Serve(r) \/ Hear(r) \/ HearPage(r) \/ Lose(r) \/ Drop(r)
       \/ \E k \in PageReads : HearThenRead(r, k)
       \/ \E status \in {"ok", "refused"} : PageDone(r, status)
  \/ \E s \in Sessions : Expire(s)

Spec == Init /\ [][Next]_vars

-----------------------------------------------------------------------------
Calls == [pc : {"idle", "sent", "signing", "admitted", "sessions", "answered"}, kind : Kinds,
          tab : Tabs \cup {None}, boot : BOOLEAN, as : Users \cup {None},
          cookie : Sessions \cup {None}, csrf : Sessions \cup {None},
          target : Users \cup {None}, op : UserOps \cup {"none"}, who : Users \cup {None},
          status : {"none", "ok", "refused", "unauthorized"},
          me : [user : Users \cup {None}, role : Roles, must : BOOLEAN,
                csrf : Sessions \cup {None}, sso : BOOLEAN],
          jar : {"keep", "set", "clear"}]

SessionsTypeOK ==
  /\ account \in [Users -> [role : Roles, active : BOOLEAN, must : BOOLEAN]]
  /\ session \in [Sessions -> [user : Users \cup {None}, live : BOOLEAN, sso : BOOLEAN]]
  /\ cookie \in [Browsers -> Sessions \cup {None}]
  /\ tab \in [Tabs -> [loading : BOOLEAN, me : Identity \cup {Nobody}]]
  /\ call \in [Requests -> Calls]
  /\ sent \in 0..MaxSent /\ losses \in 0..MaxLosses

(* plugins/auth.ts:50 and lib/auth.tsx: a command is carried out as the person its tab showed when
   it was sent, whoever signs in or out in the other tabs of the browser meanwhile. *)
CommandsAreTheirs ==
  \A r \in Requests :
    call[r].kind \in Commands /\ call[r].pc \in {"admitted", "sessions"} => call[r].who = call[r].as

(* lib/auth.tsx:39: whatever the answers, and if none arrives, a page that opens stops loading. *)
LoadingEnds == \A t \in Tabs : tab[t].loading ~> ~tab[t].loading

(* Layout.tsx "Sign out": the session of the person the tab showed is over.  See README. *)
SignOutEnds ==
  [][\A t \in Tabs : tab[t].me # Nobody /\ tab'[t].me = Nobody
       /\ (\E r \in Requests : Heard(r, {"logout"}) /\ call[r].tab = t)
       => ~session'[tab[t].me.csrf].live]_vars

(* The same for a tab that was opened by single sign-on: the session its sign-out ends is the one it shows. *)
SsoSignOutIsTheirs ==
  [][\A t \in Tabs, r \in Requests : SsoSignOut(r, t) => ~session'[tab[t].me.csrf].live]_vars

=============================================================================

------------------------------ MODULE WebProofs -----------------------------
(***************************************************************************)
(* Proofs about the web client and what answers it.  First the sessions    *)
(* and the settings pages on top of them, for any number of people,        *)
(* browsers, tabs and calls: a command is carried out as the person its    *)
(* tab showed, the settings pages and handlers together take no step that  *)
(* the sessions alone do not allow, and stored secrets stay.  The          *)
(* invariant ties every copy of a token, in a page or in a call, to the    *)
(* owner of the session that drew it; a session never changes hands.       *)
(* Then, apart from both, the page of a job, for any panels, calls and     *)
(* changes: what is typed stays.                                           *)
(***************************************************************************)
EXTENDS Settings, JobPage, SequenceTheorems, TLAPS

SessionRows == [user : Users \cup {None}, live : BOOLEAN, sso : BOOLEAN]
Pages == [loading : BOOLEAN, me : Identity \cup {Nobody}]

(* A live session has an owner. *)
SessionOK(row) == row \in SessionRows /\ (row.live => row.user \in Users)

(* A page that shows somebody holds the token of a session of that person. *)
TabOK(page, ses) ==
  /\ page \in Pages
  /\ page.me # Nobody => ses[page.me.csrf].user = page.me.user

(* What an answer says of a person comes with the token of a session of that person. *)
Vouched(me, ses) == me \in Identity /\ ses[me.csrf].user = me.user

CommandOK(c, ses) == c.kind \in Commands => c.as \in Users /\ c.csrf \in Sessions /\ ses[c.csrf].user = c.as
AdmittedOK(c, ses) ==
  c.pc \in {"admitted", "sessions"} =>
    /\ c.pc = "sessions" => c.kind \in {"password", "user"}
    /\ c.cookie \in Sessions /\ c.who \in Users /\ ses[c.cookie].user = c.who
    /\ c.kind \notin {"me", "login"} /\ (c.kind \in Commands => c.csrf = c.cookie)
AnswerOK(c, ses) ==
  /\ c.pc = "signing" => /\ c.kind = "login" /\ c.who \in Users
                         /\ c.me.user = c.who /\ c.me.role \in Roles
  /\ c.pc = "answered" /\ c.status = "ok" /\ c.kind \in {"me", "login"} => Vouched(c.me, ses)
  /\ c.pc # "answered" => c.jar = "keep"
  /\ c.jar = "set" => c.me.csrf \in Sessions
  /\ c.kind = "login" => c.target \in Users

CallOK(c, ses) == c \in Calls /\ CommandOK(c, ses) /\ AdmittedOK(c, ses) /\ AnswerOK(c, ses)

IInv ==
  /\ account \in [Users -> [role : Roles, active : BOOLEAN, must : BOOLEAN]]
  /\ session \in [Sessions -> SessionRows] /\ \A s \in Sessions : SessionOK(session[s])
  /\ cookie \in [Browsers -> Sessions \cup {None}]
  /\ tab \in [Tabs -> Pages] /\ \A t \in Tabs : TabOK(tab[t], session)
  /\ call \in [Requests -> Calls] /\ \A r \in Requests : CallOK(call[r], session)
  /\ sent \in 0..MaxSent /\ losses \in 0..MaxLosses

(* A session never changes hands. *)
Keeps(ses, after) == \A s \in Sessions : ses[s].user \in Users => after[s].user = ses[s].user

-----------------------------------------------------------------------------
LEMMA IdleOK == ASSUME NEW ses PROVE CallOK(Idle, ses)
<1> USE WebSessionAssumption
<1>1. Nobody \in [user : Users \cup {None}, role : Roles, must : BOOLEAN, csrf : Sessions \cup {None}, sso : BOOLEAN]
  BY DEF Nobody, Roles
<1>2. Idle \in Calls
  BY <1>1 DEF Idle, Calls, Kinds
<1>3. "none" \notin Commands
  BY DEF Commands
<1> QED BY <1>2, <1>3 DEF CallOK, CommandOK, AdmittedOK, AnswerOK, Idle

(* An orphaned call is the call it was. *)
LEMMA OrphanOK == ASSUME NEW ses, NEW c, CallOK(c, ses) PROVE CallOK(Orphan(c), ses)
<1> USE WebSessionAssumption
<1>1. CASE c.pc = "answered"
  BY <1>1, IdleOK DEF Orphan
<1>2. CASE c.pc # "answered"
  <2>1. Orphan(c) = [c EXCEPT !.tab = None]
    BY <1>2 DEF Orphan
  <2>2. Orphan(c) \in Calls
    BY <2>1 DEF Calls, CallOK
  <2>3. /\ Orphan(c).kind = c.kind /\ Orphan(c).as = c.as /\ Orphan(c).csrf = c.csrf /\ Orphan(c).pc = c.pc
        /\ Orphan(c).cookie = c.cookie /\ Orphan(c).who = c.who /\ Orphan(c).me = c.me
        /\ Orphan(c).status = c.status /\ Orphan(c).jar = c.jar /\ Orphan(c).target = c.target
    BY <2>1 DEF Calls, CallOK
  <2> QED BY <2>2, <2>3 DEF CallOK, CommandOK, AdmittedOK, AnswerOK
<1> QED BY <1>1, <1>2

(* As long as no session changes hands, what was true of a page and of a call stays true. *)
LEMMA TabKept == ASSUME NEW ses, NEW after, NEW page, TabOK(page, ses), Keeps(ses, after) PROVE TabOK(page, after)
<1>1. CASE page.me = Nobody
  BY <1>1 DEF TabOK
<1>2. CASE page.me # Nobody
  <2>1. page.me \in Identity
    BY <1>2 DEF TabOK, Pages
  <2> QED BY <1>2, <2>1 DEF TabOK, Keeps, Identity
<1> QED BY <1>1, <1>2

LEMMA CallKept == ASSUME NEW ses, NEW after, NEW c, CallOK(c, ses), Keeps(ses, after) PROVE CallOK(c, after)
<1>1. CommandOK(c, after)
  BY DEF CallOK, CommandOK, Keeps
<1>2. AdmittedOK(c, after)
  BY DEF CallOK, AdmittedOK, Keeps
<1>3. Vouched(c.me, ses) => Vouched(c.me, after)
  BY DEF Vouched, Identity, Keeps
<1>4. AnswerOK(c, after)
  BY <1>3 DEF CallOK, AnswerOK
<1> QED BY <1>1, <1>2, <1>4 DEF CallOK

(* A call that has just left a page that shows somebody. *)
LEMMA SentOK ==
  ASSUME IInv, NEW t \in Tabs, NEW kind \in Kinds, kind # "none", kind \in Commands => tab[t].me # Nobody
  PROVE  /\ kind # "login" => CallOK(Call(t, kind), session)
         /\ kind = "login" => \A u \in Users : CallOK([Call(t, kind) EXCEPT !.target = u], session)
<1> USE WebSessionAssumption
<1>1. /\ tab[t] \in Pages /\ TabOK(tab[t], session) /\ cookie[BrowserOf[t]] \in Sessions \cup {None}
  BY DEF IInv
<1>2. Idle \in Calls
  BY IdleOK DEF CallOK
<1>3. tab[t].me.user \in Users \cup {None} /\ tab[t].me.csrf \in Sessions \cup {None}
  BY <1>1 DEF Pages, Identity, Nobody
<1> DEFINE c == Call(t, kind)
<1>4. c \in Calls
  <2>1. (IF kind \in Commands THEN tab[t].me.csrf ELSE None) \in Sessions \cup {None}
    BY <1>3
  <2>2. c = [Idle EXCEPT !.pc = "sent", !.kind = kind, !.tab = t, !.as = tab[t].me.user,
               !.cookie = cookie[BrowserOf[t]], !.csrf = IF kind \in Commands THEN tab[t].me.csrf ELSE None]
    BY DEF Call
  <2> HIDE DEF c
  <2>3. \A u, k, x : u \in Users \cup {None} /\ k \in Sessions \cup {None} /\ x \in Sessions \cup {None} =>
          [Idle EXCEPT !.pc = "sent", !.kind = kind, !.tab = t, !.as = u, !.cookie = k, !.csrf = x] \in Calls
    BY <1>2 DEF Calls
  <2> QED BY <2>1, <2>2, <2>3, <1>1, <1>3
<1>5. c.pc = "sent" /\ c.kind = kind /\ c.as = tab[t].me.user /\ c.jar = "keep"
      /\ (kind \in Commands => c.csrf = tab[t].me.csrf)
  BY DEF Call, Idle
<1>6. CommandOK(c, session)
  <2>1. SUFFICES ASSUME kind \in Commands PROVE c.as \in Users /\ c.csrf \in Sessions /\ session[c.csrf].user = c.as
    BY <1>5 DEF CommandOK
  <2>2. tab[t].me # Nobody /\ tab[t].me \in Identity
    BY <2>1, <1>1 DEF Pages
  <2> QED BY <2>1, <2>2, <1>1, <1>5 DEF TabOK, Identity
<1>7. ASSUME kind # "login" PROVE CallOK(c, session)
  BY <1>4, <1>5, <1>6, <1>7 DEF CallOK, AdmittedOK, AnswerOK
<1>8. ASSUME kind = "login", NEW u \in Users PROVE CallOK([c EXCEPT !.target = u], session)
  <2> DEFINE d == [c EXCEPT !.target = u]
  <2> HIDE DEF c
  <2>1. d \in Calls
    BY <1>4 DEF Calls
  <2>2. d.kind = "login" /\ d.pc = "sent" /\ d.jar = "keep" /\ d.target = u /\ "login" \notin Commands
    BY <1>4, <1>5, <1>8 DEF Calls, Commands
  <2> QED BY <2>1, <2>2 DEF CallOK, CommandOK, AdmittedOK, AnswerOK
<1> QED BY <1>7, <1>8

(* What a call may carry beside its token. *)
LEMMA AimedOK ==
  ASSUME NEW ses, NEW c, CallOK(c, ses), NEW u \in Users, NEW op \in UserOps \cup {"none"}
  PROVE  CallOK([c EXCEPT !.target = u, !.op = op], ses)
<1> DEFINE d == [c EXCEPT !.target = u, !.op = op]
<1>1. d \in Calls
  BY DEF Calls, CallOK
<1>2. d.kind = c.kind /\ d.as = c.as /\ d.csrf = c.csrf /\ d.pc = c.pc /\ d.cookie = c.cookie
      /\ d.who = c.who /\ d.me = c.me /\ d.status = c.status /\ d.jar = c.jar /\ d.target = u
  BY DEF Calls, CallOK
<1> QED BY <1>1, <1>2 DEF CallOK, CommandOK, AdmittedOK, AnswerOK

LEMMA BootOK ==
  ASSUME IInv, NEW t \in Tabs, NEW jar \in Sessions \cup {None}
  PROVE  CallOK([Call(t, "me") EXCEPT !.boot = TRUE, !.as = None, !.cookie = jar], session)
<1> USE WebSessionAssumption
<1> DEFINE c == Call(t, "me")
           d == [c EXCEPT !.boot = TRUE, !.as = None, !.cookie = jar]
<1>1. CallOK(c, session)
  BY SentOK DEF Kinds, Commands
<1>2. c.kind = "me" /\ c.pc = "sent" /\ "me" \notin Commands /\ c.jar = "keep"
  BY DEF Call, Idle, Commands
<1> HIDE DEF c
<1>3. d \in Calls
  BY <1>1 DEF Calls, CallOK
<1>4. d.kind = "me" /\ d.pc = "sent" /\ d.jar = "keep"
  BY <1>1, <1>2 DEF Calls, CallOK
<1>5. CallOK(d, session)
  BY <1>2, <1>3, <1>4 DEF CallOK, CommandOK, AdmittedOK, AnswerOK
<1> QED BY <1>5 DEF c

(* An answer that names nobody. *)
LEMMA AnsweredOK ==
  ASSUME NEW ses, NEW c, CallOK(c, ses), NEW status \in {"ok", "refused", "unauthorized"},
         status = "ok" => c.kind \notin {"me", "login"}
  PROVE  CallOK([c EXCEPT !.pc = "answered", !.status = status], ses)
<1> DEFINE d == [c EXCEPT !.pc = "answered", !.status = status]
<1>1. d \in Calls
  <2> DEFINE e == [c EXCEPT !.pc = "answered"]
  <2>1. e \in Calls
    BY DEF Calls, CallOK
  <2>2. \A x \in {"none", "ok", "refused", "unauthorized"} : [e EXCEPT !.status = x] \in Calls
    <3> HIDE DEF e
    <3> QED BY <2>1 DEF Calls
  <2>3. d = [e EXCEPT !.status = status]
    OBVIOUS
  <2> QED BY <2>2, <2>3
<1>2. d.kind = c.kind /\ d.as = c.as /\ d.csrf = c.csrf /\ d.pc = "answered" /\ d.cookie = c.cookie
      /\ d.who = c.who /\ d.me = c.me /\ d.status = status /\ d.jar = c.jar /\ d.target = c.target
  BY DEF Calls, CallOK
<1> QED BY <1>1, <1>2 DEF CallOK, CommandOK, AdmittedOK, AnswerOK

(* A handler goes on with its call. *)
LEMMA GoesOnOK ==
  ASSUME NEW ses, NEW c, CallOK(c, ses), c.pc = "admitted", c.kind \in {"password", "user"}
  PROVE  CallOK([c EXCEPT !.pc = "sessions"], ses)
<1> DEFINE d == [c EXCEPT !.pc = "sessions"]
<1>1. d \in Calls
  BY DEF Calls, CallOK
<1>2. d.kind = c.kind /\ d.as = c.as /\ d.csrf = c.csrf /\ d.pc = "sessions" /\ d.cookie = c.cookie
      /\ d.who = c.who /\ d.me = c.me /\ d.status = c.status /\ d.jar = c.jar /\ d.target = c.target
  BY DEF Calls, CallOK
<1> QED BY <1>1, <1>2 DEF CallOK, CommandOK, AdmittedOK, AnswerOK

-----------------------------------------------------------------------------
(* The parts of the invariant that a step disturbs. *)
SessionsHold == session \in [Sessions -> SessionRows] /\ \A s \in Sessions : SessionOK(session[s])
TabsHold == tab \in [Tabs -> Pages] /\ \A t \in Tabs : TabOK(tab[t], session)
CallsHold == call \in [Requests -> Calls] /\ \A r \in Requests : CallOK(call[r], session)

LEMMA OneCall ==
  ASSUME IInv, NEW r \in Requests, NEW c, call' = [call EXCEPT ![r] = c],
         Keeps(session, session'), CallOK(c, session')
  PROVE  CallsHold'
<1>1. c \in Calls /\ call \in [Requests -> Calls]
  BY DEF CallOK, IInv
<1>2. call' \in [Requests -> Calls]
  BY <1>1
<1>3. ASSUME NEW q \in Requests PROVE CallOK(call'[q], session')
  <2>1. CallOK(call[q], session')
    BY CallKept DEF IInv
  <2> QED BY <2>1, <1>1
<1> QED BY <1>2, <1>3 DEF CallsHold

LEMMA SameCalls == ASSUME IInv, call' = call, Keeps(session, session') PROVE CallsHold'
<1>1. \A q \in Requests : CallOK(call[q], session')
  BY CallKept DEF IInv
<1> QED BY <1>1 DEF CallsHold, IInv

LEMMA SameTabs == ASSUME IInv, tab' = tab, Keeps(session, session') PROVE TabsHold'
<1>1. \A t \in Tabs : TabOK(tab[t], session')
  BY TabKept DEF IInv
<1> QED BY <1>1 DEF TabsHold, IInv

LEMMA OneTab ==
  ASSUME IInv, NEW t \in Tabs, NEW page, tab' = [tab EXCEPT ![t] = page],
         Keeps(session, session'), TabOK(page, session')
  PROVE  TabsHold'
<1>1. page \in Pages /\ tab \in [Tabs -> Pages]
  BY DEF TabOK, IInv
<1>2. ASSUME NEW q \in Tabs PROVE TabOK(tab'[q], session')
  <2>1. TabOK(tab[q], session')
    BY TabKept DEF IInv
  <2> QED BY <2>1, <1>1
<1> QED BY <1>1, <1>2 DEF TabsHold

LEMMA SameSessions == ASSUME IInv, session' = session PROVE SessionsHold' /\ Keeps(session, session')
BY DEF IInv, SessionsHold, Keeps

LEMMA EndedSession ==
  ASSUME IInv, NEW s \in Sessions, session' = Ended(s) PROVE SessionsHold' /\ Keeps(session, session')
BY DEF IInv, SessionsHold, Keeps, Ended, SessionRows, SessionOK

LEMMA NewSession ==
  ASSUME IInv, NEW s \in Sessions, NEW u \in Users, NEW sso \in BOOLEAN, Fresh(s),
         session' = [session EXCEPT ![s] = [user |-> u, live |-> TRUE, sso |-> sso]]
  PROVE  SessionsHold' /\ Keeps(session, session') /\ session'[s].user = u
<1> USE WebSessionAssumption
<1> QED BY DEF IInv, SessionsHold, Keeps, SessionRows, SessionOK, Fresh

LEMMA LoadOK ==
  ASSUME IInv, NEW r \in Requests, NEW t \in Tabs, NEW jar \in Sessions \cup {None}, Load(r, t, jar),
         Keeps(session, session')
  PROVE  TabsHold' /\ CallsHold'
<1>1. TabOK(Loading, session')
  BY DEF TabOK, Loading, Pages
<1>2. TabsHold'
  BY <1>1, OneTab DEF Load
<1>3. ASSUME NEW q \in Requests PROVE CallOK(call'[q], session')
  <2>1. CASE q = r
    <3>1. call'[q] = [Call(t, "me") EXCEPT !.boot = TRUE, !.as = None, !.cookie = jar]
      BY <2>1 DEF Load
    <3> QED BY <3>1, BootOK, CallKept
  <2>2. CASE q # r
    <3>1. call'[q] = Orphan(call[q]) \/ call'[q] = call[q]
      BY <2>2 DEF Load
    <3>2. CallOK(call[q], session')
      BY CallKept DEF IInv
    <3> QED BY <3>1, <3>2, OrphanOK
  <2> QED BY <2>1, <2>2
<1>4. call' = [q \in Requests |-> call'[q]]
  BY DEF Load
<1>5. \A q \in Requests : call'[q] \in Calls
  BY <1>3 DEF CallOK
<1>6. call' \in [Requests -> Calls]
  BY <1>4, <1>5
<1> QED BY <1>2, <1>3, <1>6 DEF CallsHold

(* What most steps leave alone. *)
Rest ==
  /\ account \in [Users -> [role : Roles, active : BOOLEAN, must : BOOLEAN]]
  /\ cookie \in [Browsers -> Sessions \cup {None}]
  /\ sent \in 0..MaxSent /\ losses \in 0..MaxLosses

LEMMA RestKept ==
  ASSUME IInv, account' = account, cookie' = cookie, sent' = sent \/ Person,
         losses' = losses \/ (losses < MaxLosses /\ losses' = losses + 1)
  PROVE  Rest'
<1> USE WebSessionAssumption
<1> QED BY DEF IInv, Rest, Person

LEMMA Whole == ASSUME SessionsHold', TabsHold', CallsHold', Rest' PROVE IInv'
BY DEF IInv, SessionsHold, TabsHold, CallsHold, Rest

(* A step that sends, or moves, one call and leaves pages and sessions alone. *)
LEMMA CallStep ==
  ASSUME IInv, NEW r \in Requests, NEW c, call' = [call EXCEPT ![r] = c], CallOK(c, session),
         account' = account, session' = session, cookie' = cookie, tab' = tab, losses' = losses,
         sent' = sent \/ Person
  PROVE  IInv'
<1>1. SessionsHold' /\ Keeps(session, session')
  BY SameSessions
<1>2. CallOK(c, session') /\ TabsHold'
  BY <1>1, SameTabs
<1>3. CallsHold'
  BY <1>1, <1>2, OneCall
<1>4. Rest'
  BY RestKept
<1> QED BY <1>1, <1>2, <1>3, <1>4, Whole

-----------------------------------------------------------------------------
(* The browser. *)

LEMMA OpenStep == ASSUME IInv, NEW r \in Requests, NEW t \in Tabs, Open(r, t) PROVE IInv'
<1> USE WebSessionAssumption
<1>1. SessionsHold' /\ Keeps(session, session')
  BY SameSessions DEF Open
<1>2. cookie[BrowserOf[t]] \in Sessions \cup {None}
  BY DEF IInv
<1>3. TabsHold' /\ CallsHold'
  BY <1>1, <1>2, LoadOK DEF Open
<1>4. Rest'
  BY RestKept DEF Open
<1> QED BY <1>1, <1>3, <1>4, Whole

LEMMA SsoSignInStep ==
  ASSUME IInv, NEW r \in Requests, NEW t \in Tabs, NEW u \in Users, NEW s \in Sessions, SsoSignIn(r, t, u, s)
  PROVE  IInv'
<1> USE WebSessionAssumption
<1>1. SessionsHold' /\ Keeps(session, session')
  BY NewSession DEF SsoSignIn
<1>2. TabsHold' /\ CallsHold'
  BY <1>1, LoadOK DEF SsoSignIn
<1>3. Rest'
  BY DEF IInv, SsoSignIn, Rest, Person
<1> QED BY <1>1, <1>2, <1>3, Whole

LEMMA SsoSignOutStep == ASSUME IInv, NEW r \in Requests, NEW t \in Tabs, SsoSignOut(r, t) PROVE IInv'
<1> USE WebSessionAssumption
<1> DEFINE s == cookie[BrowserOf[t]]
<1>1. s \in Sessions \cup {None}
  BY DEF IInv
<1>2. SessionsHold' /\ Keeps(session, session')
  <2>1. CASE s = None
    BY <2>1, SameSessions DEF SsoSignOut
  <2>2. CASE s # None
    BY <2>2, <1>1, EndedSession DEF SsoSignOut
  <2> QED BY <2>1, <2>2
<1>3. TabsHold' /\ CallsHold'
  BY <1>2, LoadOK DEF SsoSignOut
<1>4. Rest'
  BY DEF IInv, SsoSignOut, Rest, Person
<1> QED BY <1>2, <1>3, <1>4, Whole

LEMMA SignInStep ==
  ASSUME IInv, NEW r \in Requests, NEW t \in Tabs, NEW u \in Users, SignIn(r, t, u) PROVE IInv'
<1> USE WebSessionAssumption
<1>1. CallOK([Call(t, "login") EXCEPT !.target = u], session)
  BY SentOK DEF Kinds, Commands
<1> QED BY <1>1, CallStep DEF SignIn, Send

LEMMA SignOutStep == ASSUME IInv, NEW r \in Requests, NEW t \in Tabs, SignOut(r, t) PROVE IInv'
<1>1. CallOK(Call(t, "logout"), session)
  BY SentOK DEF Kinds, Commands, SignOut, MayAct
<1> QED BY <1>1, CallStep DEF SignOut, Send

LEMMA ChangePasswordStep == ASSUME IInv, NEW r \in Requests, NEW t \in Tabs, ChangePassword(r, t) PROVE IInv'
<1>1. CallOK(Call(t, "password"), session)
  BY SentOK DEF Kinds, Commands, ChangePassword, MayAct
<1> QED BY <1>1, CallStep DEF ChangePassword, Send

LEMMA ManageUserStep ==
  ASSUME IInv, NEW r \in Requests, NEW t \in Tabs, NEW u \in Users, NEW op \in UserOps, ManageUser(r, t, u, op)
  PROVE  IInv'
<1>1. CallOK(Call(t, "user"), session)
  BY SentOK DEF Kinds, Commands, ManageUser, MayAct
<1>2. CallOK([Call(t, "user") EXCEPT !.target = u, !.op = op], session)
  BY <1>1, AimedOK
<1> QED BY <1>2, CallStep DEF ManageUser, Send

LEMMA PageCallStep ==
  ASSUME IInv, NEW r \in Requests, NEW t \in Tabs, NEW k \in PageReads \cup PageCommands, PageCall(r, t, k)
  PROVE  IInv'
<1> USE WebSessionAssumption
<1>1. CallOK(Call(t, k), session)
  BY SentOK DEF Kinds, Commands, PageCall, MayAct
<1> QED BY <1>1, CallStep DEF PageCall, Send

-----------------------------------------------------------------------------
(* The API. *)

(* A step that answers one call without naming anybody, whatever it did to sessions. *)
LEMMA AnswerStep ==
  ASSUME IInv, NEW r \in Requests, NEW status \in {"ok", "refused", "unauthorized"},
         status = "ok" => call[r].kind \notin {"me", "login"},
         call' = Answer(r, status), SessionsHold', Keeps(session, session'), tab' = tab, Rest'
  PROVE  IInv'
<1> DEFINE c == [call[r] EXCEPT !.pc = "answered", !.status = status]
<1>1. CallOK(call[r], session')
  BY CallKept DEF IInv
<1>2. CallOK(c, session')
  BY <1>1, AnsweredOK
<1>3. call' = [call EXCEPT ![r] = c]
  BY DEF Answer, IInv
<1> HIDE DEF c
<1>4. CallsHold'
  BY <1>2, <1>3, OneCall
<1> QED BY <1>4, SameTabs, Whole

LEMMA TurnAwayStep == ASSUME IInv, NEW r \in Requests, TurnAway(r) PROVE IInv'
<1> USE WebSessionAssumption
<1>1. call[r].cookie \in Sessions \cup {None}
  BY DEF IInv, Calls
<1>2. SessionsHold' /\ Keeps(session, session')
  <2>1. CASE Known(call[r].cookie)
    BY <2>1, <1>1, EndedSession DEF TurnAway, Known
  <2>2. CASE ~Known(call[r].cookie)
    BY <2>2, SameSessions DEF TurnAway
  <2> QED BY <2>1, <2>2
<1>3. Rest'
  BY RestKept DEF TurnAway
<1> QED BY <1>2, <1>3, AnswerStep DEF TurnAway

LEMMA RefuseStep == ASSUME IInv, NEW r \in Requests, Refuse(r) PROVE IInv'
BY RestKept, SameSessions, AnswerStep DEF Refuse

LEMMA TellStatusStep == ASSUME IInv, NEW r \in Requests, TellStatus(r) PROVE IInv'
BY RestKept, SameSessions, AnswerStep DEF TellStatus

LEMMA PageDoneStep ==
  ASSUME IInv, NEW r \in Requests, NEW status \in {"ok", "refused"}, PageDone(r, status) PROVE IInv'
<1> USE WebSessionAssumption
<1>1. call[r].kind \notin {"me", "login"}
  BY DEF PageDone
<1> QED BY <1>1, RestKept, SameSessions, AnswerStep DEF PageDone

LEMMA EndSessionStep == ASSUME IInv, NEW r \in Requests, EndSession(r) PROVE IInv'
<1> USE WebSessionAssumption
<1> DEFINE c == [call[r] EXCEPT !.pc = "answered", !.status = "ok", !.jar = "clear"]
<1>1. CallOK(call[r], session) /\ call[r].kind = "logout" /\ call[r].pc = "admitted"
  BY DEF IInv, EndSession, Admitted
<1>2. SessionsHold' /\ Keeps(session, session')
  BY <1>1, EndedSession DEF EndSession, CallOK, AdmittedOK
<1>3. c \in Calls
  BY <1>1 DEF CallOK, Calls
<1>4. c.kind = "logout" /\ c.as = call[r].as /\ c.csrf = call[r].csrf /\ c.pc = "answered" /\ c.jar = "clear"
  BY <1>1 DEF CallOK, Calls
<1>5. CallOK(c, session')
  <2>1. CallOK(call[r], session')
    BY <1>1, <1>2, CallKept
  <2> QED BY <2>1, <1>1, <1>3, <1>4 DEF CallOK, CommandOK, AdmittedOK, AnswerOK
<1>6. call' = [call EXCEPT ![r] = c]
  BY DEF EndSession, Answer, IInv
<1> HIDE DEF c
<1>7. CallsHold'
  BY <1>2, <1>5, <1>6, OneCall
<1>8. Rest'
  BY RestKept DEF EndSession
<1>9. TabsHold'
  BY <1>2, SameTabs DEF EndSession
<1> QED BY <1>2, <1>7, <1>8, <1>9, Whole

LEMMA SetPasswordStep == ASSUME IInv, NEW r \in Requests, SetPassword(r) PROVE IInv'
<1> USE WebSessionAssumption
<1>1. CallOK(call[r], session) /\ call[r].kind = "password" /\ call[r].pc = "admitted"
  BY DEF IInv, SetPassword, Admitted
<1>2. SessionsHold' /\ Keeps(session, session')
  BY SameSessions DEF SetPassword
<1>3. Rest'
  <2>1. account' \in [Users -> [role : Roles, active : BOOLEAN, must : BOOLEAN]]
    <3> DEFINE row(u) == [account[u] EXCEPT !.must = FALSE]
    <3>1. \A u \in Users : row(u) \in [role : Roles, active : BOOLEAN, must : BOOLEAN]
      BY DEF IInv
    <3>2. account' = account \/ account' = [account EXCEPT ![call[r].who] = row(call[r].who)]
      BY <1>1 DEF IInv, SetPassword, CallOK, AdmittedOK
    <3> HIDE DEF row
    <3> QED BY <3>1, <3>2 DEF IInv
  <2> QED BY <2>1 DEF IInv, SetPassword, Rest
<1>4. CASE call' = Answer(r, "refused")
  BY <1>2, <1>3, <1>4, AnswerStep DEF SetPassword
<1>5. CASE call' = [call EXCEPT ![r].pc = "sessions"]
  <2> DEFINE c == [call[r] EXCEPT !.pc = "sessions"]
  <2>1. call' = [call EXCEPT ![r] = c]
    BY <1>5 DEF IInv
  <2>2. CallOK(c, session')
    BY <1>1, <1>2, CallKept, GoesOnOK
  <2> HIDE DEF c
  <2>3. CallsHold'
    BY <2>1, <2>2, <1>2, OneCall
  <2> QED BY <2>3, <1>2, <1>3, SameTabs, Whole DEF SetPassword
<1> QED BY <1>4, <1>5 DEF SetPassword

(* No setting of the users page spoils a user's row. *)
LEMMA ManagedRow ==
  ASSUME NEW row \in [role : Roles, active : BOOLEAN, must : BOOLEAN], NEW op
  PROVE  Managed(row, op) \in [role : Roles, active : BOOLEAN, must : BOOLEAN]
BY DEF Managed, Roles

LEMMA UpdateUserStep == ASSUME IInv, NEW r \in Requests, UpdateUser(r) PROVE IInv'
<1> USE WebSessionAssumption
<1>1. CallOK(call[r], session) /\ call[r].kind = "user" /\ call[r].pc = "admitted"
  BY DEF IInv, UpdateUser, Admitted
<1>2. SessionsHold' /\ Keeps(session, session')
  BY SameSessions DEF UpdateUser
<1>3. Rest'
  <2>1. \A u \in Users : Managed(account[u], call[r].op) \in [role : Roles, active : BOOLEAN, must : BOOLEAN]
    BY ManagedRow DEF IInv
  <2>2. account' = account \/ account' = [account EXCEPT ![call[r].target] = Managed(@, call[r].op)]
    BY DEF UpdateUser
  <2>3. account' \in [Users -> [role : Roles, active : BOOLEAN, must : BOOLEAN]]
    BY <2>1, <2>2 DEF IInv
  <2> QED BY <2>3 DEF IInv, UpdateUser, Rest
<1>4. CASE call' = Answer(r, "refused")
  BY <1>2, <1>3, <1>4, AnswerStep DEF UpdateUser
<1>5. CASE call' = Answer(r, "ok")
  BY <1>1, <1>2, <1>3, <1>5, AnswerStep DEF UpdateUser
<1>6. CASE call' = [call EXCEPT ![r].pc = "sessions"]
  <2> DEFINE c == [call[r] EXCEPT !.pc = "sessions"]
  <2>1. call' = [call EXCEPT ![r] = c]
    BY <1>6 DEF IInv
  <2>2. CallOK(c, session')
    BY <1>1, <1>2, CallKept, GoesOnOK
  <2> HIDE DEF c
  <2>3. CallsHold'
    BY <2>1, <2>2, <1>2, OneCall
  <2>4. TabsHold'
    BY <1>2, SameTabs DEF UpdateUser
  <2> QED BY <2>3, <2>4, <1>2, <1>3, Whole
<1> QED BY <1>4, <1>5, <1>6 DEF UpdateUser

LEMMA EndSessionsStep == ASSUME IInv, NEW r \in Requests, EndSessions(r) PROVE IInv'
<1> USE WebSessionAssumption
<1>1. \A s \in Sessions : session'[s] = session[s] \/ session'[s] = [session[s] EXCEPT !.live = FALSE]
  BY DEF EndSessions
<1>2. session' = [s \in Sessions |-> session'[s]]
  BY DEF EndSessions
<1>3. ASSUME NEW s \in Sessions PROVE SessionOK(session'[s]) /\ session'[s].user = session[s].user
  <2>1. session[s] \in SessionRows /\ SessionOK(session[s])
    BY DEF IInv
  <2>2. CASE session'[s] = session[s]
    BY <2>1, <2>2
  <2>3. CASE session'[s] = [session[s] EXCEPT !.live = FALSE]
    BY <2>1, <2>3 DEF SessionRows, SessionOK
  <2> QED BY <1>1, <2>2, <2>3
<1>4. SessionsHold' /\ Keeps(session, session')
  <2>1. \A s \in Sessions : session'[s] \in SessionRows
    BY <1>3 DEF SessionOK
  <2>2. session' \in [Sessions -> SessionRows]
    BY <1>2, <2>1
  <2> QED BY <2>2, <1>3 DEF SessionsHold, Keeps
<1>5. call[r].kind \notin {"me", "login"}
  BY DEF IInv, EndSessions, CallOK, AdmittedOK
<1>6. Rest'
  BY RestKept DEF EndSessions
<1> QED BY <1>4, <1>5, <1>6, AnswerStep DEF EndSessions

LEMMA IdentifyStep == ASSUME IInv, NEW r \in Requests, Identify(r) PROVE IInv'
<1> USE WebSessionAssumption
<1> DEFINE s == call[r].cookie
           c == [call[r] EXCEPT !.pc = "answered", !.status = "ok", !.me = MeOf(s)]
<1>1. CallOK(call[r], session) /\ call[r].kind = "me"
  BY DEF IInv, Identify
<1>2. s \in Sessions /\ session[s] \in SessionRows /\ session[s].user \in Users
  BY <1>1 DEF IInv, Identify, Allowed, Known, CallOK, Calls, SessionOK
<1>3. Vouched(MeOf(s), session)
  BY <1>2 DEF IInv, Vouched, MeOf, Identity, SessionRows
<1>4. MeOf(s) \in [user : Users \cup {None}, role : Roles, must : BOOLEAN, csrf : Sessions \cup {None}, sso : BOOLEAN]
  BY <1>3 DEF Vouched, Identity
<1>5. \A m \in [user : Users \cup {None}, role : Roles, must : BOOLEAN, csrf : Sessions \cup {None}, sso : BOOLEAN] :
        [call[r] EXCEPT !.pc = "answered", !.status = "ok", !.me = m] \in Calls
  BY <1>1 DEF CallOK, Calls
<1>6. c \in Calls
  BY <1>4, <1>5
<1>7. c.kind = "me" /\ c.pc = "answered" /\ c.me = MeOf(s) /\ c.jar = call[r].jar
  BY <1>1 DEF CallOK, Calls
<1>8. MeOf(s).csrf \in Sessions
  BY <1>2 DEF MeOf
<1>9. "me" \notin Commands
  BY DEF Commands
<1>10. CallOK(c, session)
  BY <1>3, <1>6, <1>7, <1>8, <1>9 DEF CallOK, CommandOK, AdmittedOK, AnswerOK
<1>11. call' = [call EXCEPT ![r] = c]
  BY DEF Identify, Answer, IInv
<1> HIDE DEF c
<1> QED BY <1>10, <1>11, CallStep DEF Identify

LEMMA AdmitStep == ASSUME IInv, NEW r \in Requests, Admit(r) PROVE IInv'
<1> USE WebSessionAssumption
<1> DEFINE s == call[r].cookie
           c == [call[r] EXCEPT !.pc = "admitted", !.who = session[s].user]
<1>1. CallOK(call[r], session) /\ (call[r].kind \in Commands => call[r].csrf = s)
      /\ call[r].kind \notin {"me", "login"} /\ call[r].jar = "keep"
  BY DEF IInv, Admit, Arrived, TokenFits, CallOK, AnswerOK
<1>2. s \in Sessions /\ session[s] \in SessionRows /\ session[s].user \in Users
  BY <1>1 DEF IInv, Admit, Allowed, Known, CallOK, Calls, SessionOK
<1>3. c \in Calls
  BY <1>1, <1>2 DEF CallOK, Calls
<1>4. c.kind = call[r].kind /\ c.pc = "admitted" /\ c.who = session[s].user /\ c.cookie = s /\ c.as = call[r].as
      /\ c.csrf = call[r].csrf /\ c.jar = "keep" /\ c.me = call[r].me
  BY <1>1 DEF CallOK, Calls
<1>5. CallOK(c, session)
  BY <1>1, <1>2, <1>3, <1>4 DEF CallOK, CommandOK, AdmittedOK, AnswerOK
<1>6. call' = [call EXCEPT ![r] = c]
  BY DEF Admit, IInv
<1> HIDE DEF c
<1> QED BY <1>5, <1>6, CallStep DEF Admit

LEMMA CheckPasswordStep == ASSUME IInv, NEW r \in Requests, CheckPassword(r) PROVE IInv'
<1> USE WebSessionAssumption
<1> DEFINE u == call[r].target
           m == [Nobody EXCEPT !.user = u, !.role = account[u].role, !.must = account[u].must]
           c == [call[r] EXCEPT !.pc = "signing", !.who = u, !.me = m]
<1>1. CallOK(call[r], session) /\ call[r].kind = "login" /\ call[r].pc = "sent" /\ call[r].jar = "keep"
  BY DEF IInv, CheckPassword, CallOK, AnswerOK
<1>2. SessionsHold' /\ Keeps(session, session')
  BY SameSessions DEF CheckPassword
<1>3. CASE call' = Answer(r, "unauthorized")
  BY <1>2, <1>3, RestKept, AnswerStep DEF CheckPassword
<1>4. CASE account[u].active /\ call' = [call EXCEPT ![r].pc = "signing", ![r].who = u, ![r].me = m]
  <2>1. u \in Users
    BY <1>1 DEF CallOK, AnswerOK
  <2>2. m.user = u /\ m.role \in Roles /\ m \in [user : Users \cup {None}, role : Roles, must : BOOLEAN,
                                                   csrf : Sessions \cup {None}, sso : BOOLEAN]
    BY <2>1 DEF IInv, Nobody
  <2> HIDE DEF m
  <2>3. c \in Calls
    <3>1. \A x \in [user : Users \cup {None}, role : Roles, must : BOOLEAN, csrf : Sessions \cup {None}, sso : BOOLEAN] :
            [call[r] EXCEPT !.pc = "signing", !.who = u, !.me = x] \in Calls
      BY <1>1, <2>1 DEF CallOK, Calls
    <3> QED BY <2>2, <3>1
  <2>4. c.kind = "login" /\ c.pc = "signing" /\ c.who = u /\ c.me = m /\ c.jar = "keep" /\ c.target = u
    BY <1>1 DEF CallOK, Calls
  <2>5. "login" \notin Commands
    BY DEF Commands
  <2>6. CallOK(c, session)
    BY <2>1, <2>2, <2>3, <2>4, <2>5 DEF CallOK, CommandOK, AdmittedOK, AnswerOK
  <2>7. call' = [call EXCEPT ![r] = c]
    BY <1>4 DEF IInv
  <2> HIDE DEF c
  <2> QED BY <2>6, <2>7, CallStep DEF CheckPassword
<1> QED BY <1>3, <1>4 DEF CheckPassword

LEMMA CreateSessionStep == ASSUME IInv, NEW r \in Requests, NEW s \in Sessions, CreateSession(r, s) PROVE IInv'
<1> USE WebSessionAssumption
<1> DEFINE m == [call[r].me EXCEPT !.csrf = s]
           c == [call[r] EXCEPT !.pc = "answered", !.status = "ok", !.me = m, !.jar = "set"]
<1>1. CallOK(call[r], session) /\ call[r].kind = "login" /\ call[r].pc = "signing" /\ call[r].who \in Users
      /\ call[r].me.user = call[r].who /\ call[r].me.role \in Roles /\ call[r].target \in Users
  BY DEF IInv, CreateSession, CallOK, AnswerOK
<1>2. SessionsHold' /\ Keeps(session, session') /\ session'[s].user = call[r].who
  BY <1>1, NewSession DEF CreateSession
<1>3. m \in Identity /\ m.user = call[r].who /\ m.csrf = s
  BY <1>1 DEF CallOK, Calls, Identity
<1>4. Vouched(m, session')
  BY <1>2, <1>3 DEF Vouched
<1>5. call' = [call EXCEPT ![r] = c]
  <2>1. call \in [Requests -> Calls]
    BY DEF IInv
  <2>2. call' = [[call EXCEPT ![r].pc = "answered", ![r].status = "ok"] EXCEPT ![r].me.csrf = s, ![r].jar = "set"]
    BY DEF CreateSession, Answer
  <2> DEFINE d == [call[r] EXCEPT !.pc = "answered", !.status = "ok"]
             e == [d EXCEPT !.me.csrf = s, !.jar = "set"]
             answered == [call EXCEPT ![r].pc = "answered", ![r].status = "ok"]
  <2>3. answered = [call EXCEPT ![r] = d]
    BY <2>1
  <2>4. answered[r] = d
    BY <2>1, <2>3
  <2>5. [answered EXCEPT ![r].me.csrf = s, ![r].jar = "set"] = [answered EXCEPT ![r] = e]
    <3> HIDE DEF answered, d
    <3> QED BY <2>4
  <2>6. e = c
    BY <2>1 DEF Calls
  <2>7. [answered EXCEPT ![r] = c] = [call EXCEPT ![r] = c]
    <3> HIDE DEF c, d
    <3> QED BY <2>1, <2>3
  <2> QED BY <2>2, <2>5, <2>6, <2>7
<1> HIDE DEF m
<1>6. c \in Calls
  <2>1. \A x \in [user : Users \cup {None}, role : Roles, must : BOOLEAN, csrf : Sessions \cup {None}, sso : BOOLEAN] :
          [call[r] EXCEPT !.pc = "answered", !.status = "ok", !.me = x, !.jar = "set"] \in Calls
    BY <1>1 DEF CallOK, Calls
  <2> QED BY <1>3, <2>1 DEF Identity
<1>7. c.kind = "login" /\ c.pc = "answered" /\ c.me = m /\ c.target = call[r].target
  BY <1>1 DEF CallOK, Calls
<1>8. CallOK(c, session')
  BY <1>1, <1>3, <1>4, <1>6, <1>7 DEF CallOK, CommandOK, AdmittedOK, AnswerOK, Commands
<1> HIDE DEF c
<1>9. CallsHold' /\ TabsHold' /\ Rest'
  BY <1>2, <1>5, <1>8, OneCall, SameTabs, RestKept DEF CreateSession
<1> QED BY <1>2, <1>9, Whole

LEMMA ExpireStep == ASSUME IInv, NEW s \in Sessions, Expire(s) PROVE IInv'
<1>1. SessionsHold' /\ Keeps(session, session')
  BY EndedSession DEF Expire
<1>2. CallsHold' /\ TabsHold' /\ Rest'
  BY <1>1, SameCalls, SameTabs, RestKept DEF Expire
<1> QED BY <1>1, <1>2, Whole

-----------------------------------------------------------------------------
(* The answers. *)

LEMMA Freed == ASSUME IInv, NEW r \in Requests, Free(r), session' = session PROVE CallsHold'
BY IdleOK, OneCall, SameSessions DEF Free

(* A page goes on with a question, or with a command when it shows somebody. *)
LEMMA AgainOK ==
  ASSUME IInv, NEW r \in Requests, call[r].tab \in Tabs, NEW kind \in {"me", "status"} \cup PageReads, Again(r, kind),
         session' = session
  PROVE  CallsHold'
<1> USE WebSessionAssumption
<1> DEFINE c == Call(call[r].tab, kind)
           d == [c EXCEPT !.boot = call[r].boot]
<1>1. kind \in Kinds /\ kind \notin Commands /\ kind \notin {"none", "login"}
  BY DEF Kinds, Commands
<1>2. CallOK(c, session)
  BY <1>1, SentOK
<1>3. call[r].boot \in BOOLEAN
  BY DEF IInv, Calls
<1>4. call' = [call EXCEPT ![r] = d]
  BY DEF Again
<1> HIDE DEF c
<1>5. d \in Calls
  BY <1>2, <1>3 DEF CallOK, Calls
<1>6. d.kind = c.kind /\ d.as = c.as /\ d.csrf = c.csrf /\ d.pc = c.pc /\ d.cookie = c.cookie
      /\ d.who = c.who /\ d.me = c.me /\ d.status = c.status /\ d.jar = c.jar /\ d.target = c.target
  BY <1>2 DEF CallOK, Calls
<1>7. CallOK(d, session')
  BY <1>2, <1>5, <1>6 DEF CallOK, CommandOK, AdmittedOK, AnswerOK
<1> HIDE DEF d
<1> QED BY <1>4, <1>7, OneCall, SameSessions

LEMMA Waiting == ASSUME IInv, NEW r \in Requests, NEW kinds, Heard(r, kinds) PROVE call[r].tab \in Tabs
BY DEF IInv, Heard, Calls

LEMMA StatusTab ==
  ASSUME IInv, NEW t \in Tabs, NEW me \in {tab[t].me, Nobody}, NEW loading \in BOOLEAN,
         tab' = [tab EXCEPT ![t].me = me, ![t].loading = loading], session' = session
  PROVE  TabsHold'
<1> DEFINE page == [tab[t] EXCEPT !.me = me, !.loading = loading]
<1>1. TabOK(tab[t], session)
  BY DEF IInv
<1>2. page \in Pages /\ page.me = me
  BY <1>1 DEF TabOK, Pages
<1>3. TabOK(page, session')
  BY <1>1, <1>2 DEF TabOK
<1>4. tab' = [tab EXCEPT ![t] = page]
  BY DEF IInv
<1> HIDE DEF page
<1> QED BY <1>3, <1>4, OneTab, SameSessions

LEMMA KnownTab ==
  ASSUME IInv, NEW t \in Tabs, NEW me, Vouched(me, session), NEW loading \in BOOLEAN,
         tab' = [tab EXCEPT ![t].me = me, ![t].loading = loading], session' = session
  PROVE  TabsHold'
<1> DEFINE page == [tab[t] EXCEPT !.me = me, !.loading = loading]
<1>1. tab[t] \in Pages
  BY DEF IInv
<1>2. page \in Pages /\ page.me = me
  BY <1>1 DEF Vouched, Pages
<1>3. TabOK(page, session')
  BY <1>2 DEF TabOK, Vouched
<1>4. tab' = [tab EXCEPT ![t] = page]
  BY DEF IInv
<1> HIDE DEF page
<1> QED BY <1>3, <1>4, OneTab, SameSessions

LEMMA HearMeStep == ASSUME IInv, NEW r \in Requests, HearMe(r) PROVE IInv'
<1> USE WebSessionAssumption
<1>1. call[r].tab \in Tabs /\ tab[call[r].tab].loading \in BOOLEAN
  BY Waiting DEF HearMe, IInv, Pages
<1>2. SessionsHold' /\ Rest'
  BY SameSessions, RestKept DEF HearMe
<1>3. TabsHold' /\ CallsHold'
  <2>1. CASE call[r].status = "ok"
    <3>1. Vouched(call[r].me, session)
      BY <2>1 DEF IInv, HearMe, Heard, CallOK, AnswerOK
    <3> QED BY <2>1, <3>1, <1>1, KnownTab, Freed DEF HearMe, Knows
  <2>2. CASE call[r].status # "ok"
    BY <2>2, <1>1, StatusTab, AgainOK DEF HearMe, Knows
  <2> QED BY <2>1, <2>2
<1> QED BY <1>2, <1>3, Whole

LEMMA HearStatusStep == ASSUME IInv, NEW r \in Requests, HearStatus(r) PROVE IInv'
<1> DEFINE t == call[r].tab
<1>1. t \in Tabs /\ tab[t] \in Pages
  BY Waiting DEF HearStatus, IInv
<1>2. tab' = [tab EXCEPT ![t].me = tab[t].me, ![t].loading = FALSE]
  BY <1>1 DEF HearStatus, IInv, Pages
<1>3. TabsHold' /\ CallsHold'
  BY <1>1, <1>2, StatusTab, Freed DEF HearStatus
<1> QED BY <1>3, SameSessions, RestKept, Whole DEF HearStatus

LEMMA JarOK ==
  ASSUME IInv, NEW r \in Requests, NEW b \in Browsers, cookie' = Jar(call[r], b)
  PROVE  cookie' \in [Browsers -> Sessions \cup {None}]
<1>1. call[r].jar = "set" => call[r].me.csrf \in Sessions
  BY DEF IInv, CallOK, AnswerOK
<1> QED BY <1>1 DEF Jar, IInv

LEMMA HearSignInStep == ASSUME IInv, NEW r \in Requests, HearSignIn(r) PROVE IInv'
<1> USE WebSessionAssumption
<1> DEFINE t == call[r].tab
<1>1. t \in Tabs /\ tab[t] \in Pages /\ BrowserOf[t] \in Browsers
  BY Waiting DEF HearSignIn, IInv
<1>2. CallsHold' /\ SessionsHold'
  BY SameSessions, Freed DEF HearSignIn
<1>3. CASE call[r].status = "ok"
  <2>1. Vouched(call[r].me, session)
    BY <1>3 DEF IInv, HearSignIn, Heard, CallOK, AnswerOK
  <2>2. tab' = [tab EXCEPT ![t].me = call[r].me, ![t].loading = tab[t].loading]
    <3>1. tab' = [tab EXCEPT ![t].me = call[r].me]
      BY <1>3 DEF HearSignIn
    <3> QED BY <1>1, <3>1 DEF IInv, Pages
  <2>3. tab[t].loading \in BOOLEAN
    BY <1>1 DEF Pages
  <2>4. TabsHold'
    BY <1>1, <2>1, <2>2, <2>3, KnownTab DEF HearSignIn
  <2>5. Rest'
    BY <1>1, <1>3, JarOK DEF HearSignIn, Rest, IInv
  <2> QED BY <1>2, <2>4, <2>5, Whole
<1>4. CASE call[r].status # "ok"
  BY <1>2, <1>4, SameSessions, SameTabs, RestKept, Whole DEF HearSignIn
<1> QED BY <1>3, <1>4

LEMMA HearSignOutStep == ASSUME IInv, NEW r \in Requests, HearSignOut(r) PROVE IInv'
<1> USE WebSessionAssumption
<1> DEFINE t == call[r].tab
<1>1. t \in Tabs /\ tab[t] \in Pages /\ BrowserOf[t] \in Browsers /\ tab[t].loading \in BOOLEAN
  BY Waiting DEF HearSignOut, IInv, Pages
<1>2. CallsHold' /\ SessionsHold'
  BY SameSessions, Freed DEF HearSignOut
<1>3. tab' = [tab EXCEPT ![t].me = Nobody, ![t].loading = tab[t].loading]
  BY <1>1 DEF HearSignOut, IInv, Pages
<1>4. TabsHold'
  BY <1>1, <1>3, StatusTab DEF HearSignOut
<1>5. Rest'
  BY <1>1, JarOK DEF HearSignOut, Rest, IInv
<1> QED BY <1>2, <1>4, <1>5, Whole

LEMMA HearPasswordStep == ASSUME IInv, NEW r \in Requests, HearPassword(r) PROVE IInv'
<1>1. call[r].tab \in Tabs
  BY Waiting DEF HearPassword
<1>2. CallsHold'
  BY <1>1, AgainOK, Freed DEF HearPassword
<1> QED BY <1>2, SameSessions, SameTabs, RestKept, Whole DEF HearPassword

LEMMA HearPageStep == ASSUME IInv, NEW r \in Requests, HearPage(r) PROVE IInv'
BY SameSessions, SameTabs, RestKept, Freed, Whole DEF HearPage

LEMMA HearThenReadStep ==
  ASSUME IInv, NEW r \in Requests, NEW k \in PageReads, HearThenRead(r, k) PROVE IInv'
<1>1. call[r].tab \in Tabs
  BY Waiting DEF HearThenRead
<1>2. CallsHold'
  BY <1>1, AgainOK DEF HearThenRead
<1> QED BY <1>2, SameSessions, SameTabs, RestKept, Whole DEF HearThenRead

LEMMA LoseStep == ASSUME IInv, NEW r \in Requests, Lose(r) PROVE IInv'
<1> USE WebSessionAssumption
<1> DEFINE t == call[r].tab
<1>1. t \in Tabs /\ tab[t] \in Pages /\ tab[t].loading \in BOOLEAN
  BY DEF Lose, IInv, Calls, Pages
<1>2. SessionsHold' /\ Keeps(session, session') /\ Rest'
  BY SameSessions, RestKept DEF Lose
<1>3. CallOK(Orphan(call[r]), session')
  BY OrphanOK DEF IInv, Lose
<1>4. CallsHold'
  BY <1>2, <1>3, OneCall DEF Lose
<1>5. \/ tab' = [tab EXCEPT ![t].me = Nobody, ![t].loading = FALSE]
      \/ tab' = [tab EXCEPT ![t].me = tab[t].me, ![t].loading = FALSE]
      \/ tab' = [tab EXCEPT ![t].me = Nobody, ![t].loading = tab[t].loading]
      \/ tab' = tab
  <2>1. \/ tab' = [tab EXCEPT ![t].me = Nobody, ![t].loading = FALSE]
        \/ tab' = [tab EXCEPT ![t].loading = FALSE]
        \/ tab' = [tab EXCEPT ![t].me = Nobody]
        \/ tab' = tab
    BY DEF Lose
  <2>2. [tab EXCEPT ![t].loading = FALSE] = [tab EXCEPT ![t].me = tab[t].me, ![t].loading = FALSE]
    BY <1>1 DEF IInv, Pages
  <2>3. [tab EXCEPT ![t].me = Nobody] = [tab EXCEPT ![t].me = Nobody, ![t].loading = tab[t].loading]
    BY <1>1 DEF IInv, Pages
  <2> QED BY <2>1, <2>2, <2>3
<1>6. TabsHold'
  BY <1>1, <1>2, <1>5, StatusTab, SameTabs DEF Lose
<1> QED BY <1>2, <1>4, <1>6, Whole

LEMMA DropStep == ASSUME IInv, NEW r \in Requests, Drop(r) PROVE IInv'
BY SameSessions, SameTabs, RestKept, Freed, Whole DEF Drop

-----------------------------------------------------------------------------
LEMMA InitHolds == Init => IInv
<1> USE WebSessionAssumption
<1> SUFFICES ASSUME Init PROVE IInv
  OBVIOUS
<1>1. 1 \in Sessions
  BY DEF Sessions
<1>2. SessionsHold
  BY <1>1 DEF Init, SessionsHold, SessionRows, SessionOK
<1>3. SignInPage \in Pages /\ SignInPage.me = Nobody
  BY DEF SignInPage, Pages
<1> DEFINE me0 == [user |-> User0, role |-> IF User0 \in Admins0 THEN "admin" ELSE "staff",
                   must |-> FALSE, csrf |-> 1, sso |-> FALSE]
           page0 == [SignInPage EXCEPT !.me = me0]
<1>4. me0 \in Identity /\ session[1].user = User0
  BY <1>1 DEF Identity, Roles, Init
<1>5. page0 \in Pages /\ page0.me = me0
  BY <1>4 DEF SignInPage, Pages
<1>6. TabsHold
  <2>1. TabOK(page0, session) /\ TabOK(SignInPage, session)
    BY <1>3, <1>4, <1>5 DEF TabOK
  <2>2. tab = [t \in Tabs |-> IF t # Tab0 THEN SignInPage ELSE page0]
    BY DEF Init
  <2> HIDE DEF page0
  <2> QED BY <1>3, <1>5, <2>1, <2>2 DEF TabsHold
<1>7. CallsHold
  BY IdleOK DEF Init, CallsHold, CallOK
<1>8. Rest
  BY <1>1 DEF Init, Rest, Roles
<1> QED BY <1>2, <1>6, <1>7, <1>8 DEF IInv, SessionsHold, TabsHold, CallsHold, Rest

LEMMA NextHolds == IInv /\ [Next]_vars => IInv'
<1> SUFFICES ASSUME IInv, [Next]_vars PROVE IInv'
  OBVIOUS
<1>1. ASSUME NEW r \in Requests, NEW t \in Tabs, Navigate(r, t) PROVE IInv'
  BY <1>1, OpenStep, SsoSignInStep, SsoSignOutStep DEF Navigate
<1>2. ASSUME NEW r \in Requests, NEW t \in Tabs, Act(r, t) PROVE IInv'
  BY <1>2, SignOutStep, ChangePasswordStep, SignInStep, ManageUserStep DEF Act
<1>3. ASSUME NEW r \in Requests, NEW t \in Tabs, NEW k \in PageReads \cup PageCommands, PageCall(r, t, k) PROVE IInv'
  BY <1>3, PageCallStep
<1>4. ASSUME NEW r \in Requests, Serve(r) PROVE IInv'
  BY <1>4, TurnAwayStep, RefuseStep, IdentifyStep, AdmitStep, TellStatusStep, CheckPasswordStep, EndSessionStep,
     SetPasswordStep, UpdateUserStep, EndSessionsStep, CreateSessionStep DEF Serve
<1>5. ASSUME NEW r \in Requests, Hear(r) PROVE IInv'
  BY <1>5, HearMeStep, HearStatusStep, HearSignInStep, HearSignOutStep, HearPasswordStep DEF Hear
<1>6. ASSUME NEW r \in Requests, HearPage(r) \/ Lose(r) \/ Drop(r) PROVE IInv'
  BY <1>6, HearPageStep, LoseStep, DropStep
<1>7. ASSUME NEW r \in Requests, NEW k \in PageReads, HearThenRead(r, k) PROVE IInv'
  BY <1>7, HearThenReadStep
<1>8. ASSUME NEW r \in Requests, NEW status \in {"ok", "refused"}, PageDone(r, status) PROVE IInv'
  BY <1>8, PageDoneStep
<1>9. ASSUME NEW s \in Sessions, Expire(s) PROVE IInv'
  BY <1>9, ExpireStep
<1>10. CASE UNCHANGED vars
  <2>1. account' = account /\ session' = session /\ cookie' = cookie /\ tab' = tab /\ call' = call
        /\ sent' = sent /\ losses' = losses
    BY <1>10 DEF vars
  <2> QED BY <2>1, SameSessions, SameTabs, SameCalls, RestKept, Whole
<1> QED BY <1>1, <1>2, <1>3, <1>4, <1>5, <1>6, <1>7, <1>8, <1>9, <1>10 DEF Next

(* The type invariant of WebSession. *)
THEOREM SessionsTyped == Spec => []SessionsTypeOK
<1>1. IInv => SessionsTypeOK
  BY DEF IInv, SessionsTypeOK, SessionRows, Pages
<1> QED BY <1>1, InitHolds, NextHolds, PTL DEF Spec

LEMMA Theirs == IInv => CommandsAreTheirs
<1> SUFFICES ASSUME IInv, NEW r \in Requests, call[r].kind \in Commands, call[r].pc \in {"admitted", "sessions"}
             PROVE  call[r].who = call[r].as
  BY DEF CommandsAreTheirs
<1>1. CallOK(call[r], session)
  BY DEF IInv
<1> QED BY <1>1 DEF CallOK, CommandOK, AdmittedOK

(* Whoever signs in or out in the other tabs of a browser, a command is carried out as the person
   its own tab showed when it was sent. *)
THEOREM CommandsTheirs == Spec => []CommandsAreTheirs
BY Theirs, InitHolds, NextHolds, PTL DEF Spec

-----------------------------------------------------------------------------
(* The settings pages and handlers add to WebSession, and take nothing from it. *)

LEMMA StepIsSession == [SettingsNext]_allVars => [Next]_vars
<1> USE SettingsAssumption
<1> SUFFICES ASSUME [SettingsNext]_allVars PROVE [Next]_vars
  OBVIOUS
<1>1. CASE Elsewhere
  <2>1. ASSUME NEW r \in Requests, Serve(r) PROVE Next
    BY <2>1 DEF Next
  <2>2. ASSUME NEW r \in Requests, Hear(r) PROVE Next
    BY <2>2 DEF Next
  <2>3. ASSUME NEW r \in Requests, NEW t \in Tabs, Navigate(r, t) \/ Act(r, t) PROVE Next
    BY <2>3 DEF Next
  <2>4. ASSUME NEW s \in Sessions, Expire(s) PROVE Next
    BY <2>4 DEF Next
  <2> QED BY <1>1, <2>1, <2>2, <2>3, <2>4 DEF Elsewhere
<1>2. ASSUME NEW r \in Requests, Handle(r) PROVE [Next]_vars
  <2>1. ASSUME NEW status \in {"ok", "refused"}, PageDone(r, status) PROVE Next
    BY <2>1 DEF Next
  <2>2. (\E status \in {"ok", "refused"} : PageDone(r, status)) \/ UNCHANGED vars
    BY <1>2 DEF Handle, ReadSettings, CheckSave, WriteKey, SaveDone, BeginImport, ImportProfiles,
                ImportProfile, CheckLink, ReadAddress, DeliverLink, Done, Rows
  <2> QED BY <2>1, <2>2
<1>3. ASSUME NEW r \in Requests, HearSettings(r) PROVE Next
  <2>1. HearPage(r) \/ \E k \in PageReads : HearThenRead(r, k)
    BY <1>3 DEF HearSettings, HearSaved, HearLoad, HearOther
  <2> QED BY <2>1 DEF Next
<1>4. ASSUME NEW r \in Requests, LoseCall(r) \/ DropCall(r) PROVE Next
  BY <1>4 DEF Next, LoseCall, DropCall
<1>5. ASSUME NEW r \in Requests, NEW t \in Tabs, Page(r, t) PROVE Next
  <2>1. \E k \in PageReads \cup PageCommands : PageCall(r, t, k)
    BY <1>5 DEF Page, OpenForm, Save, Import, SendLink
  <2> QED BY <2>1 DEF Next
<1>6. ASSUME NEW t \in Tabs, Edit(t) PROVE UNCHANGED vars
  BY <1>6 DEF Edit, TypeInput, TypeSecret, TickRemove, EditForm
<1>7. CASE UNCHANGED allVars
  BY <1>7 DEF allVars
<1> QED BY <1>1, <1>2, <1>3, <1>4, <1>5, <1>6, <1>7 DEF SettingsNext

(* Seen from the sessions, the settings are one more page and its handlers. *)
THEOREM SettingsRefinesSession == SettingsSpec => Spec
<1>1. SettingsInit => Init
  BY DEF SettingsInit
<1> QED BY <1>1, StepIsSession, PTL DEF SettingsSpec, Spec

(* So it holds of the settings' commands too: saving, importing and sending a link. *)
THEOREM SettingsTheirs == SettingsSpec => []CommandsAreTheirs
BY SettingsRefinesSession, CommandsTheirs, PTL

-----------------------------------------------------------------------------
(* The settings themselves.  Every secret still to be written, by whatever handler, comes from a
   form in which somebody touched the secret. *)

FormFields == {"group", "inputs", "known", "key", "clear", "touched"}
WorkFields == {"stage", "group", "writes", "touched", "mode", "profiles", "seen", "known"}

(* A form with something to send for its secret has been touched. *)
FormOK(f) ==
  /\ DOMAIN f = FormFields /\ f.group \in Groups \cup {"none"}
  /\ f.group # "none" => f.inputs \in [ToSet(KeysOf[f.group]) -> Texts]
  /\ f.key \in Texts
  /\ f.clear \/ f.key # Blank => f.touched

WriteOK(c, w, x) == x.value \in Texts /\ (x.key \in Secrets => c.kind = "save" /\ w.touched)

(* What a handler has to do, and what the answer of a load brings. *)
WorkOK(c, w) ==
  /\ DOMAIN w = WorkFields
  /\ w # NoWork => c.kind \in PageReads \cup PageCommands
  /\ c.kind \in {"load", "save"} => w.group \in Groups
  /\ c.kind = "load" /\ c.pc = "answered" /\ c.status = "ok" => w.seen \in [ToSet(KeysOf[w.group]) -> Texts]
  /\ c.kind = "import" => w.profiles \in Seq(Profiles \cup {"bad"}) /\ \A k \in DOMAIN w.seen : w.seen[k] \in Texts
  /\ \A i \in DOMAIN w.writes : WriteOK(c, w, w.writes[i])

StoreOK == stored \in [Settable -> Texts] /\ profiles \subseteq Profiles
FormsOK == DOMAIN form = Tabs /\ \A t \in Tabs : FormOK(form[t]) /\ (form[t].group # "none" => Shows(tab[t], "admin"))
WorksOK == DOMAIN work = Requests /\ \A r \in Requests : WorkOK(call[r], work[r])

SInv == IInv /\ StoreOK /\ FormsOK /\ WorksOK

(* No page sends a secret among its inputs. *)
LEMMA PageKeys == \A g \in Groups : ToSet(KeysOf[g]) \subseteq Settable \ Secrets
<1>1. Settable = {"firm_name", "email_provider", "emailit_api_key", "email_from", "public_url", "share_enabled",
          "share_public_url", "sms_provider", "twilio_account_sid", "twilio_auth_token", "twilio_from"}
  BY DEF Settable, ToSet, Keys
<1>2. /\ ToSet(KeysOf["general"]) = {"firm_name"}
      /\ ToSet(KeysOf["email"]) = {"email_provider", "email_from", "public_url"}
      /\ ToSet(KeysOf["sharing"])
           = {"share_enabled", "share_public_url", "sms_provider", "twilio_account_sid", "twilio_from"}
  BY DEF ToSet, KeysOf
<1>3. Groups \subseteq {"general", "email", "sharing"}
  BY SettingsAssumption DEF KeysOf
<1> QED BY <1>1, <1>2, <1>3 DEF Secrets

LEMMA TextsOf == /\ \A k \in Settable : Values[k] \subseteq Texts
                 /\ Secrets \subseteq Settable
                 /\ \A k \in Settable : Defaults[k] \in Texts
                 /\ Blank \in Texts
<1>1. Secrets \subseteq Settable
  BY DEF Secrets, Settable, ToSet, Keys
<1>2. ASSUME NEW k \in Settable, NEW v \in Values[k] PROVE v \in Texts
  <2>1. Values[k] \in {Values[j] : j \in Settable}
    OBVIOUS
  <2>2. v \in UNION {Values[j] : j \in Settable}
    BY <2>1
  <2> QED BY <2>2 DEF Texts
<1>3. {Blank, "none", "off"} \subseteq Texts
  BY DEF Texts
<1>4. \A k \in Settable : Defaults[k] \in {Blank, "none", "off"}
  BY DEF Defaults
<1> QED BY <1>1, <1>2, <1>3, <1>4

LEMMA NoWorkOK == ASSUME NEW c, c.kind \notin {"load", "save", "import"} PROVE WorkOK(c, NoWork)
BY DEF WorkOK, NoWork, WorkFields

LEMMA NoFormOK == FormOK(NoForm) /\ NoForm.group = "none"
BY TextsOf DEF FormOK, NoForm, FormFields

(* A call that stays what it is, or is forgotten, or never was one of the settings'. *)
Steady(c, d) ==
  \/ d = Idle
  \/ /\ d.kind = c.kind
     /\ d.kind = "load" /\ d.pc = "answered" /\ d.status = "ok" => c.pc = "answered" /\ c.status = "ok"
  \/ c.kind \notin PageReads \cup PageCommands /\ d.kind \notin PageReads \cup PageCommands

LEMMA SteadyWork ==
  ASSUME NEW c, NEW d, NEW w, WorkOK(c, w), Steady(c, d) PROVE WorkOK(d, IF d = Idle THEN NoWork ELSE w)
<1> USE SettingsAssumption
<1>1. CASE d = Idle
  BY <1>1, NoWorkOK DEF Idle
<1>2. CASE d # Idle /\ d.kind = c.kind
           /\ (d.kind = "load" /\ d.pc = "answered" /\ d.status = "ok" => c.pc = "answered" /\ c.status = "ok")
  BY <1>2 DEF WorkOK, WriteOK
<1>3. CASE d # Idle /\ c.kind \notin PageReads \cup PageCommands /\ d.kind \notin PageReads \cup PageCommands
  <2>1. w = NoWork
    BY <1>3 DEF WorkOK
  <2> QED BY <1>3, <2>1, NoWorkOK
<1> QED BY <1>1, <1>2, <1>3 DEF Steady

(* One call and its handler move. *)
LEMMA OneWork ==
  ASSUME SInv, NEW r \in Requests, NEW c, NEW w, call' = [call EXCEPT ![r] = c], work' = [work EXCEPT ![r] = w],
         WorkOK(c, w)
  PROVE  WorksOK'
BY DEF SInv, IInv, WorksOK

LEMMA OnlyWork ==
  ASSUME SInv, NEW r \in Requests, NEW w, call' = call, work' = [work EXCEPT ![r] = w], WorkOK(call[r], w)
  PROVE  WorksOK'
BY DEF SInv, IInv, WorksOK

LEMMA OnlyCall ==
  ASSUME SInv, NEW r \in Requests, NEW c, call' = [call EXCEPT ![r] = c], work' = work, WorkOK(c, work[r])
  PROVE  WorksOK'
BY DEF SInv, IInv, WorksOK

LEMMA OneForm ==
  ASSUME SInv, NEW t \in Tabs, NEW f, form' = [form EXCEPT ![t] = f], tab' = tab, FormOK(f),
         f.group # "none" => Shows(tab[t], "admin")
  PROVE  FormsOK'
BY DEF SInv, FormsOK

LEMMA SameForms == ASSUME SInv, form' = form, tab' = tab PROVE FormsOK'
BY DEF SInv, FormsOK

LEMMA SameStore == ASSUME SInv, stored' = stored, profiles' = profiles PROVE StoreOK'
BY DEF SInv, StoreOK

(* What a handler answers is the call it was. *)
LEMMA DoneIs ==
  ASSUME IInv, NEW r \in Requests, NEW status, PageDone(r, status)
  PROVE  \E c : /\ call' = [call EXCEPT ![r] = c]
                /\ c.kind = call[r].kind /\ c.pc = "answered" /\ c.status = status /\ c # Idle
<1> DEFINE c == [call[r] EXCEPT !.pc = "answered", !.status = status]
<1>1. call[r] \in Calls
  BY DEF IInv
<1>2. call' = [call EXCEPT ![r] = c]
  BY DEF PageDone, Answer, IInv
<1>3. c.kind = call[r].kind /\ c.pc = "answered" /\ c.status = status
  BY <1>1 DEF Calls
<1>4. c # Idle
  <2>1. Idle.pc = "idle"
    BY DEF Idle
  <2> QED BY <1>3, <2>1
<1> HIDE DEF c
<1> QED BY <1>2, <1>3, <1>4

LEMMA SentIs ==
  ASSUME IInv, NEW r \in Requests, NEW t \in Tabs, NEW k, PageCall(r, t, k)
  PROVE  \E c : call' = [call EXCEPT ![r] = c] /\ c.kind = k /\ c.pc = "sent" /\ c.tab = t
<1> DEFINE c == Call(t, k)
<1>1. call' = [call EXCEPT ![r] = c]
  BY DEF PageCall, Send
<1>2. c.kind = k /\ c.pc = "sent" /\ c.tab = t
  BY DEF Call, Idle
<1> HIDE DEF c
<1> QED BY <1>1, <1>2

(* The steps in which no settings page takes part leave every call steady. *)
Others == \A q \in Requests : Steady(call[q], call'[q])

LEMMA OneSteady ==
  ASSUME NEW r \in Requests, \A q \in Requests \ {r} : call'[q] = call[q], Steady(call[r], call'[r]) PROVE Others
BY DEF Others, Steady

LEMMA ServeSteady == ASSUME IInv, NEW r \in Requests, Serve(r) PROVE Others
<1> USE SettingsAssumption
<1>1. call \in [Requests -> Calls] /\ call[r] \in Calls /\ CallOK(call[r], session)
  BY DEF IInv
<1>2. CASE TurnAway(r) \/ Refuse(r)
  <2>1. /\ \A q \in Requests \ {r} : call'[q] = call[q]
        /\ call'[r].kind = call[r].kind /\ call'[r].status # "ok"
    BY <1>1, <1>2 DEF TurnAway, Refuse, Answer, Calls
  <2> QED BY <2>1, OneSteady DEF Steady
<1>3. CASE Identify(r) \/ TellStatus(r) \/ CheckPassword(r) \/ EndSession(r)
  <2>1. /\ \A q \in Requests \ {r} : call'[q] = call[q]
        /\ call'[r].kind = call[r].kind /\ call[r].kind \in {"me", "status", "login", "logout"}
    BY <1>1, <1>3 DEF Identify, TellStatus, CheckPassword, EndSession, Admitted, Answer, Calls
  <2> QED BY <2>1, OneSteady DEF Steady
<1>4. CASE Admit(r)
  <2>1. /\ \A q \in Requests \ {r} : call'[q] = call[q]
        /\ call'[r].kind = call[r].kind /\ call'[r].pc # "answered"
    BY <1>1, <1>4 DEF Admit, Calls
  <2> QED BY <2>1, OneSteady DEF Steady
<1>5. CASE SetPassword(r) \/ UpdateUser(r)
  <2>1. call[r].kind \in {"password", "user"}
    BY <1>5 DEF SetPassword, UpdateUser, Admitted
  <2>2. /\ \A q \in Requests \ {r} : call'[q] = call[q]
        /\ call'[r].kind = call[r].kind
    BY <1>1, <1>5 DEF SetPassword, UpdateUser, Answer, Calls
  <2> QED BY <2>1, <2>2, OneSteady DEF Steady
<1>6. CASE EndSessions(r)
  <2>1. call[r].kind \in {"password", "user"}
    BY <1>1, <1>6 DEF EndSessions, CallOK, AdmittedOK
  <2>2. /\ \A q \in Requests \ {r} : call'[q] = call[q]
        /\ call'[r].kind = call[r].kind
    BY <1>1, <1>6 DEF EndSessions, Answer, Calls
  <2> QED BY <2>1, <2>2, OneSteady DEF Steady
<1>7. ASSUME NEW s \in Sessions, CreateSession(r, s) PROVE Others
  <2>1. call[r].kind = "login"
    BY <1>1, <1>7 DEF CreateSession, CallOK, AnswerOK
  <2>2. /\ \A q \in Requests \ {r} : call'[q] = call[q]
        /\ call'[r].kind = call[r].kind
    BY <1>1, <1>7 DEF CreateSession, Answer, Calls
  <2> QED BY <2>1, <2>2, OneSteady DEF Steady
<1> QED BY <1>2, <1>3, <1>4, <1>5, <1>6, <1>7 DEF Serve, Others

LEMMA HearSteady == ASSUME IInv, NEW r \in Requests, Hear(r) PROVE Others
<1> USE SettingsAssumption, WebSessionAssumption
<1>1. call \in [Requests -> Calls] /\ call[r] \in Calls
  BY DEF IInv
<1>2. CASE Free(r)
  <2>1. (\A q \in Requests \ {r} : call'[q] = call[q]) /\ call'[r] = Idle
    BY <1>1, <1>2 DEF Free
  <2> QED BY <2>1, OneSteady DEF Steady
<1>3. CASE Again(r, "status") \/ Again(r, "me")
  <2>1. call[r].kind \in {"me", "status", "login", "logout", "password"}
    BY DEF Hear, HearMe, HearStatus, HearSignIn, HearSignOut, HearPassword, Heard
  <2>2. ASSUME NEW kind, Again(r, kind)
        PROVE  (\A q \in Requests \ {r} : call'[q] = call[q]) /\ call'[r].kind = kind
    <3> DEFINE c == [Call(call[r].tab, kind) EXCEPT !.boot = call[r].boot]
    <3>1. c.kind = kind
      BY DEF Call, Idle
    <3>2. call' = [call EXCEPT ![r] = c]
      BY <2>2 DEF Again
    <3> HIDE DEF c
    <3> QED BY <1>1, <3>1, <3>2
  <2>3. /\ \A q \in Requests \ {r} : call'[q] = call[q]
        /\ call'[r].kind \in {"me", "status"}
    BY <1>3, <2>2
  <2> QED BY <2>1, <2>3, OneSteady DEF Steady
<1> QED BY <1>2, <1>3 DEF Hear, HearMe, HearStatus, HearSignIn, HearSignOut, HearPassword

LEMMA OrphanSteady == ASSUME NEW c \in Calls PROVE Steady(c, Orphan(c))
BY DEF Steady, Orphan, Calls

LEMMA LoseSteady == ASSUME IInv, NEW r \in Requests, Lose(r) PROVE Others
<1>1. call \in [Requests -> Calls] /\ Steady(call[r], Orphan(call[r]))
  BY OrphanSteady DEF IInv
<1> QED BY <1>1, OneSteady DEF Lose

(* A slot that takes a call of another kind was free. *)
LEMMA BeginSteady ==
  ASSUME IInv, NEW r \in Requests, NEW c, Send(r, c), c.kind \in {"login", "logout", "password", "user"} PROVE Others
<1> USE SettingsAssumption, WebSessionAssumption
<1>1. (\A q \in Requests \ {r} : call'[q] = call[q]) /\ call'[r] = c /\ call[r].kind = "none"
  BY DEF IInv, Send, Idle
<1> QED BY <1>1, OneSteady DEF Steady

LEMMA LoadSteady ==
  ASSUME IInv, NEW r \in Requests, NEW t \in Tabs, NEW jar, Load(r, t, jar) PROVE Others
<1> USE SettingsAssumption, WebSessionAssumption
<1>1. ASSUME NEW q \in Requests PROVE Steady(call[q], call'[q])
  <2>1. CASE q = r
    <3>1. call[r].kind = "none" /\ call'[r] = [Call(t, "me") EXCEPT !.boot = TRUE, !.as = None, !.cookie = jar]
      BY DEF Load, Idle
    <3>2. call'[r].kind = "me"
      BY <3>1 DEF Call, Idle
    <3> QED BY <2>1, <3>1, <3>2 DEF Steady
  <2>2. CASE q # r
    <3>1. call'[q] = Orphan(call[q]) \/ call'[q] = call[q]
      BY <2>2 DEF Load
    <3>2. Steady(call[q], call[q])
      BY DEF Steady
    <3> QED BY <3>1, <3>2, OrphanSteady DEF IInv
  <2> QED BY <2>1, <2>2
<1> QED BY <1>1 DEF Others

LEMMA BrowserSteady ==
  ASSUME IInv, NEW r \in Requests, NEW t \in Tabs, Navigate(r, t) \/ Act(r, t) PROVE Others
<1>1. ASSUME NEW kind, kind \in {"login", "logout", "password", "user"}
      PROVE  /\ Call(t, kind).kind = kind
             /\ \A u : [Call(t, kind) EXCEPT !.target = u].kind = kind
             /\ \A u, op : [Call(t, kind) EXCEPT !.target = u, !.op = op].kind = kind
  BY DEF Call, Idle
<1>2. CASE Act(r, t)
  <2>1. \E c : Send(r, c) /\ c.kind \in {"login", "logout", "password", "user"}
    <3>1. CASE SignOut(r, t) \/ ChangePassword(r, t)
      BY <3>1, <1>1 DEF SignOut, ChangePassword
    <3>2. ASSUME NEW u \in Users, SignIn(r, t, u) PROVE \E c : Send(r, c) /\ c.kind \in {"login", "logout", "password", "user"}
      <4> DEFINE c == [Call(t, "login") EXCEPT !.target = u]
      <4>1. Send(r, c) /\ c.kind = "login"
        BY <3>2, <1>1 DEF SignIn
      <4> HIDE DEF c
      <4> QED BY <4>1
    <3>3. ASSUME NEW u \in Users, NEW op \in UserOps, ManageUser(r, t, u, op) PROVE \E c : Send(r, c) /\ c.kind \in {"login", "logout", "password", "user"}
      <4> DEFINE c == [Call(t, "user") EXCEPT !.target = u, !.op = op]
      <4>1. Send(r, c) /\ c.kind = "user"
        BY <3>3, <1>1 DEF ManageUser
      <4> HIDE DEF c
      <4> QED BY <4>1
    <3> QED BY <1>2, <3>1, <3>2, <3>3 DEF Act
  <2> QED BY <2>1, BeginSteady
<1>3. CASE Navigate(r, t)
  BY <1>3, LoadSteady DEF Navigate, Open, SsoSignIn, SsoSignOut
<1> QED BY <1>2, <1>3

PartsOK == StoreOK /\ FormsOK /\ WorksOK

LEMMA ElsewhereStep == ASSUME SInv, Elsewhere PROVE PartsOK'
<1>1. Others
  <2>1. ASSUME NEW s \in Sessions, Expire(s) PROVE Others
    BY <2>1 DEF Expire, Others, Steady
  <2> QED BY <2>1, ServeSteady, HearSteady, BrowserSteady DEF Elsewhere, SInv
<1>2. ASSUME NEW r \in Requests PROVE WorkOK(call'[r], work'[r])
  <2>1. work'[r] = IF call'[r] = Idle THEN NoWork ELSE work[r]
    BY DEF Elsewhere, Waited
  <2>2. WorkOK(call[r], work[r]) /\ Steady(call[r], call'[r])
    BY <1>1 DEF SInv, WorksOK, Others
  <2> QED BY <2>1, <2>2, SteadyWork
<1>3. WorksOK'
  BY <1>2 DEF WorksOK, Elsewhere, Waited
<1>4. FormsOK'
  BY NoFormOK DEF SInv, FormsOK, Elsewhere, Mounted
<1> QED BY <1>3, <1>4, SameStore DEF PartsOK, Elsewhere

LEMMA LoseCallStep == ASSUME SInv, NEW r \in Requests, LoseCall(r) PROVE PartsOK'
<1>1. Others
  BY LoseSteady DEF LoseCall, SInv
<1>2. ASSUME NEW q \in Requests PROVE WorkOK(call'[q], work'[q])
  <2>1. work'[q] = IF call'[q] = Idle THEN NoWork ELSE work[q]
    BY DEF LoseCall, Waited
  <2>2. WorkOK(call[q], work[q]) /\ Steady(call[q], call'[q])
    BY <1>1 DEF SInv, WorksOK, Others
  <2> QED BY <2>1, <2>2, SteadyWork
<1>3. WorksOK'
  BY <1>2 DEF WorksOK, LoseCall, Waited
<1>4. FormsOK'
  BY NoFormOK DEF SInv, FormsOK, LoseCall
<1> QED BY <1>3, <1>4, SameStore DEF PartsOK, LoseCall

LEMMA IdleWork == WorkOK(Idle, NoWork)
BY NoWorkOK DEF Idle

LEMMA DropCallStep == ASSUME SInv, NEW r \in Requests, DropCall(r) PROVE PartsOK'
<1>1. WorksOK'
  BY IdleWork, OneWork DEF DropCall, Drop, Free, Pending
<1> QED BY <1>1, SameStore, SameForms DEF PartsOK, DropCall, Drop

-----------------------------------------------------------------------------
(* The pages. *)

LEMMA OpenFormStep == ASSUME SInv, NEW r \in Requests, NEW t \in Tabs, NEW g \in Groups, OpenForm(r, t, g) PROVE PartsOK'
<1> USE SettingsAssumption
<1>1. PICK c : call' = [call EXCEPT ![r] = c] /\ c.kind = "load" /\ c.pc = "sent" /\ c.tab = t
  BY SentIs DEF OpenForm, SInv
<1>2. WorkOK(c, [NoWork EXCEPT !.group = g])
  BY <1>1 DEF WorkOK, NoWork, WorkFields
<1>3. WorksOK'
  BY <1>1, <1>2, OneWork DEF OpenForm, Pending
<1>4. FormsOK'
  BY NoFormOK, OneForm DEF OpenForm, PageCall
<1> QED BY <1>3, <1>4, SameStore DEF PartsOK, OpenForm

LEMMA ImportStep == ASSUME SInv, NEW r \in Requests, NEW t \in Tabs, NEW f \in Imports, Import(r, t, f) PROVE PartsOK'
<1> USE SettingsAssumption
<1>1. PICK c : call' = [call EXCEPT ![r] = c] /\ c.kind = "import" /\ c.pc = "sent" /\ c.tab = t
  BY SentIs DEF Import, SInv
<1>2. WorkOK(c, [NoWork EXCEPT !.stage = "import", !.mode = f.mode, !.profiles = f.profiles, !.seen = f.settings])
  BY <1>1 DEF WorkOK, NoWork, WorkFields
<1>3. WorksOK'
  BY <1>1, <1>2, OneWork DEF Import, Pending
<1>4. FormsOK'
  BY NoFormOK, OneForm DEF Import, PageCall
<1> QED BY <1>3, <1>4, SameStore DEF PartsOK, Import

LEMMA SendLinkStep ==
  ASSUME SInv, NEW r \in Requests, NEW t \in Tabs, NEW channel, SendLink(r, t, channel) PROVE PartsOK'
<1> USE SettingsAssumption
<1>1. PICK c : call' = [call EXCEPT ![r] = c] /\ c.kind = "link" /\ c.pc = "sent" /\ c.tab = t
  BY SentIs DEF SendLink, SInv
<1>2. WorkOK(c, [NoWork EXCEPT !.stage = "check", !.group = channel])
  BY <1>1 DEF WorkOK, NoWork, WorkFields
<1>3. WorksOK'
  BY <1>1, <1>2, OneWork DEF SendLink, Pending
<1>4. FormsOK'
  BY NoFormOK, OneForm DEF SendLink, PageCall
<1> QED BY <1>3, <1>4, SameStore DEF PartsOK, SendLink

(* The secret is among what a form sends only when the form was touched. *)
LEMMA Sends ==
  ASSUME NEW f, FormOK(f), f.group # "none"
  PROVE  LET keys == KeysOf[f.group]
             writes == [i \in DOMAIN keys |-> [key |-> keys[i], value |-> f.inputs[keys[i]]]] \o SecretSent(f)
         IN  \A i \in DOMAIN writes : writes[i].value \in Texts /\ (writes[i].key \in Secrets => f.touched)
<1> DEFINE keys == KeysOf[f.group]
           inputs == [i \in DOMAIN keys |-> [key |-> keys[i], value |-> f.inputs[keys[i]]]]
           secret == SecretSent(f)
<1>1. f.group \in Groups /\ f.inputs \in [ToSet(keys) -> Texts]
  BY DEF FormOK
<1>2. \A i \in DOMAIN keys : keys[i] \in ToSet(keys)
  BY DEF ToSet
<1>3. \A i \in DOMAIN inputs : inputs[i].value \in Texts /\ inputs[i].key \notin Secrets
  <2>1. ToSet(keys) \subseteq Settable \ Secrets
    BY <1>1, PageKeys
  <2> QED BY <1>1, <1>2, <2>1
<1>4. inputs \in Seq([key : Settable, value : Texts])
  <2>1. DOMAIN keys = 1..Len(keys) /\ Len(keys) \in Nat
    <3>1. f.group \in {"general", "email", "sharing"}
      BY <1>1, SettingsAssumption DEF KeysOf
    <3> QED BY <3>1 DEF KeysOf
  <2>2. \A i \in DOMAIN keys : keys[i] \in Settable
    BY <1>1, <1>2, PageKeys
  <2> HIDE DEF keys
  <2>3. \A i \in 1..Len(keys) : [key |-> keys[i], value |-> f.inputs[keys[i]]] \in [key : Settable, value : Texts]
    BY <1>1, <1>2, <2>1, <2>2
  <2>4. inputs = [i \in 1..Len(keys) |-> [key |-> keys[i], value |-> f.inputs[keys[i]]]]
    BY <2>1
  <2> QED BY <2>1, <2>3, <2>4
<1>5. \/ secret = <<>>
      \/ \E x : secret = <<x>> /\ x.value \in Texts /\ f.touched
  BY TextsOf DEF SecretSent, FormOK
<1>6. ASSUME NEW i \in DOMAIN (inputs \o secret)
      PROVE  (inputs \o secret)[i].value \in Texts /\ ((inputs \o secret)[i].key \in Secrets => f.touched)
  <2> HIDE DEF inputs, secret, keys
  <2>1. CASE secret = <<>>
    BY <1>3, <1>4, <2>1
  <2>2. ASSUME NEW x, secret = <<x>>, x.value \in Texts, f.touched
        PROVE  (inputs \o secret)[i].value \in Texts
    <3>1. CASE i \in DOMAIN inputs
      BY <1>3, <1>4, <2>2, <3>1
    <3>2. CASE i \notin DOMAIN inputs
      BY <1>4, <2>2, <3>2
    <3> QED BY <3>1, <3>2
  <2> QED BY <1>5, <2>1, <2>2
<1> QED BY <1>6

LEMMA SaveStep == ASSUME SInv, NEW r \in Requests, NEW t \in Tabs, Save(r, t) PROVE PartsOK'
<1> USE SettingsAssumption
<1> DEFINE f == form[t]  keys == KeysOf[f.group]
           writes == [i \in DOMAIN keys |-> [key |-> keys[i], value |-> f.inputs[keys[i]]]] \o SecretSent(f)
           w == [NoWork EXCEPT !.stage = "check", !.group = f.group, !.touched = f.touched, !.writes = writes]
<1>1. PICK c : call' = [call EXCEPT ![r] = c] /\ c.kind = "save" /\ c.pc = "sent" /\ c.tab = t
  BY SentIs DEF Save, SInv
<1>2. FormOK(f) /\ f.group # "none"
  BY DEF Save, HasForm, SInv, FormsOK
<1>3. \A i \in DOMAIN writes : writes[i].value \in Texts /\ (writes[i].key \in Secrets => f.touched)
  BY <1>2, Sends
<1>4. w.group = f.group /\ w.touched = f.touched /\ w.writes = writes /\ DOMAIN w = WorkFields
  BY DEF NoWork, WorkFields
<1>5. work' = [work EXCEPT ![r] = w]
  BY DEF Save, Pending
<1>6. f.group \in Groups
  BY <1>2 DEF FormOK
<1> HIDE DEF w, writes
<1>7. WorkOK(c, w)
  BY <1>1, <1>3, <1>4, <1>6 DEF WorkOK, WriteOK
<1>8. WorksOK'
  BY <1>1, <1>5, <1>7, OneWork
<1> QED BY <1>8, SameForms, SameStore DEF PartsOK, Save, PageCall

LEMMA EditFormOK ==
  ASSUME SInv, NEW t \in Tabs, NEW f, HasForm(t), EditForm(t, f), FormOK(f), f.group = form[t].group
  PROVE  PartsOK'
<1>1. tab' = tab /\ call' = call /\ form' = [form EXCEPT ![t] = f]
  BY DEF EditForm, vars
<1>2. Shows(tab[t], "admin")
  BY DEF SInv, FormsOK, HasForm
<1>3. FormsOK'
  BY <1>1, <1>2, OneForm
<1>4. WorksOK'
  BY <1>1 DEF SInv, WorksOK, EditForm
<1> QED BY <1>3, <1>4, SameStore DEF PartsOK, EditForm

LEMMA EditStep == ASSUME SInv, NEW t \in Tabs, Edit(t) PROVE PartsOK'
<1> USE SettingsAssumption
<1> DEFINE f == form[t]
<1>1. CASE ~HasForm(t)
  BY <1>1 DEF Edit, TypeInput, TypeSecret, TickRemove
<1>2. CASE HasForm(t)
  <2>1. FormOK(f) /\ f.group # "none" /\ DOMAIN f = FormFields
    BY <1>2 DEF SInv, FormsOK, HasForm, FormOK
  <2> HIDE DEF f
  <2>2. ASSUME NEW k \in Settable, NEW v \in Values[k], TypeInput(t, k, v) PROVE PartsOK'
    <3>1. v \in Texts
      BY TextsOf
    <3>2. EditForm(t, [f EXCEPT !.inputs[k] = v])
      BY <2>2 DEF TypeInput, f
    <3>3. FormOK([f EXCEPT !.inputs[k] = v]) /\ [f EXCEPT !.inputs[k] = v].group = f.group
      BY <2>1, <3>1 DEF FormOK, FormFields
    <3> QED BY <1>2, <3>2, <3>3, EditFormOK DEF f
  <2>3. ASSUME NEW s \in Secrets, NEW v \in Values[s], TypeSecret(t, v) PROVE PartsOK'
    <3>1. v \in Texts
      BY TextsOf
    <3>2. EditForm(t, [f EXCEPT !.key = v, !.touched = v # Blank]) /\ ~f.clear
      BY <2>3 DEF TypeSecret, f
    <3>3. /\ FormOK([f EXCEPT !.key = v, !.touched = v # Blank])
          /\ [f EXCEPT !.key = v, !.touched = v # Blank].group = f.group
      BY <2>1, <3>1, <3>2 DEF FormOK, FormFields
    <3> QED BY <1>2, <3>2, <3>3, EditFormOK DEF f
  <2>4. CASE TickRemove(t)
    <3> DEFINE g == [f EXCEPT !.clear = ~f.clear, !.touched = ~f.clear \/ f.key # Blank]
    <3>1. EditForm(t, g)
      <4>1. [f EXCEPT !.clear = ~@, !.touched = ~f.clear \/ f.key # Blank] = g
        OBVIOUS
      <4> QED BY <2>4, <4>1 DEF TickRemove, f
    <3>2. FormOK(g) /\ g.group = f.group
      BY <2>1 DEF FormOK, FormFields
    <3> HIDE DEF g
    <3> QED BY <1>2, <3>1, <3>2, EditFormOK DEF f
  <2> QED BY <2>2, <2>3, <2>4 DEF Edit
<1> QED BY <1>1, <1>2

-----------------------------------------------------------------------------
(* The answers. *)

LEMMA HearSavedStep == ASSUME SInv, NEW r \in Requests, HearSaved(r) PROVE PartsOK'
<1> USE SettingsAssumption
<1> DEFINE t == call[r].tab
           c == [Call(t, "load") EXCEPT !.boot = call[r].boot]
           w == [NoWork EXCEPT !.group = work[r].group]
<1>1. t \in Tabs
  BY Waiting DEF SInv, HearSaved, HearThenRead
<1>2. call' = [call EXCEPT ![r] = c] /\ c.kind = "load" /\ c.pc = "sent"
  BY DEF HearSaved, HearThenRead, Again, Call, Idle
<1>3. work[r].group \in Groups
  BY DEF SInv, WorksOK, WorkOK, HearSaved
<1> HIDE DEF c
<1>4. WorkOK(c, w)
  BY <1>2, <1>3 DEF WorkOK, NoWork, WorkFields
<1>5. WorksOK'
  BY <1>2, <1>4, OneWork DEF HearSaved, Pending
<1>6. FormOK(form[t]) /\ (form[t].group # "none" => Shows(tab[t], "admin")) /\ DOMAIN form = Tabs
  BY <1>1 DEF SInv, FormsOK
<1> DEFINE g == [Saved(form[t]) EXCEPT !.touched = FALSE]
           f == IF form[t].group = work[r].group THEN g ELSE form[t]
<1>7. FormOK(g) /\ g.group = form[t].group
  BY <1>6, TextsOf DEF FormOK, Saved, FormFields
<1>8. form' = [form EXCEPT ![t] = f]
  BY <1>1, <1>6 DEF HearSaved
<1> HIDE DEF g, t
<1>9. FormOK(f) /\ f.group = form[t].group
  BY <1>6, <1>7
<1>10. FormsOK'
  <2> HIDE DEF f
  <2> QED BY <1>1, <1>6, <1>8, <1>9, OneForm DEF HearSaved, HearThenRead
<1> QED BY <1>5, <1>10, SameStore DEF PartsOK, HearSaved

LEMMA HearLoadStep == ASSUME SInv, NEW r \in Requests, HearLoad(r) PROVE PartsOK'
<1> USE SettingsAssumption
<1> DEFINE t == call[r].tab
<1>1. t \in Tabs /\ call[r].kind = "load" /\ call[r].pc = "answered"
  BY Waiting DEF SInv, HearLoad, HearPage, Heard
<1>2. FormOK(form[t])
  BY <1>1 DEF SInv, FormsOK
<1>3. WorkOK(call[r], work[r])
  BY DEF SInv, WorksOK
<1>4. WorksOK'
  BY IdleWork, OneWork DEF HearLoad, HearPage, Free, Pending
<1> DEFINE old == [form[t] EXCEPT !.known = work[r].known]
           new == [NoForm EXCEPT !.group = work[r].group, !.inputs = work[r].seen, !.known = work[r].known]
           f == IF call[r].status # "ok" \/ ~Shows(tab[t], "admin") THEN NoForm
                ELSE IF form[t].group = work[r].group THEN old ELSE new
<1>5. FormOK(old)
  BY <1>2 DEF FormOK, FormFields
<1>6. call[r].status = "ok" => FormOK(new)
  BY <1>1, <1>3, TextsOf DEF FormOK, FormFields, WorkOK, NoForm
<1>7. form' = [form EXCEPT ![t] = f]
  BY DEF HearLoad
<1>8. FormOK(f) /\ (f.group # "none" => Shows(tab[t], "admin"))
  <2> HIDE DEF old, new, t
  <2> QED BY <1>5, <1>6, NoFormOK
<1>9. FormsOK'
  <2> HIDE DEF f
  <2> QED BY <1>1, <1>7, <1>8, OneForm DEF HearLoad, HearPage
<1> QED BY <1>4, <1>9, SameStore DEF PartsOK, HearLoad

LEMMA HearOtherStep == ASSUME SInv, NEW r \in Requests, HearOther(r) PROVE PartsOK'
<1>1. WorksOK'
  BY IdleWork, OneWork DEF HearOther, HearPage, Free, Pending
<1> QED BY <1>1, SameStore, SameForms DEF PartsOK, HearOther, HearPage

-----------------------------------------------------------------------------
(* The handlers. *)

(* Answering any call but a load brings nothing. *)
LEMMA DoneStep ==
  ASSUME SInv, NEW r \in Requests, NEW status, Done(r, status), work' = work, call[r].kind # "load", StoreOK'
  PROVE  PartsOK'
<1>1. PICK c : call' = [call EXCEPT ![r] = c] /\ c.kind = call[r].kind /\ c # Idle
  BY DoneIs DEF Done, SInv
<1>2. WorkOK(c, work[r])
  BY <1>1 DEF SInv, WorksOK, WorkOK, WriteOK
<1>3. WorksOK'
  BY <1>1, <1>2, OnlyCall
<1> QED BY <1>3, SameForms DEF PartsOK, Done, PageDone

(* A handler that goes on with less to write, or the same. *)
LEMMA GoOnStep ==
  ASSUME SInv, NEW r \in Requests, NEW w, Pending(r, w), Rows, StoreOK', WorkOK(call[r], w) PROVE PartsOK'
<1>1. tab' = tab /\ call' = call /\ form' = form
  BY DEF Rows, vars
<1> QED BY <1>1, OnlyWork, SameForms DEF PartsOK, Pending

LEMMA ReadSettingsStep == ASSUME SInv, NEW r \in Requests, ReadSettings(r) PROVE PartsOK'
<1> DEFINE g == work[r].group
           seen == [k \in ToSet(KeysOf[g]) |-> stored[k]]
           known == SecretOf[g] # None /\ stored[SecretOf[g]] # Blank
           w == [work[r] EXCEPT !.seen = seen, !.known = known]
<1>1. PICK c : call' = [call EXCEPT ![r] = c] /\ c.kind = "load"
  BY DoneIs DEF Done, SInv, ReadSettings, Admitted
<1>2. WorkOK(call[r], work[r]) /\ call[r].kind = "load"
  BY DEF SInv, WorksOK, ReadSettings, Admitted
<1>3. g \in Groups
  BY <1>2 DEF WorkOK
<1>4. seen \in [ToSet(KeysOf[g]) -> Texts]
  BY <1>3, PageKeys DEF SInv, StoreOK
<1>5. w.seen = seen /\ w.group = g /\ DOMAIN w = WorkFields /\ w.writes = work[r].writes /\ w.touched = work[r].touched
  <2> HIDE DEF seen, known
  <2> QED BY <1>2 DEF WorkOK, WorkFields
<1>6. work' = [work EXCEPT ![r] = w]
  BY DEF ReadSettings, Pending
<1> HIDE DEF w, seen
<1>7. WorkOK(c, w)
  BY <1>1, <1>2, <1>3, <1>4, <1>5, SettingsAssumption DEF WorkOK, WriteOK
<1>8. WorksOK'
  BY <1>1, <1>6, <1>7, OneWork
<1> QED BY <1>8, SameForms, SameStore DEF PartsOK, ReadSettings, Done, PageDone

(* The stage of a handler says nothing of what it writes. *)
LEMMA StageOK == ASSUME NEW c, NEW w, NEW x, WorkOK(c, w), c.kind \in PageCommands PROVE WorkOK(c, [w EXCEPT !.stage = x])
BY SettingsAssumption DEF WorkOK, WriteOK, WorkFields

LEMMA CheckSaveStep == ASSUME SInv, NEW r \in Requests, CheckSave(r) PROVE PartsOK'
<1>1. call[r].kind = "save" /\ WorkOK(call[r], work[r]) /\ call[r].kind \in PageCommands
  BY SettingsAssumption DEF SInv, WorksOK, CheckSave, At, Admitted
<1>2. StoreOK'
  BY SameStore DEF CheckSave
<1> QED BY <1>1, <1>2, StageOK, GoOnStep, DoneStep DEF CheckSave

LEMMA WriteKeyStep == ASSUME SInv, NEW r \in Requests, NEW i, WriteKey(r, i) PROVE PartsOK'
<1> DEFINE w == work[r].writes
           v == [work[r] EXCEPT !.writes = [j \in DOMAIN w \ {i} |-> w[j]]]
<1>1. WorkOK(call[r], work[r]) /\ i \in DOMAIN w
  BY DEF SInv, WorksOK, WriteKey
<1>2. w[i].value \in Texts
  BY <1>1 DEF WorkOK, WriteOK
<1>3. StoreOK'
  BY <1>2 DEF SInv, StoreOK, WriteKey
<1>4. /\ \A j \in DOMAIN v.writes : j \in DOMAIN w /\ v.writes[j] = w[j]
      /\ DOMAIN v = WorkFields /\ v.group = work[r].group /\ v.seen = work[r].seen
      /\ v.profiles = work[r].profiles /\ v.touched = work[r].touched
  BY <1>1 DEF WorkOK, WorkFields
<1>5. call[r].kind \in PageReads \cup PageCommands
  <2>1. work[r] # NoWork
    BY <1>1 DEF NoWork
  <2> QED BY <1>1, <2>1 DEF WorkOK
<1>6. Pending(r, v) /\ Rows
  BY DEF WriteKey
<1> HIDE DEF v
<1>7. WorkOK(call[r], v)
  BY <1>1, <1>4, <1>5 DEF WorkOK, WriteOK
<1> QED BY <1>3, <1>6, <1>7, GoOnStep

LEMMA SaveDoneStep == ASSUME SInv, NEW r \in Requests, SaveDone(r) PROVE PartsOK'
BY SameStore, DoneStep DEF SaveDone, At, Admitted

LEMMA BeginImportStep == ASSUME SInv, NEW r \in Requests, BeginImport(r) PROVE PartsOK'
<1> DEFINE w == work[r]
           writes == [i \in {n \in DOMAIN Keys : Keys[n] \in Importable(w)} |->
                       [key |-> Keys[i], value |-> IF Keys[i] \in DOMAIN w.seen THEN w.seen[Keys[i]] ELSE Defaults[Keys[i]]]]
           v == [w EXCEPT !.stage = "write", !.writes = writes]
<1>1. WorkOK(call[r], w) /\ call[r].kind = "import" /\ call[r].kind \in PageCommands
  BY SettingsAssumption DEF SInv, WorksOK, BeginImport, At, Admitted
<1>2. \A i \in DOMAIN writes : writes[i].value \in Texts /\ writes[i].key \notin Secrets
  BY <1>1, TextsOf DEF WorkOK, Importable
<1>3. v.writes = writes /\ DOMAIN v = WorkFields /\ v.seen = w.seen /\ v.profiles = w.profiles
  <2> HIDE DEF writes
  <2> QED BY <1>1 DEF WorkOK, WorkFields
<1>4. Pending(r, v) /\ Rows
  BY DEF BeginImport
<1> HIDE DEF v, writes
<1>5. WorkOK(call[r], v)
  BY <1>1, <1>2, <1>3 DEF WorkOK, WriteOK
<1>6. StoreOK'
  BY SameStore DEF BeginImport
<1> QED BY <1>4, <1>5, <1>6, GoOnStep

LEMMA ImportProfilesStep == ASSUME SInv, NEW r \in Requests, ImportProfiles(r) PROVE PartsOK'
<1>1. WorkOK(call[r], work[r]) /\ call[r].kind \in PageCommands
  BY SettingsAssumption DEF SInv, WorksOK, ImportProfiles, At, Admitted
<1>2. StoreOK'
  BY DEF SInv, StoreOK, ImportProfiles
<1> QED BY <1>1, <1>2, StageOK, GoOnStep DEF ImportProfiles

LEMMA ImportProfileStep == ASSUME SInv, NEW r \in Requests, ImportProfile(r) PROVE PartsOK'
<1> DEFINE left == work[r].profiles
           v == [work[r] EXCEPT !.profiles = Tail(left)]
<1>1. WorkOK(call[r], work[r]) /\ call[r].kind = "import" /\ call[r].kind \in PageCommands
  BY SettingsAssumption DEF SInv, WorksOK, ImportProfile, At, Admitted
<1>2. CASE left = <<>> \/ Head(left) = "bad"
  <2>1. StoreOK'
    BY <1>2, SameStore DEF ImportProfile
  <2>2. \E status : Done(r, status) /\ work' = work
    BY <1>2 DEF ImportProfile
  <2> QED BY <1>1, <2>1, <2>2, DoneStep
<1>3. CASE left # <<>> /\ Head(left) # "bad"
  <2>1. left \in Seq(Profiles \cup {"bad"})
    BY <1>1 DEF WorkOK
  <2>2. Head(left) \in Profiles /\ Tail(left) \in Seq(Profiles \cup {"bad"})
    BY <1>3, <2>1
  <2>3. StoreOK'
    BY <1>3, <2>2 DEF SInv, StoreOK, ImportProfile
  <2>4. Pending(r, v) /\ Rows
    BY <1>3 DEF ImportProfile
  <2>5. WorkOK(call[r], v)
    <3> HIDE DEF left
    <3> QED BY <1>1, <2>2 DEF WorkOK, WriteOK, WorkFields
  <2> QED BY <2>3, <2>4, <2>5, GoOnStep
<1> QED BY <1>2, <1>3

LEMMA LinkStep == ASSUME SInv, NEW r \in Requests, CheckLink(r) \/ ReadAddress(r) \/ DeliverLink(r) PROVE PartsOK'
<1>1. WorkOK(call[r], work[r]) /\ call[r].kind = "link" /\ call[r].kind \in PageCommands
  BY SettingsAssumption DEF SInv, WorksOK, CheckLink, ReadAddress, DeliverLink, At, Admitted
<1>2. StoreOK'
  BY SameStore DEF CheckLink, ReadAddress, DeliverLink
<1>3. CASE CheckLink(r)
  BY <1>1, <1>2, <1>3, StageOK, GoOnStep, DoneStep DEF CheckLink
<1>4. CASE ReadAddress(r)
  <2> DEFINE seen == [k \in {"share_public_url"} |-> WatchAddress]
  <2>1. WorkOK(call[r], [work[r] EXCEPT !.stage = "send", !.seen = seen])
    <3> HIDE DEF seen
    <3> QED BY <1>1, SettingsAssumption DEF WorkOK, WriteOK, WorkFields
  <2> QED BY <1>2, <1>4, <2>1, GoOnStep DEF ReadAddress
<1>5. CASE DeliverLink(r)
  BY <1>1, <1>2, <1>5, DoneStep DEF DeliverLink
<1> QED BY <1>3, <1>4, <1>5

-----------------------------------------------------------------------------
LEMMA SettingsInitHolds == SettingsInit => SInv
<1> SUFFICES ASSUME SettingsInit PROVE SInv
  OBVIOUS
<1>1. IInv
  BY InitHolds DEF SettingsInit
<1>2. StoreOK
  BY SettingsAssumption DEF SettingsInit, StoreOK
<1>3. FormsOK
  BY NoFormOK DEF SettingsInit, FormsOK
<1>4. WorksOK
  BY IdleWork DEF SettingsInit, Init, WorksOK
<1> QED BY <1>1, <1>2, <1>3, <1>4 DEF SInv

LEMMA SettingsNextHolds == SInv /\ [SettingsNext]_allVars => SInv'
<1> SUFFICES ASSUME SInv, [SettingsNext]_allVars PROVE SInv'
  OBVIOUS
<1>1. IInv'
  BY StepIsSession, NextHolds DEF SInv
<1>2. ASSUME NEW r \in Requests, Handle(r) PROVE PartsOK'
  BY <1>2, ReadSettingsStep, CheckSaveStep, WriteKeyStep, SaveDoneStep, BeginImportStep, ImportProfilesStep,
     ImportProfileStep, LinkStep DEF Handle
<1>3. ASSUME NEW r \in Requests, HearSettings(r) PROVE PartsOK'
  BY <1>3, HearSavedStep, HearLoadStep, HearOtherStep DEF HearSettings
<1>4. ASSUME NEW r \in Requests, NEW t \in Tabs, Page(r, t) PROVE PartsOK'
  BY <1>4, OpenFormStep, SaveStep, ImportStep, SendLinkStep DEF Page
<1>5. ASSUME UNCHANGED allVars PROVE PartsOK'
  <2>1. tab' = tab /\ call' = call /\ stored' = stored /\ profiles' = profiles /\ form' = form /\ work' = work
    BY <1>5 DEF allVars, vars, settingVars
  <2>2. WorksOK'
    BY <2>1 DEF SInv, WorksOK
  <2>3. StoreOK'
    BY <2>1, SameStore
  <2>4. FormsOK'
    BY <2>1, SameForms
  <2> QED BY <2>2, <2>3, <2>4 DEF PartsOK
<1>6. ASSUME NEW r \in Requests, LoseCall(r) \/ DropCall(r) PROVE PartsOK'
  BY <1>6, LoseCallStep, DropCallStep
<1>7. ASSUME SettingsNext PROVE PartsOK'
  <2>1. \/ Elsewhere
        \/ \E r \in Requests : Handle(r) \/ HearSettings(r) \/ LoseCall(r) \/ DropCall(r)
        \/ \E r \in Requests : \E t \in Tabs : Page(r, t)
        \/ \E t \in Tabs : Edit(t)
    BY <1>7 DEF SettingsNext
  <2> QED BY <2>1, <1>2, <1>3, <1>4, <1>6, ElsewhereStep, EditStep
<1> QED BY <1>1, <1>5, <1>7 DEF SInv, PartsOK

(* The type invariant of Settings.  A form is on the screen only of a person who may see it, and has
   the inputs of its page; a handler of the settings belongs to a call of theirs. *)
THEOREM SettingsTyped == SettingsSpec => []TypeOK
<1>1. SInv => TypeOK
  BY DEF SInv, IInv, SessionRows, Pages, SessionsTypeOK, StoreOK, FormsOK, FormOK, WorksOK, WorkOK, TypeOK
<1> QED BY <1>1, SettingsInitHolds, SettingsNextHolds, PTL DEF SettingsSpec

LEMMA SecretsAsked ==
  ASSUME SInv, NEW r \in Requests, NEW i \in DOMAIN work[r].writes, work[r].writes[i].key \in Secrets
  PROVE  call[r].kind = "save" /\ work[r].touched
BY DEF SInv, WorksOK, WorkOK, WriteOK

(* A secret is overwritten only by a save whose form an administrator touched it in, however many
   saves and imports overtake each other. *)
THEOREM SecretsStay == SettingsSpec => SecretsKept
<1>1. SInv => \A r \in Requests : \A i \in DOMAIN work[r].writes :
        WriteKey(r, i) /\ work[r].writes[i].key \in Secrets => call[r].kind = "save" /\ work[r].touched
  BY SecretsAsked
<1> QED BY <1>1, SettingsInitHolds, SettingsNextHolds, PTL DEF SettingsSpec, SecretsKept
-----------------------------------------------------------------------------
(***************************************************************************)
(* The page of a job, JobPage.                                             *)
(***************************************************************************)
(* What a GET in flight is, and what it brings. *)
Answers(k) == {Asked} \cup [version : Versions, status : IF k = "job" THEN Statuses ELSE {"stored"}]

CallsOK ==
  /\ DOMAIN calls = Gets
  /\ \A k \in Gets : calls[k] \in Seq(Answers(k)) /\ Len(calls[k]) <= MaxCalls[k]

(* A page that is not there waits for nothing but the job. *)
Bare == /\ calls["script"] = <<>> /\ calls["extraction"] = <<>>
        /\ \A p \in panels : command[p] = NoCommand

JobInv == /\ PageTypeOK /\ CallsOK
          /\ editor.text = Nothing <=> editor.script = Nothing
          /\ OnScreen \/ Bare

(* What counts as sent is on its way: the command that carries it has not been answered. *)
CarriedOK(p) ==
  /\ Busy(p) => command[p].op \in Panel[p].ops
  /\ Text(p) = Sent => Busy(p) /\ command[p].op \in Carries(p)
KeepInv == JobInv /\ \A p \in panels : CarriedOK(p)
-----------------------------------------------------------------------------
LEMMA JobBounds ==
  /\ MaxChanges \in Nat \ {0} /\ MaxLost \in Nat /\ MaxCalls \in [Gets -> Nat \ {0}]
  /\ 0 \in Versions /\ 1 \in Versions /\ Versions \subseteq Nat
  /\ Typed \notin Versions /\ Sent \notin Versions /\ Nothing \notin Versions /\ Failed \notin Versions
  /\ Typed # Sent /\ Typed # Nothing /\ Sent # Nothing
BY JobPageAssumption DEF Versions, Typed, Sent, Nothing, Failed

LEMMA Removed ==
  ASSUME NEW S, NEW s \in Seq(S), NEW i \in DOMAIN s
  PROVE  RemoveAt(s, i) \in Seq(S) /\ Len(RemoveAt(s, i)) = Len(s) - 1
<1>1. Len(s) \in Nat /\ i \in 1..Len(s) BY LenProperties
<1>2. SubSeq(s, 1, i - 1) \in Seq(S) /\ Len(SubSeq(s, 1, i - 1)) = i - 1
  BY <1>1, SubSeqProperties
<1>3. SubSeq(s, i + 1, Len(s)) \in Seq(S) /\ Len(SubSeq(s, i + 1, Len(s))) = Len(s) - i
  BY <1>1, SubSeqProperties
<1> DEFINE before == SubSeq(s, 1, i - 1)
           after == SubSeq(s, i + 1, Len(s))
<1>4. before \in Seq(S) /\ Len(before) = i - 1 BY <1>2
<1>5. after \in Seq(S) /\ Len(after) = Len(s) - i BY <1>3
<1>6. RemoveAt(s, i) = before \o after BY DEF RemoveAt
<1> HIDE DEF before, after
<1>7. before \o after \in Seq(S) /\ Len(before \o after) = Len(before) + Len(after)
  BY <1>4, <1>5, ConcatProperties
<1> QED BY <1>1, <1>4, <1>5, <1>6, <1>7

(* The commands and their statuses. *)
LEMMA Offers ==
  /\ Asked \notin [version : Versions, status : Statuses \cup {"stored"}]
  /\ \A op : Outcome(op) \in Statuses
  /\ \A p \in DOMAIN Panel : Panel[p].ops \subseteq Ops
  /\ \A ps \in PanelSets : ps \subseteq DOMAIN Panel
<1>1. Asked \notin [version : Versions, status : Statuses \cup {"stored"}]
  BY JobBounds DEF Asked
<1>2. \A op : Outcome(op) \in Statuses BY DEF Outcome, Statuses
<1>3. \A p \in DOMAIN Panel : Panel[p].ops \subseteq Ops BY DEF Ops
<1>4. \A ps \in PanelSets : ps \subseteq DOMAIN Panel BY JobPageAssumption DEF Panel
<1> QED BY <1>1, <1>2, <1>3, <1>4

LEMMA JobInit == PageInit => JobInv
<1> SUFFICES ASSUME PageInit PROVE JobInv OBVIOUS
<1>1. PageTypeOK BY JobBounds DEF PageInit, PageTypeOK, NewEditor, NoCommand, Asked, Gets, Statuses
<1>2. CallsOK BY JobBounds DEF PageInit, CallsOK, Answers, Gets
<1>3. Bare BY DEF PageInit, Bare, Gets
<1> QED BY <1>1, <1>2, <1>3 DEF JobInv, PageInit, NewEditor

(* The page: how the calls in flight and the commands move. *)
LEMMA CallGone ==
  ASSUME CallsOK, NEW k \in Gets, NEW i \in DOMAIN calls[k],
         calls' = [calls EXCEPT ![k] = RemoveAt(@, i)]
  PROVE  CallsOK'
<1>1. calls[k] \in Seq(Answers(k)) /\ Len(calls[k]) <= MaxCalls[k] /\ Len(calls[k]) \in Nat
  BY LenProperties DEF CallsOK
<1>2. RemoveAt(calls[k], i) \in Seq(Answers(k)) /\ Len(RemoveAt(calls[k], i)) <= MaxCalls[k]
  BY <1>1, Removed, JobBounds
<1>3. DOMAIN calls' = Gets /\ \A l \in Gets : calls'[l] = IF l = k THEN RemoveAt(calls[k], i) ELSE calls[l]
  BY DEF CallsOK
<1> QED BY <1>2, <1>3 DEF CallsOK, Answers, Versions

LEMMA Asking ==
  ASSUME NEW k \in Gets, NEW s \in Seq(Answers(k)), Len(s) < MaxCalls[k]
  PROVE  Append(s, Asked) \in Seq(Answers(k)) /\ Len(Append(s, Asked)) <= MaxCalls[k]
<1>1. Asked \in Answers(k) BY DEF Answers
<1> QED BY <1>1, AppendProperties, LenProperties, JobBounds

LEMMA Delivery ==
  ASSUME CallsOK, NEW k \in Gets, NEW i, Delivered(k, i)
  PROVE  /\ i \in DOMAIN calls[k]
         /\ calls[k][i].version \in Versions
         /\ k = "job" => calls[k][i].status \in Statuses
<1>1. i \in DOMAIN calls[k] /\ calls[k][i] # Asked BY DEF Delivered
<1>2. calls[k][i] \in Answers(k) BY <1>1, ElementOfSeq, LenProperties DEF CallsOK
<1> QED BY <1>1, <1>2 DEF Answers

-----------------------------------------------------------------------------
(* Types, action by action. *)
LEMMA JobMoves ==
  ASSUME JobInv, job' \in [status : Statuses, at : Versions, script : Versions, extraction : Versions],
         UNCHANGED <<shown, editor, figures, panels, draft, calls, command, lost>>
  PROVE  JobInv'
BY DEF JobInv, PageTypeOK, CallsOK, Bare, OnScreen, Answers, Versions

LEMMA Changed ==
  ASSUME PageTypeOK, NEW status \in Statuses, NEW script \in BOOLEAN, Change(status, script)
  PROVE  job' \in [status : Statuses, at : Versions, script : Versions, extraction : Versions]
<1>1. job.at + 1 \in Versions BY JobBounds DEF Change, PageTypeOK, Versions
<1> QED BY <1>1 DEF Change, PageTypeOK

LEMMA ServerType ==
  ASSUME JobInv,
         WorkerStep \/ (\E k \in {"script", "extraction"} : WorkerStores(k)) \/ \E op \in Colleagues : SomeoneElse(op)
  PROVE  JobInv'
<1>0. PageTypeOK BY DEF JobInv
<1>1. CASE WorkerStep
  BY <1>0, <1>1, Changed, JobMoves DEF WorkerStep, Statuses
<1>2. CASE \E k \in {"script", "extraction"} : WorkerStores(k)
  <2>1. job' \in [status : Statuses, at : Versions, script : Versions, extraction : Versions]
    BY <1>0, <1>2 DEF WorkerStores, PageTypeOK
  <2> QED BY <1>2, <2>1, JobMoves DEF WorkerStores
<1>3. CASE \E op \in Colleagues : SomeoneElse(op)
  BY <1>0, <1>3, Offers, Changed, JobMoves DEF SomeoneElse
<1> QED BY <1>1, <1>2, <1>3

LEMMA AnswerType ==
  ASSUME JobInv, NEW k \in Gets, NEW i, Reply(k, i) PROVE JobInv'
<1> DEFINE reply == IF k = "job" THEN [version |-> job.at, status |-> job.status]
                    ELSE [version |-> job[k], status |-> "stored"]
<1>1. reply \in Answers(k) BY DEF JobInv, PageTypeOK, Answers, Gets
<1>2. /\ i \in DOMAIN calls[k] /\ calls[k] \in Seq(Answers(k))
      /\ calls' = [calls EXCEPT ![k] = [calls[k] EXCEPT ![i] = reply]]
  BY DEF Reply, JobInv, CallsOK
<1> HIDE DEF reply
<1>3. [calls[k] EXCEPT ![i] = reply] \in Seq(Answers(k)) /\ Len([calls[k] EXCEPT ![i] = reply]) = Len(calls[k])
  BY <1>1, <1>2, ExceptSeq
<1>4. CallsOK' BY <1>2, <1>3 DEF JobInv, CallsOK, Answers, Versions
<1>5. calls[k] # <<>> BY <1>2
<1>6. OnScreen \/ k = "job" BY <1>5 DEF JobInv, Bare, Gets
<1>7. (OnScreen \/ Bare)' BY <1>2, <1>6 DEF Reply, JobInv, Bare, OnScreen
<1>8. \A l \in Gets : Len(calls'[l]) <= MaxCalls[l] BY <1>4 DEF CallsOK
<1> QED BY <1>4, <1>7, <1>8 DEF Reply, JobInv, PageTypeOK

LEMMA HandleType ==
  ASSUME JobInv, NEW p \in panels, HandleCommand(p) PROVE JobInv'
<1>0. PageTypeOK BY DEF JobInv
<1>1. job' \in [status : Statuses, at : Versions, script : Versions, extraction : Versions]
  BY <1>0, Offers, Changed DEF HandleCommand, PageTypeOK
<1>2. OnScreen BY DEF JobInv, Bare, NoCommand, HandleCommand
<1>3. command' \in [panels -> [op : Ops \cup {"none"}, phase : {"none", "sent", "ok", "refused"}]]
  <2>1. command \in [panels -> [op : Ops \cup {"none"}, phase : {"none", "sent", "ok", "refused"}]]
    BY <1>0 DEF PageTypeOK
  <2>2. \/ command' = [command EXCEPT ![p].phase = "ok"]
        \/ command' = [command EXCEPT ![p].phase = "refused"]
    BY DEF HandleCommand
  <2> QED BY <2>1, <2>2
<1> QED BY <1>1, <1>2, <1>3 DEF HandleCommand, JobInv, PageTypeOK, CallsOK, Answers, Versions, OnScreen

LEMMA PollType == ASSUME JobInv, Poll PROVE JobInv'
<1>1. calls["job"] \in Seq(Answers("job")) /\ Len(calls["job"]) < MaxCalls["job"]
  BY DEF Poll, Room, JobInv, CallsOK, Gets
<1>2. "job" \in Gets BY DEF Gets
<1>3. Append(calls["job"], Asked) \in Seq(Answers("job")) /\ Len(Append(calls["job"], Asked)) <= MaxCalls["job"]
  BY <1>1, <1>2, Asking
<1>4. CallsOK' BY <1>3 DEF Poll, JobInv, CallsOK, Answers, Versions
<1>5. (OnScreen \/ Bare)' BY DEF Poll, JobInv, CallsOK, Bare, OnScreen, Gets
<1> QED BY <1>4, <1>5 DEF Poll, JobInv, PageTypeOK, CallsOK

LEMMA ClosedType ==
  ASSUME PageTypeOK, NEW status, NEW passed PROVE Closed(status, passed) \in [panels -> {Nothing, Typed, Sent}]
BY DEF PageTypeOK, Closed

LEMMA JobArrivesType == ASSUME JobInv, NEW i, JobArrives(i) PROVE JobInv'
<1> DEFINE answer == calls["job"][i]
           asked(k) == Append(calls[k], Asked)
<1>0. PageTypeOK /\ CallsOK /\ Gets = {"job", "script", "extraction"} BY DEF JobInv, Gets
<1>1. i \in DOMAIN calls["job"] /\ answer.version \in Versions /\ answer.status \in Statuses
  BY <1>0, Delivery DEF JobArrives
<1>2. RemoveAt(calls["job"], i) \in Seq(Answers("job")) /\ Len(RemoveAt(calls["job"], i)) <= MaxCalls["job"]
  <2>1. calls["job"] \in Seq(Answers("job")) /\ Len(calls["job"]) <= MaxCalls["job"] /\ Len(calls["job"]) \in Nat
    BY <1>0, LenProperties DEF CallsOK
  <2> QED BY <1>0, <1>1, <2>1, Removed, JobBounds
<1>3. asked("script") \in Seq(Answers("script")) /\ Len(asked("script")) <= MaxCalls["script"]
  BY <1>0, Asking DEF JobArrives, Room, CallsOK
<1>4. ~OnScreen => asked("extraction") \in Seq(Answers("extraction"))
                  /\ Len(asked("extraction")) <= MaxCalls["extraction"]
  <2> SUFFICES ASSUME ~OnScreen PROVE asked("extraction") \in Seq(Answers("extraction"))
                                         /\ Len(asked("extraction")) <= MaxCalls["extraction"]
    OBVIOUS
  <2>1. calls["extraction"] \in Seq(Answers("extraction")) /\ Len(calls["extraction"]) < MaxCalls["extraction"]
    BY <1>0, JobBounds DEF JobInv, Bare, CallsOK
  <2> QED BY <1>0, <2>1, Asking
<1>5. /\ DOMAIN calls' = Gets
      /\ calls'["job"] = RemoveAt(calls["job"], i)
      /\ calls'["script"] \in {calls["script"], asked("script")}
      /\ calls'["extraction"] \in {calls["extraction"], asked("extraction")}
      /\ OnScreen => calls'["extraction"] = calls["extraction"]
  BY <1>0 DEF JobArrives, CallsOK
<1> HIDE DEF asked
<1>6. \A k \in Gets : calls'[k] \in Seq(Answers(k)) /\ Len(calls'[k]) <= MaxCalls[k]
  BY <1>0, <1>2, <1>3, <1>4, <1>5 DEF CallsOK
<1>7. CallsOK' BY <1>5, <1>6 DEF CallsOK, Answers, Versions
<1>8. shown' = [job |-> answer.version, status |-> answer.status, failed |-> FALSE] BY DEF JobArrives
<1>9. OnScreen' BY <1>1, <1>8, JobBounds DEF OnScreen
<1> HIDE DEF answer
<1>10. draft' \in [panels -> {Nothing, Typed, Sent}] BY <1>0, ClosedType DEF JobArrives
<1> QED BY <1>0, <1>1, <1>6, <1>7, <1>8, <1>9, <1>10 DEF JobArrives, JobInv, PageTypeOK

LEMMA JobFailsType == ASSUME JobInv, NEW i, JobFails(i) PROVE JobInv'
<1>0. PageTypeOK /\ CallsOK /\ Gets = {"job", "script", "extraction"} BY DEF JobInv, Gets
<1>1. calls["job"] \in Seq(Answers("job")) /\ Len(calls["job"]) <= MaxCalls["job"] /\ Len(calls["job"]) \in Nat
  BY <1>0, LenProperties DEF CallsOK
<1>2. RemoveAt(calls["job"], i) \in Seq(Answers("job")) /\ Len(RemoveAt(calls["job"], i)) <= MaxCalls["job"]
  BY <1>0, <1>1, Removed, JobBounds DEF JobFails
<1>3. calls' = [k \in Gets |-> IF k = "job" THEN RemoveAt(calls[k], i) ELSE <<>>] BY DEF JobFails
<1>4. \A k \in Gets : calls'[k] \in Seq(Answers(k)) /\ Len(calls'[k]) <= MaxCalls[k]
  BY <1>0, <1>2, <1>3, JobBounds, EmptySeq
<1>5. CallsOK' BY <1>3, <1>4 DEF CallsOK, Answers, Versions
<1>6. Bare' BY <1>0, <1>3 DEF JobFails, Bare
<1>7. lost' \in 0..MaxLost
  <2>1. lost \in 0..MaxLost /\ lost < MaxLost /\ lost' = lost + 1 BY <1>0 DEF JobFails, PageTypeOK
  <2> QED BY <2>1, JobBounds
<1>8. /\ editor' \in [script : Versions \cup {Nothing}, text : Versions \cup {Typed, Sent, Nothing},
                        dirty : BOOLEAN, failed : BOOLEAN]
      /\ ~editor'.dirty /\ editor'.text = Nothing /\ editor'.script = Nothing
  BY DEF JobFails, NewEditor
<1>9. /\ command' \in [panels -> [op : Ops \cup {"none"}, phase : {"none", "sent", "ok", "refused"}]]
      /\ shown' \in [job : Versions \cup {Nothing}, status : Statuses, failed : BOOLEAN]
      /\ draft' \in [panels -> {Nothing, Typed, Sent}]
  BY <1>0 DEF JobFails, NoCommand, PageTypeOK
<1> QED BY <1>0, <1>4, <1>5, <1>6, <1>7, <1>8, <1>9, JobBounds DEF JobFails, JobInv, PageTypeOK

(* What a script brings, and the end of a command. *)
EditorOK(e) ==
  /\ e \in [script : Versions \cup {Nothing}, text : Versions \cup {Typed, Sent, Nothing},
            dirty : BOOLEAN, failed : BOOLEAN]
  /\ e.dirty <=> e.text \in {Typed, Sent}
  /\ e.text = Nothing <=> e.script = Nothing

LEMMA SyncOK ==
  ASSUME NEW e \in [script : Versions \cup {Nothing}, text : Versions \cup {Typed, Sent, Nothing},
                    dirty : BOOLEAN, failed : BOOLEAN],
         e.dirty => e.text \in {Typed, Sent} /\ e.script # Nothing,
         ~e.dirty => e.script # Nothing \/ e.text = Nothing
  PROVE  EditorOK(Sync(e))
BY JobBounds DEF EditorOK, Sync

LEMMA ScriptType == ASSUME JobInv, NEW i, ScriptArrives(i) \/ ScriptFails(i) PROVE JobInv'
<1>0. PageTypeOK /\ CallsOK /\ Gets = {"job", "script", "extraction"} BY DEF JobInv, Gets
<1>1. i \in DOMAIN calls["script"] BY DEF ScriptArrives, ScriptFails, Delivered
<1>2. CallsOK' BY <1>0, <1>1, CallGone DEF ScriptArrives, ScriptFails
<1>3. OnScreen BY <1>1 DEF JobInv, Bare
<1>4. EditorOK(editor')
  <2>1. CASE ScriptArrives(i)
    <3> DEFINE e == [editor EXCEPT !.script = calls["script"][i].version, !.failed = FALSE]
    <3>1. calls["script"][i].version \in Versions BY <1>0, <2>1, Delivery DEF ScriptArrives
    <3>2. /\ e \in [script : Versions \cup {Nothing}, text : Versions \cup {Typed, Sent, Nothing},
                     dirty : BOOLEAN, failed : BOOLEAN]
          /\ e.script \in Versions /\ e.text = editor.text /\ e.dirty = editor.dirty
      BY <1>0, <3>1 DEF PageTypeOK
    <3>3. editor' = Sync(e) BY <2>1 DEF ScriptArrives
    <3>4. (e.dirty => e.text \in {Typed, Sent}) BY <1>0, <3>2 DEF PageTypeOK
    <3> HIDE DEF e
    <3> QED BY <3>2, <3>3, <3>4, SyncOK, JobBounds
  <2>2. CASE ScriptFails(i) BY <1>0, <2>2 DEF ScriptFails, JobInv, PageTypeOK, EditorOK
  <2> QED BY <2>1, <2>2
<1>5. lost' \in 0..MaxLost BY <1>0, JobBounds DEF ScriptArrives, ScriptFails, PageTypeOK
<1>6. \A k \in Gets : Len(calls'[k]) <= MaxCalls[k] BY <1>2 DEF CallsOK
<1> QED BY <1>0, <1>2, <1>3, <1>4, <1>5, <1>6 DEF ScriptArrives, ScriptFails, JobInv, PageTypeOK, EditorOK, OnScreen

LEMMA FiguresType == ASSUME JobInv, NEW i, FiguresArrive(i) \/ FiguresFail(i) PROVE JobInv'
<1>0. PageTypeOK /\ CallsOK /\ Gets = {"job", "script", "extraction"} BY DEF JobInv, Gets
<1>1. i \in DOMAIN calls["extraction"] BY DEF FiguresArrive, FiguresFail, Delivered
<1>2. CallsOK' BY <1>0, <1>1, CallGone DEF FiguresArrive, FiguresFail
<1>3. OnScreen BY <1>1 DEF JobInv, Bare
<1>4. figures' \in Versions \cup {Nothing, Failed}
  BY <1>0, Delivery DEF FiguresArrive, FiguresFail
<1>5. draft' \in [panels -> {Nothing, Typed, Sent}] BY <1>0, ClosedType DEF FiguresArrive, FiguresFail, PageTypeOK
<1>6. lost' \in 0..MaxLost BY <1>0, JobBounds DEF FiguresArrive, FiguresFail, PageTypeOK
<1>7. \A k \in Gets : Len(calls'[k]) <= MaxCalls[k] BY <1>2 DEF CallsOK
<1> QED BY <1>0, <1>2, <1>3, <1>4, <1>5, <1>6, <1>7 DEF FiguresArrive, FiguresFail, JobInv, PageTypeOK, OnScreen

LEMMA TypingType ==
  ASSUME JobInv, Type \/ \E p \in panels : Fill(p) \/ Cancel(p)
  PROVE  JobInv'
<1>0. PageTypeOK /\ CallsOK BY DEF JobInv
<1>1. CASE Type
  BY <1>0, <1>1, JobBounds DEF Type, JobInv, PageTypeOK, CallsOK, Answers, Versions, OnScreen
<1>2. CASE \E p \in panels : Fill(p) \/ Cancel(p)
  <2>1. draft' \in [panels -> {Nothing, Typed, Sent}] BY <1>0, <1>2 DEF Fill, Cancel, PageTypeOK
  <2>2. UNCHANGED <<job, shown, editor, figures, panels, calls, command, lost>> BY <1>2 DEF Fill, Cancel
  <2> QED BY <1>0, <2>1, <2>2 DEF JobInv, PageTypeOK, CallsOK, Answers, Versions, OnScreen, Bare
<1> QED BY <1>1, <1>2

LEMMA ClickType == ASSUME JobInv, NEW p \in panels, NEW op \in Panel[p].ops, Click(p, op) PROVE JobInv'
<1>0. PageTypeOK /\ CallsOK BY DEF JobInv
<1>1. op \in Ops BY <1>0, Offers DEF PageTypeOK
<1>2. command' \in [panels -> [op : Ops \cup {"none"}, phase : {"none", "sent", "ok", "refused"}]]
  BY <1>0, <1>1 DEF Click, PageTypeOK
<1>3. draft' \in [panels -> {Nothing, Typed, Sent}] BY <1>0 DEF Click, PageTypeOK
<1>4. EditorOK(editor') BY <1>0, JobBounds DEF Click, JobInv, PageTypeOK, EditorOK
<1>5. OnScreen' BY DEF Click, Offered, OnScreen
<1> QED BY <1>0, <1>2, <1>3, <1>4, <1>5 DEF Click, JobInv, PageTypeOK, CallsOK, Answers, Versions, EditorOK

LEMMA CommandFailsType == ASSUME JobInv, NEW p \in panels, CommandFails(p) PROVE JobInv'
<1>0. PageTypeOK /\ CallsOK BY DEF JobInv
<1>1. command' \in [panels -> [op : Ops \cup {"none"}, phase : {"none", "sent", "ok", "refused"}]]
  BY <1>0 DEF CommandFails, NoCommand, PageTypeOK
<1>2. lost' \in 0..MaxLost BY <1>0, JobBounds DEF CommandFails, PageTypeOK
<1>3. OnScreen BY DEF CommandFails, JobInv, Bare, NoCommand
<1>4. draft' \in [panels -> {Nothing, Typed, Sent}] BY <1>0 DEF CommandFails, PageTypeOK
<1>5. EditorOK(editor') BY <1>0, JobBounds DEF CommandFails, JobInv, PageTypeOK, EditorOK
<1> QED BY <1>0, <1>1, <1>2, <1>3, <1>4, <1>5
        DEF CommandFails, JobInv, PageTypeOK, CallsOK, Answers, Versions, EditorOK, OnScreen

LEMMA CommandDoneType == ASSUME JobInv, NEW p \in panels, CommandDone(p) PROVE JobInv'
<1>0. PageTypeOK /\ CallsOK BY DEF JobInv
<1>1. OnScreen BY DEF CommandDone, JobInv, Bare, NoCommand
<1>2. \A k \in Gets : /\ calls'[k] \in Seq(Answers(k)) /\ Len(calls'[k]) <= MaxCalls[k]
  <2> TAKE k \in Gets
  <2>1. calls[k] \in Seq(Answers(k)) /\ Len(calls[k]) <= MaxCalls[k] BY <1>0 DEF CallsOK
  <2>2. CASE k \in Reloads(command[p].op)
    <3>1. Len(calls[k]) < MaxCalls[k] BY <2>2 DEF CommandDone, Room
    <3>2. calls'[k] = Append(calls[k], Asked) BY <2>2 DEF CommandDone
    <3> QED BY <2>1, <3>1, <3>2, Asking
  <2>3. CASE k \notin Reloads(command[p].op)
    <3>1. calls'[k] = calls[k] BY <2>3 DEF CommandDone
    <3> QED BY <2>1, <3>1
  <2> QED BY <2>2, <2>3
<1>3. CallsOK' BY <1>2 DEF CommandDone, CallsOK, Answers, Versions
<1>4. EditorOK(editor')
  <2> DEFINE e == [editor EXCEPT !.dirty = FALSE]
  <2>1. /\ e \in [script : Versions \cup {Nothing}, text : Versions \cup {Typed, Sent, Nothing},
                   dirty : BOOLEAN, failed : BOOLEAN]
        /\ ~e.dirty /\ (e.script # Nothing \/ e.text = Nothing)
    BY <1>0 DEF JobInv, PageTypeOK
  <2> HIDE DEF e
  <2>2. EditorOK(Sync(e)) BY <2>1, SyncOK
  <2>3. EditorOK(editor) BY <1>0 DEF JobInv, PageTypeOK, EditorOK
  <2> QED BY <2>2, <2>3 DEF CommandDone, e
<1>5. /\ command' \in [panels -> [op : Ops \cup {"none"}, phase : {"none", "sent", "ok", "refused"}]]
      /\ draft' \in [panels -> {Nothing, Typed, Sent}]
  BY <1>0 DEF CommandDone, NoCommand, PageTypeOK
<1> QED BY <1>0, <1>1, <1>2, <1>3, <1>4, <1>5 DEF CommandDone, JobInv, PageTypeOK, EditorOK, OnScreen

LEMMA JobStep == JobInv /\ [PageNext]_pageVars => JobInv'
<1> SUFFICES ASSUME JobInv, [PageNext]_pageVars PROVE JobInv' OBVIOUS
<1>1. CASE UNCHANGED pageVars
  BY <1>1 DEF pageVars, JobInv, PageTypeOK, CallsOK, Answers, Versions, OnScreen, Bare
<1>2. CASE PageNext
  BY <1>2, ServerType, AnswerType, HandleType, PollType, JobArrivesType, JobFailsType, ScriptType,
     FiguresType, TypingType, ClickType, CommandFailsType, CommandDoneType DEF PageNext, Arrives, Loss, Gets
<1> QED BY <1>1, <1>2

\* Every reachable state of the page is well typed, whichever answers are late, lost or overtaken.
THEOREM JobPageTyped == PageSpec => []PageTypeOK
<1>1. JobInv => PageTypeOK BY DEF JobInv
<1> QED BY <1>1, JobInit, JobStep, PTL DEF PageSpec
-----------------------------------------------------------------------------
LEMMA ExactlyTyped == JobInv => PageTypeOK /\ panels \in PanelSets /\ DOMAIN command = panels /\ DOMAIN draft = panels
BY DEF JobInv, PageTypeOK

LEMMA KeepInit == PageInit => KeepInv
<1> SUFFICES ASSUME PageInit, NEW p \in panels PROVE CarriedOK(p) BY JobInit DEF KeepInv
<1>1. command[p] = NoCommand /\ draft[p] = Nothing /\ editor.text = Nothing BY DEF PageInit, NewEditor
<1>2. Text(p) # Sent BY <1>1, JobBounds DEF Text
<1> QED BY <1>1, <1>2 DEF CarriedOK, Busy

(* What a step may do to what is typed. *)
Kept == \A p \in panels : Gone(p) => FormEnds(p) \/ Taken(p) \/ Discarded(p)

\* A step that leaves commands alone, and text but to take it away or replace it.
LEMMA Untouched ==
  ASSUME KeepInv, JobInv', UNCHANGED <<panels, command>>,
         \A p \in panels : Text(p)' = Text(p) \/ Text(p)' # Sent
  PROVE  KeepInv'
<1>1. \A p \in panels : Carries(p)' = Carries(p) BY DEF Carries
<1> QED BY <1>1 DEF KeepInv, CarriedOK, Busy

LEMMA ServerKeeps ==
  ASSUME KeepInv, JobInv',
         \/ WorkerStep \/ (\E k \in {"script", "extraction"} : WorkerStores(k)) \/ (\E op \in Colleagues : SomeoneElse(op))
         \/ Poll \/ (\E k \in Gets, i \in Slots : Reply(k, i))
  PROVE  KeepInv' /\ Kept
<1>1. UNCHANGED <<panels, command, editor, draft>>
  BY DEF WorkerStep, WorkerStores, SomeoneElse, Poll, Reply
<1>2. \A p \in panels : Text(p)' = Text(p) BY <1>1 DEF Text
<1> QED BY <1>1, <1>2, Untouched DEF Kept, Gone

LEMMA HandleKeeps ==
  ASSUME KeepInv, JobInv', NEW p \in panels, HandleCommand(p)
  PROVE  KeepInv' /\ Kept
<1>0. DOMAIN command = panels /\ command[p] # NoCommand BY ExactlyTyped DEF KeepInv, HandleCommand, NoCommand
<1>1. UNCHANGED <<panels, editor, draft>> BY DEF HandleCommand
<1>2. /\ command'[p].op = command[p].op
      /\ \A q \in panels \ {p} : command'[q] = command[q]
  BY <1>0 DEF HandleCommand, KeepInv, JobInv, PageTypeOK
<1>3. command'[p] # NoCommand
  BY <1>0 DEF HandleCommand, KeepInv, JobInv, PageTypeOK, NoCommand
<1>4. \A q \in panels : /\ Text(q)' = Text(q) /\ Carries(q)' = Carries(q)
                        /\ Busy(q)' <=> Busy(q)
                        /\ command'[q].op = command[q].op
  BY <1>0, <1>1, <1>2, <1>3 DEF Busy, Text, Carries
<1>5. KeepInv' BY <1>1, <1>4 DEF KeepInv, CarriedOK
<1> QED BY <1>4, <1>5 DEF Kept, Gone

LEMMA JobArrivesKeeps ==
  ASSUME KeepInv, JobInv', NEW i, JobArrives(i)
  PROVE  KeepInv' /\ Kept
<1>0. DOMAIN draft = panels /\ Panel["editor"].is = {}
  BY ExactlyTyped DEF KeepInv, Panel, ScriptEditor, Buttons, Form
<1>1. /\ UNCHANGED <<panels, editor, command>>
      /\ shown'.status = calls["job"][i].status /\ shown'.job = calls["job"][i].version
      /\ \E passed \in BOOLEAN : /\ passed => calls["job"][i].version # shown.job
                                 /\ draft' = Closed(calls["job"][i].status, passed)
  BY DEF JobArrives
<1>2. \A p \in panels : draft'[p] # draft[p] => draft'[p] = Nothing /\ FormEnds(p)
  BY <1>1 DEF Closed, FormEnds
<1>3. \A p \in panels : Text(p)' = Text(p) \/ (Text(p)' = Nothing /\ FormEnds(p))
  BY <1>1, <1>2 DEF Text
<1>4. KeepInv' BY <1>1, <1>3, Untouched, JobBounds
<1> QED BY <1>3, <1>4 DEF Kept, Gone

LEMMA JobFailsKeeps ==
  ASSUME KeepInv, JobInv', NEW i, JobFails(i)
  PROVE  KeepInv' /\ Kept
<1>1. shown'.failed BY DEF JobFails, KeepInv, JobInv, PageTypeOK
<1>2. \A p \in panels' : ~Busy(p)' /\ Text(p)' = Nothing BY DEF JobFails, Busy, Text, NewEditor
<1>3. KeepInv' BY <1>2, JobBounds DEF KeepInv, CarriedOK
<1> QED BY <1>1, <1>3 DEF Kept, FormEnds

LEMMA ScriptKeeps ==
  ASSUME KeepInv, JobInv', NEW i, ScriptArrives(i) \/ ScriptFails(i)
  PROVE  KeepInv' /\ Kept
<1>0. PageTypeOK /\ CallsOK BY DEF KeepInv, JobInv
<1>1. UNCHANGED <<panels, command, draft>> BY DEF ScriptArrives, ScriptFails
<1>2. editor'.text = editor.text \/ (editor'.text \in Versions /\ editor.text \notin {Typed, Sent})
  <2>1. CASE ScriptArrives(i)
    <3>1. "script" \in Gets BY DEF Gets
    <3>2. calls["script"][i].version \in Versions BY <1>0, <2>1, <3>1, Delivery DEF ScriptArrives
    <3> QED BY <1>0, <2>1, <3>2 DEF ScriptArrives, Sync, PageTypeOK
  <2>2. CASE ScriptFails(i) BY <1>0, <2>2 DEF ScriptFails, PageTypeOK
  <2> QED BY <2>1, <2>2
<1>3. \A p \in panels : \/ Text(p)' = Text(p)
                        \/ Text(p)' \in Versions /\ Text(p) \notin {Typed, Sent}
  BY <1>1, <1>2 DEF Text
<1>4. KeepInv' BY <1>1, <1>3, Untouched, JobBounds
<1> QED BY <1>3, <1>4 DEF Kept, Gone

LEMMA FiguresKeep ==
  ASSUME KeepInv, JobInv', NEW i, FiguresArrive(i) \/ FiguresFail(i)
  PROVE  KeepInv' /\ Kept
<1>1. UNCHANGED <<panels, command, editor, shown>> BY DEF FiguresArrive, FiguresFail
<1>2. "dies" \in Panel["override"].is /\ "dies" \in Panel["exception"].is
  BY DEF Panel, OverrideForm, ExceptionForm, Form
<1>3. \A p \in panels : draft'[p] # draft[p] => draft'[p] = Nothing /\ FormEnds(p)
  <2>1. CASE FiguresArrive(i) BY <1>1, <2>1 DEF FiguresArrive, Closed, FormEnds
  <2>2. CASE FiguresFail(i) BY <1>2, <2>2 DEF FiguresFail, FormEnds
  <2> QED BY <2>1, <2>2
<1>4. \A p \in panels : Text(p)' = Text(p) \/ (Text(p)' = Nothing /\ FormEnds(p))
  BY <1>1, <1>3 DEF Text
<1>5. KeepInv' BY <1>1, <1>4, Untouched, JobBounds
<1> QED BY <1>4, <1>5 DEF Kept, Gone

LEMMA TypingKeeps ==
  ASSUME KeepInv, JobInv', Type \/ \E p \in panels : Fill(p) \/ Cancel(p)
  PROVE  KeepInv' /\ Kept
<1>0. DOMAIN draft = panels BY ExactlyTyped DEF KeepInv
<1>1. UNCHANGED <<panels, command>> BY DEF Type, Fill, Cancel
<1>2. \A q \in panels : Text(q)' = Text(q) \/ Text(q)' = Typed \/ (Text(q)' = Nothing /\ Cancel(q))
  <2>1. CASE Type
    BY <2>1 DEF Type, Text, KeepInv, JobInv, PageTypeOK
  <2>2. ASSUME NEW p \in panels, Fill(p) PROVE \A q \in panels : Text(q)' \in {Text(q), Typed}
    BY <1>0, <2>2 DEF Fill, Text
  <2>3. ASSUME NEW p \in panels, Cancel(p)
        PROVE \A q \in panels : Text(q)' = Text(q) \/ (Text(q)' = Nothing /\ Cancel(q))
    BY <1>0, <2>3 DEF Cancel, Text
  <2> QED BY <2>1, <2>2, <2>3
<1>3. KeepInv' BY <1>1, <1>2, Untouched, JobBounds
<1> QED BY <1>2, <1>3 DEF Kept, Gone, FormEnds

LEMMA ClickKeeps ==
  ASSUME KeepInv, JobInv', NEW p \in panels, NEW op \in Panel[p].ops, Click(p, op)
  PROVE  KeepInv' /\ Kept
<1>0. PageTypeOK /\ DOMAIN draft = panels /\ DOMAIN command = panels /\ panels \subseteq DOMAIN Panel
  BY ExactlyTyped, Offers DEF KeepInv
<1>1. UNCHANGED panels BY DEF Click
<1>2. /\ command'[p] = [op |-> op, phase |-> "sent"]
      /\ \A q \in panels \ {p} : command'[q] = command[q] /\ draft'[q] = draft[q]
      /\ draft'[p] = IF op \in Panel[p].text THEN Sent ELSE draft[p]
  BY <1>0 DEF Click
<1>3. \A q \in DOMAIN Panel : "save" \in Panel[q].ops => q = "editor"
  BY DEF Panel, ScriptEditor, ExtractionPanel, OverrideForm, OverrideList, ExceptionForm, RevisionPanel,
         FeedbackPanel, VideoPanel, SharePanel, ShareRow, Header, Buttons, Form
<1>4. /\ op = "save" => p = "editor" /\ editor'.text = Sent /\ editor.text \in {Typed, Sent}
      /\ op # "save" => editor' = editor
  BY <1>0, <1>3 DEF Click, PageTypeOK
<1>5. \A q \in panels \ {p} : Text(q)' = Text(q) /\ CarriedOK(q)'
  <2> SUFFICES ASSUME NEW q \in panels \ {p} PROVE Text(q)' = Text(q) /\ CarriedOK(q)' OBVIOUS
  <2>1. Text(q)' = Text(q) BY <1>2, <1>4 DEF Text
  <2>2. CarriedOK(q) BY DEF KeepInv
  <2> QED BY <1>2, <2>1, <2>2 DEF CarriedOK, Busy, Carries
<1>6. Text(p)' = Text(p) \/ (Text(p)' = Sent /\ op \in Carries(p))
  BY <1>2, <1>4 DEF Text, Carries
<1>7. ~Busy(p) /\ Text(p) # Sent BY DEF Click, KeepInv, CarriedOK
<1>8. CarriedOK(p)' BY <1>2, <1>6, <1>7 DEF CarriedOK, Busy, NoCommand, Carries
<1>9. KeepInv' BY <1>1, <1>5, <1>8 DEF KeepInv
<1> QED BY <1>5, <1>6, <1>9 DEF Kept, Gone

LEMMA CommandFailsKeeps ==
  ASSUME KeepInv, JobInv', NEW p \in panels, CommandFails(p)
  PROVE  KeepInv' /\ Kept
<1>0. PageTypeOK /\ DOMAIN command = panels /\ DOMAIN draft = panels BY ExactlyTyped DEF KeepInv
<1>1. UNCHANGED panels BY DEF CommandFails
<1>2. ~Busy(p)' /\ \A q \in panels \ {p} : command'[q] = command[q]
  BY <1>0 DEF CommandFails, Busy
<1>3. /\ \A q \in panels \ {p} : draft'[q] = draft[q]
      /\ draft'[p] = IF draft[p] = Sent THEN Typed ELSE draft[p]
      /\ editor'.text = IF p = "editor" /\ editor.text = Sent THEN Typed ELSE editor.text
  BY <1>0 DEF CommandFails, PageTypeOK
<1>4. \A q \in panels \ {p} : Text(q)' = Text(q) /\ CarriedOK(q)'
  <2> SUFFICES ASSUME NEW q \in panels \ {p} PROVE Text(q)' = Text(q) /\ CarriedOK(q)' OBVIOUS
  <2>1. Text(q)' = Text(q) BY <1>3 DEF Text
  <2>2. CarriedOK(q) BY DEF KeepInv
  <2> QED BY <1>2, <2>1, <2>2 DEF CarriedOK, Busy, Carries
<1>5. Text(p)' = IF Text(p) = Sent THEN Typed ELSE Text(p) BY <1>3 DEF Text
<1>6. CarriedOK(p)' BY <1>2, <1>5, JobBounds DEF CarriedOK
<1>7. KeepInv' BY <1>1, <1>4, <1>6 DEF KeepInv
<1> QED BY <1>4, <1>5, <1>7 DEF Kept, Gone

LEMMA CommandDoneKeeps ==
  ASSUME KeepInv, JobInv', NEW p \in panels, CommandDone(p)
  PROVE  KeepInv' /\ Kept
<1>0. PageTypeOK /\ DOMAIN command = panels /\ DOMAIN draft = panels BY ExactlyTyped DEF KeepInv
<1>1. UNCHANGED panels /\ command[p].phase = "ok" /\ Busy(p) BY DEF CommandDone, Busy, NoCommand
<1>2. command[p].op \in Panel[p].ops BY <1>1 DEF KeepInv, CarriedOK
<1>3. ~Busy(p)' /\ \A q \in panels \ {p} : command'[q] = command[q]
  BY <1>0 DEF CommandDone, Busy
<1>4. \A q \in panels : draft'[q] = draft[q] \/ (draft'[q] = Nothing /\ command[p].op \in Panel[q].empties)
  BY DEF CommandDone
<1>5. p # "editor" => editor' = editor BY DEF CommandDone
<1>6. editor'.text \notin {Typed, Sent} \/ editor'.text = editor.text
  BY <1>0, JobBounds DEF CommandDone, Sync, PageTypeOK
<1>7. \A q \in panels : Gone(q) => command[p].op \in Empties(q)
  BY <1>2, <1>4, <1>5 DEF Gone, Text, Empties
<1>8. Kept
  <2> SUFFICES ASSUME NEW q \in panels, Gone(q) PROVE Taken(q) \/ Discarded(q) BY DEF Kept
  <2>1. Succeeds(p, Empties(q)) BY <1>1, <1>7 DEF Succeeds
  <2>2. CASE q = p /\ Text(q) = Sent
    <3>1. command[q].op \in Carries(q) BY <2>2 DEF KeepInv, CarriedOK
    <3> QED BY <1>1, <2>2, <3>1 DEF Taken, Succeeds
  <2>3. CASE q # p \/ Text(q) = Typed BY <2>1, <2>3 DEF Discarded
  <2> QED BY <2>2, <2>3 DEF Gone
<1>9. Text(p)' # Sent
  <2>1. CASE p = "editor"
    <3>1. ~editor'.dirty BY <1>0, <2>1 DEF CommandDone, Sync, PageTypeOK
    <3> QED BY <2>1, <3>1 DEF JobInv, PageTypeOK, Text
  <2>2. CASE p # "editor"
    <3>1. Text(p) = Sent => command[p].op \in Panel[p].text BY <2>2 DEF KeepInv, CarriedOK, Carries
    <3>2. command[p].op \in Panel[p].text => command[p].op \in Panel[p].empties
      BY <1>0, <2>2, Offers DEF Panel, ScriptEditor, ExtractionPanel, OverrideForm, OverrideList, ExceptionForm,
         RevisionPanel, FeedbackPanel, VideoPanel, SharePanel, ShareRow, Header, Buttons, Form, PageTypeOK
    <3>3. draft'[p] = IF command[p].op \in Panel[p].empties THEN Nothing ELSE draft[p] BY DEF CommandDone
    <3> QED BY <2>2, <3>1, <3>2, <3>3, JobBounds DEF Text
  <2> QED BY <2>1, <2>2
<1>10. \A q \in panels \ {p} : CarriedOK(q)'
  <2> SUFFICES ASSUME NEW q \in panels \ {p} PROVE CarriedOK(q)' OBVIOUS
  <2>1. Text(q)' = Text(q) \/ Text(q)' # Sent BY <1>4, <1>5, JobBounds DEF Text
  <2>2. CarriedOK(q) BY DEF KeepInv
  <2> QED BY <1>3, <2>1, <2>2 DEF CarriedOK, Busy, Carries
<1>11. CarriedOK(p)' BY <1>3, <1>9 DEF CarriedOK
<1> QED BY <1>1, <1>8, <1>10, <1>11 DEF KeepInv

LEMMA KeepStep == ASSUME KeepInv, [PageNext]_pageVars PROVE KeepInv' /\ (Kept \/ UNCHANGED pageVars)
<1>1. JobInv' BY JobStep DEF KeepInv
<1>2. CASE UNCHANGED pageVars
  <2>1. \A p \in panels : Text(p)' = Text(p) BY <1>2 DEF pageVars, Text
  <2> QED BY <1>1, <1>2, <2>1, Untouched DEF pageVars
<1>3. CASE PageNext
  BY <1>1, <1>3, ServerKeeps, HandleKeeps, JobArrivesKeeps, JobFailsKeeps, ScriptKeeps, FiguresKeep, TypingKeeps,
     ClickKeeps, CommandFailsKeeps, CommandDoneKeeps DEF PageNext, Arrives, Loss
<1> QED BY <1>2, <1>3

\* ScriptEditor.tsx:20 and the forms: what the preparer has typed, also while a command is under way, goes
\* only with its form, when the server has taken the command it was sent with, or when a command that was
\* sent without it succeeds and empties the form; whatever arrives meanwhile and in whatever order.
THEOREM TypedTextStays == PageSpec => TypingKept
<1>1. KeepInv /\ [PageNext]_pageVars => KeepInv' BY KeepStep
<1>2. KeepInv /\ [PageNext]_pageVars => [Kept]_pageVars BY KeepStep
<1>3. [Kept]_pageVars => [\A p \in panels : Gone(p) => FormEnds(p) \/ Taken(p) \/ Discarded(p)]_pageVars
  BY DEF Kept
<1> QED BY <1>1, <1>2, <1>3, KeepInit, PTL DEF PageSpec, TypingKept
=============================================================================

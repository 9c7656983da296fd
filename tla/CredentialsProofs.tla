------------------------- MODULE CredentialsProofs -------------------------
(***************************************************************************)
(* Proofs about Credentials, for any accounts, sessions, tokens and        *)
(* handlers: type correctness, that a reset token sets one password, and   *)
(* that older sessions end with a password or an account.                  *)
(***************************************************************************)
EXTENDS Credentials, TLAPS

LEMMA Bounds ==
  /\ None \notin Users /\ None \notin Sessions /\ None \notin Tokens
  /\ MaxFailures \in Nat \ {0} /\ MaxPassword \in Nat \ {0}
  /\ 0 \in 0..(MaxFailures - 1) /\ 0 \in 0..MaxPassword /\ 1 \in 0..MaxPassword
BY CredentialsAssumption

-----------------------------------------------------------------------------
(* Types.  What a handler keeps is there at the steps that use it.         *)

Handlers == [at : Steps, by : Sessions \cup {None}, user : Users \cup {None},
             seen : Row, token : Tokens \cup {None}]
BySession == {"loaded", "end_others"}
ByToken   == {"revoke_token", "issue_key", "take", "take_key", "reset"}

Holds(h) ==
  /\ h \in Handlers
  /\ h.at # "idle" => h.user \in Users
  /\ h.at \in BySession => h.by \in Sessions
  /\ h.at \in ByToken => h.token \in Tokens

TypeUser    == user \in [Users -> Row]
TypeSession == session \in [Sessions -> [user : Users \cup {None}, oidc : BOOLEAN,
                                         password : 0..MaxPassword, spared : BOOLEAN]]
TypeRedis   == /\ token \in [Tokens -> Users \cup {None}] /\ issued \subseteq Tokens
               /\ current \in [Users -> Tokens \cup {None}] /\ invite \subseteq Users
TypeReq     == req \in [Requests -> Handlers] /\ \A r \in Requests : Holds(req[r])
TypeGhosts  == ended \in [Users -> 0..MaxPassword] /\ used \in [Tokens -> Nat]

TypeInv == TypeUser /\ TypeSession /\ TypeRedis /\ TypeReq /\ TypeGhosts

LEMMA Blank ==
  /\ NoRow \in Row /\ Idle \in Handlers /\ Holds(Idle) /\ Idle.at = "idle"
  /\ NoSession \in [user : Users \cup {None}, oidc : BOOLEAN, password : 0..MaxPassword, spared : BOOLEAN]
<1>1. NoRow \in Row BY Bounds DEF NoRow, Row
<1>2. Idle \in Handlers BY <1>1 DEF Idle, Handlers, Steps
<1> QED BY <1>1, <1>2, Bounds DEF Idle, NoSession, Holds, BySession, ByToken

(* The four ways a handler moves on. *)
LEMMA DoneTyped ==
  ASSUME TypeReq, NEW r \in Requests, Done(r) PROVE TypeReq'
BY Blank DEF TypeReq, Done

LEMMA BeginTyped ==
  ASSUME TypeReq, NEW r \in Requests, NEW step \in Steps \ BySession, NEW u \in Users,
         NEW t \in Tokens \cup {None}, step \in ByToken => t \in Tokens, Begin(r, step, u, t)
  PROVE  TypeReq'
<1> DEFINE h == [Idle EXCEPT !.at = step, !.user = u, !.token = t]
<1>1. h \in Handlers /\ h.at = step /\ h.user = u /\ h.token = t
  BY Blank DEF Handlers, Idle
<1>2. Holds(h) BY <1>1 DEF Holds
<1>3. req' = [req EXCEPT ![r] = h] BY DEF Begin
<1> HIDE DEF h
<1> QED BY <1>1, <1>2, <1>3 DEF TypeReq

LEMMA ReadTyped ==
  ASSUME TypeReq, NEW r \in Requests, NEW step \in Steps \ ByToken, NEW u \in Users,
         NEW s \in Sessions \cup {None}, step \in BySession => s \in Sessions,
         NEW seen \in Row, Read(r, step, u, s, seen)
  PROVE  TypeReq'
<1> DEFINE h == [Idle EXCEPT !.at = step, !.user = u, !.by = s, !.seen = seen]
<1>1. h \in Handlers /\ h.at = step /\ h.user = u /\ h.by = s
  BY Blank DEF Handlers, Idle
<1>2. Holds(h) BY <1>1 DEF Holds
<1>3. req' = [req EXCEPT ![r] = h] BY DEF Read
<1> HIDE DEF h
<1> QED BY <1>1, <1>2, <1>3 DEF TypeReq

LEMMA StepTyped ==
  ASSUME TypeReq, NEW r \in Requests, NEW step \in Steps \ BySession, req[r].user \in Users,
         NEW t \in Tokens \cup {None}, step \in ByToken => t \in Tokens,
         req' = [req EXCEPT ![r] = [@ EXCEPT !.at = step, !.token = t]]
  PROVE  TypeReq'
<1> DEFINE h == [req[r] EXCEPT !.at = step, !.token = t]
<1>1. h \in Handlers /\ h.at = step /\ h.user = req[r].user /\ h.token = t
  BY DEF Handlers, TypeReq
<1>2. Holds(h) BY <1>1 DEF Holds
<1>3. req' = [req EXCEPT ![r] = h] OBVIOUS
<1> HIDE DEF h
<1> QED BY <1>1, <1>2, <1>3 DEF TypeReq

LEMMA CreateTyped ==
  ASSUME TypeUser, NEW u \in Users, NEW password \in {0, 1}, NEW ssoOnly \in BOOLEAN,
         Create(u, password, ssoOnly)
  PROVE  TypeUser'
<1> DEFINE h == [NoRow EXCEPT !.exists = TRUE, !.password = password, !.ssoOnly = ssoOnly]
<1>1. password \in 0..MaxPassword BY Bounds
<1>2. h \in Row BY <1>1, Blank DEF NoRow, Row
<1>3. user' = [user EXCEPT ![u] = h] BY DEF Create
<1> HIDE DEF h
<1> QED BY <1>2, <1>3 DEF TypeUser

LEMMA SessionTyped ==
  ASSUME TypeInv, NEW r \in Requests, req[r].at # "idle", NEW oidc \in BOOLEAN, CreateSession(r, oidc)
  PROVE  TypeSession'
<1>1. req[r].user \in Users /\ req[r].seen \in Row BY DEF TypeInv, TypeReq, Holds, Handlers
<1>2. PICK s \in Sessions :
        session' = [session EXCEPT ![s] =
          [user |-> req[r].user, oidc |-> oidc, password |-> req[r].seen.password,
           spared |-> Outdated(req[r].user, req[r].seen.password)]]
  BY DEF CreateSession
<1>3. /\ req[r].seen.password \in 0..MaxPassword
      /\ Outdated(req[r].user, req[r].seen.password) \in BOOLEAN
  BY <1>1 DEF Row, Outdated
<1> QED BY <1>1, <1>2, <1>3 DEF TypeInv, TypeSession

LEMMA DestroyTyped == ASSUME TypeSession, NEW gone, Destroy(gone) PROVE TypeSession'
BY Blank DEF TypeSession, Destroy

LEMMA ResetRowTyped == ASSUME TypeInv, NEW u \in Users, ResetRow(u) PROVE TypeUser' /\ ended' \in [Users -> 0..MaxPassword]
<1>1. NextPassword(u) \in 0..MaxPassword BY Bounds DEF TypeInv, TypeUser, Row, NextPassword, ResetRow
<1>2. TypeUser'
  <2> DEFINE h == [user[u] EXCEPT !.password = NextPassword(u), !.ssoOnly = FALSE,
                                  !.failed = 0, !.locked = FALSE]
  <2>0. user[u] \in Row /\ 0 \in 0..(MaxFailures - 1) BY Bounds DEF TypeInv, TypeUser
  <2>1. h \in Row BY <1>1, <2>0 DEF Row
  <2>2. user' = [user EXCEPT ![u] = h] BY DEF ResetRow
  <2> HIDE DEF h
  <2> QED BY <2>1, <2>2 DEF TypeInv, TypeUser
<1>3. ended' \in [Users -> 0..MaxPassword] BY <1>1 DEF ResetRow, TypeInv, TypeGhosts
<1> QED BY <1>2, <1>3

LEMMA InitTypes == Init => TypeInv
<1> SUFFICES ASSUME Init PROVE TypeInv OBVIOUS
<1>1. TypeUser /\ TypeSession BY Blank DEF Init, TypeUser, TypeSession
<1>2. TypeRedis BY DEF Init, TypeRedis
<1>3. TypeReq BY Blank DEF Init, TypeReq
<1>4. TypeGhosts BY Bounds DEF Init, TypeGhosts
<1> QED BY <1>1, <1>2, <1>3, <1>4 DEF TypeInv

LEMMA StepTypes == TypeInv /\ [Next]_vars => TypeInv'
<1> SUFFICES ASSUME TypeInv, [Next]_vars PROVE TypeInv' OBVIOUS
<1>0. TypeUser /\ TypeSession /\ TypeRedis /\ TypeReq /\ TypeGhosts BY DEF TypeInv
<1> USE <1>0
<1>1. ASSUME NEW u \in Users, CreateLocal(u) PROVE TypeInv'
  <2>1. TypeUser' BY <1>1, CreateTyped DEF CreateLocal
  <2>2. TypeSession' /\ TypeRedis' /\ TypeReq' /\ TypeGhosts'
    BY <1>1 DEF CreateLocal, redis, ghosts, TypeSession, TypeRedis, TypeReq, TypeGhosts
  <2> QED BY <2>1, <2>2 DEF TypeInv
<1>2. ASSUME NEW r \in Requests, NEW u \in Users, CreateInvited(r, u) PROVE TypeInv'
  <2>1. TypeUser' BY <1>2, CreateTyped DEF CreateInvited
  <2>2. TypeReq' BY <1>2, BeginTyped DEF CreateInvited, Steps, BySession, ByToken
  <2>3. TypeSession' /\ TypeRedis' /\ TypeGhosts'
    BY <1>2 DEF CreateInvited, redis, ghosts, TypeSession, TypeRedis, TypeGhosts
  <2> QED BY <2>1, <2>2, <2>3 DEF TypeInv
<1>3. ASSUME NEW r \in Requests, InviteSet(r) PROVE TypeInv'
  <2>1. req[r].user \in Users BY <1>3 DEF InviteSet, At, TypeReq, Holds
  <2>2. TypeRedis' BY <1>3, <2>1 DEF InviteSet, TypeRedis
  <2>3. TypeReq' BY <1>3, <2>1, DoneTyped DEF InviteSet
  <2>4. TypeUser' /\ TypeSession' /\ TypeGhosts'
    BY <1>3 DEF InviteSet, redis, ghosts, TypeUser, TypeSession, TypeGhosts
  <2> QED BY <2>2, <2>3, <2>4 DEF TypeInv
<1>4. ASSUME NEW r \in Requests, NEW u \in Users, Disable(r, u) PROVE TypeInv'
  <2>1. TypeUser' BY <1>4 DEF Disable, TypeUser, Row
  <2>2. TypeReq' BY <1>4, BeginTyped DEF Disable, Steps, BySession, ByToken
  <2>3. TypeSession' /\ TypeRedis' /\ TypeGhosts'
    BY <1>4 DEF Disable, redis, ghosts, TypeSession, TypeRedis, TypeGhosts
  <2> QED BY <2>1, <2>2, <2>3 DEF TypeInv
<1>5. ASSUME NEW u \in Users, Enable(u) PROVE TypeInv'
  <2>1. TypeUser' BY <1>5 DEF Enable, TypeUser, Row
  <2>2. TypeSession' /\ TypeRedis' /\ TypeReq' /\ TypeGhosts'
    BY <1>5 DEF Enable, redis, ghosts, TypeSession, TypeRedis, TypeReq, TypeGhosts
  <2> QED BY <2>1, <2>2 DEF TypeInv
<1>6. ASSUME NEW r \in Requests, NEW s \in Sessions, Load(r, s) PROVE TypeInv'
  <2>1. session[s].user \in Users BY <1>6 DEF Load, TypeSession
  <2>2. [NoRow EXCEPT !.password = user[session[s].user].password] \in Row
    BY <1>6, <2>1, Blank DEF TypeUser, Row, NoRow
  <2>3. TypeReq' BY <1>6, <2>1, <2>2, ReadTyped DEF Load, Steps, BySession, ByToken
  <2>4. TypeUser' /\ TypeSession' /\ TypeRedis' /\ TypeGhosts'
    BY <1>6 DEF Load, redis, ghosts, TypeUser, TypeSession, TypeRedis, TypeGhosts
  <2> QED BY <2>3, <2>4 DEF TypeInv
<1>7. ASSUME NEW s \in Sessions, LoadExpired(s) PROVE TypeInv'
  <2>1. TypeSession' BY <1>7, DestroyTyped DEF LoadExpired
  <2>2. TypeUser' /\ TypeRedis' /\ TypeReq' /\ TypeGhosts'
    BY <1>7 DEF LoadExpired, redis, ghosts, TypeUser, TypeRedis, TypeReq, TypeGhosts
  <2> QED BY <2>1, <2>2 DEF TypeInv
<1>8. ASSUME NEW r \in Requests, Logout(r) PROVE TypeInv'
  <2>1. TypeSession' BY <1>8, DestroyTyped DEF Logout
  <2>2. TypeReq' BY <1>8, DoneTyped DEF Logout
  <2>3. TypeUser' /\ TypeRedis' /\ TypeGhosts'
    BY <1>8 DEF Logout, redis, ghosts, TypeUser, TypeRedis, TypeGhosts
  <2> QED BY <2>1, <2>2, <2>3 DEF TypeInv
<1>9. ASSUME NEW r \in Requests, Other(r) PROVE TypeInv'
  <2>1. TypeReq' BY <1>9, DoneTyped DEF Other
  <2>2. TypeUser' /\ TypeSession' /\ TypeRedis' /\ TypeGhosts'
    BY <1>9 DEF Other, redis, ghosts, TypeUser, TypeSession, TypeRedis, TypeGhosts
  <2> QED BY <2>1, <2>2 DEF TypeInv
<1>10. ASSUME NEW u \in Users, ForceLogout(u) PROVE TypeInv'
  <2>1. TypeSession' BY <1>10, DestroyTyped DEF ForceLogout
  <2>2. TypeUser' /\ TypeRedis' /\ TypeReq' /\ TypeGhosts'
    BY <1>10 DEF ForceLogout, redis, ghosts, TypeUser, TypeRedis, TypeReq, TypeGhosts
  <2> QED BY <2>1, <2>2 DEF TypeInv
<1>11. ASSUME NEW r \in Requests, EndAll(r) PROVE TypeInv'
  <2>1. TypeSession' BY <1>11, DestroyTyped DEF EndAll
  <2>2. TypeReq' BY <1>11, DoneTyped DEF EndAll
  <2>3. TypeUser' /\ TypeRedis' /\ TypeGhosts'
    BY <1>11 DEF EndAll, redis, ghosts, TypeUser, TypeRedis, TypeGhosts
  <2> QED BY <2>1, <2>2, <2>3 DEF TypeInv
<1>12. ASSUME NEW u \in Users, SsoCreate(u) PROVE TypeInv'
  <2>1. TypeUser' BY <1>12, CreateTyped DEF SsoCreate
  <2>2. TypeSession' /\ TypeRedis' /\ TypeReq' /\ TypeGhosts'
    BY <1>12 DEF SsoCreate, redis, ghosts, TypeSession, TypeRedis, TypeReq, TypeGhosts
  <2> QED BY <2>1, <2>2 DEF TypeInv
<1>13. ASSUME NEW r \in Requests, NEW u \in Users, SsoFind(r, u) PROVE TypeInv'
  <2>1. [NoRow EXCEPT !.password = user[u].password] \in Row BY Blank DEF TypeUser, Row, NoRow
  <2>2. TypeReq' BY <1>13, <2>1, ReadTyped DEF SsoFind, Steps, BySession, ByToken
  <2>3. TypeUser' /\ TypeSession' /\ TypeRedis' /\ TypeGhosts'
    BY <1>13 DEF SsoFind, redis, ghosts, TypeUser, TypeSession, TypeRedis, TypeGhosts
  <2> QED BY <2>2, <2>3 DEF TypeInv
<1>14. ASSUME NEW r \in Requests, SsoSession(r) PROVE TypeInv'
  <2>1. TypeSession' BY <1>14, SessionTyped DEF SsoSession, At
  <2>2. TypeReq' BY <1>14, DoneTyped DEF SsoSession
  <2>3. TypeUser' /\ TypeRedis' /\ TypeGhosts'
    BY <1>14 DEF SsoSession, redis, ghosts, TypeUser, TypeRedis, TypeGhosts
  <2> QED BY <2>1, <2>2, <2>3 DEF TypeInv
<1>15. ASSUME NEW u \in Users, BackChannel(u) PROVE TypeInv'
  <2>1. TypeSession' BY <1>15, DestroyTyped DEF BackChannel
  <2>2. TypeUser' /\ TypeRedis' /\ TypeReq' /\ TypeGhosts'
    BY <1>15 DEF BackChannel, redis, ghosts, TypeUser, TypeRedis, TypeReq, TypeGhosts
  <2> QED BY <2>1, <2>2 DEF TypeInv
<1>16. ASSUME NEW r \in Requests, NEW u \in Users, LoginRead(r, u) PROVE TypeInv'
  <2>1. [user[u] EXCEPT !.locked = FALSE, !.ssoOnly = FALSE] \in Row BY DEF TypeUser, Row
  <2>2. TypeReq' BY <1>16, <2>1, ReadTyped DEF LoginRead, Steps, BySession, ByToken
  <2>3. TypeUser' /\ TypeSession' /\ TypeRedis' /\ TypeGhosts'
    BY <1>16 DEF LoginRead, redis, ghosts, TypeUser, TypeSession, TypeRedis, TypeGhosts
  <2> QED BY <2>2, <2>3 DEF TypeInv
<1>17. ASSUME NEW r \in Requests, LoginWrong(r) PROVE TypeInv'
  <2>1. req[r].user \in Users BY <1>17 DEF LoginWrong, At, TypeReq, Holds
  <2> DEFINE failed == req[r].seen.failed + 1
             lock == failed >= MaxFailures
             next == IF lock THEN 0 ELSE failed
  <2>2. req[r].seen.failed \in 0..(MaxFailures - 1) BY DEF TypeReq, Handlers, Row
  <2>3. lock \in BOOLEAN /\ next \in 0..(MaxFailures - 1) BY <2>2, Bounds
  <2>4. user' = [user EXCEPT ![req[r].user].failed = next, ![req[r].user].locked = lock]
    BY <1>17 DEF LoginWrong
  <2>5. TypeReq' BY <1>17, DoneTyped DEF LoginWrong
  <2>6. TypeSession' /\ TypeRedis' /\ TypeGhosts'
    BY <1>17 DEF LoginWrong, redis, ghosts, TypeSession, TypeRedis, TypeGhosts
  <2> HIDE DEF lock, next
  <2>7. TypeUser' BY <2>1, <2>3, <2>4 DEF TypeUser, Row
  <2> QED BY <2>5, <2>6, <2>7 DEF TypeInv
<1>18. ASSUME NEW r \in Requests, LoginRight(r) PROVE TypeInv'
  <2>1. req[r].user \in Users BY <1>18 DEF LoginRight, At, TypeReq, Holds
  <2>2. TypeUser' BY <1>18, <2>1, Bounds DEF LoginRight, TypeUser, Row
  <2>3. [NoRow EXCEPT !.password = req[r].seen.password] \in Row
    BY Blank DEF TypeReq, Handlers, Row, NoRow
  <2>4. TypeReq' BY <1>18, <2>1, <2>3, ReadTyped DEF LoginRight, Steps, BySession, ByToken
  <2>5. TypeSession' /\ TypeRedis' /\ TypeGhosts'
    BY <1>18 DEF LoginRight, redis, ghosts, TypeSession, TypeRedis, TypeGhosts
  <2> QED BY <2>2, <2>4, <2>5 DEF TypeInv
<1>19. ASSUME NEW r \in Requests, OpenSession(r) PROVE TypeInv'
  <2>1. TypeSession' BY <1>19, SessionTyped DEF OpenSession, At
  <2>2. TypeReq' BY <1>19, DoneTyped DEF OpenSession
  <2>3. TypeUser' /\ TypeRedis' /\ TypeGhosts'
    BY <1>19 DEF OpenSession, redis, ghosts, TypeUser, TypeRedis, TypeGhosts
  <2> QED BY <2>1, <2>2, <2>3 DEF TypeInv
<1>20. ASSUME NEW u \in Users, Unlock(u) PROVE TypeInv'
  <2>1. TypeUser' BY <1>20 DEF Unlock, TypeUser, Row
  <2>2. TypeSession' /\ TypeRedis' /\ TypeReq' /\ TypeGhosts'
    BY <1>20 DEF Unlock, redis, ghosts, TypeSession, TypeRedis, TypeReq, TypeGhosts
  <2> QED BY <2>1, <2>2 DEF TypeInv
<1>21. ASSUME NEW r \in Requests, NEW u \in Users, AdminReset(r, u) PROVE TypeInv'
  <2>1. TypeUser' /\ TypeGhosts' BY <1>21, ResetRowTyped DEF AdminReset, TypeGhosts
  <2>2. TypeReq' BY <1>21, BeginTyped DEF AdminReset, Steps, BySession, ByToken
  <2>3. TypeSession' /\ TypeRedis' BY <1>21 DEF AdminReset, redis, ghosts, TypeSession, TypeRedis
  <2> QED BY <2>1, <2>2, <2>3 DEF TypeInv
<1>22. ASSUME NEW r \in Requests, ChangePassword(r) PROVE TypeInv'
  <2>1. req[r].user \in Users /\ req[r].by \in Sessions
    BY <1>22 DEF ChangePassword, At, TypeReq, Holds, BySession
  <2>2. NextPassword(req[r].user) \in 0..MaxPassword
    BY <1>22, <2>1, Bounds DEF ChangePassword, NextPassword, TypeUser, Row
  <2>3. TypeUser' BY <1>22, <2>1, <2>2 DEF ChangePassword, TypeUser, Row
  <2>4. TypeSession' BY <1>22, <2>1, <2>2 DEF ChangePassword, TypeSession
  <2>5. TypeGhosts' BY <1>22, <2>1, <2>2 DEF ChangePassword, TypeGhosts
  <2>6. TypeReq' BY <1>22, <2>1, Blank, ReadTyped DEF ChangePassword, Steps, BySession, ByToken
  <2>7. TypeRedis' BY <1>22 DEF ChangePassword, redis, ghosts, TypeRedis
  <2> QED BY <2>3, <2>4, <2>5, <2>6, <2>7 DEF TypeInv
<1>23. ASSUME NEW r \in Requests, EndOthers(r) PROVE TypeInv'
  <2>1. req[r].user \in Users BY <1>23 DEF EndOthers, At, TypeReq, Holds
  <2>2. TypeSession' BY <1>23, <2>1, DestroyTyped DEF EndOthers
  <2>3. TypeReq' BY <1>23, <2>1, BeginTyped DEF EndOthers, Steps, BySession, ByToken
  <2>4. TypeUser' /\ TypeRedis' /\ TypeGhosts'
    BY <1>23 DEF EndOthers, redis, ghosts, TypeUser, TypeRedis, TypeGhosts
  <2> QED BY <2>2, <2>3, <2>4 DEF TypeInv
<1>24. ASSUME NEW r \in Requests, Revoke(r) PROVE TypeInv'
  <2>1. req[r].user \in Users BY <1>24 DEF Revoke, At, TypeReq, Holds
  <2>2. TypeRedis' BY <1>24, <2>1 DEF Revoke, TypeRedis
  <2>3. TypeReq'
    BY <1>24, <2>1, DoneTyped, BeginTyped DEF Revoke, TypeRedis, Steps, BySession, ByToken
  <2>4. TypeUser' /\ TypeSession' /\ TypeGhosts'
    BY <1>24 DEF Revoke, redis, ghosts, TypeUser, TypeSession, TypeGhosts
  <2> QED BY <2>2, <2>3, <2>4 DEF TypeInv
<1>25. ASSUME NEW r \in Requests, RevokeToken(r) PROVE TypeInv'
  <2>1. TypeRedis' BY <1>25 DEF RevokeToken, TypeRedis
  <2>2. TypeReq' BY <1>25, DoneTyped DEF RevokeToken
  <2>3. TypeUser' /\ TypeSession' /\ TypeGhosts'
    BY <1>25 DEF RevokeToken, redis, ghosts, TypeUser, TypeSession, TypeGhosts
  <2> QED BY <2>1, <2>2, <2>3 DEF TypeInv
<1>26. ASSUME NEW r \in Requests, NEW u \in Users, IssueFor(r, u) PROVE TypeInv'
  <2>1. [NoRow EXCEPT !.ssoOnly = user[u].ssoOnly] \in Row BY Blank DEF TypeUser, Row, NoRow
  <2>2. TypeReq' BY <1>26, <2>1, ReadTyped DEF IssueFor, Steps, BySession, ByToken
  <2>3. TypeUser' /\ TypeSession' /\ TypeRedis' /\ TypeGhosts'
    BY <1>26 DEF IssueFor, redis, ghosts, TypeUser, TypeSession, TypeRedis, TypeGhosts
  <2> QED BY <2>2, <2>3 DEF TypeInv
<1>27. ASSUME NEW r \in Requests, Issue(r) PROVE TypeInv'
  <2>1. req[r].user \in Users BY <1>27 DEF Issue, At, TypeReq, Holds
  <2>2. req' = [req EXCEPT ![r] = [@ EXCEPT !.at = "issue_revoke", !.token = current[req[r].user]]]
    BY <1>27, <2>1 DEF Issue, TypeReq, Handlers
  <2>3. TypeReq' BY <1>27, <2>1, <2>2, StepTyped DEF TypeRedis, Steps, BySession, ByToken
  <2>4. TypeUser' /\ TypeSession' /\ TypeRedis' /\ TypeGhosts'
    BY <1>27 DEF Issue, redis, ghosts, TypeUser, TypeSession, TypeRedis, TypeGhosts
  <2> QED BY <2>3, <2>4 DEF TypeInv
<1>28. ASSUME NEW r \in Requests, IssueRevoke(r) PROVE TypeInv'
  <2>1. req[r].user \in Users BY <1>28 DEF IssueRevoke, At, TypeReq, Holds
  <2>2. TypeRedis' BY <1>28, <2>1 DEF IssueRevoke, TypeRedis
  <2>3. req' = [req EXCEPT ![r] = [@ EXCEPT !.at = "issue_set", !.token = None]]
    BY <1>28, <2>1 DEF IssueRevoke, TypeReq, Handlers
  <2>4. TypeReq' BY <1>28, <2>1, <2>3, StepTyped DEF Steps, BySession, ByToken
  <2>5. TypeUser' /\ TypeSession' /\ TypeGhosts'
    BY <1>28 DEF IssueRevoke, redis, ghosts, TypeUser, TypeSession, TypeGhosts
  <2> QED BY <2>2, <2>4, <2>5 DEF TypeInv
<1>29. ASSUME NEW r \in Requests, IssueSet(r) PROVE TypeInv'
  <2>1. req[r].user \in Users BY <1>29 DEF IssueSet, At, TypeReq, Holds
  <2>2. TypeRedis' BY <1>29, <2>1 DEF IssueSet, TypeRedis
  <2>3. \E t \in Tokens : req' = [req EXCEPT ![r] = [@ EXCEPT !.at = "issue_key", !.token = t]]
    BY <1>29, <2>1 DEF IssueSet, TypeReq, Handlers
  <2>4. TypeReq' BY <1>29, <2>1, <2>3, StepTyped DEF Steps, BySession, ByToken
  <2>5. TypeUser' /\ TypeSession' /\ TypeGhosts'
    BY <1>29 DEF IssueSet, redis, ghosts, TypeUser, TypeSession, TypeGhosts
  <2> QED BY <2>2, <2>4, <2>5 DEF TypeInv
<1>30. ASSUME NEW r \in Requests, IssueKey(r) PROVE TypeInv'
  <2>1. req[r].user \in Users /\ req[r].token \in Tokens
    BY <1>30 DEF IssueKey, At, TypeReq, Holds, ByToken
  <2>2. TypeRedis' BY <1>30, <2>1 DEF IssueKey, TypeRedis
  <2>3. TypeReq' BY <1>30, <2>1, DoneTyped, BeginTyped DEF IssueKey, Steps, BySession, ByToken
  <2>4. TypeUser' /\ TypeSession' /\ TypeGhosts'
    BY <1>30 DEF IssueKey, redis, ghosts, TypeUser, TypeSession, TypeGhosts
  <2> QED BY <2>2, <2>3, <2>4 DEF TypeInv
<1>31. ASSUME NEW r \in Requests, ClearSso(r) PROVE TypeInv'
  <2>1. req[r].user \in Users BY <1>31 DEF ClearSso, At, TypeReq, Holds
  <2>2. TypeUser' BY <1>31, <2>1 DEF ClearSso, TypeUser, Row
  <2>3. TypeReq' BY <1>31, <2>1, DoneTyped DEF ClearSso
  <2>4. TypeSession' /\ TypeRedis' /\ TypeGhosts'
    BY <1>31 DEF ClearSso, redis, ghosts, TypeSession, TypeRedis, TypeGhosts
  <2> QED BY <2>2, <2>3, <2>4 DEF TypeInv
<1>32. ASSUME NEW t \in Tokens, ExpireToken(t) PROVE TypeInv'
  <2>1. TypeRedis' BY <1>32 DEF ExpireToken, TypeRedis
  <2>2. TypeUser' /\ TypeSession' /\ TypeReq' /\ TypeGhosts'
    BY <1>32 DEF ExpireToken, redis, ghosts, TypeUser, TypeSession, TypeReq, TypeGhosts
  <2> QED BY <2>1, <2>2 DEF TypeInv
<1>33. ASSUME NEW u \in Users, ExpireKey(u) PROVE TypeInv'
  <2>1. TypeRedis' BY <1>33 DEF ExpireKey, TypeRedis
  <2>2. TypeUser' /\ TypeSession' /\ TypeReq' /\ TypeGhosts'
    BY <1>33 DEF ExpireKey, redis, ghosts, TypeUser, TypeSession, TypeReq, TypeGhosts
  <2> QED BY <2>1, <2>2 DEF TypeInv
<1>34. ASSUME NEW r \in Requests, NEW t \in Tokens, ResetPeek(r, t) PROVE TypeInv'
  <2>1. TypeReq' BY <1>34, BeginTyped DEF ResetPeek, TypeRedis, Steps, BySession, ByToken
  <2>2. TypeUser' /\ TypeSession' /\ TypeRedis' /\ TypeGhosts'
    BY <1>34 DEF ResetPeek, redis, ghosts, TypeUser, TypeSession, TypeRedis, TypeGhosts
  <2> QED BY <2>1, <2>2 DEF TypeInv
<1>35. ASSUME NEW r \in Requests, ResetTake(r) PROVE TypeInv'
  <2>1. req[r].user \in Users /\ req[r].token \in Tokens
    BY <1>35 DEF ResetTake, At, TypeReq, Holds, ByToken
  <2>2. TypeRedis' BY <1>35, <2>1 DEF ResetTake, TypeRedis
  <2>3. Go(r, "take_key") => req' = [req EXCEPT ![r] = [@ EXCEPT !.at = "take_key", !.token = req[r].token]]
    BY <1>35, <2>1 DEF Go, TypeReq, Handlers
  <2>4. TypeReq' BY <1>35, <2>1, <2>3, DoneTyped, StepTyped DEF ResetTake, Steps, BySession, ByToken
  <2>5. TypeUser' /\ TypeSession' /\ TypeGhosts'
    BY <1>35 DEF ResetTake, redis, ghosts, TypeUser, TypeSession, TypeGhosts
  <2> QED BY <2>2, <2>4, <2>5 DEF TypeInv
<1>36. ASSUME NEW r \in Requests, ResetTakeKey(r) PROVE TypeInv'
  <2>1. req[r].user \in Users /\ req[r].token \in Tokens
    BY <1>36 DEF ResetTakeKey, At, TypeReq, Holds, ByToken
  <2>2. TypeRedis' BY <1>36, <2>1 DEF ResetTakeKey, TypeRedis
  <2>3. req' = [req EXCEPT ![r] = [@ EXCEPT !.at = "reset", !.token = req[r].token]]
    BY <1>36, <2>1 DEF ResetTakeKey, Go, TypeReq, Handlers
  <2>4. TypeReq' BY <1>36, <2>1, <2>3, StepTyped DEF ResetTakeKey, Steps, BySession, ByToken
  <2>5. TypeUser' /\ TypeSession' /\ TypeGhosts'
    BY <1>36 DEF ResetTakeKey, redis, ghosts, TypeUser, TypeSession, TypeGhosts
  <2> QED BY <2>2, <2>4, <2>5 DEF TypeInv
<1>37. ASSUME NEW r \in Requests, ResetPassword(r) PROVE TypeInv'
  <2>1. req[r].user \in Users /\ req[r].token \in Tokens
    BY <1>37 DEF ResetPassword, At, TypeReq, Holds, ByToken
  <2>2. TypeUser' /\ ended' \in [Users -> 0..MaxPassword]
    BY <1>37, <2>1, ResetRowTyped DEF ResetPassword
  <2>3. TypeGhosts' BY <1>37, <2>1, <2>2 DEF ResetPassword, TypeGhosts
  <2>4. TypeReq' BY <1>37, <2>1, BeginTyped DEF ResetPassword, Steps, BySession, ByToken
  <2>5. TypeSession' /\ TypeRedis'
    BY <1>37 DEF ResetPassword, redis, ghosts, TypeSession, TypeRedis
  <2> QED BY <2>2, <2>3, <2>4, <2>5 DEF TypeInv
<1>38. ASSUME NEW r \in Requests, NEW u \in Users, AcceptRead(r, u) PROVE TypeInv'
  <2>1. TypeReq' BY <1>38, BeginTyped DEF AcceptRead, Steps, BySession, ByToken
  <2>2. TypeUser' /\ TypeSession' /\ TypeRedis' /\ TypeGhosts'
    BY <1>38 DEF AcceptRead, redis, ghosts, TypeUser, TypeSession, TypeRedis, TypeGhosts
  <2> QED BY <2>1, <2>2 DEF TypeInv
<1>39. ASSUME NEW r \in Requests, Accept(r) PROVE TypeInv'
  <2>1. req[r].user \in Users BY <1>39 DEF Accept, At, TypeReq, Holds
  <2>2. NextPassword(req[r].user) \in 0..MaxPassword
    BY <1>39, <2>1, Bounds DEF Accept, NextPassword, TypeUser, Row
  <2>3. TypeUser' BY <1>39, <2>1, <2>2 DEF Accept, TypeUser, Row
  <2>4. TypeReq' BY <1>39, <2>1, BeginTyped DEF Accept, Steps, BySession, ByToken
  <2>5. TypeSession' /\ TypeRedis' /\ TypeGhosts'
    BY <1>39 DEF Accept, redis, ghosts, TypeSession, TypeRedis, TypeGhosts
  <2> QED BY <2>3, <2>4, <2>5 DEF TypeInv
<1>40. ASSUME NEW r \in Requests, Accepted(r) PROVE TypeInv'
  <2>1. TypeRedis' BY <1>40 DEF Accepted, TypeRedis
  <2>2. TypeReq' BY <1>40, DoneTyped DEF Accepted
  <2>3. TypeUser' /\ TypeSession' /\ TypeGhosts'
    BY <1>40 DEF Accepted, redis, ghosts, TypeUser, TypeSession, TypeGhosts
  <2> QED BY <2>1, <2>2, <2>3 DEF TypeInv
<1>41. ASSUME NEW u \in Users, ExpireInvite(u) PROVE TypeInv'
  <2>1. TypeRedis' BY <1>41 DEF ExpireInvite, TypeRedis
  <2>2. TypeUser' /\ TypeSession' /\ TypeReq' /\ TypeGhosts'
    BY <1>41 DEF ExpireInvite, redis, ghosts, TypeUser, TypeSession, TypeReq, TypeGhosts
  <2> QED BY <2>1, <2>2 DEF TypeInv
<1>46. ASSUME NEW r \in Requests, Cut(r) PROVE TypeInv'
  <2>1. TypeSession' BY <1>46 DEF Cut, TypeSession
  <2>2. TypeReq' BY <1>46, DoneTyped DEF Cut
  <2>3. TypeUser' /\ TypeRedis' /\ TypeGhosts'
    BY <1>46 DEF Cut, redis, ghosts, TypeUser, TypeRedis, TypeGhosts
  <2> QED BY <2>1, <2>2, <2>3 DEF TypeInv
<1>42. ASSUME NEW r \in Requests, Arrive(r) PROVE TypeInv'
  BY <1>42, <1>2, <1>4, <1>6, <1>13, <1>16, <1>21, <1>26, <1>34, <1>38 DEF Arrive, Forgot,
     SendLink
<1>43. ASSUME NEW r \in Requests, Continue(r) PROVE TypeInv'
  BY <1>43, <1>3, <1>8, <1>9, <1>11, <1>14, <1>17, <1>18, <1>19, <1>22, <1>23, <1>24, <1>25,
     <1>27, <1>28, <1>29, <1>30, <1>31, <1>35, <1>36, <1>37, <1>39, <1>40, <1>46 DEF Continue
<1>44. CASE Elsewhere
  BY <1>44, <1>1, <1>5, <1>7, <1>10, <1>12, <1>15, <1>20, <1>32, <1>33, <1>41 DEF Elsewhere
<1>45. CASE UNCHANGED vars
  BY <1>45 DEF vars, redis, ghosts, TypeInv, TypeUser, TypeSession, TypeRedis, TypeReq, TypeGhosts
<1> QED BY <1>42, <1>43, <1>44, <1>45 DEF Next

(* Every row and key holds what the schema declares, whatever handlers interleave; in particular
   the failure counter stays under LOGIN_MAX_FAILURES. *)
THEOREM TypeCorrect == Spec => []TypeOK
<1>1. TypeInv => TypeOK
  BY DEF TypeInv, TypeUser, TypeSession, TypeRedis, TypeReq, TypeGhosts, Handlers, TypeOK
<1> QED BY <1>1, InitTypes, StepTypes, PTL DEF Spec

-----------------------------------------------------------------------------
(* Which handlers a step moves, and where to. *)

Moves(r, step, u) ==
  req'[r].at = step /\ req'[r].user = u /\ \A q \in Requests \ {r} : req'[q] = req[q]

LEMMA DoneMoves == ASSUME TypeReq, NEW r \in Requests, Done(r) PROVE Moves(r, "idle", None)
BY DEF TypeReq, Done, Idle, Moves

LEMMA BeginMoves ==
  ASSUME TypeReq, NEW r \in Requests, NEW step, NEW u, NEW t, Begin(r, step, u, t)
  PROVE  Moves(r, step, u) /\ req'[r].token = t
BY DEF TypeReq, Begin, Idle, Moves

LEMMA ReadMoves ==
  ASSUME TypeReq, NEW r \in Requests, NEW step, NEW u, NEW s, NEW seen, Read(r, step, u, s, seen)
  PROVE  Moves(r, step, u) /\ req'[r].by = s
BY DEF TypeReq, Read, Idle, Moves

LEMMA GoMoves ==
  ASSUME TypeReq, NEW r \in Requests, NEW step, Go(r, step)
  PROVE  Moves(r, step, req[r].user) /\ req'[r].token = req[r].token
BY DEF TypeReq, Handlers, Go, Moves

-----------------------------------------------------------------------------
(* Reset tokens: a token that is live has set no password and nobody is about to set one with it;
   one that was taken, by GETDEL, is in the hands of one handler. *)

Taker(r, t) == req[r].at \in {"take_key", "reset"} /\ req[r].token = t

TokenOK(t) ==
  /\ used[t] <= 1
  /\ t \notin issued => token[t] = None
  /\ t \notin issued \/ token[t] # None => used[t] = 0
  /\ \A r \in Requests : Taker(r, t) => t \in issued /\ token[t] = None /\ used[t] = 0
  /\ \A q, r \in Requests : Taker(q, t) /\ Taker(r, t) => q = r

TokenInv == \A t \in Tokens : TokenOK(t)

(* What a step leaves alone that neither issues a token nor takes or uses one. *)
NoTake ==
  /\ UNCHANGED <<used, issued>>
  /\ \A t \in Tokens : token'[t] \in {None, token[t]}
  /\ \A r \in Requests, t \in Tokens : Taker(r, t)' => Taker(r, t)

LEMMA Untaken == ASSUME TokenInv, NoTake PROVE TokenInv'
<1> SUFFICES ASSUME NEW t \in Tokens PROVE TokenOK(t)' BY DEF TokenInv
<1>1. TokenOK(t) BY DEF TokenInv
<1> QED BY <1>1 DEF TokenOK, NoTake

(* A handler that comes to another step than those two. *)
LEMMA MovesAway ==
  ASSUME NEW r \in Requests, NEW step, NEW u, Moves(r, step, u), step \notin {"take_key", "reset"},
         UNCHANGED <<used, issued>>, \A t \in Tokens : token'[t] \in {None, token[t]}
  PROVE  NoTake
BY DEF Moves, NoTake, Taker

LEMMA StepTokens == ASSUME TypeInv, TokenInv, [Next]_vars PROVE TokenInv'
<1>0. TypeUser /\ TypeSession /\ TypeRedis /\ TypeReq /\ TypeGhosts BY DEF TypeInv
<1> USE <1>0
<1>1. ASSUME NEW r \in Requests, NEW u \in Users, CreateInvited(r, u) PROVE NoTake
  BY <1>1, BeginMoves, MovesAway DEF CreateInvited, redis, ghosts
<1>2. ASSUME NEW r \in Requests, InviteSet(r) PROVE NoTake
  BY <1>2, DoneMoves, MovesAway DEF InviteSet, redis, ghosts
<1>3. ASSUME NEW r \in Requests, NEW u \in Users, Disable(r, u) PROVE NoTake
  BY <1>3, BeginMoves, MovesAway DEF Disable, redis, ghosts
<1>4. ASSUME NEW r \in Requests, NEW s \in Sessions, Load(r, s) PROVE NoTake
  BY <1>4, ReadMoves, MovesAway DEF Load, redis, ghosts
<1>5. ASSUME NEW r \in Requests, Logout(r) PROVE NoTake
  BY <1>5, DoneMoves, MovesAway DEF Logout, redis, ghosts
<1>6. ASSUME NEW r \in Requests, Other(r) PROVE NoTake
  BY <1>6, DoneMoves, MovesAway DEF Other, redis, ghosts
<1>7. ASSUME NEW r \in Requests, EndAll(r) PROVE NoTake
  BY <1>7, DoneMoves, MovesAway DEF EndAll, redis, ghosts
<1>8. ASSUME NEW r \in Requests, NEW u \in Users, SsoFind(r, u) PROVE NoTake
  BY <1>8, ReadMoves, MovesAway DEF SsoFind, redis, ghosts
<1>9. ASSUME NEW r \in Requests, SsoSession(r) PROVE NoTake
  BY <1>9, DoneMoves, MovesAway DEF SsoSession, redis, ghosts
<1>10. ASSUME NEW r \in Requests, NEW u \in Users, LoginRead(r, u) PROVE NoTake
  BY <1>10, ReadMoves, MovesAway DEF LoginRead, redis, ghosts
<1>11. ASSUME NEW r \in Requests, LoginWrong(r) PROVE NoTake
  BY <1>11, DoneMoves, MovesAway DEF LoginWrong, redis, ghosts
<1>12. ASSUME NEW r \in Requests, LoginRight(r) PROVE NoTake
  BY <1>12, ReadMoves, MovesAway DEF LoginRight, redis, ghosts
<1>13. ASSUME NEW r \in Requests, OpenSession(r) PROVE NoTake
  BY <1>13, DoneMoves, MovesAway DEF OpenSession, redis, ghosts
<1>14. ASSUME NEW r \in Requests, NEW u \in Users, AdminReset(r, u) PROVE NoTake
  BY <1>14, BeginMoves, MovesAway DEF AdminReset, redis, ghosts
<1>15. ASSUME NEW r \in Requests, ChangePassword(r) PROVE NoTake
  BY <1>15, ReadMoves, MovesAway DEF ChangePassword, redis, ghosts
<1>16. ASSUME NEW r \in Requests, EndOthers(r) PROVE NoTake
  BY <1>16, BeginMoves, MovesAway DEF EndOthers, redis, ghosts
<1>17. ASSUME NEW r \in Requests, Revoke(r) PROVE NoTake
  BY <1>17, DoneMoves, BeginMoves, MovesAway DEF Revoke, redis, ghosts
<1>18. ASSUME NEW r \in Requests, RevokeToken(r) PROVE NoTake
  BY <1>18, DoneMoves, MovesAway DEF RevokeToken, redis, ghosts
<1>19. ASSUME NEW r \in Requests, NEW u \in Users, IssueFor(r, u) PROVE NoTake
  BY <1>19, ReadMoves, MovesAway DEF IssueFor, redis, ghosts
<1>20. ASSUME NEW r \in Requests, Issue(r) PROVE NoTake
  <2>1. Moves(r, "issue_revoke", req[r].user)
    BY <1>20 DEF Issue, Moves, TypeReq, Handlers
  <2> QED BY <1>20, <2>1, MovesAway DEF Issue, redis, ghosts
<1>21. ASSUME NEW r \in Requests, IssueRevoke(r) PROVE NoTake
  <2>1. Moves(r, "issue_set", req[r].user)
    BY <1>21 DEF IssueRevoke, Moves, TypeReq, Handlers
  <2> QED BY <1>21, <2>1, MovesAway DEF IssueRevoke, redis, ghosts
<1>22. ASSUME NEW r \in Requests, IssueKey(r) PROVE NoTake
  BY <1>22, DoneMoves, BeginMoves, MovesAway DEF IssueKey, redis, ghosts
<1>23. ASSUME NEW r \in Requests, ClearSso(r) PROVE NoTake
  BY <1>23, DoneMoves, MovesAway DEF ClearSso, redis, ghosts
<1>24. ASSUME NEW r \in Requests, NEW t \in Tokens, ResetPeek(r, t) PROVE NoTake
  BY <1>24, BeginMoves, MovesAway DEF ResetPeek, redis, ghosts
<1>25. ASSUME NEW r \in Requests, ResetTakeKey(r) PROVE NoTake
  <2>1. Moves(r, "reset", req[r].user) /\ req'[r].token = req[r].token /\ req[r].at = "take_key"
    BY <1>25, GoMoves DEF ResetTakeKey, At
  <2> QED BY <1>25, <2>1 DEF ResetTakeKey, ghosts, Moves, NoTake, Taker
<1>26. ASSUME NEW r \in Requests, NEW u \in Users, AcceptRead(r, u) PROVE NoTake
  BY <1>26, BeginMoves, MovesAway DEF AcceptRead, redis, ghosts
<1>27. ASSUME NEW r \in Requests, Accept(r) PROVE NoTake
  BY <1>27, BeginMoves, MovesAway DEF Accept, redis, ghosts
<1>28. ASSUME NEW r \in Requests, Accepted(r) PROVE NoTake
  BY <1>28, DoneMoves, MovesAway DEF Accepted, redis, ghosts
<1>29. ASSUME Elsewhere PROVE NoTake
  <2>1. UNCHANGED <<req, used, issued>>
    BY <1>29
    DEF Elsewhere, CreateLocal, SsoCreate, Enable, ForceLogout, BackChannel,
        Unlock, ExpireKey, ExpireInvite, LoadExpired, ExpireToken, redis, ghosts
  <2>2. token' = token \/ \E t \in Tokens : token' = [token EXCEPT ![t] = None]
    BY <1>29
    DEF Elsewhere, CreateLocal, SsoCreate, Enable, ForceLogout, BackChannel,
        Unlock, ExpireKey, ExpireInvite, LoadExpired, ExpireToken, redis
  <2> QED BY <2>1, <2>2 DEF NoTake, Taker, TypeRedis
<1>30. ASSUME NEW r \in Requests, IssueSet(r) PROVE TokenInv'
  <2>1. PICK t \in Tokens \ issued :
          /\ issued' = issued \cup {t} /\ token' = [token EXCEPT ![t] = req[r].user]
          /\ req' = [req EXCEPT ![r].at = "issue_key", ![r].token = t]
    BY <1>30 DEF IssueSet
  <2>2. req'[r].at = "issue_key" /\ \A q \in Requests \ {r} : req'[q] = req[q]
    BY <2>1 DEF TypeReq, Handlers
  <2>3. \A q \in Requests, c \in Tokens : Taker(q, c)' => Taker(q, c) BY <2>2 DEF Taker
  <2>4. used' = used /\ \A c \in Tokens \ {t} : token'[c] = token[c]
    BY <1>30, <2>1 DEF IssueSet, ghosts, TypeRedis
  <2>5. ASSUME NEW c \in Tokens PROVE TokenOK(c)'
    <3>1. TokenOK(c) BY DEF TokenInv
    <3>2. CASE c = t
      <4>1. c \notin issued /\ c \in issued' BY <2>1, <3>2
      <4>2. \A q \in Requests : ~Taker(q, c)' BY <2>3, <3>1, <4>1 DEF TokenOK
      <4>3. used'[c] = 0 BY <2>4, <3>1, <4>1 DEF TokenOK
      <4> QED BY <4>1, <4>2, <4>3 DEF TokenOK
    <3>3. CASE c # t
      <4>1. token'[c] = token[c] /\ used'[c] = used[c] /\ (c \in issued' <=> c \in issued)
        BY <2>1, <2>4, <3>3
      <4> QED BY <2>3, <3>1, <4>1 DEF TokenOK
    <3> QED BY <3>2, <3>3
  <2> QED BY <2>5 DEF TokenInv
<1>31. ASSUME NEW r \in Requests, ResetTake(r) PROVE TokenInv'
  <2> DEFINE t == req[r].token
  <2>1. t \in Tokens BY <1>31 DEF ResetTake, At, TypeReq, Holds, ByToken
  <2>2. CASE token[t] = None
    <3>1. Done(r) /\ UNCHANGED <<used, issued>> /\ \A c \in Tokens : token'[c] \in {None, token[c]}
      BY <1>31, <2>1, <2>2 DEF ResetTake, ghosts, TypeRedis
    <3> QED BY <3>1, DoneMoves, MovesAway, Untaken
  <2>3. CASE token[t] # None
    <3>1. /\ Moves(r, "take_key", req[r].user) /\ req'[r].token = t /\ UNCHANGED <<used, issued>>
          /\ req[r].at = "take"
      BY <1>31, <2>3, GoMoves DEF ResetTake, ghosts, At
    <3>2. token'[t] = None /\ \A c \in Tokens \ {t} : token'[c] = token[c]
      BY <1>31, <2>1 DEF ResetTake, TypeRedis
    <3>3. used[t] = 0 /\ t \in issued /\ \A q \in Requests : ~Taker(q, t)
      BY <2>1, <2>3 DEF TokenInv, TokenOK
    <3>4. ASSUME NEW c \in Tokens PROVE TokenOK(c)'
      <4>1. TokenOK(c) BY DEF TokenInv
      <4>2. \A q \in Requests \ {r} : Taker(q, c)' <=> Taker(q, c) BY <3>1 DEF Moves, Taker
      <4>3. Taker(r, c)' => c = t BY <3>1 DEF Taker
      <4>4. ~Taker(r, c) BY <3>1 DEF Taker
      <4>5. CASE c = t BY <3>1, <3>2, <3>3, <4>2, <4>5 DEF TokenOK
      <4>6. CASE c # t
        <5>1. token'[c] = token[c] /\ UNCHANGED <<used, issued>> BY <3>1, <3>2, <4>6
        <5>2. \A q \in Requests : Taker(q, c)' => Taker(q, c) BY <4>2, <4>3, <4>6
        <5> QED BY <4>1, <5>1, <5>2 DEF TokenOK
      <4> QED BY <4>5, <4>6
    <3> QED BY <3>4 DEF TokenInv
  <2> QED BY <2>2, <2>3
<1>32. ASSUME NEW r \in Requests, ResetPassword(r) PROVE TokenInv'
  <2> DEFINE t == req[r].token
  <2>1. t \in Tokens /\ Taker(r, t)
    BY <1>32 DEF ResetPassword, At, TypeReq, Holds, ByToken, Taker
  <2>2. /\ Moves(r, "end_all", req[r].user) /\ UNCHANGED <<token, issued>>
        /\ used' = [used EXCEPT ![t] = @ + 1]
    BY <1>32, BeginMoves DEF ResetPassword, redis
  <2>3. /\ used[t] = 0 /\ token[t] = None /\ t \in issued
        /\ \A q \in Requests \ {r} : ~Taker(q, t)
    BY <2>1 DEF TokenInv, TokenOK
  <2>4. used'[t] = 1 /\ \A c \in Tokens \ {t} : used'[c] = used[c]
    BY <2>1, <2>2, <2>3 DEF TypeGhosts
  <2>5. ASSUME NEW c \in Tokens PROVE TokenOK(c)'
    <3>1. TokenOK(c) BY DEF TokenInv
    <3>2. \A q \in Requests : Taker(q, c)' => Taker(q, c) /\ q # r BY <2>2 DEF Moves, Taker
    <3>3. CASE c = t
      <4>1. \A q \in Requests : ~Taker(q, c)' BY <2>3, <3>2, <3>3
      <4>2. used'[c] <= 1 /\ c \in issued' /\ token'[c] = None BY <2>2, <2>3, <2>4, <3>3
      <4> QED BY <4>1, <4>2 DEF TokenOK
    <3>4. CASE c # t
      <4>1. UNCHANGED <<token, issued>> /\ used'[c] = used[c] BY <2>2, <2>4, <3>4
      <4> QED BY <3>1, <3>2, <4>1 DEF TokenOK
    <3> QED BY <3>3, <3>4
  <2> QED BY <2>5 DEF TokenInv
<1>36. ASSUME NEW r \in Requests, Cut(r) PROVE NoTake
  BY <1>36, DoneMoves, MovesAway DEF Cut, redis, ghosts
<1>33. ASSUME NEW r \in Requests, Arrive(r) PROVE NoTake
  BY <1>33, <1>1, <1>3, <1>4, <1>8, <1>10, <1>14, <1>19, <1>24, <1>26 DEF Arrive, Forgot, SendLink
<1>34. ASSUME NEW r \in Requests, Continue(r) PROVE TokenInv'
  BY <1>34, <1>2, <1>5, <1>6, <1>7, <1>9, <1>11, <1>12, <1>13, <1>15, <1>16, <1>17, <1>18, <1>20,
     <1>21, <1>22, <1>23, <1>25, <1>27, <1>28, <1>30, <1>31, <1>32, <1>36, Untaken DEF Continue
<1>35. CASE UNCHANGED vars
  BY <1>35, Untaken DEF vars, redis, ghosts, NoTake, Taker
<1> QED BY <1>29, <1>33, <1>34, <1>35, Untaken DEF Next

(* auth.ts:247 "Consume first so two submissions of the same link cannot both succeed": a reset
   token sets one password at most, for any number of submissions of it that overlap. *)
THEOREM TokensUsedOnce == Spec => []TokenUsedOnce
<1>1. Init => TypeInv /\ TokenInv
  BY InitTypes DEF Init, TokenInv, TokenOK, Taker, Idle
<1>2. TypeInv /\ TokenInv /\ [Next]_vars => (TypeInv /\ TokenInv)'
  BY StepTypes, StepTokens
<1>3. TokenInv => TokenUsedOnce BY DEF TokenInv, TokenOK, TokenUsedOnce
<1> QED BY <1>1, <1>2, <1>3, PTL DEF Spec

-----------------------------------------------------------------------------
(* Older sessions: the invariant is inductive as it stands. A step that makes a session an old one
   is the one that moves its own handler to the deletion. *)

Ender(r, s) ==
  /\ req[r].user = session[s].user
  /\ At(r, "end_all") \/ (At(r, "end_others") /\ req[r].by # s)

(* What a step leaves alone that neither sets a password, disables an account nor ends sessions
   for it: a session that it writes is not an old one. *)
SessionsKept == \A s \in Sessions : session'[s] = session[s] \/ session'[s].user = None \/ ~Old(s)'
AccountsKept == UNCHANGED ended /\ \A u \in Users : user'[u].disabled => user[u].disabled
EndersKept == \A r \in Requests : At(r, "end_all") \/ At(r, "end_others") => req'[r] = req[r]

LEMMA NoneOlder ==
  ASSUME TypeInv, OldSessionsEnd, SessionsKept, AccountsKept, EndersKept
  PROVE  OldSessionsEnd'
<1> SUFFICES ASSUME NEW s \in Sessions, Old(s)'
             PROVE  \E r \in Requests : Ender(r, s)'
  BY DEF OldSessionsEnd, Ender, Doomed, SessionsOf, At
<1>1. session'[s] = session[s] BY DEF SessionsKept, Old, Outdated
<1>2. session[s].user \in Users \cup {None} BY DEF TypeInv, TypeSession
<1>3. Old(s) BY <1>1, <1>2 DEF Old, Outdated, AccountsKept
<1>4. PICK r \in Requests : Ender(r, s) BY <1>3 DEF OldSessionsEnd, Ender, Doomed, SessionsOf, At
<1>5. Ender(r, s)' BY <1>1, <1>4 DEF EndersKept, Ender, At
<1> QED BY <1>5

LEMMA EndersMoveAway ==
  ASSUME NEW r \in Requests, NEW step, NEW u, Moves(r, step, u), ~At(r, "end_all"), ~At(r, "end_others")
  PROVE  EndersKept
BY DEF Moves, EndersKept

LEMMA DestroyKeeps == ASSUME NEW gone, Destroy(gone) PROVE SessionsKept
BY DEF Destroy, SessionsKept, NoSession

LEMMA CreateKeeps ==
  ASSUME TypeInv, NEW r \in Requests, NEW oidc \in BOOLEAN, CreateSession(r, oidc), UNCHANGED <<user, ended>>
  PROVE  SessionsKept
<1>1. PICK s \in Sessions :
        session' = [session EXCEPT ![s] =
          [user |-> req[r].user, oidc |-> oidc, password |-> req[r].seen.password,
           spared |-> Outdated(req[r].user, req[r].seen.password)]]
  BY DEF CreateSession
<1>2. \A c \in Sessions \ {s} : session'[c] = session[c] BY <1>1 DEF TypeInv, TypeSession
<1>3. ~Old(s)' BY <1>1 DEF Old, Outdated, TypeInv, TypeSession
<1> QED BY <1>2, <1>3 DEF SessionsKept

(* A handler r that makes sessions of u old ones, and is on its way to end them. *)
LEMMA Older ==
  ASSUME TypeInv, OldSessionsEnd, NEW r \in Requests, NEW u \in Users, NEW step, Moves(r, step, u),
         ~At(r, "end_all"), ~At(r, "end_others"),
         \A s \in Sessions : session[s].user # u => session'[s] = session[s],
         \A s \in Sessions : session[s].user = u =>
            Ender(r, s)' \/ (Old(s)' => Old(s) /\ session'[s].user = session[s].user),
         \A c \in Users \ {u} : user'[c] = user[c] /\ ended'[c] = ended[c]
  PROVE  OldSessionsEnd'
<1>1. EndersKept BY EndersMoveAway
<1> SUFFICES ASSUME NEW s \in Sessions, Old(s)'
             PROVE  \E q \in Requests : Ender(q, s)'
  BY DEF OldSessionsEnd, Ender, Doomed, SessionsOf, At
<1>2. CASE Ender(r, s)' BY <1>2
<1>3. CASE ~Ender(r, s)'
  <2>1. Old(s) /\ session'[s].user = session[s].user
    <3>1. CASE session[s].user = u BY <1>3, <3>1
    <3>2. CASE session[s].user # u
      <4>1. session'[s] = session[s] /\ session[s].user \in Users \ {u}
        BY <3>2 DEF TypeInv, TypeSession, Old, Outdated
      <4> QED BY <4>1 DEF Old, Outdated
    <3> QED BY <3>1, <3>2
  <2>2. PICK q \in Requests : Ender(q, s) BY <2>1 DEF OldSessionsEnd, Ender, Doomed, SessionsOf, At
  <2>3. Ender(q, s)' BY <1>1, <2>1, <2>2 DEF EndersKept, Ender, At
  <2> QED BY <2>3
<1> QED BY <1>2, <1>3

LEMMA StepSessions == ASSUME TypeInv, OldSessionsEnd, [Next]_vars PROVE OldSessionsEnd'
<1>0. TypeUser /\ TypeSession /\ TypeRedis /\ TypeReq /\ TypeGhosts BY DEF TypeInv
<1> USE <1>0
<1>1. ASSUME NEW r \in Requests, NEW u \in Users, CreateInvited(r, u) PROVE OldSessionsEnd'
  <2>1. EndersKept BY <1>1, BeginMoves, EndersMoveAway DEF CreateInvited, At
  <2>2. SessionsKept BY <1>1 DEF CreateInvited, SessionsKept
  <2>3. AccountsKept BY <1>1 DEF CreateInvited, Create, NoRow, ghosts, AccountsKept, TypeUser, Row
  <2> QED BY <2>1, <2>2, <2>3, NoneOlder
<1>2. ASSUME NEW r \in Requests, InviteSet(r) PROVE OldSessionsEnd'
  <2>1. EndersKept BY <1>2, DoneMoves, EndersMoveAway DEF InviteSet, At
  <2>2. SessionsKept BY <1>2 DEF InviteSet, SessionsKept
  <2>3. AccountsKept BY <1>2 DEF InviteSet, ghosts, AccountsKept, TypeUser, Row
  <2> QED BY <2>1, <2>2, <2>3, NoneOlder
<1>3. ASSUME NEW r \in Requests, NEW s \in Sessions, Load(r, s) PROVE OldSessionsEnd'
  <2>1. EndersKept BY <1>3, ReadMoves, EndersMoveAway DEF Load, At
  <2>2. SessionsKept BY <1>3 DEF Load, SessionsKept
  <2>3. AccountsKept BY <1>3 DEF Load, ghosts, AccountsKept, TypeUser, Row
  <2> QED BY <2>1, <2>2, <2>3, NoneOlder
<1>4. ASSUME NEW r \in Requests, Logout(r) PROVE OldSessionsEnd'
  <2>1. EndersKept BY <1>4, DoneMoves, EndersMoveAway DEF Logout, At
  <2>2. SessionsKept BY <1>4, DestroyKeeps DEF Logout
  <2>3. AccountsKept BY <1>4 DEF Logout, ghosts, AccountsKept, TypeUser, Row
  <2> QED BY <2>1, <2>2, <2>3, NoneOlder
<1>5. ASSUME NEW r \in Requests, Other(r) PROVE OldSessionsEnd'
  <2>1. EndersKept BY <1>5, DoneMoves, EndersMoveAway DEF Other, At
  <2>2. SessionsKept BY <1>5 DEF Other, SessionsKept
  <2>3. AccountsKept BY <1>5 DEF Other, ghosts, AccountsKept, TypeUser, Row
  <2> QED BY <2>1, <2>2, <2>3, NoneOlder
<1>6. ASSUME NEW r \in Requests, NEW u \in Users, SsoFind(r, u) PROVE OldSessionsEnd'
  <2>1. EndersKept BY <1>6, ReadMoves, EndersMoveAway DEF SsoFind, At
  <2>2. SessionsKept BY <1>6 DEF SsoFind, SessionsKept
  <2>3. AccountsKept BY <1>6 DEF SsoFind, ghosts, AccountsKept, TypeUser, Row
  <2> QED BY <2>1, <2>2, <2>3, NoneOlder
<1>7. ASSUME NEW r \in Requests, SsoSession(r) PROVE OldSessionsEnd'
  <2>1. EndersKept BY <1>7, DoneMoves, EndersMoveAway DEF SsoSession, At
  <2>2. SessionsKept BY <1>7, CreateKeeps DEF SsoSession, ghosts
  <2>3. AccountsKept BY <1>7 DEF SsoSession, ghosts, AccountsKept, TypeUser, Row
  <2> QED BY <2>1, <2>2, <2>3, NoneOlder
<1>8. ASSUME NEW r \in Requests, NEW u \in Users, LoginRead(r, u) PROVE OldSessionsEnd'
  <2>1. EndersKept BY <1>8, ReadMoves, EndersMoveAway DEF LoginRead, At
  <2>2. SessionsKept BY <1>8 DEF LoginRead, SessionsKept
  <2>3. AccountsKept BY <1>8 DEF LoginRead, ghosts, AccountsKept, TypeUser, Row
  <2> QED BY <2>1, <2>2, <2>3, NoneOlder
<1>9. ASSUME NEW r \in Requests, LoginWrong(r) PROVE OldSessionsEnd'
  <2>1. EndersKept BY <1>9, DoneMoves, EndersMoveAway DEF LoginWrong, At
  <2>2. SessionsKept BY <1>9 DEF LoginWrong, SessionsKept
  <2>3. AccountsKept BY <1>9 DEF LoginWrong, ghosts, AccountsKept, TypeUser, Row
  <2> QED BY <2>1, <2>2, <2>3, NoneOlder
<1>10. ASSUME NEW r \in Requests, LoginRight(r) PROVE OldSessionsEnd'
  <2>1. EndersKept BY <1>10, ReadMoves, EndersMoveAway DEF LoginRight, At
  <2>2. SessionsKept BY <1>10 DEF LoginRight, SessionsKept
  <2>3. AccountsKept BY <1>10 DEF LoginRight, ghosts, AccountsKept, TypeUser, Row
  <2> QED BY <2>1, <2>2, <2>3, NoneOlder
<1>11. ASSUME NEW r \in Requests, OpenSession(r) PROVE OldSessionsEnd'
  <2>1. EndersKept BY <1>11, DoneMoves, EndersMoveAway DEF OpenSession, At
  <2>2. SessionsKept BY <1>11, CreateKeeps DEF OpenSession, ghosts
  <2>3. AccountsKept BY <1>11 DEF OpenSession, ghosts, AccountsKept, TypeUser, Row
  <2> QED BY <2>1, <2>2, <2>3, NoneOlder
<1>12. ASSUME NEW r \in Requests, Revoke(r) PROVE OldSessionsEnd'
  <2>1. EndersKept BY <1>12, DoneMoves, BeginMoves, EndersMoveAway DEF Revoke, At
  <2>2. SessionsKept BY <1>12 DEF Revoke, SessionsKept
  <2>3. AccountsKept BY <1>12 DEF Revoke, ghosts, AccountsKept, TypeUser, Row
  <2> QED BY <2>1, <2>2, <2>3, NoneOlder
<1>13. ASSUME NEW r \in Requests, RevokeToken(r) PROVE OldSessionsEnd'
  <2>1. EndersKept BY <1>13, DoneMoves, EndersMoveAway DEF RevokeToken, At
  <2>2. SessionsKept BY <1>13 DEF RevokeToken, SessionsKept
  <2>3. AccountsKept BY <1>13 DEF RevokeToken, ghosts, AccountsKept, TypeUser, Row
  <2> QED BY <2>1, <2>2, <2>3, NoneOlder
<1>14. ASSUME NEW r \in Requests, NEW u \in Users, IssueFor(r, u) PROVE OldSessionsEnd'
  <2>1. EndersKept BY <1>14, ReadMoves, EndersMoveAway DEF IssueFor, At
  <2>2. SessionsKept BY <1>14 DEF IssueFor, SessionsKept
  <2>3. AccountsKept BY <1>14 DEF IssueFor, ghosts, AccountsKept, TypeUser, Row
  <2> QED BY <2>1, <2>2, <2>3, NoneOlder
<1>15. ASSUME NEW r \in Requests, Issue(r) PROVE OldSessionsEnd'
  <2>1. Moves(r, "issue_revoke", req[r].user) BY <1>15 DEF Issue, Moves, TypeReq, Handlers
  <2>2. EndersKept BY <1>15, <2>1, EndersMoveAway DEF Issue, At
  <2>3. SessionsKept BY <1>15 DEF Issue, SessionsKept
  <2>4. AccountsKept BY <1>15 DEF Issue, ghosts, AccountsKept, TypeUser, Row
  <2> QED BY <2>2, <2>3, <2>4, NoneOlder
<1>16. ASSUME NEW r \in Requests, IssueRevoke(r) PROVE OldSessionsEnd'
  <2>1. Moves(r, "issue_set", req[r].user) BY <1>16 DEF IssueRevoke, Moves, TypeReq, Handlers
  <2>2. EndersKept BY <1>16, <2>1, EndersMoveAway DEF IssueRevoke, At
  <2>3. SessionsKept BY <1>16 DEF IssueRevoke, SessionsKept
  <2>4. AccountsKept BY <1>16 DEF IssueRevoke, ghosts, AccountsKept, TypeUser, Row
  <2> QED BY <2>2, <2>3, <2>4, NoneOlder
<1>17. ASSUME NEW r \in Requests, IssueSet(r) PROVE OldSessionsEnd'
  <2>1. Moves(r, "issue_key", req[r].user) BY <1>17 DEF IssueSet, Moves, TypeReq, Handlers
  <2>2. EndersKept BY <1>17, <2>1, EndersMoveAway DEF IssueSet, At
  <2>3. SessionsKept BY <1>17 DEF IssueSet, SessionsKept
  <2>4. AccountsKept BY <1>17 DEF IssueSet, ghosts, AccountsKept, TypeUser, Row
  <2> QED BY <2>2, <2>3, <2>4, NoneOlder
<1>18. ASSUME NEW r \in Requests, IssueKey(r) PROVE OldSessionsEnd'
  <2>1. EndersKept BY <1>18, DoneMoves, BeginMoves, EndersMoveAway DEF IssueKey, At
  <2>2. SessionsKept BY <1>18 DEF IssueKey, SessionsKept
  <2>3. AccountsKept BY <1>18 DEF IssueKey, ghosts, AccountsKept, TypeUser, Row
  <2> QED BY <2>1, <2>2, <2>3, NoneOlder
<1>19. ASSUME NEW r \in Requests, ClearSso(r) PROVE OldSessionsEnd'
  <2>1. EndersKept BY <1>19, DoneMoves, EndersMoveAway DEF ClearSso, At
  <2>2. SessionsKept BY <1>19 DEF ClearSso, SessionsKept
  <2>3. AccountsKept BY <1>19 DEF ClearSso, ghosts, AccountsKept, TypeUser, Row
  <2> QED BY <2>1, <2>2, <2>3, NoneOlder
<1>20. ASSUME NEW r \in Requests, NEW t \in Tokens, ResetPeek(r, t) PROVE OldSessionsEnd'
  <2>1. EndersKept BY <1>20, BeginMoves, EndersMoveAway DEF ResetPeek, At
  <2>2. SessionsKept BY <1>20 DEF ResetPeek, SessionsKept
  <2>3. AccountsKept BY <1>20 DEF ResetPeek, ghosts, AccountsKept, TypeUser, Row
  <2> QED BY <2>1, <2>2, <2>3, NoneOlder
<1>21. ASSUME NEW r \in Requests, ResetTake(r) PROVE OldSessionsEnd'
  <2>1. EndersKept BY <1>21, DoneMoves, GoMoves, EndersMoveAway DEF ResetTake, At
  <2>2. SessionsKept BY <1>21 DEF ResetTake, SessionsKept
  <2>3. AccountsKept BY <1>21 DEF ResetTake, ghosts, AccountsKept, TypeUser, Row
  <2> QED BY <2>1, <2>2, <2>3, NoneOlder
<1>22. ASSUME NEW r \in Requests, ResetTakeKey(r) PROVE OldSessionsEnd'
  <2>1. EndersKept BY <1>22, GoMoves, EndersMoveAway DEF ResetTakeKey, At
  <2>2. SessionsKept BY <1>22 DEF ResetTakeKey, SessionsKept
  <2>3. AccountsKept BY <1>22 DEF ResetTakeKey, ghosts, AccountsKept, TypeUser, Row
  <2> QED BY <2>1, <2>2, <2>3, NoneOlder
<1>23. ASSUME NEW r \in Requests, NEW u \in Users, AcceptRead(r, u) PROVE OldSessionsEnd'
  <2>1. EndersKept BY <1>23, BeginMoves, EndersMoveAway DEF AcceptRead, At
  <2>2. SessionsKept BY <1>23 DEF AcceptRead, SessionsKept
  <2>3. AccountsKept BY <1>23 DEF AcceptRead, ghosts, AccountsKept, TypeUser, Row
  <2> QED BY <2>1, <2>2, <2>3, NoneOlder
<1>24. ASSUME NEW r \in Requests, Accept(r) PROVE OldSessionsEnd'
  <2>1. EndersKept BY <1>24, BeginMoves, EndersMoveAway DEF Accept, At
  <2>2. SessionsKept BY <1>24 DEF Accept, SessionsKept
  <2>3. AccountsKept BY <1>24 DEF Accept, ghosts, AccountsKept, TypeUser, Row
  <2> QED BY <2>1, <2>2, <2>3, NoneOlder
<1>25. ASSUME NEW r \in Requests, Accepted(r) PROVE OldSessionsEnd'
  <2>1. EndersKept BY <1>25, DoneMoves, EndersMoveAway DEF Accepted, At
  <2>2. SessionsKept BY <1>25 DEF Accepted, SessionsKept
  <2>3. AccountsKept BY <1>25 DEF Accepted, ghosts, AccountsKept, TypeUser, Row
  <2> QED BY <2>1, <2>2, <2>3, NoneOlder
<1>26. CASE Elsewhere
  <2>1. UNCHANGED <<req, ended>>
    BY <1>26
    DEF Elsewhere, CreateLocal, SsoCreate, Enable, ForceLogout, BackChannel,
        Unlock, ExpireKey, ExpireInvite, LoadExpired, ExpireToken, ghosts
  <2>2. EndersKept BY <2>1 DEF EndersKept
  <2>3. session' = session \/ \E gone : Destroy(gone)
    BY <1>26
    DEF Elsewhere, CreateLocal, SsoCreate, Enable, ForceLogout, BackChannel,
        Unlock, ExpireKey, ExpireInvite, LoadExpired, ExpireToken
  <2>4. SessionsKept BY <2>3, DestroyKeeps DEF SessionsKept
  <2>5. \A c \in Users : user'[c].disabled => user[c].disabled
    <3>1. ASSUME NEW u \in Users, CreateLocal(u) \/ SsoCreate(u)
          PROVE  \A c \in Users : user'[c].disabled => user[c].disabled
      BY <3>1 DEF CreateLocal, SsoCreate, Create, NoRow, TypeUser, Row
    <3>2. ASSUME NEW u \in Users, Enable(u) \/ Unlock(u)
          PROVE  \A c \in Users : user'[c].disabled => user[c].disabled
      BY <3>2 DEF Enable, Unlock, TypeUser, Row
    <3>3. \/ \E u \in Users : CreateLocal(u) \/ SsoCreate(u) \/ Enable(u) \/ Unlock(u)
          \/ user' = user
      BY <1>26 DEF Elsewhere, ForceLogout, BackChannel, ExpireKey, ExpireInvite, LoadExpired, ExpireToken
    <3> QED BY <3>1, <3>2, <3>3
  <2> QED BY <2>1, <2>2, <2>4, <2>5, NoneOlder DEF AccountsKept
<1>27. ASSUME NEW r \in Requests, NEW u \in Users, Disable(r, u) PROVE OldSessionsEnd'
  <2>1. Moves(r, "end_all", u) /\ At(r, "idle") /\ UNCHANGED <<session, ended>>
    BY <1>27, BeginMoves DEF Disable, ghosts
  <2>2. \A s \in Sessions : session[s].user = u => Ender(r, s)' BY <2>1 DEF Moves, Ender, At
  <2>3. \A c \in Users \ {u} : user'[c] = user[c] BY <1>27 DEF Disable, TypeUser
  <2> QED BY <2>1, <2>2, <2>3, Older DEF At
<1>28. ASSUME NEW r \in Requests, NEW u \in Users, ResetRow(u), Begin(r, "end_all", u, None), UNCHANGED session,
             ~At(r, "end_all"), ~At(r, "end_others")
      PROVE  OldSessionsEnd'
  <2>1. Moves(r, "end_all", u) BY <1>28, BeginMoves
  <2>2. \A s \in Sessions : session[s].user = u => Ender(r, s)' BY <1>28, <2>1 DEF Moves, Ender, At
  <2>3. \A c \in Users \ {u} : user'[c] = user[c] /\ ended'[c] = ended[c]
    BY <1>28 DEF ResetRow, TypeUser, TypeGhosts
  <2> QED BY <1>28, <2>1, <2>2, <2>3, Older
<1>29. ASSUME NEW r \in Requests, NEW u \in Users, AdminReset(r, u) PROVE OldSessionsEnd'
  BY <1>28, <1>29 DEF AdminReset, At
<1>30. ASSUME NEW r \in Requests, ResetPassword(r) PROVE OldSessionsEnd'
  <2>1. req[r].user \in Users BY <1>30 DEF ResetPassword, At, Holds, TypeReq
  <2> QED BY <1>28, <1>30, <2>1 DEF ResetPassword, At
<1>31. ASSUME NEW r \in Requests, ChangePassword(r), NEW u \in Users, NEW by \in Sessions,
             req[r].user = u, req[r].by = by
      PROVE  OldSessionsEnd'
  <2>1. /\ Moves(r, "end_others", u) /\ req'[r].by = by /\ At(r, "loaded")
    BY <1>31, ReadMoves DEF ChangePassword
  <2>2. \A c \in Users \ {u} : user'[c] = user[c] /\ ended'[c] = ended[c]
    BY <1>31 DEF ChangePassword, TypeUser, TypeGhosts
  <2>3. \A s \in Sessions : s # by \/ session[s].user # u => session'[s] = session[s]
    BY <1>31 DEF ChangePassword, TypeSession
  <2>4. \A s \in Sessions \ {by} : session[s].user = u => Ender(r, s)'
    BY <2>1, <2>3 DEF Moves, Ender, At
  <2>5. session[by].user = u => (Old(by)' => Old(by) /\ session'[by].user = session[by].user)
    <3> SUFFICES ASSUME session[by].user = u, Old(by)'
                 PROVE  Old(by) /\ session'[by].user = session[by].user
      OBVIOUS
    <3>1. session' = [session EXCEPT ![by] = [@ EXCEPT !.password = NextPassword(u)]]
      BY <1>31 DEF ChangePassword
    <3>2. /\ session'[by].user = u /\ session'[by].password = NextPassword(u)
          /\ session'[by].spared = session[by].spared
      BY <3>1 DEF TypeSession
    <3>3. ended'[u] = NextPassword(u) /\ user'[u].disabled = user[u].disabled /\ NextPassword(u) \in Nat
      BY <1>31 DEF ChangePassword, TypeGhosts, TypeUser, Row, NextPassword
    <3>4. user[u].disabled BY <3>2, <3>3 DEF Old, Outdated
    <3> QED BY <3>2, <3>4, Bounds DEF Old, Outdated
  <2> QED BY <2>1, <2>2, <2>3, <2>4, <2>5, Older DEF At
<1>32. ASSUME NEW r \in Requests, EndAll(r) \/ EndOthers(r) PROVE OldSessionsEnd'
  <2> SUFFICES ASSUME NEW s \in Sessions, Old(s)'
               PROVE  \E q \in Requests : Ender(q, s)'
    BY DEF OldSessionsEnd, Ender, Doomed, SessionsOf, At
  <2>1. UNCHANGED <<user, ended>> BY <1>32 DEF EndAll, EndOthers, ghosts
  <2>2. \A q \in Requests \ {r} : req'[q] = req[q]
    BY <1>32, DoneMoves, BeginMoves DEF EndAll, EndOthers, Moves
  <2>3. session'[s] = session[s]
    BY <1>32 DEF EndAll, EndOthers, Destroy, Old, Outdated, NoSession
  <2>4. Old(s) BY <2>1, <2>3 DEF Old, Outdated
  <2>5. PICK q \in Requests : Ender(q, s) BY <2>4 DEF OldSessionsEnd, Ender, Doomed, SessionsOf, At
  <2>6. ~Ender(r, s)
    <3>1. SUFFICES ASSUME Ender(r, s) PROVE session'[s] = NoSession
      BY <2>3, <2>4 DEF Old, Outdated, NoSession
    <3>2. CASE EndAll(r) BY <3>1, <3>2 DEF EndAll, Destroy, SessionsOf, Ender
    <3>3. CASE EndOthers(r) BY <3>1, <3>3 DEF EndOthers, Destroy, SessionsOf, Ender, At
    <3> QED BY <1>32, <3>2, <3>3
  <2>7. Ender(q, s)' BY <2>2, <2>3, <2>5, <2>6 DEF Ender, At
  <2> QED BY <2>7
<1>33. ASSUME NEW r \in Requests, ChangePassword(r) PROVE OldSessionsEnd'
  <2>1. req[r].user \in Users /\ req[r].by \in Sessions
    BY <1>33 DEF ChangePassword, At, Holds, TypeReq, BySession
  <2> QED BY <1>31, <1>33, <2>1
<1>37. ASSUME NEW r \in Requests, Cut(r) PROVE OldSessionsEnd'
  <2> SUFFICES ASSUME NEW s \in Sessions, Old(s)'
               PROVE  \E q \in Requests : Ender(q, s)'
    BY DEF OldSessionsEnd, Ender, Doomed, SessionsOf, At
  <2>1. UNCHANGED <<user, ended>> BY <1>37 DEF Cut, ghosts
  <2>2. \A q \in Requests \ {r} : req'[q] = req[q] BY <1>37, DoneMoves DEF Cut, Moves
  <2>3. /\ session'[s].user = session[s].user /\ session'[s].password = session[s].password
        /\ ~session'[s].spared => ~session[s].spared /\ ~(s \in Doomed(r) /\ Old(s))
    BY <1>37 DEF Cut, TypeSession, Old, Doomed, SessionsOf
  <2>4. Old(s) /\ s \notin Doomed(r) BY <2>1, <2>3 DEF Old, Outdated
  <2>5. PICK q \in Requests : Ender(q, s)
    BY <2>4 DEF OldSessionsEnd, Ender, Doomed, SessionsOf, At
  <2>6. ~Ender(r, s) BY <2>4 DEF Ender, Doomed, SessionsOf
  <2>7. Ender(q, s)' BY <2>2, <2>3, <2>5, <2>6 DEF Ender, At
  <2> QED BY <2>7
<1>34. ASSUME NEW r \in Requests, Arrive(r) PROVE OldSessionsEnd'
  BY <1>34, <1>1, <1>3, <1>6, <1>8, <1>14, <1>20, <1>23, <1>27, <1>29 DEF Arrive, Forgot, SendLink
<1>35. ASSUME NEW r \in Requests, Continue(r) PROVE OldSessionsEnd'
  BY <1>35, <1>2, <1>4, <1>5, <1>7, <1>9, <1>10, <1>11, <1>12, <1>13, <1>15, <1>16, <1>17, <1>18,
     <1>19, <1>21, <1>22, <1>24, <1>25, <1>30, <1>32, <1>33, <1>37 DEF Continue
<1>36. CASE UNCHANGED vars
  BY <1>36, NoneOlder DEF vars, ghosts, SessionsKept, AccountsKept, EndersKept
<1> QED BY <1>26, <1>34, <1>35, <1>36 DEF Next

(* A password changed by its owner, by a reset link or by an administrator, and a disabled account,
   leave no session behind that is older, whatever handlers overlap: while there is one, a handler
   that will delete it is under way. Excepted are a sign-in that had read its row before the change
   and wrote its session after the deletion, and what is left when that handler dies before it. *)
THEOREM OlderSessionsEnd == Spec => []OldSessionsEnd
<1>1. Init => TypeInv /\ OldSessionsEnd
  BY InitTypes DEF Init, OldSessionsEnd, Old, Outdated, NoSession
<1>2. TypeInv /\ OldSessionsEnd /\ [Next]_vars => (TypeInv /\ OldSessionsEnd)'
  BY StepTypes, StepSessions
<1> QED BY <1>1, <1>2, PTL DEF Spec
=============================================================================

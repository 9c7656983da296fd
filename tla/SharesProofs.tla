---------------------------- MODULE SharesProofs ----------------------------
(***************************************************************************)
(* Proofs about Shares for every value of its constants: type correctness, *)
(* and that no link lets in more checks, or sends more codes, than it may. *)
(***************************************************************************)
EXTENDS Shares, TLAPS

(***************************************************************************)
(* Type correctness is inductive only together with what a request holds   *)
(* at each point: a client's request a share and its row, one that passed  *)
(* the check a row below the session cap, a reissue the share it replaces. *)
(***************************************************************************)
ClientPCs == ClientOps \cup Sending \cup {"fail", "lockout", "bump", "spend", "open", "play",
                                          "view", "deliver"}

Equipped(k) ==
  /\ k.pc \in ClientPCs => k.share # None /\ k.row # None
  /\ k.pc \in Sending => k.row.codes < MaxCodes
  /\ k.pc \in {"bump", "spend", "open"} => k.row.sessions < MaxSessions
  /\ k.pc = "play" => k.session \in 1..MaxSessions
  /\ k.pc \in {"insert", "notify", "drop", "release", "retire"} =>
       k.job # None /\ (k.old # None => k.row # None)
  /\ k.pc = "retire" => k.old # None
  /\ k.pc \in {"notify", "drop", "revoke", "link"} => k.share # None

Handler == {k \in Request : Equipped(k)}

TypeInv ==
  /\ TypeOK
  /\ request \in [Requests -> Handler]
-----------------------------------------------------------------------------
(* Lemmas about the helpers of the actions.                                *)

LEMMA InMaybe == ASSUME NEW S PROVE None \in Maybe(S) /\ \A x \in S : x \in Maybe(S)
  BY DEF Maybe

LEMMA OfMaybe == ASSUME NEW S, NEW x \in Maybe(S), x # None PROVE x \in S
  BY DEF Maybe

LEMMA NewRowType == ASSUME NEW j \in Jobs, NEW link \in BOOLEAN PROVE NewRow(j, link) \in Row
  BY DEF NewRow, Row

LEMMA IdleHandler == Idle \in Handler
  <1>1. Idle \in Request BY InMaybe DEF Idle, Request, PCs
  <1>. QED BY <1>1 DEF Handler, Equipped, Idle, ClientPCs, ClientOps, Sending

LEMMA AnswerHandler ==
  ASSUME request \in [Requests -> Handler], NEW r \in Requests, Answer(r)
  PROVE  request' \in [Requests -> Handler]
  BY IdleHandler DEF Answer

\* A request keeps what it holds when it goes on within the same operation.
LEMMA GotoHandler ==
  ASSUME request \in [Requests -> Handler], NEW r \in Requests, NEW pc \in PCs, Goto(r, pc),
         Equipped([request[r] EXCEPT !.pc = pc])
  PROVE  request' \in [Requests -> Handler]
  <1>. DEFINE k == [request[r] EXCEPT !.pc = pc]
  <1>1. k \in Request BY DEF Handler, Request
  <1>. QED BY <1>1 DEF Goto, Handler

\* What a client's request holds.
LEMMA ClientHolds ==
  ASSUME TypeInv, NEW r \in Requests, request[r].pc \in ClientPCs
  PROVE  /\ Watched(r) \in Shares
         /\ ReadRow(r) \in Row
         /\ request[r] \in Request
         /\ Equipped(request[r])
         /\ \A pc : [request[r] EXCEPT !.pc = pc].pc = pc
         /\ \A pc : [request[r] EXCEPT !.pc = pc].row = ReadRow(r)
         /\ \A pc : [request[r] EXCEPT !.pc = pc].share = Watched(r)
         /\ \A pc : [request[r] EXCEPT !.pc = pc].session = request[r].session
  <1>1. request[r] \in Handler BY DEF TypeInv
  <1>2. request[r] \in Request /\ Equipped(request[r]) BY <1>1 DEF Handler
  <1>3. Watched(r) \in Shares /\ ReadRow(r) \in Row
    BY <1>2, OfMaybe DEF Equipped, Watched, ReadRow, Request
  <1>. QED BY <1>2, <1>3 DEF Request, Watched, ReadRow

\* A client's request goes on: it then needs what its next step asks of the row and the session.
LEMMA ClientGoto ==
  ASSUME TypeInv, NEW r \in Requests, request[r].pc \in ClientPCs, NEW pc \in ClientPCs, Goto(r, pc),
         pc \in Sending => ReadRow(r).codes < MaxCodes,
         pc \in {"bump", "spend", "open"} => ReadRow(r).sessions < MaxSessions,
         pc # "play"
  PROVE  request' \in [Requests -> Handler]
  <1>. DEFINE k == [request[r] EXCEPT !.pc = pc]
  <1>1. k.pc = pc /\ k.row = ReadRow(r) /\ k.share = Watched(r) BY ClientHolds
  <1>2. k.row # None /\ k.share # None
    <2>1. request[r].share # None /\ request[r].row # None
      BY ClientHolds DEF Equipped
    <2>. QED BY <1>1, <2>1 DEF Watched, ReadRow
  <1>3. Equipped(k)
    BY <1>1, <1>2 DEF Equipped, ClientPCs, ClientOps, Sending
  <1>4. pc \in PCs BY DEF PCs, ClientPCs, ClientOps, Sending
  <1>. QED BY <1>3, <1>4, GotoHandler DEF TypeInv

LEMMA UpdateType ==
  ASSUME share \in [Shares -> Maybe(Row)], NEW s \in Shares, NEW columns, Update(s, columns),
         share[s] \in Row => columns \in Row
  PROVE  share' \in [Shares -> Maybe(Row)]
  BY DEF Update, Maybe

\* A step of a request leaves most of the state alone.
LEMMA RequestTypes ==
  ASSUME TypeInv, request' \in [Requests -> Handler], job' \in [Jobs -> Statuses],
         box' \in [Jobs -> {"unticked", "ticked", "cleared"}], share' \in [Shares -> Maybe(Row)],
         linked' \subseteq Shares, code' \subseteq Shares, resend' \subseteq Shares,
         session' \in [Shares -> SUBSET (1..MaxSessions)],
         played' \in [Shares -> SUBSET (1..MaxSessions)],
         sent' \in [Shares -> Nat], withdrawn' \in [Shares -> Nat],
         granted' \in [Shares -> Nat], UNCHANGED World
  PROVE  TypeInv'
  BY DEF TypeInv, TypeOK, World, Handler

LEMMA AcceptType ==
  ASSUME TypeInv, NEW r \in Requests, NEW op, NEW k \in Handler, Accept(r, op, k)
  PROVE  TypeInv'
  <1>1. request' \in [Requests -> Handler] BY DEF Accept, TypeInv
  <1>2. accepted' \in 0..MaxAccepted
    BY ConstantsAssumption DEF Accept, TypeInv, TypeOK
  <1>. QED BY <1>1, <1>2 DEF Accept, TypeInv, TypeOK, Handler

LEMMA FromClientType ==
  ASSUME TypeInv, NEW r \in Requests, NEW s \in Shares, NEW op \in ClientOps, FromClient(r, s, op)
  PROVE  TypeInv'
  <1>. DEFINE k == [Idle EXCEPT !.pc = op, !.share = s, !.row = share[s]]
  <1>1. share[s] \in Row /\ share[s] # None
    BY OfMaybe DEF FromClient, Live, TypeInv, TypeOK
  <1>2. s # None BY ConstantsAssumption
  <1>3. op \in PCs /\ op \notin Sending BY DEF ClientOps, PCs, Sending
  <1>4. k \in Request BY <1>1, <1>3, InMaybe DEF Request, Idle
  <1>5. k.pc = op /\ k.share = s /\ k.row = share[s] BY DEF Idle
  <1>6. Equipped(k) BY <1>1, <1>2, <1>3, <1>5 DEF Equipped, ClientOps
  <1>. QED BY <1>4, <1>6, AcceptType DEF FromClient, Handler

LEMMA CodeType ==
  ASSUME TypeInv, NEW r \in Requests,
         TakeTurn(r) \/ StoreCode(r) \/ SendCode(r) \/ Unsend(r) \/ CountCode(r)
  PROVE  TypeInv'
  <1>. USE DEF ClientPCs, ClientOps, Sending, At, GotoIf
  <1>1. CASE TakeTurn(r)
    <2>1. Watched(r) \in Shares BY <1>1, ClientHolds DEF TakeTurn
    <2>2. request' \in [Requests -> Handler]
      BY <1>1, ClientGoto, AnswerHandler DEF TakeTurn, TypeInv
    <2>. QED BY <1>1, <2>1, <2>2, RequestTypes DEF TakeTurn, TypeInv, TypeOK
  <1>2. CASE StoreCode(r)
    <2>1. Watched(r) \in Shares /\ ReadRow(r).codes < MaxCodes
      BY <1>2, ClientHolds DEF StoreCode, Equipped, ReadRow
    <2>2. request' \in [Requests -> Handler] BY <1>2, <2>1, ClientGoto DEF StoreCode
    <2>. QED BY <1>2, <2>1, <2>2, RequestTypes DEF StoreCode, TypeInv, TypeOK
  <1>3. CASE SendCode(r)
    <2>1. Watched(r) \in Shares /\ ReadRow(r).codes < MaxCodes
      BY <1>3, ClientHolds DEF SendCode, Equipped, ReadRow
    <2>2. request' \in [Requests -> Handler] BY <1>3, <2>1, ClientGoto DEF SendCode
    <2>3. sent' \in [Shares -> Nat] BY <1>3, <2>1 DEF SendCode, TypeInv, TypeOK
    <2>. QED BY <1>3, <2>2, <2>3, RequestTypes DEF SendCode, TypeInv, TypeOK
  <1>4. CASE Unsend(r)
    <2>1. request' \in [Requests -> Handler] BY <1>4, AnswerHandler DEF Unsend, TypeInv
    <2>2. withdrawn \in [Shares -> Nat] /\ Watched(r) \in Shares
      BY <1>4, ClientHolds DEF Unsend, TypeInv, TypeOK
    <2>3. [withdrawn EXCEPT ![Watched(r)] = @ + 1] \in [Shares -> Nat] BY <2>2
    <2>4. withdrawn' \in [Shares -> Nat] BY <1>4, <2>2, <2>3 DEF Unsend
    <2>. QED BY <1>4, <2>1, <2>4, RequestTypes DEF Unsend, TypeInv, TypeOK
  <1>5. CASE CountCode(r)
    <2>. DEFINE s == Watched(r)
    <2>1. s \in Shares /\ ReadRow(r) \in Row BY <1>5, ClientHolds DEF CountCode
    <2>2. request' \in [Requests -> Handler] BY <1>5, AnswerHandler DEF CountCode, TypeInv
    <2>3. ReadRow(r).codes + 1 \in Nat BY <2>1 DEF Row
    <2>4. share[s] \in Row => [share[s] EXCEPT !.codes = ReadRow(r).codes + 1] \in Row
      BY <2>3 DEF Row
    <2>5. share' \in [Shares -> Maybe(Row)]
      BY <1>5, <2>1, <2>4, UpdateType DEF CountCode, TypeInv, TypeOK
    <2>. QED BY <1>5, <2>2, <2>5, RequestTypes DEF CountCode, TypeInv, TypeOK
  <1>. QED BY <1>1, <1>2, <1>3, <1>4, <1>5

LEMMA VerifyType ==
  ASSUME TypeInv, NEW r \in Requests,
         CheckCode(r) \/ CountFailure(r) \/ Bump(r) \/ SpendCode(r) \/ OpenSession(r)
  PROVE  TypeInv'
  <1>. USE DEF ClientPCs, ClientOps, At, GotoIf
  <1>. DEFINE s == Watched(r)
  <1>0. s \in Shares /\ ReadRow(r) \in Row
    BY ClientHolds DEF CheckCode, CountFailure, Bump, SpendCode, OpenSession
  <1>1. CASE CheckCode(r)
    <2>1. ~Refused(s, ReadRow(r)) => ReadRow(r).sessions < MaxSessions
      BY <1>0, ConstantsAssumption DEF Refused, Row
    <2>2. request' \in [Requests -> Handler]
      BY <1>1, <2>1, ClientGoto, AnswerHandler DEF CheckCode, TypeInv, Sending
    <2>. QED BY <1>1, <2>2, RequestTypes DEF CheckCode, TypeInv, TypeOK
  <1>2. CASE CountFailure(r)
    <2>. DEFINE failed == ReadRow(r).failed + 1
                lock == failed >= LockAt
                cooldown == ~lock /\ failed % CooldownEvery = 0
                columns == [share[s] EXCEPT !.failed = failed, !.locked = @ \/ lock,
                                            !.cooling = @ \/ cooldown]
    <2>1. request' \in [Requests -> Handler]
      BY <1>2, ClientGoto, AnswerHandler DEF CountFailure, TypeInv, Sending
    <2>2. failed \in Nat BY <1>0 DEF Row
    <2>3. lock \in BOOLEAN /\ cooldown \in BOOLEAN OBVIOUS
    <2>4. share[s] \in Row => columns \in Row
      <3>. HIDE DEF failed, lock, cooldown
      <3>. SUFFICES ASSUME share[s] \in Row PROVE columns \in Row OBVIOUS
      <3>1. (share[s].locked \/ lock) \in BOOLEAN /\ (share[s].cooling \/ cooldown) \in BOOLEAN
        OBVIOUS
      <3>. QED BY <2>2, <3>1 DEF Row
    <2>5. Update(s, columns) BY <1>2 DEF CountFailure
    <2>6. share' \in [Shares -> Maybe(Row)]
      <3>. HIDE DEF columns
      <3>. QED BY <1>0, <2>4, <2>5, UpdateType DEF TypeInv, TypeOK
    <2>. QED BY <1>2, <2>1, <2>6, RequestTypes DEF CountFailure, TypeInv, TypeOK
  <1>3. CASE Bump(r)
    <2>1. ReadRow(r).sessions \in Nat /\ ReadRow(r).sessions < MaxSessions
      BY <1>0, <1>3, ClientHolds DEF Bump, Equipped, ReadRow, Row
    <2>2. request' \in [Requests -> Handler]
      BY <1>3, <2>1, ClientGoto, AnswerHandler DEF Bump, TypeInv, Sending
    <2>3. Live(s) => [share[s] EXCEPT !.sessions = ReadRow(r).sessions + 1] \in Row
      <3>. SUFFICES ASSUME Live(s) PROVE [share[s] EXCEPT !.sessions = ReadRow(r).sessions + 1] \in Row
        OBVIOUS
      <3>1. share[s] \in Maybe(Row) /\ share[s] # None BY <1>0 DEF Live, TypeInv, TypeOK
      <3>2. share[s] \in Row BY <3>1, OfMaybe
      <3>3. ReadRow(r).sessions + 1 \in Nat BY <2>1
      <3>. QED BY <3>2, <3>3 DEF Row
    <2>4. share' \in [Shares -> Maybe(Row)]
      BY <1>0, <1>3, <2>3, InMaybe DEF Bump, TypeInv, TypeOK
    <2>5. granted' \in [Shares -> Nat] BY <1>0, <1>3 DEF Bump, TypeInv, TypeOK
    <2>. QED BY <1>3, <2>2, <2>4, <2>5, RequestTypes DEF Bump, TypeInv, TypeOK
  <1>4. CASE SpendCode(r)
    <2>1. request[r].pc = "spend" => ReadRow(r).sessions < MaxSessions
      BY ClientHolds DEF Equipped, ReadRow
    <2>2. request' \in [Requests -> Handler]
      BY <1>4, <2>1, ClientGoto, AnswerHandler DEF SpendCode, TypeInv, Sending
    <2>. QED BY <1>4, <2>2, RequestTypes DEF SpendCode, TypeInv, TypeOK
  <1>5. CASE OpenSession(r)
    <2>1. ReadRow(r).sessions + 1 \in 1..MaxSessions
      BY <1>0, <1>5, ClientHolds, ConstantsAssumption DEF OpenSession, Equipped, ReadRow, Row
    <2>2. request' \in [Requests -> Handler] BY <1>5, AnswerHandler DEF OpenSession, TypeInv
    <2>3. session' \in [Shares -> SUBSET (1..MaxSessions)]
      BY <1>0, <1>5, <2>1 DEF OpenSession, TypeInv, TypeOK
    <2>. QED BY <1>5, <2>2, <2>3, RequestTypes DEF OpenSession, TypeInv, TypeOK
  <1>. QED BY <1>1, <1>2, <1>3, <1>4, <1>5

LEMMA WatchType ==
  ASSUME TypeInv, NEW r \in Requests,
         CheckSession(r) \/ NotePlay(r) \/ NoteView(r) \/ MarkDelivered(r)
  PROVE  TypeInv'
  <1>. USE DEF ClientPCs, ClientOps, At, GotoIf
  <1>. DEFINE s == Watched(r)
  <1>0. s \in Shares /\ ReadRow(r) \in Row
    BY ClientHolds DEF CheckSession, NotePlay, NoteView, MarkDelivered
  <1>1. CASE CheckSession(r)
    <2>1. ASSUME NEW n \in session[s],
                 request' = [request EXCEPT ![r].pc = "play", ![r].session = n]
          PROVE  request' \in [Requests -> Handler]
      <3>. DEFINE k == [request[r] EXCEPT !.pc = "play", !.session = n]
      <3>1. n \in 1..MaxSessions BY <1>0, <2>1 DEF TypeInv, TypeOK
      <3>2. request[r] \in Request /\ request[r].share # None /\ request[r].row # None
        BY <1>1, ClientHolds DEF CheckSession, Equipped
      <3>3. k \in Request
        <4>1. n \in Nat BY <3>1
        <4>2. "play" \in PCs BY DEF PCs
        <4>. QED BY <3>2, <4>1, <4>2 DEF Request
      <3>4. k.pc = "play" /\ k.session = n /\ k.share # None /\ k.row # None
        BY <3>2 DEF Request
      <3>5. Equipped(k) BY <3>1, <3>4 DEF Equipped, Sending
      <3>. QED BY <2>1, <3>3, <3>5 DEF TypeInv, Handler
    <2>2. request' \in [Requests -> Handler] BY <1>1, <2>1, AnswerHandler DEF CheckSession, TypeInv
    <2>. QED BY <1>1, <2>2, RequestTypes DEF CheckSession, TypeInv, TypeOK
  <1>2. CASE NotePlay(r)
    <2>1. request[r].session \in 1..MaxSessions BY <1>2, ClientHolds DEF NotePlay, Equipped
    <2>2. request' \in [Requests -> Handler]
      BY <1>2, ClientGoto, AnswerHandler DEF NotePlay, TypeInv, Sending
    <2>3. played' \in [Shares -> SUBSET (1..MaxSessions)]
      BY <1>0, <1>2, <2>1 DEF NotePlay, TypeInv, TypeOK
    <2>. QED BY <1>2, <2>2, <2>3, RequestTypes DEF NotePlay, TypeInv, TypeOK
  <1>3. CASE NoteView(r)
    <2>1. request' \in [Requests -> Handler]
      BY <1>3, ClientGoto, AnswerHandler DEF NoteView, TypeInv, Sending
    <2>2. share[s] \in Row => [share[s] EXCEPT !.viewed = TRUE] \in Row BY DEF Row
    <2>3. share' \in [Shares -> Maybe(Row)]
      BY <1>0, <1>3, <2>2, UpdateType DEF NoteView, TypeInv, TypeOK
    <2>. QED BY <1>3, <2>1, <2>3, RequestTypes DEF NoteView, TypeInv, TypeOK
  <1>4. CASE MarkDelivered(r)
    <2>1. request' \in [Requests -> Handler] BY <1>4, AnswerHandler DEF MarkDelivered, TypeInv
    <2>2. ReadRow(r).job \in Jobs BY <1>0 DEF Row
    <2>. QED BY <1>4, <2>1, <2>2, RequestTypes DEF MarkDelivered, TypeInv, TypeOK
  <1>. QED BY <1>1, <1>2, <1>3, <1>4

LEMMA CreateType ==
  ASSUME TypeInv, NEW r \in Requests, Create(r) \/ Reissue(r) \/ Revoke(r) \/ ChangeLink(r)
  PROVE  TypeInv'
  <1>. USE DEF ClientPCs, ClientOps, Sending
  <1>1. CASE Create(r)
    <2>1. PICK j \in Jobs, link \in BOOLEAN :
            /\ Playable(j)
            /\ Accept(r, "create", [Idle EXCEPT !.pc = "insert", !.job = j, !.status = job[j],
                                               !.link = link])
      BY <1>1 DEF Create
    <2>. DEFINE k == [Idle EXCEPT !.pc = "insert", !.job = j, !.status = job[j], !.link = link]
    <2>2. job[j] \in Statuses BY DEF TypeInv, TypeOK
    <2>3. k \in Request BY <2>2, InMaybe DEF Request, Idle, PCs
    <2>4. k.pc = "insert" /\ k.job # None /\ k.old = None BY ConstantsAssumption DEF Idle
    <2>5. k \in Handler BY <2>3, <2>4 DEF Equipped, Handler
    <2>. QED BY <2>1, <2>5, AcceptType
  <1>2. CASE Reissue(r)
    <2>1. PICK s \in Shares :
            /\ Live(s)
            /\ Accept(r, "reissue", [Idle EXCEPT !.pc = "insert", !.old = s, !.row = share[s],
                                                !.job = share[s].job, !.link = share[s].link])
      BY <1>2 DEF Reissue
    <2>. DEFINE k == [Idle EXCEPT !.pc = "insert", !.old = s, !.row = share[s],
                                  !.job = share[s].job, !.link = share[s].link]
    <2>2. share[s] \in Row /\ share[s] # None
      BY <2>1, OfMaybe DEF Live, TypeInv, TypeOK
    <2>3. share[s].job \in Jobs /\ share[s].link \in BOOLEAN BY <2>2 DEF Row
    <2>4. k \in Request BY <2>2, <2>3, InMaybe DEF Request, Idle, PCs
    <2>5. k.pc = "insert" /\ k.job # None /\ k.row # None
      BY <2>2, <2>3, ConstantsAssumption DEF Idle
    <2>6. k \in Handler BY <2>4, <2>5 DEF Equipped, Handler
    <2>. QED BY <2>1, <2>6, AcceptType
  <1>3. CASE Revoke(r)
    <2>1. PICK s \in Shares : Accept(r, "revoke", [Idle EXCEPT !.pc = "revoke", !.share = s])
      BY <1>3 DEF Revoke
    <2>. DEFINE k == [Idle EXCEPT !.pc = "revoke", !.share = s]
    <2>2. k \in Request BY InMaybe DEF Request, Idle, PCs
    <2>3. k.pc = "revoke" /\ k.share # None BY ConstantsAssumption DEF Idle
    <2>4. k \in Handler BY <2>2, <2>3 DEF Equipped, Handler
    <2>. QED BY <2>1, <2>4, AcceptType
  <1>4. CASE ChangeLink(r)
    <2>1. PICK s \in Shares, link \in BOOLEAN :
            Accept(r, "link", [Idle EXCEPT !.pc = "link", !.share = s, !.link = link])
      BY <1>4 DEF ChangeLink
    <2>. DEFINE k == [Idle EXCEPT !.pc = "link", !.share = s, !.link = link]
    <2>2. k \in Request BY InMaybe DEF Request, Idle, PCs
    <2>3. k.pc = "link" /\ k.share # None BY ConstantsAssumption DEF Idle
    <2>4. k \in Handler BY <2>2, <2>3 DEF Equipped, Handler
    <2>. QED BY <2>1, <2>4, AcceptType
  <1>. QED BY <1>1, <1>2, <1>3, <1>4

\* What a request of the staff holds.
LEMMA StaffHolds ==
  ASSUME TypeInv, NEW r \in Requests
  PROVE  /\ request[r] \in Request /\ Equipped(request[r])
         /\ request[r].pc \in {"notify", "drop", "revoke", "link"} => Watched(r) \in Shares
         /\ request[r].pc \in {"insert", "notify", "drop", "release", "retire"} => request[r].job \in Jobs
         /\ request[r].pc = "retire" => request[r].old \in Shares
  <1>1. request[r] \in Request /\ Equipped(request[r]) BY DEF TypeInv, Handler
  <1>. QED BY <1>1, OfMaybe DEF Equipped, Request, Watched

LEMMA StaffGoto ==
  ASSUME TypeInv, NEW r \in Requests, request[r].pc = "notify",
         NEW pc \in {"drop", "release", "retire"}, Goto(r, pc),
         pc = "retire" => request[r].old # None
  PROVE  request' \in [Requests -> Handler]
  <1>. DEFINE k == [request[r] EXCEPT !.pc = pc]
  <1>1. request[r] \in Request /\ Equipped(request[r]) BY StaffHolds
  <1>2. k.pc = pc /\ k.job = request[r].job /\ k.old = request[r].old /\ k.row = request[r].row
        /\ k.share = request[r].share
    BY <1>1 DEF Request
  <1>3. Equipped(k) BY <1>1, <1>2 DEF Equipped, ClientPCs, ClientOps, Sending
  <1>. QED BY <1>3, GotoHandler DEF TypeInv, PCs

LEMMA StaffType ==
  ASSUME TypeInv, NEW r \in Requests,
         InsertShare(r) \/ SendLink(r) \/ DropShare(r) \/ ReleaseJob(r) \/ SetRevoked(r)
           \/ SetReturnUrl(r)
  PROVE  TypeInv'
  <1>. USE DEF At, GotoIf
  <1>0. request \in [Requests -> Handler] BY DEF TypeInv
  <1>1. CASE InsertShare(r)
    <2>1. PICK s \in Shares \ taken :
            /\ At(r, "insert")
            /\ taken' = taken \cup {s}
            /\ share' = [share EXCEPT ![s] = NewRow(request[r].job, request[r].link)]
            /\ request' = [request EXCEPT ![r].pc = "notify", ![r].share = s]
            /\ UNCHANGED <<job, video, box, expired, linked, Redis, wiper, sent, withdrawn, granted,
                           accepted, failures>>
      BY <1>1 DEF InsertShare
    <2>. DEFINE k == [request[r] EXCEPT !.pc = "notify", !.share = s]
    <2>2. request[r] \in Request /\ Equipped(request[r]) /\ request[r].job \in Jobs
      BY <2>1, StaffHolds
    <2>3. request[r].link \in BOOLEAN BY <2>2 DEF Request
    <2>4. NewRow(request[r].job, request[r].link) \in Row BY <2>2, <2>3, NewRowType
    <2>5. share' \in [Shares -> Maybe(Row)] BY <2>1, <2>4, InMaybe DEF TypeInv, TypeOK
    <2>6. "notify" \in PCs /\ s \in Maybe(Shares) BY InMaybe DEF PCs
    <2>7. k \in Request BY <2>2, <2>6 DEF Request
    <2>8. k.pc = "notify" /\ k.share = s /\ k.job = request[r].job /\ k.old = request[r].old
          /\ k.row = request[r].row
      BY <2>2 DEF Request
    <2>9. Equipped(k)
      BY <2>1, <2>2, <2>8, ConstantsAssumption DEF Equipped, ClientPCs, ClientOps, Sending
    <2>10. request' \in [Requests -> Handler] BY <1>0, <2>1, <2>7, <2>9 DEF Handler
    <2>. QED BY <2>1, <2>5, <2>10 DEF TypeInv, TypeOK, Redis, Handler
  <1>2. CASE SendLink(r)
    <2>1. Watched(r) \in Shares BY <1>2, StaffHolds DEF SendLink
    <2>2. request' \in [Requests -> Handler]
      BY <1>0, <1>2, StaffGoto, AnswerHandler DEF SendLink
    <2>3. linked' \subseteq Shares BY <1>2, <2>1 DEF SendLink, TypeInv, TypeOK
    <2>. QED BY <1>2, <2>2, <2>3, RequestTypes DEF SendLink, TypeInv, TypeOK, Redis
  <1>3. CASE DropShare(r)
    <2>1. request' \in [Requests -> Handler] BY <1>0, <1>3, AnswerHandler DEF DropShare
    <2>2. share' \in [Shares -> Maybe(Row)] BY <1>3, InMaybe DEF DropShare, TypeInv, TypeOK
    <2>. QED BY <1>3, <2>1, <2>2, RequestTypes DEF DropShare, TypeInv, TypeOK, Redis
  <1>4. CASE ReleaseJob(r)
    <2>1. request' \in [Requests -> Handler] BY <1>0, <1>4, AnswerHandler DEF ReleaseJob
    <2>2. job' \in [Jobs -> Statuses] BY <1>4 DEF ReleaseJob, TypeInv, TypeOK, Statuses
    <2>. QED BY <1>4, <2>1, <2>2, RequestTypes DEF ReleaseJob, TypeInv, TypeOK, Redis
  <1>5. CASE SetRevoked(r)
    <2>. DEFINE s == IF At(r, "retire") THEN request[r].old ELSE Watched(r)
    <2>1. request' \in [Requests -> Handler] BY <1>0, <1>5, AnswerHandler DEF SetRevoked
    <2>2. s \in Shares BY <1>5, StaffHolds DEF SetRevoked
    <2>3. share[s] \in Row => [share[s] EXCEPT !.revoked = TRUE] \in Row BY DEF Row
    <2>4. Update(s, [share[s] EXCEPT !.revoked = TRUE]) BY <1>5 DEF SetRevoked
    <2>5. share' \in [Shares -> Maybe(Row)]
      <3>. HIDE DEF s
      <3>. QED BY <2>2, <2>3, <2>4, UpdateType DEF TypeInv, TypeOK
    <2>. QED BY <1>5, <2>1, <2>5, RequestTypes DEF SetRevoked, TypeInv, TypeOK, Redis
  <1>6. CASE SetReturnUrl(r)
    <2>. DEFINE s == Watched(r)
    <2>1. request' \in [Requests -> Handler] BY <1>0, <1>6, AnswerHandler DEF SetReturnUrl
    <2>2. s \in Shares /\ request[r].link \in BOOLEAN
      BY <1>6, StaffHolds DEF SetReturnUrl, Request
    <2>3. share[s] \in Row => [share[s] EXCEPT !.link = request[r].link] \in Row
      BY <2>2 DEF Row
    <2>4. share' \in [Shares -> Maybe(Row)]
      BY <1>6, <2>2, <2>3, UpdateType DEF SetReturnUrl, TypeInv, TypeOK
    <2>. QED BY <1>6, <2>1, <2>4, RequestTypes DEF SetReturnUrl, TypeInv, TypeOK, Redis
  <1>. QED BY <1>1, <1>2, <1>3, <1>4, <1>5, <1>6

LEMMA WiperType ==
  ASSUME TypeInv, Sweep \/ ListShares \/ (\E j \in Jobs : PurgeJob(j) \/ SetDelivered(j))
                  \/ \E w \in {"sweep", "purge"} : Wipe(w) \/ WipeCode(w)
  PROVE  TypeInv'
  <1>. USE DEF TypeInv, TypeOK, Redis, Handler
  <1>1. ASSUME NEW j \in Jobs, PurgeJob(j) PROVE TypeInv'
    <2>1. wiper' \in [{"sweep", "purge"} -> Wiper]
      <3>1. [wiper["purge"] EXCEPT !.job = j] \in Wiper BY InMaybe DEF Wiper
      <3>. QED BY <1>1, <3>1 DEF PurgeJob
    <2>2. job' \in [Jobs -> Statuses] BY <1>1 DEF PurgeJob, Statuses
    <2>. QED BY <1>1, <2>1, <2>2 DEF PurgeJob
  <1>2. ASSUME NEW j \in Jobs, SetDelivered(j) PROVE TypeInv'
    BY <1>2 DEF SetDelivered, World
  <1>3. CASE Sweep
    <2>1. [wiper["sweep"] EXCEPT !.due = Due \cap expired] \in Wiper BY DEF Wiper
    <2>2. wiper' \in [{"sweep", "purge"} -> Wiper] BY <1>3, <2>1 DEF Sweep
    <2>. QED BY <1>3, <2>2 DEF Sweep
  <1>4. CASE ListShares
    <2>. DEFINE due == {s \in Due : share[s].job = wiper["purge"].job}
    <2>1. due \subseteq Shares BY DEF Due
    <2>2. [Resting EXCEPT !.due = due] \in Wiper BY <2>1, InMaybe DEF Wiper, Resting
    <2>3. wiper' \in [{"sweep", "purge"} -> Wiper] BY <1>4, <2>2 DEF ListShares
    <2>. QED BY <1>4, <2>3 DEF ListShares
  <1>5. ASSUME NEW w \in {"sweep", "purge"}, Wipe(w) PROVE TypeInv'
    <2>1. PICK s \in wiper[w].due :
            /\ IF s \in Due
                 THEN share' = [share EXCEPT ![s].contact = FALSE, ![s].link = FALSE, ![s].wiped = TRUE]
                 ELSE UNCHANGED share
            /\ wiper' = [wiper EXCEPT ![w].due = @ \ {s}, ![w].code = IF s \in Due THEN s ELSE None]
      BY <1>5 DEF Wipe
    <2>2. s \in Shares BY DEF Wiper
    <2>3. share' \in [Shares -> Maybe(Row)]
      <3>1. CASE s \in Due
        <4>1. share[s] \in Row BY <2>2, <3>1, OfMaybe DEF Due, Live
        <4>2. [share[s] EXCEPT !.contact = FALSE, !.link = FALSE, !.wiped = TRUE] \in Row
          BY <4>1 DEF Row
        <4>. QED BY <2>1, <2>2, <3>1, <4>2, InMaybe
      <3>. QED BY <2>1, <3>1
    <2>4. wiper' \in [{"sweep", "purge"} -> Wiper]
      <3>. DEFINE c == IF s \in Due THEN s ELSE None
      <3>1. c \in Maybe(Shares) BY <2>2, InMaybe
      <3>2. wiper[w].due \ {s} \subseteq Shares BY DEF Wiper
      <3>3. [wiper[w] EXCEPT !.due = @ \ {s}, !.code = c] \in Wiper
        <4>1. wiper[w] \in Wiper OBVIOUS
        <4>2. ASSUME NEW k \in Wiper, NEW due \in SUBSET Shares, NEW d \in Maybe(Shares)
              PROVE  [k EXCEPT !.due = due, !.code = d] \in Wiper
          BY DEF Wiper
        <4>. HIDE DEF c
        <4>. QED BY <3>1, <3>2, <4>1, <4>2
      <3>. QED BY <2>1, <3>3
    <2>. QED BY <1>5, <2>3, <2>4 DEF Wipe
  <1>6. ASSUME NEW w \in {"sweep", "purge"}, WipeCode(w) PROVE TypeInv'
    <2>1. [wiper[w] EXCEPT !.code = None] \in Wiper BY InMaybe DEF Wiper
    <2>2. wiper' \in [{"sweep", "purge"} -> Wiper] BY <1>6, <2>1 DEF WipeCode
    <2>. QED BY <1>6, <2>2 DEF WipeCode
  <1>. QED BY <1>1, <1>2, <1>3, <1>4, <1>5, <1>6

LEMMA TimeType == ASSUME TypeInv, Time PROVE TypeInv'
  <1>. USE DEF TypeInv, TypeOK, Redis, Handler, Timeless
  <1>. PICK s \in Shares :
         ShareExpires(s) \/ CodeLapses(s) \/ ResendLapses(s) \/ CooldownEnds(s) \/ SessionEnds(s)
    BY DEF Time
  <1>1. CASE ShareExpires(s) BY <1>1 DEF ShareExpires
  <1>2. CASE CodeLapses(s) BY <1>2 DEF CodeLapses
  <1>3. CASE ResendLapses(s) BY <1>3 DEF ResendLapses
  <1>4. CASE CooldownEnds(s)
    <2>1. share[s] \in Row => [share[s] EXCEPT !.cooling = FALSE] \in Row BY DEF Row
    <2>2. share' \in [Shares -> Maybe(Row)] BY <1>4, <2>1, UpdateType DEF CooldownEnds
    <2>. QED BY <1>4, <2>2 DEF CooldownEnds
  <1>5. CASE SessionEnds(s) BY <1>5 DEF SessionEnds
  <1>. QED BY <1>1, <1>2, <1>3, <1>4, <1>5

LEMMA FailureType ==
  ASSUME TypeInv, (\E r \in Requests : FailRequest(r))
                  \/ (\E w \in {"sweep", "purge"} : FailWiper(w)) \/ Crash
  PROVE  TypeInv'
  <1>. USE DEF Kept, Redis
  <1>0. Failing /\ failures' \in 0..MaxFailures
    BY ConstantsAssumption DEF FailRequest, FailWiper, Crash, Failing, TypeInv, TypeOK
  <1>1. Resting \in Wiper BY InMaybe DEF Resting, Wiper
  <1>2. ASSUME NEW r \in Requests, FailRequest(r) PROVE TypeInv'
    <2>1. request' \in [Requests -> Handler] BY <1>2, AnswerHandler DEF FailRequest, TypeInv
    <2>. QED BY <1>0, <1>2, <2>1 DEF FailRequest, TypeInv, TypeOK, Handler
  <1>3. ASSUME NEW w \in {"sweep", "purge"}, FailWiper(w) PROVE TypeInv'
    BY <1>0, <1>1, <1>3 DEF FailWiper, TypeInv, TypeOK, Handler
  <1>4. CASE Crash
    <2>1. request' \in [Requests -> Handler] BY <1>4, IdleHandler DEF Crash
    <2>. QED BY <1>0, <1>1, <1>4, <2>1 DEF Crash, TypeInv, TypeOK, Handler
  <1>. QED BY <1>2, <1>3, <1>4

LEMMA InitType == Init => TypeInv
  <1>. SUFFICES ASSUME Init PROVE TypeInv OBVIOUS
  <1>1. request \in [Requests -> Handler] BY IdleHandler DEF Init
  <1>2. wiper \in [{"sweep", "purge"} -> Wiper] BY InMaybe DEF Init, Resting, Wiper
  <1>3. accepted \in 0..MaxAccepted /\ failures \in 0..MaxFailures
    BY ConstantsAssumption DEF Init
  <1>. QED BY <1>1, <1>2, <1>3, InMaybe DEF Init, TypeInv, TypeOK, Statuses, Handler

LEMMA NextType == TypeInv /\ [Next]_vars => TypeInv'
  <1>. SUFFICES ASSUME TypeInv, [Next]_vars PROVE TypeInv' OBVIOUS
  <1>1. ASSUME NEW r \in Requests, Client(r) PROVE TypeInv'
    <2>1. CASE RequestCode(r) \/ Verify(r) \/ Watch(r)
      BY <2>1, FromClientType DEF RequestCode, Verify, Watch, ClientOps
    <2>. QED BY <1>1, <2>1, CodeType, VerifyType, WatchType DEF Client
  <1>2. ASSUME NEW r \in Requests, Staff(r) PROVE TypeInv'
    BY <1>2, CreateType, StaffType DEF Staff
  <1>3. CASE Next
    BY <1>1, <1>2, <1>3, WiperType, TimeType, FailureType DEF Next
  <1>4. CASE UNCHANGED vars BY <1>4 DEF vars, TypeInv, TypeOK, Handler
  <1>. QED BY <1>3, <1>4

\* The types of all variables of sharing, in every reachable state.
THEOREM TypeCorrect == Spec => []TypeOK
  <1>1. TypeInv => TypeOK BY DEF TypeInv
  <1>. QED BY <1>1, InitType, NextType, PTL DEF Spec

-----------------------------------------------------------------------------
(***************************************************************************)
(* The cap on checks.  As long as its row is there, a share's session      *)
(* counter is the number of checks that passed: whoever writes it knows    *)
(* that it still is what it read.                                          *)
(***************************************************************************)
ChecksCounted(s) ==
  /\ Live(s) => s \in taken /\ share[s].sessions = granted[s]
  /\ s \notin taken => granted[s] = 0
  /\ granted[s] <= MaxSessions

SessionsInv == \A s \in Shares : ChecksCounted(s)

\* A step that neither inserts a row nor writes a session counter.
CounterKept ==
  /\ granted' = granted /\ taken \subseteq taken'
  /\ \A s \in Shares : share'[s] # None => Live(s) /\ share'[s].sessions = share[s].sessions

\* A step that leaves both counters of every row alone; it may delete the row.
RowsKept == \A s \in Shares :
  share'[s] # None =>
    /\ Live(s)
    /\ share'[s].sessions = share[s].sessions
    /\ share'[s].codes = share[s].codes

LEMMA KeptSessions ==
  ASSUME SessionsInv, CounterKept
  PROVE  SessionsInv'
  BY DEF SessionsInv, ChecksCounted, CounterKept, Live

LEMMA CountFailureRow ==
  ASSUME TypeInv, NEW r \in Requests, CountFailure(r)
  PROVE  RowsKept
  <1>. DEFINE s == Watched(r)
              failed == ReadRow(r).failed + 1
              lock == failed >= LockAt
              cooldown == ~lock /\ failed % CooldownEvery = 0
              columns == [share[s] EXCEPT !.failed = failed, !.locked = @ \/ lock,
                                          !.cooling = @ \/ cooldown]
  <1>1. s \in Shares
    BY ClientHolds DEF CountFailure, At, ClientPCs
  <1>2. Update(s, columns) BY DEF CountFailure
  <1>3. \A t \in Shares :
          share'[t] # None =>
            Live(t) /\ (t # s => share'[t] = share[t]) /\ (t = s => share'[t] = columns)
    <2>. HIDE DEF columns
    <2>. QED BY <1>1, <1>2 DEF Update, Live, TypeInv, TypeOK
  <1>4. share[s] \in Row => columns.sessions = share[s].sessions /\ columns.codes = share[s].codes
    BY DEF Row
  <1>5. Live(s) => share[s] \in Row BY <1>1, OfMaybe DEF Live, TypeInv, TypeOK
  <1>. HIDE DEF columns
  <1>. QED BY <1>3, <1>4, <1>5 DEF RowsKept

\* The other steps that update a row leave both counters alone.
LEMMA OtherRows ==
  ASSUME TypeInv, NEW r \in Requests,
         NoteView(r) \/ DropShare(r) \/ SetRevoked(r) \/ SetReturnUrl(r)
  PROVE  RowsKept
  <1>. USE DEF RowsKept
  <1>0. \A t \in Shares : Live(t) => share[t] \in Row
    BY OfMaybe DEF Live, TypeInv, TypeOK
  <1>1. CASE NoteView(r)
    <2>1. Watched(r) \in Shares BY <1>1, ClientHolds DEF NoteView, At, ClientPCs
    <2>. QED BY <1>0, <1>1, <2>1 DEF NoteView, Update, Live, Row, TypeInv, TypeOK
  <1>2. CASE DropShare(r)
    <2>1. Watched(r) \in Shares BY <1>2, StaffHolds DEF DropShare, At
    <2>. QED BY <1>2, <2>1 DEF DropShare, Live, TypeInv, TypeOK
  <1>3. CASE SetRevoked(r)
    <2>. DEFINE s == IF At(r, "retire") THEN request[r].old ELSE Watched(r)
    <2>1. s \in Shares BY <1>3, StaffHolds DEF SetRevoked, At
    <2>2. Update(s, [share[s] EXCEPT !.revoked = TRUE]) BY <1>3 DEF SetRevoked
    <2>. HIDE DEF s
    <2>. QED BY <1>0, <2>1, <2>2 DEF Update, Live, Row, TypeInv, TypeOK
  <1>4. CASE SetReturnUrl(r)
    <2>1. Watched(r) \in Shares BY <1>4, StaffHolds DEF SetReturnUrl, At
    <2>. QED BY <1>0, <1>4, <2>1 DEF SetReturnUrl, Update, Live, Row, TypeInv, TypeOK
  <1>. QED BY <1>1, <1>2, <1>3, <1>4

LEMMA WipeRow ==
  ASSUME TypeInv, NEW w \in {"sweep", "purge"}, Wipe(w)
  PROVE  RowsKept
  <1>. USE DEF RowsKept
  <1>1. PICK s \in wiper[w].due :
          IF s \in Due
            THEN share' = [share EXCEPT ![s].contact = FALSE, ![s].link = FALSE, ![s].wiped = TRUE]
            ELSE UNCHANGED share
    BY DEF Wipe
  <1>2. CASE s \in Due
    <2>1. share[s] \in Row BY <1>2, OfMaybe DEF Due, Live, TypeInv, TypeOK
    <2>. QED BY <1>1, <1>2, <2>1 DEF Due, Live, Row, TypeInv, TypeOK
  <1>. QED BY <1>1, <1>2 DEF Live

LEMMA CooldownRow ==
  ASSUME TypeInv, NEW s \in Shares, CooldownEnds(s)
  PROVE  RowsKept
  <1>. USE DEF RowsKept
  <1>1. Live(s) => share[s] \in Row BY OfMaybe DEF Live, TypeInv, TypeOK
  <1>. QED BY <1>1 DEF CooldownEnds, Update, Live, Row, TypeInv, TypeOK

LEMMA InsertedRow ==
  ASSUME TypeInv, NEW r \in Requests, InsertShare(r)
  PROVE  \E s \in Shares \ taken :
           /\ taken' = taken \cup {s}
           /\ \A t \in Shares :
                /\ t # s => share'[t] = share[t]
                /\ t = s => share'[t].sessions = 0 /\ share'[t].codes = 0
  BY DEF InsertShare, NewRow, TypeInv, TypeOK

LEMMA CountCodeRow ==
  ASSUME TypeInv, NEW r \in Requests, CountCode(r)
  PROVE  /\ Watched(r) \in Shares
         /\ \A t \in Shares :
              share'[t] # None =>
                /\ Live(t)
                /\ share'[t].sessions = share[t].sessions
                /\ t # Watched(r) => share'[t].codes = share[t].codes
                /\ t = Watched(r) => share'[t].codes = ReadRow(r).codes + 1
  <1>1. Watched(r) \in Shares BY ClientHolds DEF CountCode, At, ClientPCs, Sending
  <1>2. \A t \in Shares : Live(t) => share[t] \in Row BY OfMaybe DEF Live, TypeInv, TypeOK
  <1>. QED BY <1>1, <1>2 DEF CountCode, Update, Live, Row, TypeInv, TypeOK

LEMMA BumpSessions ==
  ASSUME TypeInv, SessionsInv, NEW r \in Requests, Bump(r)
  PROVE  SessionsInv'
  <1>. DEFINE s == Watched(r)
              read == ReadRow(r).sessions
              won == Live(s) /\ share[s].sessions = read
  <1>1. s \in Shares /\ read \in Nat /\ read < MaxSessions
    BY ClientHolds DEF Bump, At, ClientPCs, Equipped, ReadRow, Row
  <1>2. CASE won
    <2>1. share[s] \in Row BY <1>1, <1>2, OfMaybe DEF Live, TypeInv, TypeOK
    <2>2. share' = [share EXCEPT ![s].sessions = read + 1] /\ granted' = [granted EXCEPT ![s] = @ + 1]
          /\ taken' = taken
      BY <1>2 DEF Bump, World
    <2>3. share'[s].sessions = read + 1 /\ \A t \in Shares : t # s => share'[t] = share[t]
      BY <1>1, <2>1, <2>2 DEF Row, TypeInv, TypeOK
    <2>4. granted'[s] = read + 1 /\ \A t \in Shares : t # s => granted'[t] = granted[t]
      BY <1>1, <1>2, <2>2 DEF SessionsInv, ChecksCounted, TypeInv, TypeOK
    <2>5. s \in taken BY <1>1, <1>2 DEF SessionsInv, ChecksCounted
    <2>6. read + 1 <= MaxSessions BY <1>1, ConstantsAssumption
    <2>. HIDE DEF s, read
    <2>. QED BY <2>2, <2>3, <2>4, <2>5, <2>6 DEF SessionsInv, ChecksCounted, Live
  <1>3. CASE ~won
    BY <1>3 DEF Bump, World, SessionsInv, ChecksCounted, Live
  <1>. QED BY <1>2, <1>3

LEMMA BumpRow ==
  ASSUME TypeInv, NEW r \in Requests, Bump(r)
  PROVE  \A t \in Shares : share'[t] # None => Live(t) /\ share'[t].codes = share[t].codes
  <1>1. \A t \in Shares : Live(t) => share[t] \in Row BY OfMaybe DEF Live, TypeInv, TypeOK
  <1>2. Watched(r) \in Shares BY ClientHolds DEF Bump, At, ClientPCs
  <1>. QED BY <1>1, <1>2 DEF Bump, Live, Row, TypeInv, TypeOK

LEMMA InsertSessions ==
  ASSUME TypeInv, SessionsInv, NEW r \in Requests, InsertShare(r)
  PROVE  SessionsInv'
  <1>1. granted' = granted BY DEF InsertShare
  <1>2. PICK s \in Shares \ taken :
          /\ taken' = taken \cup {s}
          /\ \A t \in Shares :
               (t # s => share'[t] = share[t]) /\ (t = s => share'[t].sessions = 0)
    BY InsertedRow
  <1>. QED BY <1>1, <1>2 DEF SessionsInv, ChecksCounted, Live

LEMMA SessionsStep == TypeInv /\ SessionsInv /\ [Next]_vars => SessionsInv'
  <1>. SUFFICES ASSUME TypeInv, SessionsInv, [Next]_vars PROVE SessionsInv' OBVIOUS
  <1>. USE KeptSessions DEF CounterKept, RowsKept, Live
  <1>1. ASSUME NEW r \in Requests, Client(r) PROVE SessionsInv'
    <2>1. CASE RequestCode(r) \/ Verify(r) \/ Watch(r)
      BY <2>1 DEF RequestCode, Verify, Watch, FromClient, Accept
    <2>2. CASE TakeTurn(r) \/ StoreCode(r) \/ SendCode(r) \/ Unsend(r) \/ CheckCode(r)
               \/ SpendCode(r) \/ OpenSession(r)
      BY <2>2 DEF TakeTurn, StoreCode, SendCode, Unsend, CheckCode, SpendCode, OpenSession, World
    <2>3. CASE CheckSession(r) \/ NotePlay(r) \/ MarkDelivered(r)
      BY <2>3 DEF CheckSession, NotePlay, MarkDelivered, World
    <2>4. CASE CountCode(r) BY <2>4, CountCodeRow DEF CountCode, World
    <2>5. CASE CountFailure(r) BY <2>5, CountFailureRow DEF CountFailure, World
    <2>6. CASE NoteView(r) BY <2>6, OtherRows DEF NoteView, World
    <2>. QED BY <1>1, <2>1, <2>2, <2>3, <2>4, <2>5, <2>6, BumpSessions DEF Client
  <1>2. ASSUME NEW r \in Requests, Staff(r) PROVE SessionsInv'
    <2>1. CASE Create(r) \/ Reissue(r) \/ Revoke(r) \/ ChangeLink(r)
      BY <2>1 DEF Create, Reissue, Revoke, ChangeLink, Accept
    <2>2. CASE SendLink(r) \/ ReleaseJob(r)
      BY <2>2 DEF SendLink, ReleaseJob, World
    <2>3. CASE DropShare(r) \/ SetRevoked(r) \/ SetReturnUrl(r)
      BY <2>3, OtherRows DEF DropShare, SetRevoked, SetReturnUrl, World
    <2>. QED BY <1>2, <2>1, <2>2, <2>3, InsertSessions DEF Staff
  <1>3. ASSUME NEW j \in Jobs, SetDelivered(j) \/ PurgeJob(j) PROVE SessionsInv'
    BY <1>3 DEF SetDelivered, PurgeJob, World
  <1>4. CASE Sweep \/ ListShares BY <1>4 DEF Sweep, ListShares
  <1>5. ASSUME NEW w \in {"sweep", "purge"}, Wipe(w) PROVE SessionsInv'
    BY <1>5, WipeRow DEF Wipe
  <1>6. ASSUME NEW w \in {"sweep", "purge"}, WipeCode(w) \/ FailWiper(w) PROVE SessionsInv'
    BY <1>6 DEF WipeCode, FailWiper, Kept
  <1>7. ASSUME NEW s \in Shares,
               ShareExpires(s) \/ CodeLapses(s) \/ ResendLapses(s) \/ SessionEnds(s)
        PROVE  SessionsInv'
    BY <1>7 DEF ShareExpires, CodeLapses, ResendLapses, SessionEnds, Timeless
  <1>8. ASSUME NEW s \in Shares, CooldownEnds(s) PROVE SessionsInv'
    BY <1>8, CooldownRow DEF CooldownEnds, Timeless
  <1>9. ASSUME NEW r \in Requests, FailRequest(r) PROVE SessionsInv'
    BY <1>9 DEF FailRequest, Kept
  <1>10. CASE Crash BY <1>10 DEF Crash, Kept
  <1>11. CASE UNCHANGED vars BY <1>11 DEF vars
  <1>. QED BY <1>1, <1>2, <1>3, <1>4, <1>5, <1>6, <1>7, <1>8, <1>9, <1>10, <1>11 DEF Next, Time

\* No link lets in more than MAX_SESSIONS checks, whatever races and fails (verifyShare).
THEOREM NoExtraSession == Spec => []SessionsCapped
  <1>1. Init => SessionsInv
    BY ConstantsAssumption DEF Init, SessionsInv, ChecksCounted, Live
  <1>2. SessionsInv => SessionsCapped BY DEF SessionsInv, ChecksCounted, SessionsCapped
  <1>. QED BY <1>1, <1>2, InitType, NextType, SessionsStep, PTL DEF Spec
-----------------------------------------------------------------------------
(***************************************************************************)
(* The cap on codes.  The count is written back from a copy, so it is only *)
(* as good as the resend key: from the moment a request takes the key no   *)
(* other is between its checks and its count, and one that read the row    *)
(* before finds the key taken until it gives up.  Hence what a row says is *)
(* the number of codes sent, but for the one being counted or dropped, the *)
(* ones that were dropped, and one for each failure.                       *)
(***************************************************************************)
Queue == {"code"} \cup Sending

Busy(s) == \E r \in Requests : request[r].pc \in Sending /\ Watched(r) = s
Counting(s) == \E r \in Requests : (At(r, "count") \/ At(r, "recall")) /\ Watched(r) = s

\* A row that holds this count of codes knows of those that were sent.
Knows(s, codes) ==
  /\ sent[s] <= codes + withdrawn[s] + failures + 1
  /\ Counting(s) \/ sent[s] <= codes + withdrawn[s] + failures

OneSender == \A r, q \in Requests :
  request[r].pc \in Sending /\ request[q].pc \in Sending /\ Watched(r) = Watched(q) => r = q

RequestKnows(r) ==
  /\ request[r].pc \in Queue => Watched(r) \in taken
  /\ request[r].pc \in Sending => Watched(r) \in resend
  /\ request[r].pc \in {"store", "send", "unsend"} =>
       sent[Watched(r)] <= ReadRow(r).codes + withdrawn[Watched(r)] + failures
  /\ request[r].pc \in {"count", "recall"} =>
       sent[Watched(r)] <= ReadRow(r).codes + 1 + withdrawn[Watched(r)] + failures
  /\ request[r].pc = "code" =>
       \/ Watched(r) \in resend /\ ~Busy(Watched(r))
       \/ Knows(Watched(r), ReadRow(r).codes)

ShareKnows(s) ==
  /\ Live(s) => s \in taken /\ Knows(s, share[s].codes)
  /\ s \notin taken => sent[s] = 0
  /\ sent[s] <= MaxCodes + withdrawn[s] + failures

CodesInv ==
  /\ OneSender
  /\ \A r \in Requests : RequestKnows(r)
  /\ \A s \in Shares : ShareKnows(s)

\* A step that is none of requestCode's and ends no request of its kind.
QueueKept == \A r \in Requests :
  request[r].pc \in Queue \/ request'[r].pc \in Queue => request'[r] = request[r]

LEMMA KeptQueue ==
  ASSUME CodesInv, QueueKept, taken \subseteq taken', UNCHANGED <<sent, withdrawn, resend, failures>>
  PROVE  /\ OneSender'
         /\ \A r \in Requests : RequestKnows(r)'
         /\ \A s \in Shares : Counting(s)' <=> Counting(s)
  <1>1. \A r \in Requests : request'[r].pc \in Queue => request'[r] = request[r]
    BY DEF QueueKept
  <1>2. \A s \in Shares : Counting(s)' <=> Counting(s)
    BY DEF QueueKept, Counting, At, Watched, Queue, Sending
  <1>3. \A s : Busy(s)' => Busy(s)
    BY DEF QueueKept, Busy, Watched, Queue
  <1>4. OneSender' BY <1>1 DEF CodesInv, OneSender, Queue, Watched
  <1>5. ASSUME NEW r \in Requests PROVE RequestKnows(r)'
    <2>1. CASE request'[r].pc \in Queue
      <3>1. request'[r] = request[r] /\ RequestKnows(r) BY <1>1, <2>1 DEF CodesInv
      <3>2. (\E q \in Requests : request'[q].pc \in {"count", "recall"}
                                   /\ request'[q].share = request'[r].share)
            <=> (\E q \in Requests : request[q].pc \in {"count", "recall"}
                                     /\ request[q].share = request[r].share)
        BY <3>1 DEF QueueKept, Queue, Sending
      <3>. QED BY <1>3, <3>1, <3>2 DEF RequestKnows, Knows, Counting, At, Watched, ReadRow
    <2>. QED BY <2>1 DEF RequestKnows, Queue, Sending
  <1>. QED BY <1>2, <1>4, <1>5

LEMMA KeptCodes ==
  ASSUME CodesInv, QueueKept, taken \subseteq taken',
         \A s \in Shares : share'[s] # None => Live(s) /\ share'[s].codes = share[s].codes,
         UNCHANGED <<sent, withdrawn, resend, failures>>
  PROVE  CodesInv'
  <1>1. ASSUME NEW s \in Shares PROVE ShareKnows(s)'
    BY KeptQueue DEF CodesInv, ShareKnows, Knows, Live
  <1>. QED BY <1>1, KeptQueue DEF CodesInv

\* A request outside requestCode goes to another step, is answered or is accepted.
LEMMA QuietRequest ==
  ASSUME TypeInv, NEW r \in Requests, NEW k, request' = [request EXCEPT ![r] = k],
         request[r].pc \notin Queue, k.pc \notin Queue
  PROVE  QueueKept
  BY DEF QueueKept, TypeInv

LEMMA QuietGoto ==
  ASSUME TypeInv, NEW r \in Requests, NEW pc, Goto(r, pc), request[r].pc \notin Queue, pc \notin Queue
  PROVE  QueueKept
  <1>1. request[r] \in Request BY DEF TypeInv, Handler
  <1>2. [request[r] EXCEPT !.pc = pc].pc = pc BY <1>1 DEF Request
  <1>. QED BY <1>2, QuietRequest DEF Goto

LEMMA QuietAnswer ==
  ASSUME TypeInv, NEW r \in Requests, Answer(r), request[r].pc \notin Queue
  PROVE  QueueKept
  BY QuietRequest DEF Answer, Idle, Queue, Sending

\* What the invariants say of a request in requestCode, as numbers.
LEMMA Numbers ==
  ASSUME TypeInv
  PROVE  /\ failures \in Nat /\ MaxCodes \in Nat
         /\ \A s \in Shares : sent[s] \in Nat /\ withdrawn[s] \in Nat
         /\ \A s \in Shares : Live(s) => share[s] \in Row /\ share[s].codes \in Nat
         /\ \A r \in Requests : request[r].pc \in Queue =>
              Watched(r) \in Shares /\ ReadRow(r).codes \in Nat /\ request[r] \in Request
         /\ \A r \in Requests : request[r].pc \in Sending => ReadRow(r).codes < MaxCodes
  <1>1. \A s \in Shares : Live(s) => share[s] \in Row
    BY OfMaybe DEF Live, TypeInv, TypeOK
  <1>2. \A r \in Requests : request[r].pc \in Queue => request[r].pc \in ClientPCs
    BY DEF Queue, Sending, ClientPCs, ClientOps
  <1>3. \A r \in Requests : request[r].pc \in Queue =>
          Watched(r) \in Shares /\ ReadRow(r) \in Row /\ request[r] \in Request
          /\ Equipped(request[r])
    BY <1>2, ClientHolds
  <1>. QED BY <1>1, <1>3, ConstantsAssumption DEF Row, TypeInv, TypeOK, Equipped, Queue, ReadRow

\* A step of one request in requestCode tells on the share it is about alone.
LEMMA Elsewhere ==
  ASSUME TypeInv, CodesInv, NEW r \in Requests, NEW k,
         request[r].pc \in Queue, request' = [request EXCEPT ![r] = k],
         k.pc \in Queue => k.share = Watched(r),
         k.pc \in Sending => request[r].pc \in Sending \/ ~Busy(Watched(r)),
         UNCHANGED <<taken, failures>>,
         \A t \in Shares : t # Watched(r) =>
           sent'[t] = sent[t] /\ withdrawn'[t] = withdrawn[t] /\ (t \in resend' <=> t \in resend),
         \A t \in Shares : t # Watched(r) /\ share'[t] # None =>
                             Live(t) /\ share'[t].codes = share[t].codes
  PROVE  /\ OneSender'
         /\ \A q \in Requests : q # r => request'[q] = request[q]
         /\ \A q \in Requests : q # r /\ Watched(q) # Watched(r) => RequestKnows(q)'
         /\ \A t \in Shares : t # Watched(r) => ShareKnows(t)'
  <1>. DEFINE s == Watched(r)
  <1>1. \A q \in Requests : request'[q] = IF q = r THEN k ELSE request[q] BY DEF TypeInv
  <1>2. ASSUME NEW t, t # s PROVE (Busy(t)' <=> Busy(t)) /\ (Counting(t)' <=> Counting(t))
    BY <1>1, <1>2 DEF Busy, Counting, At, Watched, Queue, Sending
  <1>3. OneSender'
    <2>1. \A q \in Requests : request'[q].pc \in Sending => request'[q].share = request[q].share
      BY <1>1 DEF Watched, Queue
    <2>2. \A q, p \in Requests :
            request[q].pc \in Sending /\ request[p].pc \in Sending /\ request[q].share = request[p].share
              => q = p
      BY DEF CodesInv, OneSender, Watched
    <2>3. \A q \in Requests :
            request'[q].pc \in Sending =>
              request[q].pc \in Sending \/ (q = r /\ ~Busy(s))
      BY <1>1
    <2>4. \A q \in Requests : request[q].pc \in Sending => Busy(request[q].share)
      BY DEF Busy, Watched
    <2>5. \A q, p \in Requests :
            request'[q].pc \in Sending /\ request'[p].pc \in Sending
            /\ request'[q].share = request'[p].share => q = p
      BY <2>1, <2>2, <2>3, <2>4 DEF Watched
    <2>. QED BY <2>5 DEF OneSender, Watched
  <1>4. ASSUME NEW q \in Requests, q # r, Watched(q) # s PROVE RequestKnows(q)'
    <2>1. request'[q] = request[q] /\ RequestKnows(q) BY <1>1, <1>4 DEF CodesInv
    <2>2. request[q].pc \in Queue => Watched(q) \in Shares BY Numbers
    <2>3. request[q].pc \in Queue =>
            /\ sent'[Watched(q)] = sent[Watched(q)] /\ withdrawn'[Watched(q)] = withdrawn[Watched(q)]
            /\ Watched(q) \in resend' <=> Watched(q) \in resend
      BY <1>4, <2>2
    <2>4. Watched(q)' = Watched(q) /\ ReadRow(q)' = ReadRow(q) BY <2>1 DEF Watched, ReadRow
    <2>5. (\E p \in Requests : request'[p].pc \in {"count", "recall"} /\ request'[p].share = Watched(q))
          <=> (\E p \in Requests : request[p].pc \in {"count", "recall"} /\ request[p].share = Watched(q))
      BY <1>2, <1>4 DEF Counting, At, Watched
    <2>6. (\E p \in Requests : request'[p].pc \in Sending /\ request'[p].share = Watched(q))
          <=> (\E p \in Requests : request[p].pc \in Sending /\ request[p].share = Watched(q))
      BY <1>2, <1>4 DEF Busy, Watched
    <2>. QED BY <2>1, <2>3, <2>4, <2>5, <2>6
         DEF RequestKnows, Knows, Counting, Busy, At, Watched, ReadRow, Queue, Sending
  <1>5. ASSUME NEW t \in Shares, t # s PROVE ShareKnows(t)'
    <2>1. ShareKnows(t) BY DEF CodesInv
    <2>. QED BY <1>2, <1>5, <2>1 DEF ShareKnows, Knows, Live
  <1>. QED BY <1>1, <1>3, <1>4, <1>5

\* A request in requestCode goes on with what it holds.
LEMMA GoesTo ==
  ASSUME TypeInv, NEW r \in Requests, request[r].pc \in Queue, NEW pc, Goto(r, pc)
  PROVE  \E k : /\ request' = [request EXCEPT ![r] = k] /\ request'[r] = k
                /\ k.pc = pc /\ k.share = Watched(r) /\ k.row = ReadRow(r)
  <1>. DEFINE k == [request[r] EXCEPT !.pc = pc]
  <1>1. request[r] \in Request BY Numbers
  <1>2. k.pc = pc /\ k.share = Watched(r) /\ k.row = ReadRow(r)
    BY <1>1 DEF Request, Watched, ReadRow
  <1>3. request' = [request EXCEPT ![r] = k] /\ request'[r] = k
    BY DEF Goto, TypeInv
  <1>. HIDE DEF k
  <1>. QED BY <1>2, <1>3

\* The other requests about the share of the one that is sending.
LEMMA Others ==
  ASSUME CodesInv, NEW r \in Requests, request[r].pc \in Sending
  PROVE  /\ \A q \in Requests : q # r /\ Watched(q) = Watched(r) => request[q].pc \notin Sending
         /\ request[r].pc \notin {"count", "recall"} => ~Counting(Watched(r))
         /\ Busy(Watched(r))
  BY DEF CodesInv, OneSender, Counting, Busy, At, Sending

\* What a request about the same share must still know.
LEMMA Here ==
  ASSUME CodesInv, NEW q \in Requests, NEW s, s = Watched(q), NEW codes, codes = ReadRow(q).codes,
         request'[q] = request[q], taken' = taken,
         request[q].pc \in Sending => s \in resend' /\ UNCHANGED <<sent, withdrawn, failures>>,
         request[q].pc = "code" => (s \in resend' /\ ~(Busy(s)')) \/ Knows(s, codes)'
  PROVE  RequestKnows(q)'
  <1>1. Watched(q)' = s /\ ReadRow(q)' = ReadRow(q) BY DEF Watched, ReadRow
  <1>2. Busy(Watched(q))' <=> Busy(s)' BY <1>1 DEF Busy
  <1>3. Knows(Watched(q), ReadRow(q).codes)' <=> Knows(s, codes)' BY <1>1 DEF Knows, Counting
  <1>4. RequestKnows(q) BY DEF CodesInv
  <1>. QED BY <1>1, <1>2, <1>3, <1>4 DEF RequestKnows, Sending

LEMMA TakeTurnCodes ==
  ASSUME TypeInv, CodesInv, NEW r \in Requests, TakeTurn(r)
  PROVE  CodesInv'
  <1>. SUFFICES ASSUME NEW s, s = Watched(r) PROVE CodesInv' OBVIOUS
  <1>. DEFINE turn == ~Refused(s, ReadRow(r)) /\ ReadRow(r).codes < MaxCodes /\ s \notin resend
  <1>1. request[r].pc = "code" /\ request[r].pc \in Queue BY DEF TakeTurn, At, Queue
  <1>2. s \in Shares /\ s \in taken BY <1>1, Numbers DEF CodesInv, RequestKnows
  <1>3. UNCHANGED <<share, taken, sent, withdrawn, failures>> BY DEF TakeTurn, World
  <1>4. CASE turn
    <2>1. Goto(r, "store") /\ resend' = resend \cup {s} /\ s \notin resend
      BY <1>4 DEF TakeTurn, GotoIf
    <2>2. PICK k : /\ request' = [request EXCEPT ![r] = k] /\ request'[r] = k
                   /\ k.pc = "store" /\ k.share = s /\ k.row = ReadRow(r)
      BY <1>1, <2>1, GoesTo
    <2>3. ~Busy(s)
      <3>1. \A q \in Requests : request[q].pc \in Sending => Watched(q) \in resend
        BY DEF CodesInv, RequestKnows
      <3>. QED BY <2>1, <3>1 DEF Busy
    <2>4. sent[s] <= ReadRow(r).codes + withdrawn[s] + failures
      <3>1. ~Counting(s) BY <2>3 DEF Busy, Counting, At, Sending
      <3>. QED BY <1>1, <2>1, <3>1 DEF CodesInv, RequestKnows, Knows
    <2>5. RequestKnows(r)'
      BY <1>2, <1>3, <2>1, <2>2, <2>4 DEF RequestKnows, Watched, ReadRow, Queue, Sending
    <2>6. /\ OneSender'
          /\ \A q \in Requests : q # r => request'[q] = request[q]
          /\ \A q \in Requests : q # r /\ Watched(q) # s => RequestKnows(q)'
          /\ \A t \in Shares : t # s => ShareKnows(t)'
      BY <1>1, <1>3, <2>1, <2>2, <2>3, Elsewhere DEF Live
    <2>7. ~Counting(s) /\ ~(Counting(s)')
      BY <1>1, <2>2, <2>3, <2>6 DEF Counting, Busy, At, Sending, Watched
    <2>8. ASSUME NEW q \in Requests, q # r, Watched(q) = s PROVE RequestKnows(q)'
      <3>1. PICK codes : codes = ReadRow(q).codes OBVIOUS
      <3>2. request'[q] = request[q] /\ request[q].pc \notin Sending
        BY <2>3, <2>6, <2>8 DEF Busy
      <3>3. request[q].pc = "code" => Knows(s, codes)
        BY <2>1, <2>8, <3>1 DEF RequestKnows, CodesInv
      <3>4. request[q].pc = "code" => Knows(s, codes)'
        BY <1>3, <2>7, <3>3 DEF Knows
      <3>. QED BY <1>3, <2>8, <3>1, <3>2, <3>4, Here
    <2>9. ShareKnows(s)'
      BY <1>2, <1>3, <2>7 DEF CodesInv, ShareKnows, Knows, Live
    <2>. QED BY <1>2, <2>5, <2>6, <2>8, <2>9 DEF CodesInv
  <1>5. CASE ~turn
    <2>1. request' = [request EXCEPT ![r] = Idle] /\ resend' = resend
      BY <1>5 DEF TakeTurn, GotoIf, Answer
    <2>2. Idle.pc = "idle" BY DEF Idle
    <2>3. /\ OneSender'
          /\ \A q \in Requests : q # r => request'[q] = request[q]
          /\ \A q \in Requests : q # r /\ Watched(q) # s => RequestKnows(q)'
          /\ \A t \in Shares : t # s => ShareKnows(t)'
      BY <1>1, <1>3, <2>1, <2>2, Elsewhere DEF Live, Queue, Sending
    <2>4. request'[r].pc = "idle" BY <2>1, <2>2 DEF TypeInv
    <2>5. (Counting(s)' <=> Counting(s)) /\ (Busy(s)' <=> Busy(s))
      BY <1>1, <2>3, <2>4 DEF Counting, Busy, At, Sending, Watched
    <2>6. ASSUME NEW q \in Requests, q # r, Watched(q) = s PROVE RequestKnows(q)'
      <3>1. PICK codes : codes = ReadRow(q).codes OBVIOUS
      <3>2. Knows(s, codes) => Knows(s, codes)' BY <1>3, <2>5 DEF Knows
      <3>3. RequestKnows(q) /\ request'[q] = request[q] BY <2>3, <2>6 DEF CodesInv
      <3>4. request[q].pc = "code" => (s \in resend' /\ ~(Busy(s)')) \/ Knows(s, codes)'
        BY <2>1, <2>5, <2>6, <3>1, <3>2, <3>3 DEF RequestKnows
      <3>5. request[q].pc \in Sending => s \in resend'
        BY <2>1, <2>6, <3>3 DEF RequestKnows
      <3>. QED BY <1>3, <2>6, <3>1, <3>3, <3>4, <3>5, Here
    <2>7. RequestKnows(r)' BY <2>4 DEF RequestKnows, Queue, Sending
    <2>8. ShareKnows(s)' BY <1>2, <1>3, <2>5 DEF CodesInv, ShareKnows, Knows, Live
    <2>. QED BY <1>2, <2>3, <2>6, <2>7, <2>8 DEF CodesInv
  <1>. QED BY <1>4, <1>5

\* Between the key and the message nothing that counts changes.
LEMMA StaySending ==
  ASSUME TypeInv, CodesInv, NEW r \in Requests, request[r].pc \in {"store", "send"},
         NEW pc \in {"send", "unsend"}, Goto(r, pc),
         UNCHANGED <<share, taken, resend, sent, withdrawn, failures>>
  PROVE  CodesInv'
  <1>. SUFFICES ASSUME NEW s, s = Watched(r) PROVE CodesInv' OBVIOUS
  <1>1. request[r].pc \in Queue /\ request[r].pc \in Sending BY DEF Queue, Sending
  <1>2. s \in Shares BY <1>1, Numbers
  <1>3. PICK k : /\ request' = [request EXCEPT ![r] = k] /\ request'[r] = k
                 /\ k.pc = pc /\ k.share = s /\ k.row = ReadRow(r)
    BY <1>1, GoesTo
  <1>4. /\ OneSender'
        /\ \A q \in Requests : q # r => request'[q] = request[q]
        /\ \A q \in Requests : q # r /\ Watched(q) # s => RequestKnows(q)'
        /\ \A t \in Shares : t # s => ShareKnows(t)'
    BY <1>1, <1>3, Elsewhere DEF Live
  <1>5. Counting(s)' <=> Counting(s)
    BY <1>3, <1>4 DEF Counting, At, Watched
  <1>6. RequestKnows(r)'
    BY <1>1, <1>3 DEF CodesInv, RequestKnows, Watched, ReadRow, Queue, Sending
  <1>7. ASSUME NEW q \in Requests, q # r, Watched(q) = s PROVE RequestKnows(q)'
    <2>1. PICK codes : codes = ReadRow(q).codes OBVIOUS
    <2>2. Busy(s) /\ request[q].pc \notin Sending BY <1>1, <1>7, Others
    <2>3. request[q].pc = "code" => Knows(s, codes)
      BY <1>7, <2>1, <2>2 DEF CodesInv, RequestKnows
    <2>4. request[q].pc = "code" => Knows(s, codes)' BY <1>5, <2>3 DEF Knows
    <2>. QED BY <1>4, <1>7, <2>1, <2>2, <2>4, Here
  <1>8. ShareKnows(s)' BY <1>2, <1>5 DEF CodesInv, ShareKnows, Knows, Live
  <1>. QED BY <1>2, <1>4, <1>6, <1>7, <1>8 DEF CodesInv

LEMMA SentCodes ==
  ASSUME TypeInv, CodesInv, NEW r \in Requests, request[r].pc = "send",
         NEW pc \in {"count", "recall"}, Goto(r, pc),
         sent' = [sent EXCEPT ![Watched(r)] = @ + 1],
         UNCHANGED <<share, taken, resend, withdrawn, failures>>
  PROVE  CodesInv'
  <1>. SUFFICES ASSUME NEW s, s = Watched(r) PROVE CodesInv' OBVIOUS
  <1>1. request[r].pc \in Queue /\ request[r].pc \in Sending BY DEF Queue, Sending
  <1>2. s \in Shares /\ s \in taken /\ s \in resend
    BY <1>1, Numbers DEF CodesInv, RequestKnows
  <1>3. PICK k : /\ request' = [request EXCEPT ![r] = k] /\ request'[r] = k
                 /\ k.pc = pc /\ k.share = s /\ k.row = ReadRow(r)
    BY <1>1, GoesTo
  <1>4. sent'[s] = sent[s] + 1 /\ \A t \in Shares : t # s => sent'[t] = sent[t]
    BY <1>2 DEF TypeInv, TypeOK
  <1>5. /\ OneSender'
        /\ \A q \in Requests : q # r => request'[q] = request[q]
        /\ \A q \in Requests : q # r /\ Watched(q) # s => RequestKnows(q)'
        /\ \A t \in Shares : t # s => ShareKnows(t)'
    BY <1>1, <1>3, <1>4, Elsewhere DEF Live
  <1>6. Counting(s)' BY <1>3 DEF Counting, At, Watched
  <1>7. ~Counting(s) /\ Busy(s) BY <1>1, Others
  <1>8. sent[s] <= ReadRow(r).codes + withdrawn[s] + failures /\ ReadRow(r).codes \in Nat
        /\ ReadRow(r).codes < MaxCodes
    BY <1>1, Numbers DEF CodesInv, RequestKnows
  <1>9. sent[s] \in Nat /\ withdrawn[s] \in Nat /\ failures \in Nat /\ MaxCodes \in Nat
    BY <1>2, Numbers
  <1>10. RequestKnows(r)'
    <2>1. sent'[s] <= ReadRow(r).codes + 1 + withdrawn[s] + failures BY <1>4, <1>8, <1>9
    <2>. QED BY <1>2, <1>3, <2>1 DEF RequestKnows, Watched, ReadRow, Queue, Sending
  <1>11. ASSUME NEW q \in Requests, q # r, Watched(q) = s PROVE RequestKnows(q)'
    <2>1. PICK codes : codes = ReadRow(q).codes OBVIOUS
    <2>2. request[q].pc \notin Sending BY <1>1, <1>11, Others
    <2>3. request[q].pc = "code" => Knows(s, codes) /\ codes \in Nat
      BY <1>7, <1>11, <2>1, Numbers DEF CodesInv, RequestKnows, Queue
    <2>4. request[q].pc = "code" => sent[s] <= codes + withdrawn[s] + failures BY <1>7, <2>3 DEF Knows
    <2>5. request[q].pc = "code" => sent'[s] <= codes + withdrawn[s] + failures + 1
      BY <1>4, <1>9, <2>3, <2>4
    <2>6. request[q].pc = "code" => Knows(s, codes)' BY <1>6, <2>5 DEF Knows
    <2>. QED BY <1>5, <1>11, <2>1, <2>2, <2>6, Here
  <1>12. ShareKnows(s)'
    <2>1. ShareKnows(s) BY <1>2 DEF CodesInv
    <2>2. Live(s) => sent'[s] <= share[s].codes + withdrawn[s] + failures + 1
      BY <1>2, <1>4, <1>7, <1>9, <2>1, Numbers DEF ShareKnows, Knows
    <2>3. sent'[s] <= MaxCodes + withdrawn[s] + failures BY <1>4, <1>8, <1>9
    <2>. QED BY <1>2, <1>6, <2>2, <2>3 DEF ShareKnows, Knows, Live
  <1>. QED BY <1>2, <1>5, <1>10, <1>11, <1>12 DEF CodesInv

\* The request leaves, and those that read the row before it took the key know as much as before.
LEMMA UnsendCodes ==
  ASSUME TypeInv, CodesInv, NEW r \in Requests, Unsend(r)
  PROVE  CodesInv'
  <1>. SUFFICES ASSUME NEW s, s = Watched(r) PROVE CodesInv' OBVIOUS
  <1>1. request[r].pc \in {"unsend", "recall"} /\ request[r].pc \in Queue
        /\ request[r].pc \in Sending
    BY DEF Unsend, At, Queue, Sending
  <1>2. s \in Shares /\ sent[s] \in Nat /\ withdrawn[s] \in Nat /\ failures \in Nat
    BY <1>1, Numbers
  <1>3. UNCHANGED <<share, taken, sent, failures>> /\ resend' = resend \ {s}
        /\ request' = [request EXCEPT ![r] = Idle]
    BY DEF Unsend, World, Answer
  <1>4. Idle.pc = "idle" /\ request'[r].pc = "idle" BY <1>3 DEF Idle, TypeInv
  <1>5. /\ \A t \in Shares : t # s => withdrawn'[t] = withdrawn[t]
        /\ withdrawn'[s] = IF request[r].pc = "recall" THEN withdrawn[s] + 1 ELSE withdrawn[s]
    BY <1>2 DEF Unsend, At, TypeInv, TypeOK
  <1>6. /\ OneSender'
        /\ \A q \in Requests : q # r => request'[q] = request[q]
        /\ \A q \in Requests : q # r /\ Watched(q) # s => RequestKnows(q)'
        /\ \A t \in Shares : t # s => ShareKnows(t)'
    BY <1>1, <1>3, <1>4, <1>5, Elsewhere DEF Live, Queue, Sending
  <1>7. Busy(s) /\ (request[r].pc = "unsend" => ~Counting(s)) BY <1>1, Others
  <1>8. ~(Counting(s)')
    BY <1>1, <1>4, <1>6, Others DEF Counting, At, Watched, Sending
  <1>9. ASSUME NEW codes \in Nat, Knows(s, codes) PROVE Knows(s, codes)'
    <2>1. sent[s] <= codes + withdrawn'[s] + failures
      BY <1>2, <1>5, <1>7, <1>9, <1>1 DEF Knows
    <2>2. sent'[s] <= codes + withdrawn'[s] + failures'
          /\ sent'[s] <= codes + withdrawn'[s] + failures' + 1
      BY <1>2, <1>3, <1>5, <2>1
    <2>. QED BY <2>2 DEF Knows
  <1>10. RequestKnows(r)' BY <1>4 DEF RequestKnows, Queue, Sending
  <1>11. ASSUME NEW q \in Requests, q # r, Watched(q) = s PROVE RequestKnows(q)'
    <2>1. PICK codes : codes = ReadRow(q).codes OBVIOUS
    <2>2. Busy(s) /\ request[q].pc \notin Sending BY <1>1, <1>11, Others
    <2>3. request[q].pc = "code" => Knows(s, codes) /\ codes \in Nat
      BY <1>7, <1>11, <2>1, Numbers DEF CodesInv, RequestKnows, Queue
    <2>4. request[q].pc = "code" => Knows(s, codes)' BY <1>9, <2>3
    <2>. QED BY <1>3, <1>6, <1>11, <2>1, <2>2, <2>4, Here
  <1>12. ShareKnows(s)'
    <2>1. ShareKnows(s) BY <1>2 DEF CodesInv
    <2>2. PICK codes : codes = share[s].codes OBVIOUS
    <2>3. Live(s) => Knows(s, codes)' BY <1>2, <1>9, <2>1, <2>2, Numbers DEF ShareKnows
    <2>4. Knows(s, share[s].codes)' <=> Knows(s, codes)' BY <1>3, <2>2 DEF Knows
    <2>5. sent[s] <= MaxCodes + withdrawn'[s] + failures
      BY <1>2, <1>5, <2>1, Numbers DEF ShareKnows
    <2>. QED BY <1>3, <2>1, <2>3, <2>4, <2>5 DEF ShareKnows, Live
  <1>. QED BY <1>2, <1>6, <1>10, <1>11, <1>12 DEF CodesInv

\* Whoever read the row before finds the key taken.
LEMMA CountCodes ==
  ASSUME TypeInv, CodesInv, NEW r \in Requests, CountCode(r)
  PROVE  CodesInv'
  <1>. SUFFICES ASSUME NEW s, s = Watched(r) PROVE CodesInv' OBVIOUS
  <1>1. request[r].pc = "count" /\ request[r].pc \in Queue /\ request[r].pc \in Sending
    BY DEF CountCode, At, Queue, Sending
  <1>2. s \in Shares /\ s \in taken /\ s \in resend
    BY <1>1, Numbers DEF CodesInv, RequestKnows
  <1>3. UNCHANGED <<taken, resend, sent, withdrawn, failures>> /\ request' = [request EXCEPT ![r] = Idle]
    BY DEF CountCode, World, Answer
  <1>4. Idle.pc = "idle" /\ request'[r].pc = "idle" BY <1>3 DEF Idle, TypeInv
  <1>5. \A t \in Shares : share'[t] # None =>
          /\ Live(t)
          /\ t # s => share'[t].codes = share[t].codes
          /\ t = s => share'[t].codes = ReadRow(r).codes + 1
    BY CountCodeRow
  <1>6. /\ OneSender'
        /\ \A q \in Requests : q # r => request'[q] = request[q]
        /\ \A q \in Requests : q # r /\ Watched(q) # s => RequestKnows(q)'
        /\ \A t \in Shares : t # s => ShareKnows(t)'
    BY <1>1, <1>3, <1>4, <1>5, Elsewhere DEF Queue, Sending
  <1>7. ~(Busy(s)')
    BY <1>1, <1>4, <1>6, Others DEF Busy, Watched, Sending
  <1>8. RequestKnows(r)' BY <1>4 DEF RequestKnows, Queue, Sending
  <1>9. ASSUME NEW q \in Requests, q # r, Watched(q) = s PROVE RequestKnows(q)'
    <2>1. PICK codes : codes = ReadRow(q).codes OBVIOUS
    <2>2. request[q].pc \notin Sending BY <1>1, <1>9, Others
    <2>. QED BY <1>2, <1>3, <1>6, <1>7, <1>9, <2>1, <2>2, Here
  <1>10. ShareKnows(s)'
    <2>1. ShareKnows(s) BY <1>2 DEF CodesInv
    <2>2. sent[s] <= ReadRow(r).codes + 1 + withdrawn[s] + failures BY <1>1 DEF CodesInv, RequestKnows
    <2>3. ReadRow(r).codes \in Nat /\ failures \in Nat /\ sent[s] \in Nat /\ withdrawn[s] \in Nat
      BY <1>1, <1>2, Numbers
    <2>4. share'[s] # None => sent[s] <= share'[s].codes + withdrawn[s] + failures
                              /\ sent[s] <= share'[s].codes + withdrawn[s] + failures + 1
      BY <1>2, <1>5, <2>2, <2>3
    <2>. QED BY <1>2, <1>3, <2>1, <2>4 DEF ShareKnows, Knows, Live
  <1>. QED BY <1>2, <1>6, <1>8, <1>9, <1>10 DEF CodesInv

\* A request that has just read the row knows what the row knows.
LEMMA RequestCodeCodes ==
  ASSUME TypeInv, CodesInv, NEW r \in Requests, RequestCode(r)
  PROVE  CodesInv'
  <1>1. PICK s \in Shares : FromClient(r, s, "code") BY DEF RequestCode
  <1>2. UNCHANGED <<share, taken, resend, sent, withdrawn, failures>> BY <1>1 DEF FromClient, Accept
  <1>3. request[r].pc = "idle" /\ Live(s) BY <1>1 DEF FromClient, Accept, At
  <1>4. PICK k : /\ request' = [request EXCEPT ![r] = k]
                 /\ k.pc = "code" /\ k.share = s /\ k.row = share[s]
    <2>. DEFINE k == [Idle EXCEPT !.pc = "code", !.share = s, !.row = share[s]]
    <2>1. k.pc = "code" /\ k.share = s /\ k.row = share[s] BY DEF Idle
    <2>2. request' = [request EXCEPT ![r] = k] BY <1>1 DEF FromClient, Accept
    <2>. HIDE DEF k
    <2>. QED BY <2>1, <2>2
  <1>5. \A q \in Requests : request'[q] = IF q = r THEN k ELSE request[q]
    BY <1>4 DEF TypeInv
  <1>6. \A t : (Counting(t)' <=> Counting(t)) /\ (Busy(t)' <=> Busy(t))
    BY <1>3, <1>4, <1>5 DEF Counting, Busy, At, Watched, Sending
  <1>7. OneSender' BY <1>4, <1>5 DEF CodesInv, OneSender, Watched, Sending
  <1>8. s \in taken /\ Knows(s, share[s].codes) BY <1>3 DEF CodesInv, ShareKnows
  <1>9. ASSUME NEW q \in Requests, q # r PROVE RequestKnows(q)'
    <2>1. PICK t, codes : t = Watched(q) /\ codes = ReadRow(q).codes OBVIOUS
    <2>2. RequestKnows(q) /\ request'[q] = request[q] BY <1>5, <1>9 DEF CodesInv
    <2>3. Knows(t, codes) => Knows(t, codes)' BY <1>2, <1>6 DEF Knows
    <2>4. request[q].pc = "code" => (t \in resend' /\ ~(Busy(t)')) \/ Knows(t, codes)'
      BY <1>2, <1>6, <2>1, <2>2, <2>3 DEF RequestKnows
    <2>5. request[q].pc \in Sending => t \in resend' BY <1>2, <2>1, <2>2 DEF RequestKnows
    <2>. QED BY <1>2, <2>1, <2>2, <2>4, <2>5, Here
  <1>10. RequestKnows(r)'
    <2>1. PICK codes : codes = share[s].codes OBVIOUS
    <2>2. Knows(s, codes)' BY <1>2, <1>6, <1>8, <2>1 DEF Knows
    <2>3. request'[r] = k BY <1>5
    <2>4. Watched(r)' = s /\ ReadRow(r)' = share[s] BY <1>4, <2>3 DEF Watched, ReadRow
    <2>5. Knows(Watched(r), ReadRow(r).codes)' BY <2>1, <2>2, <2>4 DEF Knows, Counting
    <2>. QED BY <1>2, <1>4, <1>8, <2>3, <2>4, <2>5 DEF RequestKnows, Sending
  <1>11. ASSUME NEW t \in Shares PROVE ShareKnows(t)'
    BY <1>2, <1>6 DEF CodesInv, ShareKnows, Knows, Live
  <1>. QED BY <1>7, <1>9, <1>10, <1>11 DEF CodesInv

\* A new row knows of the codes sent under a new id: none.
LEMMA InsertCodes ==
  ASSUME TypeInv, CodesInv, NEW r \in Requests, InsertShare(r)
  PROVE  CodesInv'
  <1>1. UNCHANGED <<sent, withdrawn, resend, failures>> /\ request[r].pc = "insert"
    BY DEF InsertShare, Redis, At
  <1>2. PICK s \in Shares \ taken :
          /\ taken' = taken \cup {s}
          /\ \A t \in Shares :
               (t # s => share'[t] = share[t]) /\ (t = s => share'[t].codes = 0)
    BY InsertedRow
  <1>3. QueueKept
    <2>1. PICK t : request' = [request EXCEPT ![r].pc = "notify", ![r].share = t]
      BY DEF InsertShare
    <2>2. request[r] \in Request BY StaffHolds
    <2>3. [request[r] EXCEPT !.pc = "notify", !.share = t].pc = "notify" BY <2>2 DEF Request
    <2>. QED BY <1>1, <2>1, <2>3, QuietRequest DEF Queue, Sending
  <1>4. /\ OneSender' /\ \A q \in Requests : RequestKnows(q)'
        /\ \A t \in Shares : Counting(t)' <=> Counting(t)
    BY <1>1, <1>2, <1>3, KeptQueue
  <1>5. ASSUME NEW t \in Shares PROVE ShareKnows(t)'
    <2>1. ShareKnows(t) BY DEF CodesInv
    <2>2. CASE t = s
      <3>1. sent[t] = 0 /\ withdrawn[t] \in Nat /\ failures \in Nat
        BY <1>2, <2>1, <2>2, Numbers DEF ShareKnows
      <3>. QED BY <1>1, <1>2, <2>1, <2>2, <3>1 DEF ShareKnows, Knows
    <2>3. CASE t # s BY <1>1, <1>2, <1>4, <2>1, <2>3 DEF ShareKnows, Knows, Live
    <2>. QED BY <2>2, <2>3
  <1>. QED BY <1>4, <1>5 DEF CodesInv

\* The key lapses only when nobody is left who could have found it taken.
LEMMA LapseCodes ==
  ASSUME TypeInv, CodesInv, NEW s \in Shares, ResendLapses(s)
  PROVE  CodesInv'
  <1>1. UNCHANGED <<share, taken, sent, withdrawn, failures, request>> /\ resend' = resend \ {s}
        /\ \A q \in Requests : request[q].pc \in Queue => Watched(q) # s
    BY DEF ResendLapses, Timeless, Queue
  <1>2. ASSUME NEW q \in Requests PROVE RequestKnows(q)'
    BY <1>1 DEF CodesInv, RequestKnows, Knows, Counting, Busy, At, Watched, ReadRow, Queue, Sending
  <1>. QED BY <1>1, <1>2 DEF CodesInv, OneSender, ShareKnows, Knows, Counting, At, Watched, Live

\* A failure excuses the code that was being counted by the request it ends.
LEMMA FailureCodes ==
  ASSUME TypeInv, CodesInv, UNCHANGED <<share, taken, resend, sent, withdrawn>>, failures' = failures + 1,
         \A r \in Requests : request'[r] = request[r] \/ request'[r].pc = "idle"
  PROVE  CodesInv'
  <1>1. \A r \in Requests : request'[r].pc \in Queue => request'[r] = request[r]
    BY DEF Queue, Sending
  <1>2. OneSender' BY <1>1 DEF CodesInv, OneSender, Watched, Queue
  <1>3. failures \in Nat BY Numbers
  <1>4. ASSUME NEW s \in Shares, NEW codes \in Nat, Knows(s, codes) PROVE Knows(s, codes)'
    <2>1. sent[s] \in Nat /\ withdrawn[s] \in Nat
          /\ sent[s] <= codes + withdrawn[s] + failures + 1 BY <1>4, Numbers DEF Knows
    <2>2. /\ sent[s] <= codes + withdrawn[s] + (failures + 1)
          /\ sent[s] <= codes + withdrawn[s] + (failures + 1) + 1
      BY <1>3, <2>1
    <2>. QED BY <2>2 DEF Knows
  <1>5. ASSUME NEW r \in Requests PROVE RequestKnows(r)'
    <2>1. CASE request'[r].pc \in Queue
      <3>1. request'[r] = request[r] /\ RequestKnows(r) BY <1>1, <2>1 DEF CodesInv
      <3>2. PICK s, codes : s = Watched(r) /\ codes = ReadRow(r).codes OBVIOUS
      <3>3. s \in Shares /\ codes \in Nat /\ sent[s] \in Nat /\ withdrawn[s] \in Nat
        BY <2>1, <3>1, <3>2, Numbers
      <3>4. Watched(r)' = s /\ ReadRow(r)' = ReadRow(r) BY <3>1, <3>2 DEF Watched, ReadRow
      <3>5. ~Busy(s) => ~(Busy(s)') BY <1>1 DEF Busy, Watched, Queue
      <3>6. Busy(Watched(r))' <=> Busy(s)' BY <3>4 DEF Busy
      <3>7. Knows(Watched(r), ReadRow(r).codes)' <=> Knows(s, codes)'
        BY <3>2, <3>4 DEF Knows, Counting
      <3>8. Knows(s, codes) => Knows(s, codes)' BY <1>4, <3>3
      <3>9. request[r].pc = "code" =>
              (s \in resend' /\ ~(Busy(s)')) \/ Knows(s, codes)'
        BY <3>1, <3>2, <3>5, <3>8 DEF RequestKnows
      <3>10. request[r].pc \in {"store", "send", "unsend"} => sent[s] <= codes + withdrawn[s] + failures'
        BY <1>3, <3>1, <3>2, <3>3 DEF RequestKnows
      <3>11. request[r].pc \in {"count", "recall"} => sent[s] <= codes + 1 + withdrawn[s] + failures'
        BY <1>3, <3>1, <3>2, <3>3 DEF RequestKnows
      <3>12. (request[r].pc \in Queue => s \in taken) /\ (request[r].pc \in Sending => s \in resend)
        BY <3>1, <3>2 DEF RequestKnows
      <3>. QED BY <3>1, <3>2, <3>4, <3>6, <3>7, <3>9, <3>10, <3>11, <3>12 DEF RequestKnows
    <2>. QED BY <2>1 DEF RequestKnows, Queue, Sending
  <1>6. ASSUME NEW s \in Shares PROVE ShareKnows(s)'
    <2>1. ShareKnows(s) BY DEF CodesInv
    <2>2. PICK codes : codes = share[s].codes OBVIOUS
    <2>3. Live(s) => Knows(s, codes)' BY <1>4, <2>1, <2>2, Numbers DEF ShareKnows
    <2>4. sent[s] <= MaxCodes + withdrawn[s] + failures' BY <1>3, <2>1, Numbers DEF ShareKnows
    <2>5. Knows(s, share[s].codes)' <=> Knows(s, codes)' BY <2>2 DEF Knows
    <2>. QED BY <2>1, <2>3, <2>4, <2>5 DEF ShareKnows, Live
  <1>. QED BY <1>2, <1>5, <1>6 DEF CodesInv

LEMMA CodesStep == TypeInv /\ CodesInv /\ [Next]_vars => CodesInv'
  <1>. SUFFICES ASSUME TypeInv, CodesInv, [Next]_vars PROVE CodesInv' OBVIOUS
  <1>0. \A r \in Requests : request[r] \in Request BY DEF TypeInv, Handler
  <1>. USE KeptCodes DEF RowsKept, Live
  <1>1. ASSUME NEW r \in Requests, Client(r) PROVE CodesInv'
    <2>. USE DEF World, At, GotoIf, Queue, Sending
    <2>1. CASE StoreCode(r) BY <2>1, StaySending DEF StoreCode
    <2>2. CASE SendCode(r) BY <2>2, StaySending, SentCodes DEF SendCode
    <2>3. CASE Verify(r) \/ Watch(r)
      <3>1. PICK s \in Shares, op \in {"verify", "watch"} : FromClient(r, s, op)
        BY <2>3 DEF Verify, Watch
      <3>2. [Idle EXCEPT !.pc = op, !.share = s, !.row = share[s]].pc = op BY DEF Idle
      <3>3. QueueKept BY <3>1, <3>2, QuietRequest DEF FromClient, Accept
      <3>. QED BY <3>1, <3>3 DEF FromClient, Accept
    <2>4. CASE CheckCode(r)
      <3>1. QueueKept BY <2>4, QuietGoto, QuietAnswer DEF CheckCode
      <3>. QED BY <2>4, <3>1 DEF CheckCode
    <2>5. CASE CountFailure(r)
      <3>1. QueueKept BY <2>5, QuietGoto, QuietAnswer DEF CountFailure
      <3>. QED BY <2>5, <3>1, CountFailureRow DEF CountFailure
    <2>6. CASE Bump(r)
      <3>1. QueueKept BY <2>6, QuietGoto, QuietAnswer DEF Bump
      <3>. QED BY <2>6, <3>1, BumpRow DEF Bump
    <2>7. CASE SpendCode(r) \/ OpenSession(r)
      <3>1. QueueKept BY <2>7, QuietGoto, QuietAnswer DEF SpendCode, OpenSession
      <3>. QED BY <2>7, <3>1 DEF SpendCode, OpenSession
    <2>8. CASE CheckSession(r)
      <3>1. ASSUME NEW n, request' = [request EXCEPT ![r].pc = "play", ![r].session = n]
            PROVE  QueueKept
        <4>. DEFINE k == [request[r] EXCEPT !.pc = "play", !.session = n]
        <4>1. k.pc = "play" /\ request' = [request EXCEPT ![r] = k] BY <1>0, <3>1 DEF Request
        <4>2. request[r].pc = "watch" BY <2>8 DEF CheckSession
        <4>. HIDE DEF k
        <4>. QED BY <4>1, <4>2, QuietRequest
      <3>2. QueueKept BY <2>8, <3>1, QuietAnswer DEF CheckSession
      <3>. QED BY <2>8, <3>2 DEF CheckSession
    <2>9. CASE NotePlay(r) \/ MarkDelivered(r)
      <3>1. QueueKept BY <2>9, QuietGoto, QuietAnswer DEF NotePlay, MarkDelivered
      <3>. QED BY <2>9, <3>1 DEF NotePlay, MarkDelivered
    <2>10. CASE NoteView(r)
      <3>1. QueueKept BY <2>10, QuietGoto, QuietAnswer DEF NoteView
      <3>. QED BY <2>10, <3>1, OtherRows DEF NoteView
    <2>. QED BY <1>1, <2>1, <2>2, <2>3, <2>4, <2>5, <2>6, <2>7, <2>8, <2>9, <2>10,
             RequestCodeCodes, TakeTurnCodes, UnsendCodes, CountCodes DEF Client
  <1>2. ASSUME NEW r \in Requests, Staff(r) PROVE CodesInv'
    <2>. USE DEF World, Redis, At, GotoIf, Queue, Sending
    <2>1. CASE Create(r) \/ Reissue(r) \/ Revoke(r) \/ ChangeLink(r)
      <3>1. ASSUME NEW op, NEW k, Accept(r, op, k), k.pc \in {"insert", "revoke", "link"}
            PROVE  CodesInv'
        <4>1. QueueKept BY <3>1, QuietRequest DEF Accept
        <4>. QED BY <3>1, <4>1 DEF Accept
      <3>2. CASE Create(r) BY <3>1, <3>2 DEF Create, Idle
      <3>3. CASE Reissue(r) BY <3>1, <3>3 DEF Reissue, Idle
      <3>4. CASE Revoke(r) BY <3>1, <3>4 DEF Revoke, Idle
      <3>5. CASE ChangeLink(r) BY <3>1, <3>5 DEF ChangeLink, Idle
      <3>. QED BY <2>1, <3>2, <3>3, <3>4, <3>5
    <2>2. CASE SendLink(r) \/ ReleaseJob(r)
      <3>1. QueueKept BY <2>2, QuietGoto, QuietAnswer DEF SendLink, ReleaseJob
      <3>. QED BY <2>2, <3>1 DEF SendLink, ReleaseJob
    <2>3. CASE DropShare(r) \/ SetRevoked(r) \/ SetReturnUrl(r)
      <3>1. QueueKept BY <2>3, QuietAnswer DEF DropShare, SetRevoked, SetReturnUrl
      <3>. QED BY <2>3, <3>1, OtherRows DEF DropShare, SetRevoked, SetReturnUrl
    <2>. QED BY <1>2, <2>1, <2>2, <2>3, InsertCodes DEF Staff
  <1>3. (UNCHANGED request) => QueueKept BY DEF QueueKept
  <1>4. ASSUME NEW j \in Jobs, SetDelivered(j) \/ PurgeJob(j) PROVE CodesInv'
    BY <1>3, <1>4 DEF SetDelivered, PurgeJob, World, Redis
  <1>5. CASE Sweep \/ ListShares BY <1>3, <1>5 DEF Sweep, ListShares, Redis
  <1>6. ASSUME NEW w \in {"sweep", "purge"}, Wipe(w) PROVE CodesInv'
    BY <1>3, <1>6, WipeRow DEF Wipe, Redis
  <1>7. ASSUME NEW w \in {"sweep", "purge"}, WipeCode(w) PROVE CodesInv'
    BY <1>3, <1>7 DEF WipeCode
  <1>8. ASSUME NEW s \in Shares,
               ShareExpires(s) \/ CodeLapses(s) \/ SessionEnds(s) \/ CooldownEnds(s)
        PROVE  CodesInv'
    BY <1>3, <1>8, CooldownRow
    DEF ShareExpires, CodeLapses, SessionEnds, CooldownEnds, Timeless, Redis
  <1>9. ASSUME NEW r \in Requests, FailRequest(r) PROVE CodesInv'
    <2>1. \A q \in Requests : request'[q] = IF q = r THEN Idle ELSE request[q]
      BY <1>9 DEF FailRequest, Answer, TypeInv
    <2>. QED BY <1>9, <2>1, FailureCodes DEF FailRequest, Failing, Kept, Redis, Idle
  <1>10. ASSUME NEW w \in {"sweep", "purge"}, FailWiper(w) PROVE CodesInv'
    BY <1>10, FailureCodes DEF FailWiper, Failing, Kept, Redis
  <1>11. CASE Crash
    <2>1. \A q \in Requests : request'[q].pc = "idle" BY <1>11 DEF Crash, Idle
    <2>. QED BY <1>11, <2>1, FailureCodes DEF Crash, Failing, Kept, Redis
  <1>12. CASE UNCHANGED vars BY <1>3, <1>12 DEF vars
  <1>. QED BY <1>1, <1>2, <1>4, <1>5, <1>6, <1>7, <1>8, <1>9, <1>10, <1>11, <1>12, LapseCodes
       DEF Next, Time

\* Of the codes that reach a link's client no more than MAX_CODES are left standing, and one with each
\* failure: the others were dropped because their sending seemed to fail (requestCode).
THEOREM NoExtraCode == Spec => []CodesCapped
  <1>1. Init => CodesInv
    <2>. SUFFICES ASSUME Init PROVE CodesInv OBVIOUS
    <2>1. \A r \in Requests : request[r].pc = "idle" BY DEF Init, Idle
    <2>2. \A s \in Shares : share[s] = None /\ sent[s] = 0 /\ withdrawn[s] = 0 BY DEF Init
    <2>3. failures = 0 /\ 0 <= MaxCodes + 0 + 0 BY ConstantsAssumption DEF Init
    <2>. QED BY <2>1, <2>2, <2>3
         DEF CodesInv, OneSender, RequestKnows, ShareKnows, Live, Queue, Sending
  <1>2. CodesInv => CodesCapped BY DEF CodesInv, ShareKnows, CodesCapped
  <1>. QED BY <1>1, <1>2, InitType, NextType, CodesStep, PTL DEF Spec
-----------------------------------------------------------------------------
(***************************************************************************)
(* The Delivered box.  A request marks the job of the row it read, and     *)
(* that is the job of the row it watches as long as the row is there: no   *)
(* id is used twice and no row changes jobs.  So the view is noted, and    *)
(* the request that noted it on its way to the box, until the box is       *)
(* ticked, unless something fails.                                         *)
(***************************************************************************)
Matched(k) == k.pc \in ClientPCs =>
  k.share \in taken /\ (share[k.share] # None => share[k.share].job = k.row.job)

Delivering(s) == \E r \in Requests : At(r, "deliver") /\ Watched(r) = s

DeliveryInv ==
  /\ \A r \in Requests : Matched(request[r])
  /\ failures = 0 => \A s \in Shares :
       Live(s) /\ share[s].viewed => box[share[s].job] # "unticked" \/ Delivering(s)

\* No row changes jobs, and none is noted as viewed.
JobsKept == \A t \in Shares : share'[t] # None =>
  Live(t) /\ share'[t].job = share[t].job /\ (share'[t].viewed => share[t].viewed)

\* No request begins to watch another share, and none that is to mark a job is done with it.
WatchersKept == \A r \in Requests :
  /\ request'[r].pc \in ClientPCs =>
       request[r].pc \in ClientPCs /\ request'[r].share = request[r].share /\ request'[r].row = request[r].row
  /\ At(r, "deliver") => request'[r].pc = "deliver"

LEMMA KeptMatches ==
  ASSUME TypeInv, DeliveryInv, JobsKept, taken \subseteq taken', NEW r \in Requests,
         request'[r].pc \in ClientPCs =>
           request[r].pc \in ClientPCs /\ request'[r].share = request[r].share /\ request'[r].row = request[r].row
  PROVE  Matched(request[r])'
  <1>. SUFFICES ASSUME request'[r].pc \in ClientPCs PROVE Matched(request[r])'
    BY DEF Matched
  <1>1. request[r].share \in Shares BY ClientHolds DEF Watched
  <1>. QED BY <1>1 DEF Matched, DeliveryInv, JobsKept, Live

LEMMA KeptDelivery ==
  ASSUME TypeInv, DeliveryInv, JobsKept, WatchersKept, taken \subseteq taken', failures' = failures,
         \A j \in Jobs : box[j] # "unticked" => box'[j] # "unticked"
  PROVE  DeliveryInv'
  <1>1. \A r \in Requests : Matched(request[r])' BY KeptMatches DEF WatchersKept
  <1>2. \A s \in Shares : Delivering(s) => Delivering(s)'
    <2>1. "deliver" \in ClientPCs BY DEF ClientPCs
    <2>. QED BY <2>1 DEF Delivering, WatchersKept, At, Watched
  <1>3. \A s \in Shares : Live(s) => share[s].job \in Jobs
    <2>1. \A s \in Shares : Live(s) => share[s] \in Row BY OfMaybe DEF Live, TypeInv, TypeOK
    <2>. QED BY <2>1 DEF Row
  <1>. QED BY <1>1, <1>2, <1>3 DEF DeliveryInv, JobsKept, Live

\* After a failure nothing is claimed any more.
LEMMA FailedDelivery ==
  ASSUME TypeInv, DeliveryInv, Failing, UNCHANGED Kept,
         \A r \in Requests : request'[r] = request[r] \/ request'[r] = Idle
  PROVE  DeliveryInv'
  <1>1. failures' # 0 BY DEF Failing, TypeInv, TypeOK
  <1>2. JobsKept BY DEF JobsKept, Kept, Live
  <1>3. \A r \in Requests : request'[r].pc \in ClientPCs => request'[r] = request[r]
    BY DEF Idle, ClientPCs, ClientOps, Sending
  <1>4. \A r \in Requests : Matched(request[r])' BY <1>2, <1>3, KeptMatches DEF Kept
  <1>. QED BY <1>1, <1>4 DEF DeliveryInv

\* One request goes on: to another step, or to its answer.
LEMMA GoneOn ==
  ASSUME TypeInv, NEW r \in Requests, NEW pc, Goto(r, pc) \/ Answer(r), ~At(r, "deliver"),
         request[r].pc \in ClientPCs \/ pc \notin ClientPCs
  PROVE  WatchersKept
  <1>1. request[r] \in Request /\ request \in [Requests -> Handler] BY DEF TypeInv, Handler
  <1>2. Idle.pc \notin ClientPCs BY DEF Idle, ClientPCs, ClientOps, Sending
  <1>3. CASE Goto(r, pc)
    <2>1. [request[r] EXCEPT !.pc = pc].pc = pc /\ [request[r] EXCEPT !.pc = pc].share = request[r].share
          /\ [request[r] EXCEPT !.pc = pc].row = request[r].row
      BY <1>1 DEF Request
    <2>. QED BY <1>1, <1>3, <2>1 DEF Goto, WatchersKept, At
  <1>4. CASE Answer(r) BY <1>1, <1>2, <1>4 DEF Answer, WatchersKept, At
  <1>. QED BY <1>3, <1>4

\* An update that writes neither the job nor the view.
LEMMA UpdateKeeps ==
  ASSUME TypeInv, NEW s \in Shares, NEW columns, Update(s, columns),
         share[s] \in Row => columns.job = share[s].job /\ (columns.viewed => share[s].viewed)
  PROVE  JobsKept
  <1>1. Live(s) => share[s] \in Row BY OfMaybe DEF Live, TypeInv, TypeOK
  <1>. QED BY <1>1 DEF JobsKept, Update, Live, TypeInv, TypeOK

LEMMA SameJobs == ASSUME share' = share PROVE JobsKept
  BY DEF JobsKept, Live

\* Two facts of every step of a request but those that are accepted, note a view or insert a row.
LEMMA ClientDelivery ==
  ASSUME TypeInv, NEW r \in Requests,
         \/ TakeTurn(r) \/ StoreCode(r) \/ SendCode(r) \/ Unsend(r) \/ CountCode(r) \/ CheckCode(r)
         \/ CountFailure(r) \/ Bump(r) \/ SpendCode(r) \/ OpenSession(r) \/ CheckSession(r) \/ NotePlay(r)
  PROVE  JobsKept /\ WatchersKept
  <1>. USE DEF GotoIf
  <1>1. request[r].pc \in ClientPCs /\ ~At(r, "deliver")
    BY DEF TakeTurn, StoreCode, SendCode, Unsend, CountCode, CheckCode, CountFailure, Bump, SpendCode,
           OpenSession, CheckSession, NotePlay, At, ClientPCs, ClientOps, Sending
  <1>2. Watched(r) \in Shares /\ request[r] \in Request BY <1>1, ClientHolds
  <1>3. (\E pc : Goto(r, pc) \/ Answer(r)) => WatchersKept BY <1>1, GoneOn
  <1>4. CASE TakeTurn(r) \/ StoreCode(r) \/ SendCode(r) \/ Unsend(r) \/ CheckCode(r) \/ SpendCode(r)
             \/ OpenSession(r) \/ NotePlay(r)
    BY <1>3, <1>4, SameJobs DEF TakeTurn, StoreCode, SendCode, Unsend, CheckCode, SpendCode, OpenSession, NotePlay
  <1>5. CASE CountCode(r)
    <2>1. JobsKept BY <1>2, <1>5, UpdateKeeps DEF CountCode, Row
    <2>. QED BY <1>3, <1>5, <2>1 DEF CountCode
  <1>6. CASE CountFailure(r)
    <2>1. PICK failed, locked, cooling :
            Update(Watched(r), [share[Watched(r)] EXCEPT !.failed = failed, !.locked = locked, !.cooling = cooling])
      BY <1>6 DEF CountFailure
    <2>2. JobsKept BY <1>2, <2>1, UpdateKeeps DEF Row
    <2>. QED BY <1>3, <1>6, <2>2 DEF CountFailure
  <1>7. CASE Bump(r)
    <2>1. \A s \in Shares : Live(s) => share[s] \in Row BY OfMaybe DEF Live, TypeInv, TypeOK
    <2>2. JobsKept BY <1>2, <1>7, <2>1 DEF Bump, JobsKept, Live, Row, TypeInv, TypeOK
    <2>. QED BY <1>3, <1>7, <2>2 DEF Bump
  <1>8. CASE CheckSession(r)
    <2>1. JobsKept BY <1>8, SameJobs DEF CheckSession
    <2>2. CASE Answer(r) BY <1>3, <2>1, <2>2
    <2>3. ASSUME NEW n, request' = [request EXCEPT ![r].pc = "play", ![r].session = n] PROVE WatchersKept
      <3>1. "play" \in ClientPCs BY DEF ClientPCs
      <3>. QED BY <1>1, <1>2, <2>3, <3>1 DEF WatchersKept, TypeInv, Request, At
    <2>. QED BY <1>8, <2>1, <2>2, <2>3 DEF CheckSession
  <1>. QED BY <1>4, <1>5, <1>6, <1>7, <1>8

LEMMA StaffDelivery ==
  ASSUME TypeInv, NEW r \in Requests,
         SendLink(r) \/ DropShare(r) \/ ReleaseJob(r) \/ SetRevoked(r) \/ SetReturnUrl(r)
  PROVE  JobsKept /\ WatchersKept
  <1>. USE DEF GotoIf
  <1>1. ~At(r, "deliver") BY DEF SendLink, DropShare, ReleaseJob, SetRevoked, SetReturnUrl, At
  <1>2. Answer(r) => WatchersKept
    <2>1. "idle" \notin ClientPCs BY DEF ClientPCs, ClientOps, Sending
    <2>. QED BY <1>1, <2>1, GoneOn
  <1>3. CASE SendLink(r)
    <2>1. {"drop", "retire", "release"} \cap ClientPCs = {} BY DEF ClientPCs, ClientOps, Sending
    <2>. QED BY <1>1, <1>2, <1>3, <2>1, GoneOn, SameJobs DEF SendLink
  <1>4. CASE DropShare(r)
    <2>1. Watched(r) \in Shares BY <1>4, StaffHolds DEF DropShare, At
    <2>. QED BY <1>2, <1>4, <2>1 DEF DropShare, JobsKept, Live, TypeInv, TypeOK
  <1>5. CASE ReleaseJob(r) BY <1>2, <1>5, SameJobs DEF ReleaseJob
  <1>6. CASE SetRevoked(r)
    <2>. DEFINE s == IF At(r, "retire") THEN request[r].old ELSE Watched(r)
    <2>1. s \in Shares BY <1>6, StaffHolds DEF SetRevoked, At
    <2>2. Update(s, [share[s] EXCEPT !.revoked = TRUE]) BY <1>6 DEF SetRevoked
    <2>. HIDE DEF s
    <2>3. JobsKept BY <2>1, <2>2, UpdateKeeps DEF Row
    <2>. QED BY <1>2, <1>6, <2>3 DEF SetRevoked
  <1>7. CASE SetReturnUrl(r)
    <2>1. Watched(r) \in Shares BY <1>7, StaffHolds DEF SetReturnUrl, At
    <2>2. JobsKept BY <1>7, <2>1, UpdateKeeps DEF SetReturnUrl, Row
    <2>. QED BY <1>2, <1>7, <2>2 DEF SetReturnUrl
  <1>. QED BY <1>3, <1>4, <1>5, <1>6, <1>7

\* A client's request is accepted with the row as it is.
LEMMA BegunDelivery ==
  ASSUME TypeInv, DeliveryInv, SessionsInv, NEW r \in Requests, NEW op, NEW k, Accept(r, op, k),
         k.pc \in ClientPCs => k.share \in Shares /\ Live(k.share) /\ k.row = share[k.share]
  PROVE  DeliveryInv'
  <1>1. request \in [Requests -> Handler] BY DEF TypeInv
  <1>2. JobsKept BY SameJobs DEF Accept
  <1>3. request'[r] = k /\ (\A q \in Requests : q # r => request'[q] = request[q])
    BY <1>1 DEF Accept
  <1>4. Matched(request[r])' BY <1>3 DEF Matched, SessionsInv, ChecksCounted, Live, Accept
  <1>5. \A q \in Requests : Matched(request[q])' BY <1>2, <1>3, <1>4, KeptMatches DEF Accept
  <1>6. \A s : Delivering(s) => Delivering(s)' BY <1>3 DEF Delivering, At, Watched, Accept
  <1>. QED BY <1>5, <1>6 DEF DeliveryInv, Accept, Live

LEMMA NoteViewDelivery ==
  ASSUME TypeInv, DeliveryInv, NEW r \in Requests, NoteView(r) PROVE DeliveryInv'
  <1>. DEFINE s == Watched(r)
  <1>1. request[r].pc \in ClientPCs /\ s \in Shares BY ClientHolds DEF NoteView, At, ClientPCs
  <1>2. \A t \in Shares : Live(t) => share[t] \in Row BY OfMaybe DEF Live, TypeInv, TypeOK
  <1>3. \A t \in Shares :
          /\ share'[t] # None => Live(t) /\ share'[t].job = share[t].job
          /\ t # s => share'[t] = share[t]
    BY <1>1, <1>2 DEF NoteView, Update, Live, Row, TypeInv, TypeOK
  <1>4. WatchersKept
    BY <1>1, GoneOn DEF NoteView, GotoIf, At
  <1>5. \A t : Delivering(t) => Delivering(t)'
    <2>1. "deliver" \in ClientPCs BY DEF ClientPCs
    <2>. QED BY <1>4, <2>1 DEF Delivering, WatchersKept, At, Watched
  <1>6. \A q \in Requests : Matched(request[q])'
    <2>1. ASSUME NEW q \in Requests, request'[q].pc \in ClientPCs PROVE Matched(request[q])'
      <3>1. request[q].pc \in ClientPCs /\ request'[q].share = request[q].share /\ request'[q].row = request[q].row
        BY <1>4, <2>1 DEF WatchersKept
      <3>2. request[q].share \in Shares BY <3>1, ClientHolds DEF Watched
      <3>. QED BY <1>3, <3>1, <3>2 DEF Matched, DeliveryInv, Live, NoteView, World
    <2>. QED BY <2>1 DEF Matched
  <1>7. Live(s) /\ ~share[s].viewed => request'[r].pc = "deliver" /\ request'[r].share = s
    <2>1. SUFFICES ASSUME Live(s), ~share[s].viewed PROVE request'[r].pc = "deliver" /\ request'[r].share = s
      OBVIOUS
    <2>2. Goto(r, "deliver") BY <2>1 DEF NoteView, GotoIf
    <2>. QED BY <1>1, <2>2, ClientHolds DEF Goto, TypeInv, Watched
  <1>8. box' = box /\ failures' = failures BY DEF NoteView, World
  <1>. HIDE DEF s
  <1>9. ASSUME failures' = 0, NEW t \in Shares, Live(t)', share'[t].viewed
        PROVE  box'[share'[t].job] # "unticked" \/ Delivering(t)'
    <2>1. Live(t) /\ share'[t].job = share[t].job BY <1>3, <1>9 DEF Live
    <2>2. share[t].viewed => box[share[t].job] # "unticked" \/ Delivering(t)
      BY <1>8, <1>9, <2>1 DEF DeliveryInv
    <2>3. t # s => share[t].viewed BY <1>3, <1>9
    <2>4. CASE share[t].viewed BY <1>5, <1>8, <2>1, <2>2, <2>4
    <2>5. CASE ~share[t].viewed
      <3>1. t = s BY <2>3, <2>5
      <3>2. request'[r].pc = "deliver" /\ request'[r].share = t BY <1>7, <2>1, <2>5, <3>1
      <3>. QED BY <3>2 DEF Delivering, At, Watched
    <2>. QED BY <2>4, <2>5
  <1>. QED BY <1>6, <1>9 DEF DeliveryInv

LEMMA MarkDelivery ==
  ASSUME TypeInv, DeliveryInv, NEW r \in Requests, MarkDelivered(r) PROVE DeliveryInv'
  <1>. DEFINE s == Watched(r)  j == ReadRow(r).job
  <1>1. request[r].pc \in ClientPCs /\ s \in Shares /\ ReadRow(r) \in Row
    BY ClientHolds DEF MarkDelivered, At, ClientPCs
  <1>2. j \in Jobs BY <1>1 DEF Row
  <1>3. box'[j] = "ticked" /\ \A i \in Jobs : box[i] # "unticked" => box'[i] # "unticked"
    BY <1>2 DEF MarkDelivered, TypeInv, TypeOK
  <1>4. request'[r] = Idle /\ \A q \in Requests : q # r => request'[q] = request[q]
    BY DEF MarkDelivered, Answer, TypeInv
  <1>5. JobsKept /\ share' = share /\ taken' = taken /\ failures' = failures
    BY SameJobs DEF MarkDelivered, World
  <1>6. \A q \in Requests : Matched(request[q])'
    <2>1. Idle.pc \notin ClientPCs BY DEF Idle, ClientPCs, ClientOps, Sending
    <2>. QED BY <1>4, <1>5, <2>1, KeptMatches
  <1>7. Live(s) => share[s].job = j BY <1>1 DEF DeliveryInv, Matched, Live, Watched, ReadRow
  <1>8. \A t : t # s /\ Delivering(t) => Delivering(t)' BY <1>4 DEF Delivering, At, Watched
  <1>9. \A t \in Shares : Live(t) => share[t].job \in Jobs
    <2>1. \A t \in Shares : Live(t) => share[t] \in Row BY OfMaybe DEF Live, TypeInv, TypeOK
    <2>. QED BY <2>1 DEF Row
  <1>. HIDE DEF s, j
  <1>. QED BY <1>3, <1>5, <1>6, <1>7, <1>8, <1>9 DEF DeliveryInv, Live

\* A new row was not viewed, and nobody watches it yet.
LEMMA InsertDelivery ==
  ASSUME TypeInv, DeliveryInv, SessionsInv, NEW r \in Requests, InsertShare(r) PROVE DeliveryInv'
  <1>1. PICK s \in Shares \ taken :
          /\ taken' = taken \cup {s}
          /\ share' = [share EXCEPT ![s] = NewRow(request[r].job, request[r].link)]
          /\ request' = [request EXCEPT ![r].pc = "notify", ![r].share = s]
    BY DEF InsertShare
  <1>2. share'[s].viewed = FALSE /\ \A t \in Shares : t # s => share'[t] = share[t]
    BY <1>1 DEF NewRow, TypeInv, TypeOK
  <1>3. request'[r].pc \notin ClientPCs /\ ~At(r, "deliver") /\ \A q \in Requests : q # r => request'[q] = request[q]
    <2>1. "notify" \notin ClientPCs BY DEF ClientPCs, ClientOps, Sending
    <2>2. request[r] \in Request /\ request \in [Requests -> Handler] BY DEF TypeInv, Handler
    <2>3. request'[r].pc = "notify" BY <1>1, <2>2 DEF Request
    <2>. QED BY <1>1, <2>1, <2>2, <2>3 DEF InsertShare, At
  <1>4. \A q \in Requests : Matched(request[q])'
    <2>1. ASSUME NEW q \in Requests, q # r, request[q].pc \in ClientPCs PROVE Matched(request[q])'
      <3>1. request[q].share \in Shares /\ request[q].share \in taken
        BY <2>1, ClientHolds DEF Watched, DeliveryInv, Matched
      <3>2. share'[request[q].share] = share[request[q].share] BY <1>2, <3>1
      <3>3. share[request[q].share] # None => share[request[q].share].job = request[q].row.job
        BY <2>1 DEF DeliveryInv, Matched
      <3>4. request'[q] = request[q] /\ request[q].share \in taken' BY <1>1, <1>3, <2>1, <3>1
      <3>. QED BY <3>2, <3>3, <3>4 DEF Matched
    <2>. QED BY <1>3, <2>1 DEF Matched
  <1>5. \A t : Delivering(t) => Delivering(t)' BY <1>3 DEF Delivering, At, Watched
  <1>6. box' = box /\ failures' = failures BY DEF InsertShare
  <1>. QED BY <1>2, <1>4, <1>5, <1>6 DEF DeliveryInv, Live

LEMMA DeliveryStep == TypeInv /\ SessionsInv /\ DeliveryInv /\ [Next]_vars => DeliveryInv'
  <1>. SUFFICES ASSUME TypeInv, SessionsInv, DeliveryInv, [Next]_vars PROVE DeliveryInv' OBVIOUS
  <1>1. ASSUME NEW r \in Requests, RequestCode(r) \/ Verify(r) \/ Watch(r) PROVE DeliveryInv'
    <2>1. PICK s \in Shares, op \in ClientOps : FromClient(r, s, op)
      BY <1>1 DEF RequestCode, Verify, Watch, ClientOps
    <2>. DEFINE k == [Idle EXCEPT !.pc = op, !.share = s, !.row = share[s]]
    <2>2. k.share = s /\ k.row = share[s] BY DEF Idle
    <2>3. Accept(r, op, k) /\ Live(s) BY <2>1 DEF FromClient
    <2>. HIDE DEF k
    <2>. QED BY <2>2, <2>3, BegunDelivery
  <1>2. ASSUME NEW r \in Requests, Create(r) \/ Reissue(r) \/ Revoke(r) \/ ChangeLink(r) PROVE DeliveryInv'
    <2>1. {"insert", "revoke", "link"} \cap ClientPCs = {} BY DEF ClientPCs, ClientOps, Sending
    <2>2. CASE Create(r)
      <3>1. PICK j, link : Accept(r, "create", [Idle EXCEPT !.pc = "insert", !.job = j, !.status = job[j], !.link = link])
        BY <2>2 DEF Create
      <3>. DEFINE k == [Idle EXCEPT !.pc = "insert", !.job = j, !.status = job[j], !.link = link]
      <3>2. k.pc \notin ClientPCs BY <2>1 DEF Idle
      <3>3. Accept(r, "create", k) BY <3>1
      <3>. HIDE DEF k
      <3>. QED BY <3>2, <3>3, BegunDelivery
    <2>3. CASE Reissue(r)
      <3>1. PICK s : Accept(r, "reissue", [Idle EXCEPT !.pc = "insert", !.old = s, !.row = share[s], !.job = share[s].job, !.link = share[s].link])
        BY <2>3 DEF Reissue
      <3>. DEFINE k == [Idle EXCEPT !.pc = "insert", !.old = s, !.row = share[s], !.job = share[s].job, !.link = share[s].link]
      <3>2. k.pc \notin ClientPCs BY <2>1 DEF Idle
      <3>3. Accept(r, "reissue", k) BY <3>1
      <3>. HIDE DEF k
      <3>. QED BY <3>2, <3>3, BegunDelivery
    <2>4. CASE Revoke(r)
      <3>1. PICK s : Accept(r, "revoke", [Idle EXCEPT !.pc = "revoke", !.share = s])
        BY <2>4 DEF Revoke
      <3>. DEFINE k == [Idle EXCEPT !.pc = "revoke", !.share = s]
      <3>2. k.pc \notin ClientPCs BY <2>1 DEF Idle
      <3>3. Accept(r, "revoke", k) BY <3>1
      <3>. HIDE DEF k
      <3>. QED BY <3>2, <3>3, BegunDelivery
    <2>5. CASE ChangeLink(r)
      <3>1. PICK s, link : Accept(r, "link", [Idle EXCEPT !.pc = "link", !.share = s, !.link = link])
        BY <2>5 DEF ChangeLink
      <3>. DEFINE k == [Idle EXCEPT !.pc = "link", !.share = s, !.link = link]
      <3>2. k.pc \notin ClientPCs BY <2>1 DEF Idle
      <3>3. Accept(r, "link", k) BY <3>1
      <3>. HIDE DEF k
      <3>. QED BY <3>2, <3>3, BegunDelivery
    <2>. QED BY <1>2, <2>2, <2>3, <2>4, <2>5
  <1>3. ASSUME NEW r \in Requests,
           \/ TakeTurn(r) \/ StoreCode(r) \/ SendCode(r) \/ Unsend(r) \/ CountCode(r) \/ CheckCode(r)
           \/ CountFailure(r) \/ Bump(r) \/ SpendCode(r) \/ OpenSession(r) \/ CheckSession(r) \/ NotePlay(r)
        PROVE DeliveryInv'
    <2>1. UNCHANGED <<box, taken, failures>>
      BY <1>3 DEF TakeTurn, StoreCode, SendCode, Unsend, CountCode, CheckCode, CountFailure, Bump, SpendCode,
                  OpenSession, CheckSession, NotePlay, World
    <2>. QED BY <1>3, <2>1, ClientDelivery, KeptDelivery
  <1>4. ASSUME NEW r \in Requests,
               SendLink(r) \/ DropShare(r) \/ ReleaseJob(r) \/ SetRevoked(r) \/ SetReturnUrl(r)
        PROVE  DeliveryInv'
    <2>1. UNCHANGED <<box, taken, failures>>
      BY <1>4 DEF SendLink, DropShare, ReleaseJob, SetRevoked, SetReturnUrl, World
    <2>. QED BY <1>4, <2>1, StaffDelivery, KeptDelivery
  <1>5. request' = request => WatchersKept BY DEF WatchersKept, At
  <1>6. ASSUME NEW j \in Jobs, SetDelivered(j) PROVE DeliveryInv'
    <2>1. \A i \in Jobs : box[i] # "unticked" => box'[i] # "unticked"
      BY <1>6 DEF SetDelivered, TypeInv, TypeOK
    <2>. QED BY <1>5, <1>6, <2>1, SameJobs, KeptDelivery DEF SetDelivered, World
  <1>7. ASSUME NEW j \in Jobs, PurgeJob(j) PROVE DeliveryInv'
    BY <1>5, <1>7, SameJobs, KeptDelivery DEF PurgeJob
  <1>8. CASE Sweep \/ ListShares
    BY <1>5, <1>8, SameJobs, KeptDelivery DEF Sweep, ListShares
  <1>9. ASSUME NEW w \in {"sweep", "purge"}, Wipe(w) PROVE DeliveryInv'
    <2>1. JobsKept
      <3>1. PICK s \in wiper[w].due :
              IF s \in Due
                THEN share' = [share EXCEPT ![s].contact = FALSE, ![s].link = FALSE, ![s].wiped = TRUE]
                ELSE UNCHANGED share
        BY <1>9 DEF Wipe
      <3>2. CASE s \in Due
        <4>1. share[s] \in Row BY <3>2, OfMaybe DEF Due, Live, TypeInv, TypeOK
        <4>. QED BY <3>1, <3>2, <4>1 DEF Due, Live, Row, TypeInv, TypeOK, JobsKept
      <3>. QED BY <3>1, <3>2, SameJobs
    <2>. QED BY <1>5, <1>9, <2>1, KeptDelivery DEF Wipe
  <1>10. ASSUME NEW w \in {"sweep", "purge"}, WipeCode(w) PROVE DeliveryInv'
    BY <1>5, <1>10, SameJobs, KeptDelivery DEF WipeCode
  <1>11. ASSUME NEW s \in Shares,
               ShareExpires(s) \/ CodeLapses(s) \/ ResendLapses(s) \/ SessionEnds(s)
        PROVE  DeliveryInv'
    BY <1>5, <1>11, SameJobs, KeptDelivery DEF ShareExpires, CodeLapses, ResendLapses, SessionEnds, Timeless
  <1>12. ASSUME NEW s \in Shares, CooldownEnds(s) PROVE DeliveryInv'
    <2>1. JobsKept BY <1>12, UpdateKeeps DEF CooldownEnds, Row
    <2>. QED BY <1>5, <1>12, <2>1, KeptDelivery DEF CooldownEnds, Timeless
  <1>13. ASSUME NEW r \in Requests, FailRequest(r) PROVE DeliveryInv'
    BY <1>13, FailedDelivery DEF FailRequest, Answer, TypeInv
  <1>14. ASSUME NEW w \in {"sweep", "purge"}, FailWiper(w) PROVE DeliveryInv'
    BY <1>14, FailedDelivery DEF FailWiper
  <1>15. CASE Crash BY <1>15, FailedDelivery DEF Crash
  <1>16. CASE UNCHANGED vars BY <1>5, <1>16, SameJobs, KeptDelivery DEF vars
  <1>17. ASSUME NEW r \in Requests, Client(r) \/ Staff(r) PROVE DeliveryInv'
    BY <1>1, <1>2, <1>3, <1>4, <1>17, NoteViewDelivery, MarkDelivery, InsertDelivery DEF Client, Staff
  <1>. QED BY <1>6, <1>7, <1>8, <1>9, <1>10, <1>11, <1>12, <1>13, <1>14, <1>15, <1>16, <1>17 DEF Next, Time

\* The first watch of a job's video ticks its Delivered box, whatever else happens to the link and the
\* job meanwhile (notePlayed).
THEOREM WatchDelivers == Spec => []WatchIsDelivery
  <1>1. Init => DeliveryInv
    <2>1. "idle" \notin ClientPCs BY DEF ClientPCs, ClientOps, Sending
    <2>. QED BY <2>1 DEF Init, DeliveryInv, Matched, Live, Idle
  <1>2. TypeInv /\ DeliveryInv => WatchIsDelivery
    BY DEF DeliveryInv, WatchIsDelivery, Delivering, TypeInv, TypeOK
  <1>3. Init => SessionsInv
    BY ConstantsAssumption DEF Init, SessionsInv, ChecksCounted, Live
  <1>. QED BY <1>1, <1>2, <1>3, InitType, NextType, SessionsStep, DeliveryStep, PTL DEF Spec

=============================================================================

-------------------------------- MODULE Shares --------------------------------
(***************************************************************************)
(* Client sharing: links to an approved video, from creation to the day    *)
(* nothing of the client's is left on them (services/shares.ts,            *)
(* routes/shares.ts, routes/watch.ts, the sweep of services/cron.ts and    *)
(* the end of a purge).                                                    *)
(*                                                                         *)
(* A handler reads the share's row, decides on that copy, and then awaits  *)
(* Redis, the mail or text provider and the database in turn.  Every await *)
(* that writes is a step; counters are written back from the copy.  What   *)
(* the client types is right or wrong; a code, a contact, a last-4 hash    *)
(* and a return link are there or not.                                     *)
(***************************************************************************)
EXTENDS Naturals

CONSTANTS
  Jobs,
  Shares,         \* ids of the rows job_shares may come to hold
  Requests,       \* requests in flight at once
  Ops,            \* operations that are called, a subset of AllOps
  MaxSessions,    \* MAX_SESSIONS
  MaxCodes,       \* MAX_CODES
  LockAt,         \* LOCK_AT
  CooldownEvery,  \* COOLDOWN_EVERY
  MaxAccepted,    \* bound: requests accepted in a behaviour
  MaxFailures,    \* bound: awaits that throw, and crashes of the API
  None

ClientOps == {"code", "verify", "watch"}
AllOps    == ClientOps \cup {"create", "reissue", "revoke", "link", "delivered"}

ASSUME ConstantsAssumption ==
  /\ Ops \subseteq AllOps
  /\ {MaxSessions, MaxCodes, MaxAccepted, MaxFailures} \subseteq Nat
  /\ {LockAt, CooldownEvery} \subseteq Nat \ {0}
  /\ None \notin Jobs \cup Shares

VARIABLES
  job,        \* what sharing knows of each job's status
  video,      \* jobs whose video is not purged
  box,        \* each job's Delivered box; cleared: a preparer unticked it
  share,      \* job_shares: each id's row, or None
  taken,      \* ids used so far
  expired,    \* shares whose SHARE_DAYS are over
  linked,     \* shares whose link reached the client
  code,       \* Redis share:code: shares with a code that may still be entered
  resend,     \* Redis share:resend: shares that were sent a code within CODE_RESEND_S
  session,    \* Redis share:sess: viewing sessions open on each share, by number
  played,     \* Redis share:played: those whose first play was noted
  request,    \* what each request is doing, and what it has read
  wiper,      \* the sweep and the purge, and what each has left to wipe
  sent,       \* codes that reached the client of each share
  withdrawn,  \* those of them that were dropped because their sending seemed to fail
  granted,    \* checks that were passed on each share
  accepted, failures

vars == <<job, video, box, share, taken, expired, linked, code, resend, session, played, request,
          wiper, sent, withdrawn, granted, accepted, failures>>
-----------------------------------------------------------------------------
Maybe(S) == S \cup {None}
Statuses == {"approved", "released", "purged"}

\* contact: contact_wrapped and, when one was asked for, secret_hash (wiped together);
\* link: return_url_wrapped; cooling: cooldown_until lies ahead.
Row == [job: Jobs, contact: BOOLEAN, link: BOOLEAN, sessions: Nat, failed: Nat, codes: Nat,
        cooling: BOOLEAN, locked: BOOLEAN, revoked: BOOLEAN, wiped: BOOLEAN, viewed: BOOLEAN]

NewRow(j, link) ==
  [job |-> j, contact |-> TRUE, link |-> link, sessions |-> 0, failed |-> 0, codes |-> 0,
   cooling |-> FALSE, locked |-> FALSE, revoked |-> FALSE, wiped |-> FALSE, viewed |-> FALSE]

\* A request is idle or about to do what its pc names; Sending is the part of
\* requestCode between taking the resend key and counting the code.
Sending == {"store", "send", "unsend", "recall", "count"}
PCs == Sending \cup {"idle", "code", "verify", "fail", "lockout", "bump", "spend", "open",
        "watch", "play", "view", "deliver", "insert", "notify", "drop", "release", "retire",
        "revoke", "link"}

\* row: the share as it was read.  old: the share a reissue replaces.
Request == [pc: PCs, share: Maybe(Shares), row: Maybe(Row), old: Maybe(Shares),
            job: Maybe(Jobs), status: Maybe(Statuses), link: BOOLEAN, session: Nat]
Idle == [pc |-> "idle", share |-> None, row |-> None, old |-> None, job |-> None,
         status |-> None, link |-> FALSE, session |-> 0]

\* job: a purged job whose shares are still to be listed.  code: a wiped share whose code is
\* still to be deleted.
Wiper == [job: Maybe(Jobs), due: SUBSET Shares, code: Maybe(Shares)]
Resting == [job |-> None, due |-> {}, code |-> None]

\* Every variable keeps its declared shape.
TypeOK ==
  /\ job \in [Jobs -> Statuses]
  /\ video \subseteq Jobs
  /\ box \in [Jobs -> {"unticked", "ticked", "cleared"}]
  /\ share \in [Shares -> Maybe(Row)]
  /\ taken \subseteq Shares /\ expired \subseteq Shares /\ linked \subseteq Shares
  /\ code \subseteq Shares /\ resend \subseteq Shares
  /\ session \in [Shares -> SUBSET (1..MaxSessions)]
  /\ played \in [Shares -> SUBSET (1..MaxSessions)]
  /\ request \in [Requests -> Request]
  /\ wiper \in [{"sweep", "purge"} -> Wiper]
  /\ sent \in [Shares -> Nat] /\ withdrawn \in [Shares -> Nat] /\ granted \in [Shares -> Nat]
  /\ accepted \in 0..MaxAccepted /\ failures \in 0..MaxFailures

Init ==
  /\ job \in [Jobs -> {"approved", "released"}]
  /\ video = Jobs
  /\ box = [j \in Jobs |-> "unticked"]
  /\ share = [s \in Shares |-> None]
  /\ taken = {} /\ expired = {} /\ linked = {} /\ code = {} /\ resend = {}
  /\ session = [s \in Shares |-> {}] /\ played = [s \in Shares |-> {}]
  /\ request = [r \in Requests |-> Idle]
  /\ wiper = [w \in {"sweep", "purge"} |-> Resting]
  /\ sent = [s \in Shares |-> 0] /\ withdrawn = [s \in Shares |-> 0]
  /\ granted = [s \in Shares |-> 0]
  /\ accepted = 0 /\ failures = 0
-----------------------------------------------------------------------------
(* Helpers. *)

At(r, pc) == request[r].pc = pc
Goto(r, pc) == request' = [request EXCEPT ![r].pc = pc]
Answer(r) == request' = [request EXCEPT ![r] = Idle]

\* The next step if there is one to take, else the answer.
GotoIf(r, condition, pc) == IF condition THEN Goto(r, pc) ELSE Answer(r)

\* The row in the table now, and an update of it: of no row, when it was deleted meanwhile.
Live(s) == share[s] # None
Update(s, columns) == share' = [share EXCEPT ![s] = IF @ = None THEN None ELSE columns]

Watched(r)  == request[r].share
ReadRow(r)  == request[r].row
Playable(j) == job[j] \in {"approved", "released"} /\ j \in video

\* shareBlocked on the row a request read, at the time it decides.
Blocked(s, row) == row.revoked \/ s \in expired \/ row.wiped \/ row.locked

\* Mutation: one check more than the cap is let in.
Refused_Exhausted(s, row) == Blocked(s, row) \/ row.cooling \/ row.sessions > MaxSessions

\* What makes a request for a code or a check be refused.
Refused(s, row) == Blocked(s, row) \/ row.cooling \/ row.sessions >= MaxSessions

Accept(r, op, k) ==
  /\ op \in Ops
  /\ At(r, "idle") /\ accepted < MaxAccepted
  /\ accepted' = accepted + 1
  /\ request' = [request EXCEPT ![r] = k]
  /\ UNCHANGED <<job, video, box, share, taken, expired, linked, code, resend, session, played,
                 wiper, sent, withdrawn, granted, failures>>

\* What a request leaves alone once it was accepted.
World == <<video, taken, expired, wiper, accepted, failures>>

\* A client with the link: shareByToken finds the row and the video is there.
FromClient(r, s, op) ==
  /\ s \in linked /\ Live(s) /\ Playable(share[s].job)
  /\ Accept(r, op, [Idle EXCEPT !.pc = op, !.share = s, !.row = share[s]])
-----------------------------------------------------------------------------
(* requestCode: POST /watch/:token/code. *)

RequestCode(r) == \E s \in Shares : FromClient(r, s, "code")

\* Mutation: the resend key is set, but not only if it was absent.
TakeTurn_Unlocked(r) ==
  /\ At(r, "code")
  /\ LET s    == Watched(r)
         turn == ~Refused(s, ReadRow(r)) /\ ReadRow(r).codes < MaxCodes
     IN  /\ GotoIf(r, turn, "store")
         /\ resend' = IF turn THEN resend \cup {s} ELSE resend
  /\ UNCHANGED <<job, box, share, linked, code, session, played, sent, withdrawn, granted, World>>

\* SET NX EX on the resend key comes after the checks on the row.
TakeTurn(r) ==
  /\ At(r, "code")
  /\ LET s    == Watched(r)
         turn == ~Refused(s, ReadRow(r)) /\ ReadRow(r).codes < MaxCodes /\ s \notin resend
     IN  /\ GotoIf(r, turn, "store")
         /\ resend' = IF turn THEN resend \cup {s} ELSE resend
  /\ UNCHANGED <<job, box, share, linked, code, session, played, sent, withdrawn, granted, World>>

\* A new code takes the place of the last one.
StoreCode(r) ==
  /\ At(r, "store")
  /\ code' = code \cup {Watched(r)}
  /\ Goto(r, "send")
  /\ UNCHANGED <<job, box, share, linked, resend, session, played, sent, withdrawn, granted, World>>

\* A send that fails, or takes longer than its timeout, may have delivered the code all the same.
SendCode(r) ==
  /\ At(r, "send")
  /\ \/ \E pc \in {"count", "recall"} : Goto(r, pc) /\ sent' = [sent EXCEPT ![Watched(r)] = @ + 1]
     \/ Goto(r, "unsend") /\ UNCHANGED sent
  /\ UNCHANGED <<job, box, share, linked, code, resend, session, played, withdrawn, granted, World>>

\* Not sent, as far as the provider said: the code is dropped, it is not counted, and the client may
\* ask again at once.
Unsend(r) ==
  /\ At(r, "unsend") \/ At(r, "recall")
  /\ code' = code \ {Watched(r)}
  /\ resend' = resend \ {Watched(r)}
  /\ withdrawn' = IF At(r, "recall") THEN [withdrawn EXCEPT ![Watched(r)] = @ + 1] ELSE withdrawn
  /\ Answer(r)
  /\ UNCHANGED <<job, box, share, linked, session, played, sent, granted, World>>

CountCode(r) ==
  /\ At(r, "count")
  /\ LET s == Watched(r) IN Update(s, [share[s] EXCEPT !.codes = ReadRow(r).codes + 1])
  /\ Answer(r)
  /\ UNCHANGED <<job, box, linked, code, resend, session, played, sent, withdrawn, granted, World>>
-----------------------------------------------------------------------------
(* verifyShare: POST /watch/:token/verify. *)

Verify(r) == \E s \in Shares : FromClient(r, s, "verify")

\* The code and the last four digits are compared; a missing code or hash matches nothing.
CheckCode(r) ==
  /\ At(r, "verify")
  /\ LET s == Watched(r)
     IN  IF Refused(s, ReadRow(r))
           THEN Answer(r)
           ELSE \/ s \in code /\ Goto(r, "bump")
                \/ Goto(r, "fail")
  /\ UNCHANGED <<job, box, share, linked, code, resend, session, played, sent, withdrawn, granted,
                 World>>

CountFailure(r) ==
  /\ At(r, "fail")
  /\ LET s        == Watched(r)
         failed   == ReadRow(r).failed + 1
         lock     == failed >= LockAt
         cooldown == ~lock /\ failed % CooldownEvery = 0
     IN  /\ Update(s, [share[s] EXCEPT !.failed  = failed,
                                       !.locked  = @ \/ lock,
                                       !.cooling = @ \/ cooldown])
         /\ GotoIf(r, lock, "lockout")
  /\ UNCHANGED <<job, box, linked, code, resend, session, played, sent, withdrawn, granted, World>>

\* Mutation: the counter is written back whatever it is by now.
Bump_Unconditional(r) ==
  /\ At(r, "bump")
  /\ LET s    == Watched(r)
         read == ReadRow(r).sessions
         won  == Live(s)
     IN  /\ share' = IF won THEN [share EXCEPT ![s].sessions = read + 1] ELSE share
         /\ granted' = IF won THEN [granted EXCEPT ![s] = @ + 1] ELSE granted
         /\ GotoIf(r, won, "spend")
  /\ UNCHANGED <<job, box, linked, code, resend, session, played, sent, withdrawn, World>>

\* The session counter moves only if it is still what the request read.
Bump(r) ==
  /\ At(r, "bump")
  /\ LET s    == Watched(r)
         read == ReadRow(r).sessions
         won  == Live(s) /\ share[s].sessions = read
     IN  /\ share' = IF won THEN [share EXCEPT ![s].sessions = read + 1] ELSE share
         /\ granted' = IF won THEN [granted EXCEPT ![s] = @ + 1] ELSE granted
         /\ GotoIf(r, won, "spend")
  /\ UNCHANGED <<job, box, linked, code, resend, session, played, sent, withdrawn, World>>

\* The code goes: because it was used, or because the share was locked.
SpendCode(r) ==
  /\ At(r, "spend") \/ At(r, "lockout")
  /\ code' = code \ {Watched(r)}
  /\ GotoIf(r, At(r, "spend"), "open")
  /\ UNCHANGED <<job, box, share, linked, resend, session, played, sent, withdrawn, granted, World>>

OpenSession(r) ==
  /\ At(r, "open")
  /\ session' = [session EXCEPT ![Watched(r)] = @ \cup {ReadRow(r).sessions + 1}]
  /\ Answer(r)
  /\ UNCHANGED <<job, box, share, linked, code, resend, played, sent, withdrawn, granted, World>>
-----------------------------------------------------------------------------
(* GET /watch/:token/video.mp4 from its first byte, with notePlayed. *)

Watch(r) == \E s \in Shares : FromClient(r, s, "watch")

CheckSession(r) ==
  /\ At(r, "watch")
  /\ LET s == Watched(r)
     IN  IF Blocked(s, ReadRow(r))
           THEN Answer(r)
           ELSE \/ Answer(r)
                \/ \E n \in session[s] :
                     request' = [request EXCEPT ![r].pc = "play", ![r].session = n]
  /\ UNCHANGED <<job, box, share, linked, code, resend, session, played, sent, withdrawn, granted,
                 World>>

NotePlay(r) ==
  /\ At(r, "play")
  /\ LET s     == Watched(r)
         n     == request[r].session
         first == Playable(ReadRow(r).job) /\ n \notin played[s]
     IN  /\ GotoIf(r, first, "view")
         /\ played' = IF first THEN [played EXCEPT ![s] = @ \cup {n}] ELSE played
  /\ UNCHANGED <<job, box, share, linked, code, resend, session, sent, withdrawn, granted, World>>

NoteView(r) ==
  /\ At(r, "view")
  /\ LET s == Watched(r)
     IN  /\ Update(s, [share[s] EXCEPT !.viewed = TRUE])
         /\ GotoIf(r, Live(s) /\ ~share[s].viewed, "deliver")
  /\ UNCHANGED <<job, box, linked, code, resend, session, played, sent, withdrawn, granted, World>>

\* Mutation: only a job that is still approved is marked.
MarkDelivered_Approved(r) ==
  /\ At(r, "deliver")
  /\ box' = [box EXCEPT ![ReadRow(r).job] = IF job[ReadRow(r).job] = "approved" THEN "ticked" ELSE @]
  /\ Answer(r)
  /\ UNCHANGED <<job, share, linked, code, resend, session, played, sent, withdrawn, granted,
                 World>>

MarkDelivered(r) ==
  /\ At(r, "deliver")
  /\ box' = [box EXCEPT ![ReadRow(r).job] = "ticked"]
  /\ Answer(r)
  /\ UNCHANGED <<job, share, linked, code, resend, session, played, sent, withdrawn, granted,
                 World>>
-----------------------------------------------------------------------------
(* Staff: share, re-issue, revoke, and set the return link. *)

Redis == <<code, resend, session, played>>

\* POST /api/jobs/:id/shares: an approved job with a video.
Create(r) == \E j \in Jobs, link \in BOOLEAN :
  /\ Playable(j)
  /\ Accept(r, "create", [Idle EXCEPT !.pc = "insert", !.job = j, !.status = job[j], !.link = link])

\* POST .../reissue: the same contact and return link, while they are there.
Reissue(r) == \E s \in Shares :
  /\ Live(s) /\ share[s].contact /\ job[share[s].job] \in {"approved", "released"}
  /\ Accept(r, "reissue", [Idle EXCEPT !.pc = "insert", !.old = s, !.row = share[s], !.job = share[s].job,
                            !.link = share[s].link])

\* createShare: the row first, then the message with the link.
InsertShare(r) == \E s \in Shares \ taken :
  /\ At(r, "insert")
  /\ taken' = taken \cup {s}
  /\ share' = [share EXCEPT ![s] = NewRow(request[r].job, request[r].link)]
  /\ request' = [request EXCEPT ![r].pc = "notify", ![r].share = s]
  /\ UNCHANGED <<job, video, box, expired, linked, Redis, wiper, sent, withdrawn, granted,
                 accepted, failures>>

\* A send that fails may have delivered the message all the same.
SendLink(r) ==
  /\ At(r, "notify")
  /\ \/ /\ linked' = linked \cup {Watched(r)}
        /\ \/ Goto(r, "drop")
           \/ request[r].old # None /\ GotoIf(r, ~ReadRow(r).revoked, "retire")
           \/ request[r].old = None /\ GotoIf(r, request[r].status = "approved", "release")
     \/ linked' = linked /\ Goto(r, "drop")
  /\ UNCHANGED <<job, box, share, Redis, sent, withdrawn, granted, World>>

DropShare(r) ==
  /\ At(r, "drop")
  /\ share' = [share EXCEPT ![Watched(r)] = None]
  /\ Answer(r)
  /\ UNCHANGED <<job, box, linked, Redis, sent, withdrawn, granted, World>>

\* Sharing releases a job that was approved when the request began, whatever it is now.
ReleaseJob(r) ==
  /\ At(r, "release")
  /\ job' = [job EXCEPT ![request[r].job] = "released"]
  /\ Answer(r)
  /\ UNCHANGED <<box, share, linked, Redis, sent, withdrawn, granted, World>>

Revoke(r) == \E s \in Shares :
  /\ Live(s) /\ ~share[s].revoked
  /\ Accept(r, "revoke", [Idle EXCEPT !.pc = "revoke", !.share = s])

\* What /revoke and the end of a re-issue write.
SetRevoked(r) ==
  /\ At(r, "revoke") \/ At(r, "retire")
  /\ LET s == IF At(r, "retire") THEN request[r].old ELSE Watched(r)
     IN  Update(s, [share[s] EXCEPT !.revoked = TRUE])
  /\ Answer(r)
  /\ UNCHANGED <<job, box, linked, Redis, sent, withdrawn, granted, World>>

\* PUT .../return-link: a locked share still takes one.
ChangeLink(r) == \E s \in Shares, link \in BOOLEAN :
  /\ Live(s) /\ ~share[s].revoked /\ s \notin expired /\ ~share[s].wiped
  /\ link \/ share[s].link
  /\ Accept(r, "link", [Idle EXCEPT !.pc = "link", !.share = s, !.link = link])

SetReturnUrl(r) ==
  /\ At(r, "link")
  /\ LET s == Watched(r) IN Update(s, [share[s] EXCEPT !.link = request[r].link])
  /\ Answer(r)
  /\ UNCHANGED <<job, box, linked, Redis, sent, withdrawn, granted, World>>

\* PATCH /api/jobs/:id/delivered.
SetDelivered(j) ==
  /\ "delivered" \in Ops
  /\ box' = [box EXCEPT ![j] = IF @ = "ticked" THEN "cleared" ELSE "ticked"]
  /\ UNCHANGED <<job, share, linked, Redis, request, sent, withdrawn, granted, World>>
-----------------------------------------------------------------------------
(* The sweep, and the shares' part of a purge. *)

\* Mutation: a revoked link has ended already, so the sweep leaves it.
Due_Unrevoked == {s \in Shares : Live(s) /\ ~share[s].wiped /\ ~share[s].revoked}

Due == {s \in Shares : Live(s) /\ ~share[s].wiped}

\* sweepShares, every ten minutes.
Sweep ==
  /\ wiper["sweep"] = Resting /\ Due \cap expired # {}
  /\ wiper' = [wiper EXCEPT !["sweep"].due = Due \cap expired]
  /\ UNCHANGED <<job, video, box, share, taken, expired, linked, Redis, request, sent, withdrawn,
                 granted, accepted, failures>>

\* The job's last file was purged, so runPurge marks the job; then purgeJobShares lists its shares.
PurgeJob(j) ==
  /\ j \in video /\ wiper["purge"] = Resting
  /\ job' = [job EXCEPT ![j] = "purged"]
  /\ video' = video \ {j}
  /\ wiper' = [wiper EXCEPT !["purge"].job = j]
  /\ UNCHANGED <<box, share, taken, expired, linked, Redis, request, sent, withdrawn, granted,
                 accepted, failures>>

ListShares ==
  /\ wiper["purge"].job # None
  /\ wiper' = [wiper EXCEPT !["purge"] =
                 [Resting EXCEPT !.due = {s \in Due : share[s].job = wiper["purge"].job}]]
  /\ UNCHANGED <<job, video, box, share, taken, expired, linked, Redis, request, sent, withdrawn,
                 granted, accepted, failures>>

\* wipeShare: the row, under a condition; then, if it was this call that wiped it, the code.
Wipe(w) == \E s \in wiper[w].due :
  /\ wiper[w].code = None
  /\ IF s \in Due
       THEN share' = [share EXCEPT ![s].contact = FALSE, ![s].link = FALSE, ![s].wiped = TRUE]
       ELSE UNCHANGED share
  /\ wiper' = [wiper EXCEPT ![w].due = @ \ {s}, ![w].code = IF s \in Due THEN s ELSE None]
  /\ UNCHANGED <<job, video, box, taken, expired, linked, Redis, request, sent, withdrawn, granted,
                 accepted, failures>>

WipeCode(w) ==
  /\ wiper[w].code # None
  /\ code' = code \ {wiper[w].code}
  /\ wiper' = [wiper EXCEPT ![w].code = None]
  /\ UNCHANGED <<job, video, box, share, taken, expired, linked, resend, session, played, request,
                 sent, withdrawn, granted, accepted, failures>>
-----------------------------------------------------------------------------
(* Time, as the expiry of what carries one. *)

Timeless == <<job, video, box, taken, linked, request, wiper, sent, withdrawn, granted, accepted,
              failures>>

ShareExpires(s) ==
  /\ Live(s) /\ expired' = expired \cup {s}
  /\ UNCHANGED <<share, Redis, Timeless>>

CodeLapses(s) ==
  /\ code' = code \ {s}
  /\ UNCHANGED <<share, expired, resend, session, played, Timeless>>

\* CODE_RESEND_S is 60 seconds; a message is given up after 15, so no request that read the share
\* before the key was set is still on its way when the key lapses.
ResendLapses(s) ==
  /\ \A r \in Requests : request[r].pc \in {"code"} \cup Sending => Watched(r) # s
  /\ resend' = resend \ {s}
  /\ UNCHANGED <<share, expired, code, session, played, Timeless>>

CooldownEnds(s) ==
  /\ Update(s, [share[s] EXCEPT !.cooling = FALSE])
  /\ UNCHANGED <<expired, Redis, Timeless>>

SessionEnds(s) == \E n \in session[s] :
  /\ session' = [session EXCEPT ![s] = @ \ {n}]
  /\ UNCHANGED <<share, expired, code, resend, played, Timeless>>
-----------------------------------------------------------------------------
(* An await throws in a request or a wipe, or the API dies.  A message that *)
(* is not sent is no failure of its request: it is caught.                 *)

Failing == failures < MaxFailures /\ failures' = failures + 1
Kept == <<job, video, box, share, taken, expired, linked, Redis, sent, withdrawn, granted,
          accepted>>

FailRequest(r) ==
  /\ request[r].pc \notin {"idle", "send", "notify"}
  /\ Answer(r)
  /\ Failing /\ UNCHANGED <<wiper, Kept>>

FailWiper(w) ==
  /\ wiper[w] # Resting
  /\ wiper' = [wiper EXCEPT ![w] = Resting]
  /\ Failing /\ UNCHANGED <<request, Kept>>

Crash ==
  /\ request' = [r \in Requests |-> Idle]
  /\ wiper' = [w \in {"sweep", "purge"} |-> Resting]
  /\ Failing /\ UNCHANGED Kept
-----------------------------------------------------------------------------
Client(r) ==
  \/ RequestCode(r) \/ TakeTurn(r) \/ StoreCode(r) \/ SendCode(r) \/ Unsend(r) \/ CountCode(r)
  \/ Verify(r) \/ CheckCode(r) \/ CountFailure(r) \/ Bump(r) \/ SpendCode(r) \/ OpenSession(r)
  \/ Watch(r) \/ CheckSession(r) \/ NotePlay(r) \/ NoteView(r) \/ MarkDelivered(r)

Staff(r) ==
  \/ Create(r) \/ Reissue(r) \/ InsertShare(r) \/ SendLink(r) \/ DropShare(r) \/ ReleaseJob(r)
  \/ Revoke(r) \/ SetRevoked(r) \/ ChangeLink(r) \/ SetReturnUrl(r)

Time == \E s \in Shares :
  ShareExpires(s) \/ CodeLapses(s) \/ ResendLapses(s) \/ CooldownEnds(s) \/ SessionEnds(s)

Next ==
  \/ \E r \in Requests : Client(r) \/ Staff(r) \/ FailRequest(r)
  \/ \E j \in Jobs : SetDelivered(j) \/ PurgeJob(j)
  \/ Sweep \/ ListShares
  \/ \E w \in {"sweep", "purge"} : Wipe(w) \/ WipeCode(w) \/ FailWiper(w)
  \/ Time
  \/ Crash

\* node-cron runs the sweep every ten minutes for as long as the API is up, and a sweep goes on
\* until it is through its list or throws.
Fairness == WF_vars(Sweep) /\ WF_vars(Wipe("sweep")) /\ WF_vars(WipeCode("sweep"))

Spec == Init /\ [][Next]_vars

FairSpec == Spec /\ Fairness
-----------------------------------------------------------------------------
(* Properties. *)

\* No link passes more checks than MAX_SESSIONS, however many of them race and whatever fails in
\* between: verifyShare counts a session only where the counter still is what it read.
SessionsCapped == \A s \in Shares : granted[s] <= MaxSessions

\* Of the codes that reach a link's client no more than MAX_CODES are left standing: each one beyond
\* was dropped again because the provider's answer was an error, though the message arrived.  The
\* row's codes_sent is written back from a copy, and only the resend key keeps two requests from
\* counting one; a request that dies after sending leaves its code uncounted.
CodesCapped == \A s \in Shares : sent[s] <= MaxCodes + withdrawn[s] + failures

\* The client's first watch ticks the job's Delivered box, whichever link it was and however many
\* players start at once; only a preparer unticks it.  A failure between the two writes loses it.
WatchIsDelivery == \A s \in Shares :
  Live(s) /\ share[s].viewed =>
    \/ box[share[s].job] # "unticked"
    \/ \E r \in Requests : At(r, "deliver") /\ Watched(r) = s
    \/ failures > 0

\* The contact and the last-4 hash of an expired link are wiped in the end, whatever else became of
\* the link, also when a sweep or a purge dies halfway.
ContactsForgotten == \A s \in Shares :
  s \in expired /\ Live(s) ~> (Live(s) => ~share[s].contact)

\* docs/sharing.md: the return link is erased with the contact.
NothingKept == \A s \in Shares :
  Live(s) /\ share[s].wiped => ~share[s].contact /\ ~share[s].link
=============================================================================

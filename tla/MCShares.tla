------------------------------ MODULE MCShares ------------------------------
(* Small instances of Shares for TLC. *)
EXTENDS Shares, TLC

CONSTANTS j1, h1

\* A behaviour of a link that was just created and sent: the state in which Create leaves an
\* approved job and its first share.
MCLinked ==
  /\ Jobs = {j1} /\ h1 \in Shares
  /\ job = [j \in Jobs |-> "released"]
  /\ video = Jobs
  /\ box = [j \in Jobs |-> "unticked"]
  /\ share = [s \in Shares |-> IF s = h1 THEN NewRow(j1, TRUE) ELSE None]
  /\ taken = {h1} /\ linked = {h1}
  /\ expired = {} /\ code = {} /\ resend = {}
  /\ session = [s \in Shares |-> {}] /\ played = [s \in Shares |-> {}]
  /\ request = [r \in Requests |-> Idle]
  /\ wiper = [w \in {"sweep", "purge"} |-> Resting]
  /\ sent = [s \in Shares |-> 0] /\ withdrawn = [s \in Shares |-> 0]
  /\ granted = [s \in Shares |-> 0]
  /\ accepted = 0 /\ failures = 0

MCLinkedSpec == MCLinked /\ [][Next]_vars

(***************************************************************************)
(* Of the row it read a request uses whether it is blocked until it has    *)
(* checked it, and afterwards the counter it writes back or the job.       *)
(* States that differ in the rest of the copy behave alike.                *)
(***************************************************************************)
MCForget(k) ==
  IF k.row = None \/ k.pc \in {"insert", "notify"} THEN k ELSE
  [k EXCEPT !.row =
     LET checking == k.pc \in {"code", "verify", "watch"} IN
     [@ EXCEPT !.revoked  = checking /\ (@ \/ k.row.wiped \/ k.row.locked),
               !.cooling  = checking /\ @,
               !.sessions = IF checking \/ k.pc \in {"bump", "spend", "open"} THEN @ ELSE 0,
               !.failed   = IF k.pc \in {"verify", "fail"} THEN @ ELSE 0,
               !.codes    = IF k.pc \in Sending \cup {"code"} THEN @ ELSE 0,
               !.wiped    = FALSE, !.locked = FALSE, !.viewed = FALSE,
               !.link     = FALSE, !.contact = FALSE]]
MCView ==
  <<job, video, box, share, taken, expired, linked, code, resend, session, played,
    [r \in Requests |-> MCForget(request[r])], wiper, sent, withdrawn, granted, accepted, failures>>

MCSymmetry == Permutations(Requests)
=============================================================================

---------------------------- MODULE JobLifecycle ----------------------------
(***************************************************************************)
(* What the review workflow promises about each job, whoever runs it: the  *)
(* life cycle of docs/PLAN.md section 4 and what may happen to the video   *)
(* along it.  A job is worked on only while it is processing; it becomes   *)
(* approved only from review; a video that was approved is the one that is *)
(* released, and a released job is never touched again.                    *)
(***************************************************************************)
CONSTANTS
  Jobs,
  Videos,       \* what a rendered video can be
  Approvable,   \* the videos an approval may stand for
  None

VARIABLES status, video

vars == <<status, video>>

Statuses == {"queued", "processing", "needs_review", "approved", "released", "failed", "rejected"}

TypeOK ==
  /\ status \in [Jobs -> Statuses]
  /\ video \in [Jobs -> Videos \cup {None}]

Init ==
  /\ status = [j \in Jobs |-> "queued"]
  /\ video = [j \in Jobs |-> None]

Move(j, from, to) ==
  /\ status[j] \in from
  /\ status' = [status EXCEPT ![j] = to]
  /\ UNCHANGED video

Begin(j)  == Move(j, {"queued"}, "processing")
Finish(j) == video[j] # None /\ Move(j, {"processing"}, "needs_review")
Fail(j)   == Move(j, {"processing"}, "failed")

\* The video is removed and made anew only while the job is processing.
Render(j) ==
  /\ status[j] = "processing"
  /\ \E v \in Videos \cup {None} : video' = [video EXCEPT ![j] = v]
  /\ UNCHANGED status

Rerun(j)   == Move(j, {"needs_review", "approved", "failed", "rejected"}, "queued")
Approve(j) == video[j] \in Approvable /\ Move(j, {"needs_review"}, "approved")
Reject(j)  == Move(j, {"needs_review", "approved"}, "rejected")
Release(j) == Move(j, {"approved"}, "released")

Next == \E j \in Jobs :
  \/ Begin(j) \/ Finish(j) \/ Fail(j) \/ Render(j)
  \/ Rerun(j) \/ Approve(j) \/ Reject(j) \/ Release(j)

Spec == Init /\ [][Next]_vars
=============================================================================

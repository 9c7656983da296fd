----------------------------- MODULE MCRecapJob -----------------------------
(* Small instances of RecapJob for TLC. *)
EXTENDS RecapJob, TLC

CONSTANTS s1, s2, e1, e2, c1

\* s1 fits both readings of the return; s2 fits e1 only and fails verification.
MCAccepts    == {<<s1, e1>>, <<s1, e2>>, <<s2, e1>>}
MCTraces     == {s1}
\* e2 is a misread return: it does not reconcile.
MCMismatches == (e1 :> {}) @@ (e2 :> {c1})

(***************************************************************************)
(* Two columns matter under one status each: resume_from when a slot reads *)
(* a queued row, step when it reads a processing one, and both are written *)
(* on every way into that status; no handler reads them.  States that      *)
(* differ in them elsewhere, or in a run's copy of them once the run has   *)
(* started, behave alike.                                                  *)
(***************************************************************************)
MCForget(r, status) ==
  [r EXCEPT !.resumeFrom = IF status = "queued" THEN @ ELSE None,
            !.step = IF status = "processing" THEN @ ELSE None]
MCWorkerView(k) ==
  CASE k.job = None     -> k
    [] k.pc = "decide"  -> [k EXCEPT !.job = MCForget(@, @.status)]
    [] OTHER            -> [k EXCEPT !.job = MCForget(@, None)]
MCView ==
  <<[j \in Jobs |-> MCForget(row[j], row[j].status)], files, revisions, queue, stalled,
    [w \in Workers |-> MCWorkerView(worker[w])], request, accepted, workerCrashes, apiCrashes>>

MCSymmetry   == Permutations(Requests)
=============================================================================

------------------------------ MODULE JobPage -------------------------------
(***************************************************************************)
(* The page of one job in one browser.  Every panel shows an answer of the *)
(* API that was true when it was given, polls or asks again on its own     *)
(* rules, and sends commands on what it shows, while the worker and other  *)
(* people change the job.  Calls may be answered late, out of order or not *)
(* at all.  The job itself is the subject of RecapJob: here it is a status *)
(* and the versions of its script and extraction.                          *)
(* Sources: apps/web: lib/useApi, lib/api, pages/Job, components/          *)
(* ScriptEditor, ExtractionPanel, ExtractionOverrides, VideoPanel,         *)
(* SharePanel, FeedbackPanel, RevisionPanel.                               *)
(***************************************************************************)
EXTENDS Integers, SequencesExt

CONSTANTS
  PanelSets,   \* sets of panels: in a behaviour the preparer works with the panels of one of them
  Colleagues,  \* the commands other people send meanwhile
  InOrder,     \* TRUE: calls of one kind are answered in the order they were made
  MaxChanges,  \* bound: versions of the job, counted by its updatedAt
  MaxLost,     \* bound: calls that fail
  MaxCalls     \* bound: calls of each kind in flight

Gets == {"job", "script", "extraction"}

ASSUME JobPageAssumption ==
  /\ Colleagues \subseteq {"save", "regenerate", "approve", "reject", "release"}
  /\ \A ps \in PanelSets : ps \subseteq {"editor", "figures", "override", "overrides", "exception",
                                         "revision", "feedback", "video", "share", "row", "header"}
  /\ InOrder \in BOOLEAN
  /\ MaxChanges \in Nat \ {0} /\ MaxLost \in Nat /\ MaxCalls \in [Gets -> Nat \ {0}]

Statuses == {"queued", "processing", "needs_review", "approved", "rejected", "failed", "released"}
Typed == -1    \* text that exists in a form only, the editor's among them
Sent == -3     \* the same, while the command it was sent with is under way
Nothing == -2  \* not fetched, not answered yet, not typed
Failed == -4   \* an alert in the place of what was fetched
Versions == 0..MaxChanges

VARIABLES
  job,      \* at the server: status, updatedAt, and the versions of script and extraction
  shown,    \* the page: the job it shows, and whether its last fetch failed
  editor,   \* the script editor: what it fetched, the text, dirty, what job it fetched for
  figures,  \* the extraction panel: the extraction it fetched
  panels,   \* the panels the preparer works with
  draft,    \* what is typed in each of their forms (the editor's is editor.text)
  calls,    \* the GETs in flight, oldest first, each with its answer (for the job: updatedAt and status)
  command,  \* the POST or PUT each panel waits for
  lost

pageVars == <<job, shown, editor, figures, panels, draft, calls, command, lost>>

(* A panel: the commands it sends; those that carry what is typed in it; the commands whose
   success empties it; and whether its form "dies" (with what is typed) when the job leaves the
   statuses it is offered in, "lasts" (stays on the screen whatever the status, once opened), is
   "locked" while a command is under way, or can be "cancelled". *)
Form(ops, text, empties, is) == [ops |-> ops, text |-> text, empties |-> empties, is |-> is]
Buttons(ops) == Form(ops, {}, {}, {})

ScriptEditor == Buttons({"save", "regenerate"})
ExtractionPanel == Buttons({"reextract"})
OverrideForm == Form({"override"}, {"override"}, {"override", "unoverride"}, {"dies", "cancelled"})
OverrideList == Buttons({"unoverride"})
ExceptionForm == Form({"except"}, {"except"}, {"except"}, {"dies"})
RevisionPanel == Form({"revise"}, {"revise"}, {"revise"}, {"locked"})
FeedbackPanel == Form({"up", "down"}, {"down"}, {"up", "down"}, {"lasts"})
VideoPanel == LET ops == {"approve", "reject", "rerender", "release"} IN
  Form(ops, {"reject"}, ops, {"lasts"})
SharePanel == Form({"share"}, {"share"}, {"share"}, {})
ShareRow == Form({"link", "unlink", "revoke", "reissue"}, {"link"}, {"link", "unlink"}, {"dies", "cancelled"})
Header == Buttons({"retry"})

Panel == [editor |-> ScriptEditor, figures |-> ExtractionPanel, override |-> OverrideForm,
          overrides |-> OverrideList, exception |-> ExceptionForm, revision |-> RevisionPanel,
          feedback |-> FeedbackPanel, video |-> VideoPanel, share |-> SharePanel, row |-> ShareRow,
          header |-> Header]
Ops == UNION {Panel[p].ops : p \in DOMAIN Panel}
OnFigures == {"figures", "override", "overrides", "exception"}

Reviewed == {"needs_review", "failed", "rejected", "approved"}
(* The statuses in which a panel offers the command, and in which its handler takes it. *)
TakenIn(op) ==
  CASE op \in {"save", "regenerate", "revise", "reextract", "override", "unoverride"} -> Reviewed
    [] op \in {"except", "retry"} -> {"failed"}
    [] op = "approve" -> {"needs_review"}
    [] op = "reject" -> {"needs_review", "approved"}
    [] op = "rerender" -> {"needs_review", "failed", "rejected"}
    [] op = "release" -> {"approved"}
    [] op \in {"up", "down"} -> Reviewed \cup {"released"}
    [] op \in {"share", "link", "unlink", "revoke", "reissue"} -> {"approved", "released"}
(* What the handler makes of the job; some commands leave it as it is. *)
Quiet(op) == op \in {"up", "down", "link", "unlink", "revoke", "reissue"}
Outcome(op) ==
  CASE op = "approve" -> "approved" [] op = "reject" -> "rejected" [] op \in {"release", "share"} -> "released"
    [] OTHER -> "queued"

Asked == [version |-> Nothing, status |-> "none"]
NoCommand == [op |-> "none", phase |-> "none"]
NewEditor == [script |-> Nothing, text |-> Nothing, dirty |-> FALSE, failed |-> FALSE]
OnScreen == shown.job # Nothing /\ ~shown.failed

PageInit ==
  /\ \E s \in {"processing", "needs_review"} :
       /\ job = [status |-> s, at |-> 1, script |-> 0, extraction |-> 0]
       /\ shown = [job |-> Nothing, status |-> s, failed |-> FALSE]
  /\ editor = NewEditor
  /\ figures = Nothing
  /\ panels \in PanelSets
  /\ draft = [p \in panels |-> Nothing]
  /\ calls = [k \in Gets |-> IF k = "job" THEN <<Asked>> ELSE <<>>]
  /\ command = [p \in panels |-> NoCommand]
  /\ lost = 0

-----------------------------------------------------------------------------
(* The server: the worker and other people. *)

Change(status, script) ==
  /\ job.at < MaxChanges
  /\ job' = [job EXCEPT !.status = status, !.at = job.at + 1,
                        !.script = IF script THEN job.at + 1 ELSE @]

(* The worker takes the job, stores a script or an extraction, and ends the pass. *)
WorkerStep ==
  /\ \/ job.status = "queued" /\ Change("processing", FALSE)
     \/ job.status = "processing" /\ \E s \in {"needs_review", "failed"} : Change(s, FALSE)
  /\ UNCHANGED <<shown, editor, figures, panels, draft, calls, command, lost>>

WorkerStores(k) ==
  /\ job.status = "processing" /\ job[k] # job.at
  /\ job' = [job EXCEPT ![k] = job.at]
  /\ UNCHANGED <<shown, editor, figures, panels, draft, calls, command, lost>>

SomeoneElse(op) ==
  /\ job.status \in TakenIn(op)
  /\ Change(Outcome(op), op = "save")
  /\ UNCHANGED <<shown, editor, figures, panels, draft, calls, command, lost>>

(* The handler of a GET: the answer holds what is stored now. *)
Reply(k, i) ==
  /\ i \in DOMAIN calls[k] /\ calls[k][i] = Asked
  /\ calls' = [calls EXCEPT ![k][i] =
       IF k = "job" THEN [version |-> job.at, status |-> job.status]
       ELSE [version |-> job[k], status |-> "stored"]]
  /\ UNCHANGED <<job, shown, editor, figures, panels, draft, command, lost>>

(* The handler of a command judges the status the job has now; it may refuse for a reason the
   page does not show, too (a revision is pending, the script has flags, a link is malformed). *)
HandleCommand(p) ==
  LET op == command[p].op IN
  /\ command[p].phase = "sent"
  /\ \/ /\ job.status \in TakenIn(op)
        /\ IF Quiet(op) \/ job.status = Outcome(op) THEN UNCHANGED job
                                                  ELSE Change(Outcome(op), op = "save")
        /\ command' = [command EXCEPT ![p].phase = "ok"]
     \/ /\ command' = [command EXCEPT ![p].phase = "refused"]
        /\ UNCHANGED job
  /\ UNCHANGED <<shown, editor, figures, panels, draft, calls, lost>>

-----------------------------------------------------------------------------
(* useApi: a fetch on mount, one per interval (the job only), one per reload. *)

Room(k) == Len(calls[k]) < MaxCalls[k]
Delivered(k, i) == /\ i \in DOMAIN calls[k] /\ calls[k][i] # Asked
                   /\ InOrder => i = 1

Poll ==
  /\ Room("job")
  /\ calls' = [calls EXCEPT !["job"] = Append(@, Asked)]
  /\ UNCHANGED <<job, shown, editor, figures, panels, draft, command, lost>>

(* The forms that are no longer offered unmount; that of an exception also when the job failed at
   another step than recon, or no check fails any more. *)
Closed(status, passed) ==
  [p \in panels |-> IF \/ "dies" \in Panel[p].is /\ \E op \in Panel[p].text : status \notin TakenIn(op)
                       \/ p = "exception" /\ passed
                    THEN Nothing ELSE draft[p]]

(* Mutant: the editor fetches the script only when it mounts. *)
JobArrives_Mounted(i) ==
  LET answer == calls["job"][i]
      left == RemoveAt(calls["job"], i)
      asked(k) == Append(calls[k], Asked) IN
  /\ Delivered("job", i) /\ Room("script")
  /\ shown' = [job |-> answer.version, status |-> answer.status, failed |-> FALSE]
  /\ calls' = [calls EXCEPT !["job"] = left,
       !["script"] = IF OnScreen \/ "editor" \notin panels THEN @ ELSE asked("script"),
       !["extraction"] = IF OnScreen \/ panels \cap OnFigures = {} THEN @ ELSE asked("extraction")]
  /\ \E passed \in BOOLEAN : /\ passed => answer.version # shown.job
                             /\ draft' = Closed(answer.status, passed)
  /\ UNCHANGED <<job, editor, figures, panels, command, lost>>

(* The page shows the job; panels that were not there mount and fetch, and the editor asks
   for the script again when the status or updatedAt of the job has changed.  (Mounting, the
   editor asks twice for the same; one of the two calls stands for both.) *)
JobArrives(i) ==
  LET answer == calls["job"][i]
      left == RemoveAt(calls["job"], i)
      asked(k) == Append(calls[k], Asked) IN
  /\ Delivered("job", i) /\ Room("script")
  /\ shown' = [job |-> answer.version, status |-> answer.status, failed |-> FALSE]
  /\ calls' = [calls EXCEPT !["job"] = left,
       !["script"] = IF (OnScreen /\ answer.version = shown.job) \/ "editor" \notin panels
                     THEN @ ELSE asked("script"),
       !["extraction"] = IF OnScreen \/ panels \cap OnFigures = {} THEN @ ELSE asked("extraction")]
  /\ \E passed \in BOOLEAN : /\ passed => answer.version # shown.job
                             /\ draft' = Closed(answer.status, passed)
  /\ UNCHANGED <<job, editor, figures, panels, command, lost>>

(* A failed poll replaces the page, panels included, by an alert: what they held is gone,
   and answers that arrive later find nobody.  (A command the panels had sent is from now on
   one of SomeoneElse.) *)
JobFails(i) ==
  /\ i \in DOMAIN calls["job"] /\ (InOrder => i = 1)
  /\ lost < MaxLost /\ lost' = lost + 1
  /\ shown' = [shown EXCEPT !.failed = TRUE]
  /\ calls' = [k \in Gets |-> IF k = "job" THEN RemoveAt(calls[k], i) ELSE <<>>]
  /\ editor' = NewEditor
  /\ figures' = Nothing
  /\ command' = [p \in panels |-> NoCommand]
  /\ draft' = [p \in panels |-> Nothing]
  /\ UNCHANGED <<job, panels>>

(* Mutant: fetched text replaces what is being typed. *)
Sync_Always(e) == IF e.script = Nothing THEN e ELSE [e EXCEPT !.text = e.script]

(* The text follows the stored script as long as nobody has typed. *)
Sync(e) == IF e.dirty \/ e.script = Nothing THEN e ELSE [e EXCEPT !.text = e.script]

ScriptArrives(i) ==
  /\ Delivered("script", i)
  /\ editor' = Sync([editor EXCEPT !.script = calls["script"][i].version, !.failed = FALSE])
  /\ calls' = [calls EXCEPT !["script"] = RemoveAt(@, i)]
  /\ UNCHANGED <<job, shown, figures, panels, draft, command, lost>>

ScriptFails(i) ==
  /\ i \in DOMAIN calls["script"] /\ (InOrder => i = 1)
  /\ lost < MaxLost /\ lost' = lost + 1
  /\ editor' = [editor EXCEPT !.failed = TRUE]
  /\ calls' = [calls EXCEPT !["script"] = RemoveAt(@, i)]
  /\ UNCHANGED <<job, shown, figures, panels, draft, command>>

FiguresArrive(i) ==
  /\ Delivered("extraction", i)
  /\ figures' = calls["extraction"][i].version
  /\ \E passed \in BOOLEAN : /\ passed => figures' # figures
                             /\ draft' = Closed(shown.status, passed)
  /\ calls' = [calls EXCEPT !["extraction"] = RemoveAt(@, i)]
  /\ UNCHANGED <<job, shown, editor, panels, command, lost>>

(* An alert takes the place of the panel, and of the forms in it. *)
FiguresFail(i) ==
  /\ i \in DOMAIN calls["extraction"] /\ (InOrder => i = 1)
  /\ lost < MaxLost /\ lost' = lost + 1
  /\ figures' = Failed
  /\ draft' = [p \in panels |-> IF p \in {"override", "exception"} THEN Nothing ELSE draft[p]]
  /\ calls' = [calls EXCEPT !["extraction"] = RemoveAt(@, i)]
  /\ UNCHANGED <<job, shown, editor, panels, command>>

-----------------------------------------------------------------------------
(* The preparer. *)

Busy(p) == command[p] # NoCommand

(* Mutant: the change handler forgets setDirty. *)
Type_Clean ==
  /\ OnScreen /\ editor.text # Nothing /\ ~editor.failed /\ shown.status \in TakenIn("save")
  /\ editor' = [editor EXCEPT !.text = Typed]
  /\ UNCHANGED <<job, shown, figures, panels, draft, calls, command, lost>>

(* Also while a save or a regeneration is under way.  The text can be changed once the page has an
   extraction, which it polls for itself; that only delays the preparer, and is left out. *)
Type ==
  /\ OnScreen /\ editor.text # Nothing /\ ~editor.failed /\ shown.status \in TakenIn("save")
  /\ editor' = [editor EXCEPT !.text = Typed, !.dirty = TRUE]
  /\ UNCHANGED <<job, shown, figures, panels, draft, calls, command, lost>>

(* A command is offered in the statuses its handler takes; that of a form that lasts, always. *)
Offered(p, op) ==
  /\ OnScreen
  /\ shown.status \in TakenIn(op) \/ ("lasts" \in Panel[p].is /\ op \in Panel[p].text /\ draft[p] # Nothing)
  /\ p \in OnFigures \ {"figures"} => figures \notin {Nothing, Failed}

Fill(p) ==
  /\ \E op \in Panel[p].text : Offered(p, op)
  /\ "locked" \in Panel[p].is => ~Busy(p)
  /\ draft' = [draft EXCEPT ![p] = Typed]
  /\ UNCHANGED <<job, shown, editor, figures, panels, calls, command, lost>>

Cancel(p) ==
  /\ "cancelled" \in Panel[p].is /\ draft[p] # Nothing /\ ~Busy(p)
  /\ draft' = [draft EXCEPT ![p] = Nothing]
  /\ UNCHANGED <<job, shown, editor, figures, panels, calls, command, lost>>

(* Saving sends the text; regenerating sends none, whatever is typed. *)
Click(p, op) ==
  /\ Offered(p, op) /\ ~Busy(p)
  /\ op = "save" => editor.dirty
  /\ op \in Panel[p].text => draft[p] # Nothing
  /\ draft' = IF op \in Panel[p].text THEN [draft EXCEPT ![p] = Sent] ELSE draft
  /\ command' = [command EXCEPT ![p] = [op |-> op, phase |-> "sent"]]
  /\ editor' = IF op = "save" THEN [editor EXCEPT !.text = Sent] ELSE editor
  /\ UNCHANGED <<job, shown, figures, panels, calls, lost>>

(* onChanged reloads the job; a change of the figures also reloads the extraction panel, one of
   a share only the list of shares. *)
Reloads(op) ==
  (IF op \in ShareRow.ops THEN {} ELSE {"job"})
    \cup (IF op \in {"override", "unoverride", "except"} THEN {"extraction"} ELSE {})

(* The answer empties the forms, whatever has been typed since the command was sent. *)
CommandDone(p) ==
  LET op == command[p].op  reloads == Reloads(op) IN
  /\ command[p].phase = "ok"
  /\ \A k \in reloads : Room(k)
  /\ editor' = IF p = "editor" THEN Sync([editor EXCEPT !.dirty = FALSE]) ELSE editor
  /\ draft' = [q \in panels |-> IF op \in Panel[q].empties THEN Nothing ELSE draft[q]]
  /\ calls' = [k \in Gets |-> IF k \in reloads THEN Append(calls[k], Asked) ELSE calls[k]]
  /\ command' = [command EXCEPT ![p] = NoCommand]
  /\ UNCHANGED <<job, shown, figures, panels, lost>>

(* Refused, or the answer is lost, whether or not the handler ran: the panel shows an error, and
   what was sent is again what nobody is known to have taken. *)
CommandFails(p) ==
  /\ \/ command[p].phase = "refused" /\ UNCHANGED lost
     \/ command[p].phase # "none" /\ lost < MaxLost /\ lost' = lost + 1
  /\ command' = [command EXCEPT ![p] = NoCommand]
  /\ draft' = IF draft[p] = Sent THEN [draft EXCEPT ![p] = Typed] ELSE draft
  /\ editor' = IF p = "editor" /\ editor.text = Sent THEN [editor EXCEPT !.text = Typed] ELSE editor
  /\ UNCHANGED <<job, shown, figures, panels, calls>>

-----------------------------------------------------------------------------
Arrives(i) == JobArrives(i) \/ ScriptArrives(i) \/ FiguresArrive(i)
Slots == 1..Max({MaxCalls[k] : k \in Gets})
Loss == \E i \in Slots : JobFails(i) \/ ScriptFails(i) \/ FiguresFail(i)

PageNext ==
  \/ WorkerStep \/ WorkerStores("script") \/ WorkerStores("extraction")
  \/ \E op \in Colleagues : SomeoneElse(op)
  \/ Poll \/ Type \/ Loss
  \/ \E i \in Slots : Arrives(i) \/ \E k \in Gets : Reply(k, i)
  \/ \E p \in panels : \/ HandleCommand(p) \/ CommandDone(p) \/ CommandFails(p) \/ Fill(p) \/ Cancel(p)
                       \/ \E op \in Panel[p].ops : Click(p, op)

PageSpec == PageInit /\ [][PageNext]_pageVars

(* The interval timer fires, the API answers, answers are delivered, the worker works. *)
PageFairness ==
  /\ WF_pageVars(Poll) /\ WF_pageVars(WorkerStep)
  /\ \A i \in Slots :
       /\ WF_pageVars(JobArrives(i)) /\ WF_pageVars(ScriptArrives(i)) /\ WF_pageVars(FiguresArrive(i))
       /\ \A k \in Gets : WF_pageVars(Reply(k, i))
  /\ \A p \in DOMAIN Panel : WF_pageVars(p \in panels /\ (HandleCommand(p) \/ CommandDone(p)))

PageFairSpec == PageSpec /\ PageFairness

-----------------------------------------------------------------------------
PageTypeOK ==
  /\ job \in [status : Statuses, at : Versions, script : Versions, extraction : Versions]
  /\ shown \in [job : Versions \cup {Nothing}, status : Statuses, failed : BOOLEAN]
  /\ editor \in [script : Versions \cup {Nothing}, text : Versions \cup {Typed, Sent, Nothing},
                 dirty : BOOLEAN, failed : BOOLEAN]
  /\ editor.dirty <=> editor.text \in {Typed, Sent}
  /\ figures \in Versions \cup {Nothing, Failed}
  /\ panels \in PanelSets /\ draft \in [panels -> {Nothing, Typed, Sent}]
  /\ \A k \in Gets : Len(calls[k]) <= MaxCalls[k]
  /\ command \in [panels -> [op : Ops \cup {"none"}, phase : {"none", "sent", "ok", "refused"}]]
  /\ lost \in 0..MaxLost

(* What is typed in a panel, the commands that carry it, and those whose success empties the form. *)
Text(p) == IF p = "editor" THEN editor.text ELSE draft[p]
Carries(p) == IF p = "editor" THEN {"save"} ELSE Panel[p].text
Empties(p) == IF p = "editor" THEN Panel[p].ops ELSE Panel[p].empties

Gone(p) == Text(p) \in {Typed, Sent} /\ Text(p)' \notin {Typed, Sent}
FormEnds(p) ==
  \/ shown'.failed \/ Cancel(p)
  \/ /\ "dies" \in Panel[p].is
     /\ figures' = Failed \/ \E op \in Panel[p].text : shown'.status \notin TakenIn(op)
  \/ p = "exception" /\ (shown'.job # shown.job \/ figures' # figures)
Succeeds(p, ops) == command[p].op \in ops /\ command[p].phase = "ok"
Taken(p) == Text(p) = Sent /\ Succeeds(p, Carries(p))
Discarded(p) == \E q \in panels : Succeeds(q, Empties(p)) /\ (q # p \/ Text(p) = Typed)

(* ScriptEditor.tsx:20 and the forms: what the preparer has typed stays, whatever is fetched,
   refused or lost meanwhile.  It goes when the form does (a failed poll, a click on Cancel, a
   form that is no longer offered), when the server has taken the very command it was sent with, and
   in no other way but one: a command that was sent without it has succeeded, and empties the form.
   That is a regeneration, a save or a reason that was typed over while it was under way,
   or a button beside the form. *)
TypingKept == [][\A p \in panels : Gone(p) => FormEnds(p) \/ Taken(p) \/ Discarded(p)]_pageVars

(* The same without the last way: violated, see README. *)
TypingTaken == [][\A p \in panels : Gone(p) => FormEnds(p) \/ Taken(p)]_pageVars

(* useApi and ScriptEditor.tsx:24: once the worker has ended its pass and the job no longer changes, the
   page shows its status, and the editor the stored script, or the error of its last fetch.
   (The job stops changing in every behaviour of this specification: MaxChanges.) *)
PageSettles ==
  <>[](job.status \notin {"queued", "processing"} =>
         /\ shown.job = job.at
         /\ "editor" \in panels => editor.failed \/ editor.script = job.script)

(* ExtractionPanel.tsx:174 "No extraction yet. It appears once the worker finishes the extract
   step."  The panel fetches when it mounts and is not told: see README. *)
ExtractionAppears == (figures = 0 /\ job.extraction # 0) ~> (figures # 0)

=============================================================================

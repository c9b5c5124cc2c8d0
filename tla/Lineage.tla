-------------------------------- MODULE Lineage --------------------------------
(***************************************************************************)
(* A task that failed is resumed by a child: planned anew, sent back to    *)
(* the approval of its plan, executed from where the parent stopped on a   *)
(* copy of the parent's shadow, or validated once more.  A child may fail  *)
(* and be resumed in turn.  Clients follow a task by its event stream.     *)
(*                                                                         *)
(* A run is known by the steps in its shadow and those whose work has      *)
(* errors; how a run goes by itself is TaskRun and StepWorkspace.  The     *)
(* first task is taken from its approved plan on.                          *)
(***************************************************************************)
EXTENDS Naturals, Sequences

CONSTANTS
    MaxTasks,   \* bound: the tasks of the lineage
    MaxSteps,   \* bound: the steps of a plan
    MaxSnapshots \* bound: the plans a task has had, its feedback rounds among them

VARIABLE tasks

Stages == {"plan", "feedback", "execute", "validate"}
Terminal == {"SUCCEEDED", "FAILED", "ABORTED"}
NoShadow == {0}

\* The record: status, parent and stage, who resumed it, completed steps, baseline errors,
\* whether it has an executable plan and how many snapshots of an approval, one in the
\* other, whether it names a shadow; its coroutine; the steps in the shadow, whether the removal
\* of the shadow broke off; the steps with errors; of its stream, whether "done" was
\* broadcast, and a client.  The user may have accepted errors, or cancelled the task, or
\* its executable plan may have been invalid; and it, or an ancestor whose run it only
\* validates, may have begun on the work of another.
Root ==
    [status |-> "EXECUTING", parent |-> 0, stage |-> "plan", via |-> "route", done |-> 0,
     base |-> {}, plan |-> TRUE, snaps |-> 1, path |-> TRUE, pc |-> "run", work |-> {}, torn |-> FALSE, errs |-> {},
     told |-> FALSE, stream |-> "none", accepted |-> FALSE, cancelled |-> FALSE,
     unplanned |-> FALSE, rerun |-> FALSE]

Tasks == DOMAIN tasks
Set(t, r) == tasks' = [tasks EXCEPT ![t] = r]

\* A run ends: "done" is broadcast, which closes the streams.
Done(r, status) ==
    [r EXCEPT !.status = status, !.pc = "rest", !.told = TRUE, !.stream = "none"]

Gone(r) == [r EXCEPT !.path = FALSE, !.work = IF r.path THEN NoShadow ELSE @, !.torn = FALSE]

-----------------------------------------------------------------------------
(* A run                                                                    *)

StepBegins(t) ==
    /\ tasks[t].pc = "run" /\ tasks[t].status = "EXECUTING" /\ tasks[t].done < MaxSteps
    /\ Set(t, [tasks[t] EXCEPT !.pc = "step", !.work = @ \cup {tasks[t].done + 1}])

\* A step that is verified may yet have broken what only the full validation sees.
StepVerified(t, breaks) ==
    /\ tasks[t].pc = "step"
    /\ Set(t, [tasks[t] EXCEPT !.pc = "run", !.done = @ + 1,
                               !.errs = IF breaks THEN @ \cup {tasks[t].done + 1} ELSE @])

\* The shadow is restored to what it was before the step.
StepFails(t) ==
    /\ tasks[t].pc = "step"
    /\ Set(t, Done([tasks[t] EXCEPT !.work = @ \ {tasks[t].done + 1}], "FAILED"))

Abort(t) ==
    /\ tasks[t].pc = "run" /\ tasks[t].status = "EXECUTING"
    /\ Set(t, Done(Gone(tasks[t]), "ABORTED"))

\* Full validation: the errors that are not of the baseline go to the user.
Validate(t) ==
    /\ tasks[t].pc = "run" /\ tasks[t].done = MaxSteps
    /\ Set(t, IF tasks[t].errs \subseteq tasks[t].base THEN Done(tasks[t], "READY_FOR_REVIEW")
              ELSE [tasks[t] EXCEPT !.pc = "gate", !.status = "AWAITING_VALIDATION_DECISION"])

ValidationDecided(t, accept) ==
    /\ tasks[t].pc = "gate"
    /\ Set(t, IF accept THEN Done([tasks[t] EXCEPT !.accepted = TRUE], "READY_FOR_REVIEW")
              ELSE Done(tasks[t], "FAILED"))

\* POST /accept.  It fails when a file cannot be promoted, or the shadow not be removed.
Accept(t, outcome) ==
    /\ tasks[t].status = "READY_FOR_REVIEW"
    /\ Set(t, CASE outcome = "promoted" -> [Gone(tasks[t]) EXCEPT !.status = "SUCCEEDED"]
                [] outcome = "failed"   -> [tasks[t] EXCEPT !.status = "FAILED"]
                [] outcome = "torn"     -> [tasks[t] EXCEPT !.status = "FAILED", !.torn = TRUE])

\* POST /reject
Discard(t) ==
    /\ tasks[t].status = "READY_FOR_REVIEW"
    /\ Set(t, [Gone(tasks[t]) EXCEPT !.status = "ABORTED"])

\* POST /cancel, of a task without a run; it broadcasts nothing.
Cancel(t) ==
    /\ tasks[t].pc \in {"rest", "clone"}
    /\ Set(t, [Gone(tasks[t]) EXCEPT !.status = IF @ \in Terminal THEN @ ELSE "ABORTED",
                                     !.cancelled = @ \/ tasks[t].status \notin Terminal])

-----------------------------------------------------------------------------
(* Resuming                                                                 *)

\* _in_flight_resume holds a parent while the route has a child of it in hand: until its
\* plan awaits approval, or its run has come to rest.
Holds(c) ==
    /\ tasks[c].via = "route"
    /\ \/ tasks[c].pc \in {"clone", "plan"}
       \/ tasks[c].stage \in {"execute", "validate"} /\ tasks[c].pc # "rest"
InFlight(p) == \E c \in Tasks : tasks[c].parent = p /\ Holds(c)

HasShadow(p) == tasks[p].path /\ tasks[p].work # NoShadow

\* Mutant: a parent in any status is resumed.
ResumableAnyStatus(p, stage) ==
    /\ stage = "feedback" => tasks[p].snaps > 0
    /\ stage \in {"execute", "validate"} => tasks[p].plan /\ HasShadow(p)
    /\ stage = "validate" => tasks[p].done = MaxSteps

\* The checks of the route, and of resume_from_execute.
Resumable(p, stage) ==
    /\ tasks[p].status \in {"FAILED", "ABORTED"}
    /\ stage = "feedback" => tasks[p].snaps > 0
    /\ stage \in {"execute", "validate"} => tasks[p].plan /\ HasShadow(p)
    /\ stage = "validate" => tasks[p].done = MaxSteps

\* A child planned anew has nothing of its parent; one sent back to its plan has the state
\* of the parent's snapshot, and the snapshot that was in it.
Child(p, stage, via) ==
    LET new == [Root EXCEPT !.parent = p, !.stage = stage, !.via = via, !.pc = "clone", !.plan = FALSE,
                            !.snaps = 0, !.path = FALSE, !.work = NoShadow,
                            !.rerun = stage = "execute" \/ (stage = "validate" /\ tasks[p].rerun)]
    IN CASE stage = "plan"     -> [new EXCEPT !.status = "QUEUED"]
         [] stage = "feedback" -> [new EXCEPT !.status = "AWAITING_PLAN_APPROVAL", !.pc = "rest",
                                              !.snaps = tasks[p].snaps - 1]
         [] OTHER -> [new EXCEPT !.status = "PLANNED", !.done = tasks[p].done, !.errs = tasks[p].errs,
                                 !.plan = TRUE, !.snaps = tasks[p].snaps,
                                 !.base = IF via = "route" THEN tasks[p].base ELSE {}]

\* POST /resume: the child is stored, its coroutine is left to start.
Resume(p, stage) ==
    /\ Len(tasks) < MaxTasks /\ ~InFlight(p) /\ Resumable(p, stage)
    /\ tasks' = Append(tasks, Child(p, stage, "route"))

\* resume_from_execute: the chat's own way, which no other resume holds up.
ResumeFromChat(p) ==
    /\ Len(tasks) < MaxTasks /\ Resumable(p, "execute")
    /\ tasks' = Append(tasks, Child(p, "execute", "chat"))

\* prepare(): a fresh shadow of the workspace.
Prepared(r) == [r EXCEPT !.path = TRUE, !.work = {}]

\* The child's coroutine.  Without the parent's shadow it raises, and the child stays
\* as it is.  A child cancelled meanwhile is given its shadow, and then cannot start.
\* Execution collects its baseline from the shadow it is given; validation has the parent's.
Launch(c) ==
    LET r == tasks[c]
        p == tasks[r.parent]
        copy == [r EXCEPT !.path = TRUE, !.work = p.work, !.torn = p.torn]
    IN
    /\ r.pc = "clone"
    /\ Set(c, IF r.stage = "plan"
              THEN IF r.status = "QUEUED" THEN [Prepared(r) EXCEPT !.pc = "plan", !.status = "CONTEXT_READY"]
                   ELSE Done(r, r.status)
              ELSE IF p.work = NoShadow THEN [r EXCEPT !.pc = "rest"]
              ELSE IF r.status = "ABORTED" THEN Done(copy, "ABORTED")
              ELSE IF r.stage = "execute" THEN [copy EXCEPT !.pc = "run", !.status = "EXECUTING", !.base = r.errs]
              ELSE [copy EXCEPT !.pc = "run", !.status = "VALIDATING"])

\* run_task and continue_task, at the end of their planning: the plan goes to the user, or
\* an exception ends the task.  (A shadow that cannot be prepared is one of these.)
PlanEnds(t, made) ==
    /\ tasks[t].pc \in {"plan", "regen"}
    /\ Set(t, IF made THEN [tasks[t] EXCEPT !.pc = "rest", !.status = "AWAITING_PLAN_APPROVAL",
                                            !.snaps = @ + 1]
              ELSE Done(tasks[t], "FAILED"))

\* POST /plan/feedback: continue_task, on a fresh shadow, plans once more or, when the plan
\* is approved, has the executable one made of it.
Feedback(t, approved) ==
    /\ tasks[t].status = "AWAITING_PLAN_APPROVAL"
    /\ approved \/ tasks[t].snaps < MaxSnapshots
    /\ Set(t, IF approved THEN [Prepared(tasks[t]) EXCEPT !.pc = "json", !.status = "PLANNED"]
              ELSE [Prepared(tasks[t]) EXCEPT !.pc = "regen", !.status = "CONTEXT_READY"])

\* An executable plan that does not fit the schema fails the task and returns: nothing is
\* broadcast.  Any other failure is an exception, which broadcasts "done".
PlanApproved(t, outcome) ==
    /\ tasks[t].pc = "json"
    /\ Set(t, CASE outcome = "valid"   -> [tasks[t] EXCEPT !.pc = "run", !.status = "EXECUTING", !.plan = TRUE]
                [] outcome = "invalid" -> [tasks[t] EXCEPT !.pc = "rest", !.status = "FAILED", !.unplanned = TRUE]
                [] outcome = "raises"  -> Done(tasks[t], "FAILED"))

-----------------------------------------------------------------------------

\* GET /stream-patch: what was broadcast is replayed, and a task that is over needs no
\* more; such a stream closes at once.  One client is modelled, of any task.
Subscribe(t) ==
    /\ \A u \in Tasks : tasks[u].stream = "none"
    /\ ~tasks[t].told
    /\ ~(tasks[t].pc \in {"rest", "clone"} /\ tasks[t].status \in Terminal \cup {"READY_FOR_REVIEW"})
    /\ Set(t, [tasks[t] EXCEPT !.stream = "open"])

Init == tasks = <<Root>>

Next ==
    \E t \in Tasks :
      \/ StepBegins(t) \/ StepFails(t) \/ Abort(t) \/ Validate(t) \/ Discard(t) \/ Cancel(t)
      \/ ResumeFromChat(t) \/ Launch(t) \/ Subscribe(t)
      \/ \E b \in BOOLEAN : StepVerified(t, b) \/ ValidationDecided(t, b) \/ PlanEnds(t, b) \/ Feedback(t, b)
      \/ \E o \in {"valid", "invalid", "raises"} : PlanApproved(t, o)
      \/ \E o \in {"promoted", "failed", "torn"} : Accept(t, o)
      \/ \E s \in Stages : Resume(t, s)

\* What a resumed run stands on.  Between two steps its shadow holds the work of its
\* completed steps, all of it and no other, through any number of resumes, unless a removal
\* of an ancestor's shadow broke off.  A task ready for review without the user's consent
\* has no error, unless its baseline is of a resumed execution.  The route has one child
\* of a parent in hand at a time.  And a client is left waiting on a task that is over only
\* if the user has cancelled it, or its executable plan was invalid.
ResumeContinues ==
    /\ \A t \in Tasks : tasks[t].pc = "run" /\ ~tasks[t].torn => tasks[t].work = 1 .. tasks[t].done
    /\ \A t \in Tasks : tasks[t].status = "READY_FOR_REVIEW" /\ ~tasks[t].accepted /\ ~tasks[t].rerun
                          => tasks[t].errs = {}
    /\ \A c, d \in Tasks : tasks[c].parent = tasks[d].parent /\ Holds(c) /\ Holds(d) => c = d
    /\ \A t \in Tasks : tasks[t].stream = "open" /\ tasks[t].pc = "rest" /\ tasks[t].status \in Terminal
                          => tasks[t].cancelled \/ tasks[t].unplanned
=============================================================================

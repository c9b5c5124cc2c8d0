------------------------------- MODULE TaskRun -------------------------------
(***************************************************************************)
(* One task of the orchestrator, from POST /tasks to its final decision:   *)
(* the coroutine that runs it (run_task, continue_task, _execute_plan and  *)
(* the gates they wait at) and the routes that touch it meanwhile.         *)
(*                                                                         *)
(* agentd is a single-process asyncio program: a coroutine keeps the       *)
(* processor until it awaits something that is not ready.  Store and       *)
(* workspace calls never suspend, so an action here is the whole stretch   *)
(* of code between two suspension points, saves included, and pc names the *)
(* point the coroutine waits at.  The store hands out a fresh copy on      *)
(* every get: db is the stored record, loc the copy the coroutine works on *)
(* and saves back whole.                                                   *)
(***************************************************************************)
EXTENDS TaskStatus, Naturals

CONSTANTS
    NSteps,         \* bound: the steps a plan may have
    MaxAttempts,    \* max_attempts_per_step of the orchestrator
    MaxReplans,     \* budget.max_delta_replans
    MaxIterations,  \* budget.max_iterations, counted over the whole run
    MaxTurns,       \* bound: the gates one attempt's tool loop may raise
    Timeouts,       \* the gates that give up after a while
    Requests,       \* the optional client behaviours of this instance
    AutoAccept      \* the values step_review_auto_accept may start with

\* "cancel" : POST /cancel at any time;       "abort" : POST /abort;
\* "pref"   : POST /review-pref;              "early" : accept or reject while
\* the finished run still writes its narrative.
AllRequests == {"cancel", "abort", "pref", "early"}

ASSUME TaskRunAssumption ==
    /\ NSteps \in Nat /\ MaxAttempts \in Nat \ {0} /\ MaxReplans \in Nat
    /\ MaxIterations \in Nat /\ MaxTurns \in Nat
    /\ Requests \subseteq AllRequests
    /\ Timeouts \subseteq {"scope", "command", "validation"}
    /\ AutoAccept \subseteq BOOLEAN /\ AutoAccept # {}

VARIABLES
    db,        \* the record in the store
    loc,       \* the copy held by the coroutine (its local variable task)
    pc,        \* where the coroutine waits; "idle" when there is none
    ask,       \* what the last plan-feedback call asked for
    busy,      \* the task is in _in_flight_feedback
    running,   \* the task is in _running_tasks
    ctl,       \* its TaskControl, if one is registered
    future,    \* the decision future of each gate
    rules,     \* the CommandRuleStore of the workspace has the command
    disk,      \* the directories on disk: the shadow and the pinned baseline
    attempt,   \* the attempt of the step that is running
    turns,     \* the gates this attempt has raised
    repair     \* the running step is the repair step

vars == <<db, loc, pc, ask, busy, running, ctl, future, rules, disk, attempt, turns, repair>>

\* The fields of a TaskRecord that decide control: how many plan steps are
\* not completed, the pending_* payloads, the approvals remembered for the
\* task, whether run_events is non-empty, and the two path fields.
Record ==
    [ status     : Status,
      todo       : 0 .. NSteps,
      replans    : 0 .. MaxReplans,
      iters      : 0 .. MaxIterations + 1,
      pending    : SUBSET Gates,
      remembered : SUBSET {"scope", "command"},
      events     : BOOLEAN,
      shadow     : BOOLEAN,
      baseline   : BOOLEAN ]

NewRecord ==
    [ status |-> "QUEUED", todo |-> 0, replans |-> 0, iters |-> 0, pending |-> {},
      remembered |-> {}, events |-> FALSE, shadow |-> FALSE, baseline |-> FALSE ]

Places ==
    {"start", "ensure", "planning", "idle", "scheduled", "regen", "json", "baseline",
     "tools", "scope", "command", "review", "replan", "validate", "validation", "narrate"}

\* Inside _execute_plan, before its finally.
Executing ==
    {"baseline", "tools", "scope", "command", "review", "replan", "validate", "validation"}

Control == [on : BOOLEAN, abort : BOOLEAN, revert : BOOLEAN, auto : BOOLEAN]

NoControl == [on |-> FALSE, abort |-> FALSE, revert |-> FALSE, auto |-> FALSE]

Answers == {"accept", "remember", "reject"}

Directories == [shadow : BOOLEAN, baseline : BOOLEAN]

Set(r, s) == [r EXCEPT !.status = s]

-----------------------------------------------------------------------------
(* Stretches of the coroutine.  Each one is given the record r it works on  *)
(* and the directories k it leaves, and says where the coroutine waits next *)

\* Wait at place p with record r, having saved d.
Park(p, d, r, k) ==
    /\ db' = d /\ loc' = r /\ pc' = p /\ disk' = k
    /\ UNCHANGED <<busy, running, ctl>>

\* No step is being attempted.
NoAttempt == attempt' = 0 /\ turns' = 0 /\ repair' = FALSE

\* Mutant: the control is not released in the finally.
EndRunKeepsControl(r, s, k) ==
    /\ db' = Set(r, s) /\ loc' = Set(r, s) /\ disk' = k
    /\ pc' = "narrate" /\ running' = FALSE
    /\ UNCHANGED <<busy, ctl>> /\ NoAttempt

\* The end of _execute_plan: the status is saved, the finally drops the
\* control and the running mark, tells the stream "done" and awaits the
\* narrative of the run.
EndRun(r, s, k) ==
    /\ db' = Set(r, s) /\ loc' = Set(r, s) /\ disk' = k
    /\ pc' = "narrate" /\ running' = FALSE /\ ctl' = NoControl
    /\ UNCHANGED busy /\ NoAttempt

FailRun(r, k) == EndRun(r, "FAILED", k)

\* except TaskAborted: roll back if asked to, drop the shadow, save ABORTED.
\* A run that recorded no event has a fixed narrative and never suspends.
AbortRun(r, k) ==
    LET gone == [r EXCEPT !.shadow = FALSE]
        done == [gone EXCEPT !.baseline = FALSE, !.status = "ABORTED"]
    IN  IF r.events
        THEN EndRun(gone, "ABORTED", [k EXCEPT !.shadow = FALSE])
        ELSE /\ db' = done /\ loc' = done
             /\ disk' = [shadow |-> FALSE, baseline |-> FALSE]
             /\ pc' = "idle" /\ running' = FALSE /\ ctl' = NoControl
             /\ busy' = FALSE /\ NoAttempt

\* Mutant: the iteration is not counted.
StartAttemptUncounted(d, r, n, rep, k) ==
    \/ FailRun(r, k)
    \/ /\ r.iters <= MaxIterations /\ k.shadow
       /\ Park("tools", d, r, k)
       /\ attempt' = n /\ turns' = 0 /\ repair' = rep

\* One attempt of a step: the budget is asserted (iterations; the run time is
\* abstracted to a choice), usage is bumped in the local copy only, the shadow
\* is copied to a checkpoint, and the tool loop starts.
StartAttempt(d, r, n, rep, k) ==
    LET bumped == [r EXCEPT !.iters = @ + 1]
    IN  \/ FailRun(r, k)
        \/ /\ r.iters <= MaxIterations /\ ~k.shadow
           /\ FailRun(bumped, k)
        \/ /\ r.iters <= MaxIterations /\ k.shadow
           /\ Park("tools", d, bumped, k)
           /\ attempt' = n /\ turns' = 0 /\ repair' = rep

\* Mutant: the abort is not looked at between two steps.
LoopTopDeaf(r, k) ==
    \/ /\ r.todo > 0
       /\ StartAttempt(r, r, 1, FALSE, k)
    \/ /\ r.todo = 0
       /\ Park("validate", Set(r, "VALIDATING"), Set(r, "VALIDATING"), k)
       /\ NoAttempt

\* The head of the loop over the plan's steps, entered with r just saved.
LoopTop(r, k) ==
    \/ /\ r.todo > 0 /\ ctl.abort
       /\ AbortRun(r, k)
    \/ /\ r.todo > 0 /\ ~ctl.abort
       /\ StartAttempt(r, r, 1, FALSE, k)
    \/ /\ r.todo = 0
       /\ Park("validate", Set(r, "VALIDATING"), Set(r, "VALIDATING"), k)
       /\ NoAttempt

\* A step's changes are in the real workspace: mark it completed and go on.
CompleteStep(r, k) == LoopTop([r EXCEPT !.todo = @ - 1, !.events = TRUE], k)

-----------------------------------------------------------------------------
(* run_task                                                                 *)

RunTaskBegin ==
    /\ pc = "start"
    /\ loc' = db /\ pc' = "ensure"
    /\ UNCHANGED <<db, ask, busy, running, ctl, future, rules, disk, attempt, turns, repair>>

\* The environment profile is there: CONTEXT_READY, the shadow, retrieval.
EnvEnsured ==
    LET ready == [loc EXCEPT !.status = "CONTEXT_READY", !.shadow = TRUE]
    IN  /\ pc = "ensure" /\ CanTransition(loc.status, "CONTEXT_READY")
        /\ running' = TRUE
        /\ db' = ready /\ loc' = ready /\ pc' = "planning"
        /\ disk' = [disk EXCEPT !.shadow = TRUE]
        /\ UNCHANGED <<ask, busy, ctl, future, rules, attempt, turns, repair>>

PlanGenerated ==
    /\ pc = "planning"
    /\ db' = Set(loc, "AWAITING_PLAN_APPROVAL") /\ loc' = db'
    /\ pc' = "idle" /\ running' = FALSE
    /\ UNCHANGED <<ask, busy, ctl, future, rules, disk, attempt, turns, repair>>

\* Anything in run_task raises: the transition to CONTEXT_READY (the task was
\* cancelled before the coroutine read it), the preparation of the shadow, the
\* planner.  A terminal status is kept.
RunTaskFails ==
    /\ pc \in {"ensure", "planning"}
    /\ db' = Set(loc, IF loc.status \in Terminal THEN loc.status ELSE "FAILED") /\ loc' = db'
    /\ pc' = "idle" /\ running' = FALSE
    /\ UNCHANGED <<ask, busy, ctl, future, rules, disk, attempt, turns, repair>>

-----------------------------------------------------------------------------
(* continue_task                                                            *)

\* Mutant: the call does not take the in-flight guard.
PlanFeedbackUnguarded(kind) ==
    /\ ~busy /\ db.status = "AWAITING_PLAN_APPROVAL"
    /\ running' = TRUE /\ ask' = kind /\ pc' = "scheduled"
    /\ UNCHANGED <<db, loc, busy, ctl, future, rules, disk, attempt, turns, repair>>

\* Mutant: the task is marked running only when the scheduled call starts.
PlanFeedbackUnmarked(kind) ==
    /\ ~busy /\ db.status = "AWAITING_PLAN_APPROVAL"
    /\ busy' = TRUE /\ ask' = kind /\ pc' = "scheduled"
    /\ UNCHANGED <<db, loc, running, ctl, future, rules, disk, attempt, turns, repair>>

\* POST /plan/feedback: one call at a time, only at AWAITING_PLAN_APPROVAL.
PlanFeedback(kind) ==
    /\ ~busy /\ db.status = "AWAITING_PLAN_APPROVAL"
    /\ busy' = TRUE /\ running' = TRUE /\ ask' = kind /\ pc' = "scheduled"
    /\ UNCHANGED <<db, loc, ctl, future, rules, disk, attempt, turns, repair>>

\* Mutant: feedback moves the task on as an approval does.
ContinueAlwaysPlans ==
    LET next == [db EXCEPT !.shadow = TRUE, !.status = "PLANNED"]
    IN  /\ pc = "scheduled" /\ db.status = "AWAITING_PLAN_APPROVAL"
        /\ db' = next /\ loc' = next
        /\ pc' = IF ask = "approve" THEN "json" ELSE "regen"
        /\ disk' = [disk EXCEPT !.shadow = TRUE]
        /\ UNCHANGED <<ask, busy, running, ctl, future, rules, attempt, turns, repair>>

\* The scheduled call starts: it fetches the record again and refuses if the
\* status has moved; otherwise it prepares a fresh shadow.
ContinueBegin ==
    LET fresh == [db EXCEPT !.shadow = TRUE]
        next  == Set(fresh, IF ask = "approve" THEN "PLANNED" ELSE "CONTEXT_READY")
    IN  /\ pc = "scheduled"
        /\ IF db.status = "AWAITING_PLAN_APPROVAL"
           THEN /\ db' = next /\ loc' = next
                /\ pc' = IF ask = "approve" THEN "json" ELSE "regen"
                /\ disk' = [disk EXCEPT !.shadow = TRUE]
                /\ UNCHANGED <<busy, running>>
           ELSE /\ pc' = "idle" /\ busy' = FALSE /\ running' = FALSE
                /\ loc' = db
                /\ UNCHANGED <<db, disk>>
        /\ UNCHANGED <<ask, ctl, future, rules, attempt, turns, repair>>

PlanRegenerated ==
    /\ pc = "regen"
    /\ db' = Set(loc, "AWAITING_PLAN_APPROVAL") /\ loc' = db'
    /\ pc' = "idle" /\ busy' = FALSE /\ running' = FALSE
    /\ UNCHANGED <<ask, ctl, future, rules, disk, attempt, turns, repair>>

\* The model's plan does not validate, or the call raises.
ContinueFails ==
    /\ pc \in {"regen", "json"}
    /\ db' = Set(loc, "FAILED") /\ loc' = db'
    /\ pc' = "idle" /\ busy' = FALSE /\ running' = FALSE
    /\ UNCHANGED <<ask, ctl, future, rules, disk, attempt, turns, repair>>

\* create_plan returned a plan of n steps: the control channel is opened and
\* _execute_plan starts, pins the baseline and collects the baseline errors.
PlanCreated(n, auto) ==
    LET exec == [loc EXCEPT !.status = "EXECUTING", !.todo = n]
        pin  == [exec EXCEPT !.baseline = TRUE]
    IN  /\ pc = "json"
        /\ IF disk.shadow
           THEN /\ ctl' = [NoControl EXCEPT !.on = TRUE, !.auto = auto]
                /\ db' = pin /\ loc' = pin /\ pc' = "baseline"
                /\ disk' = [disk EXCEPT !.baseline = TRUE]
                /\ UNCHANGED <<busy, running, attempt, turns, repair>>
           ELSE FailRun(exec, disk)
        /\ UNCHANGED <<ask, future, rules>>

-----------------------------------------------------------------------------
(* _execute_plan: the loop over the steps                                   *)

BaselineCollected ==
    /\ pc = "baseline"
    /\ LoopTop(loc, disk)
    /\ UNCHANGED <<ask, future, rules>>

\* A failed attempt leaves the shadow as its checkpoint has it, and the next
\* one starts; after the last one the step, and with it the run, has failed.
RetryAttempt ==
    LET restored == [disk EXCEPT !.shadow = TRUE]
    IN  IF attempt < MaxAttempts
        THEN StartAttempt(db, loc, attempt + 1, repair, restored)
        ELSE FailRun([loc EXCEPT !.events = TRUE], restored)

\* The tool loop returns unverified, or raises.
AttemptFails ==
    /\ pc = "tools"
    /\ RetryAttempt
    /\ UNCHANGED <<ask, future, rules>>

\* The tool loop sees the abort event between two iterations.
AbortSeen ==
    /\ pc = "tools" /\ ctl.abort
    /\ AbortRun(loc, disk)
    /\ UNCHANGED <<ask, future, rules>>

\* Mutant: the gate is raised on a record fetched for the purpose.
StepVerifiedRefetched ==
    LET asking == [loc EXCEPT !.status = "AWAITING_STEP_REVIEW", !.pending = @ \cup {"review"}]
    IN  /\ pc = "tools" /\ ~repair
        /\ IF ctl.auto
           THEN CompleteStep(loc, disk) /\ UNCHANGED future
           ELSE /\ Park("review", asking, loc, disk)
                /\ future' = [future EXCEPT !["review"] = "open"]
                /\ NoAttempt
        /\ UNCHANGED <<ask, rules>>

\* A verified step: merge and save it, then promote it or ask for a review.
StepVerified ==
    LET asking == [loc EXCEPT !.status = "AWAITING_STEP_REVIEW", !.pending = @ \cup {"review"}]
    IN  /\ pc = "tools" /\ ~repair
        /\ IF ctl.auto
           THEN CompleteStep(loc, disk) /\ UNCHANGED future
           ELSE /\ Park("review", asking, asking, disk)
                /\ future' = [future EXCEPT !["review"] = "open"]
                /\ NoAttempt
        /\ UNCHANGED <<ask, rules>>

\* The review future is resolved: leave the gate in the coroutine's own copy.
\* An accepted step is promoted and completed; a discarded one runs again.
ReviewDecided ==
    LET back == [loc EXCEPT !.status = "EXECUTING", !.pending = @ \ {"review"}]
    IN  /\ pc = "review" /\ future["review"] \in Answers
        /\ IF future["review"] = "accept" THEN CompleteStep(back, disk) ELSE LoopTop(back, disk)
        /\ future' = [future EXCEPT !["review"] = "none"]
        /\ UNCHANGED <<ask, rules>>

\* Mutant: one revision more than the budget.
PlanHandoffOnceMore ==
    LET restored == [disk EXCEPT !.shadow = TRUE]
    IN  /\ pc = "tools"
        /\ IF repair \/ loc.replans > MaxReplans
           THEN FailRun(loc, restored)
           ELSE /\ Park("replan", db, [loc EXCEPT !.replans = @ + 1], restored)
                /\ NoAttempt
        /\ UNCHANGED <<ask, future, rules>>

\* The tool loop hands the plan back: ask the planner for a revision while
\* the budget of replans lasts.  The repair step cannot.
PlanHandoff ==
    LET restored == [disk EXCEPT !.shadow = TRUE]
    IN  /\ pc = "tools"
        /\ IF repair \/ loc.replans >= MaxReplans
           THEN FailRun(loc, restored)
           ELSE /\ Park("replan", db, [loc EXCEPT !.replans = @ + 1], restored)
                /\ NoAttempt
        /\ UNCHANGED <<ask, future, rules>>

\* The revision reverts, drops, rewrites and adds steps: any number may be
\* left.  Reverting a step that has a checkpoint restores the shadow from it.
PlanRevised(left, restores) ==
    /\ pc = "replan"
    /\ LoopTop([loc EXCEPT !.todo = left, !.events = TRUE],
               [disk EXCEPT !.shadow = @ \/ restores])
    /\ UNCHANGED <<ask, future, rules>>

\* The planner or the validator raises.
ExecutionFails ==
    /\ pc \in {"replan", "validate"}
    /\ FailRun(loc, disk)
    /\ UNCHANGED <<ask, future, rules>>

-----------------------------------------------------------------------------
(* Gates raised from inside the tool loop.  They work on a record of their  *)
(* own, fetched before the wait and again after it.                         *)

Remembered(g) == g \in db.remembered \/ (g = "command" /\ rules)

AskInLoop(g) ==
    /\ pc = "tools" /\ turns < MaxTurns /\ ~Remembered(g)
    /\ future' = [future EXCEPT ![g] = "open"]
    /\ IF CanTransition(db.status, GateStatus[g])
       THEN /\ Park(g, [db EXCEPT !.status = GateStatus[g], !.pending = @ \cup {g}], loc, disk)
            /\ turns' = turns + 1
            /\ UNCHANGED <<attempt, repair>>
       ELSE RetryAttempt
    /\ UNCHANGED <<ask, rules>>

\* Mutant: the status is not taken out of the gate.
AnswerKeepsGate(g, a) ==
    LET fresh == [db EXCEPT !.pending = @ \ {g},
                            !.remembered = IF a = "remember" THEN @ \cup {g} ELSE @]
    IN  /\ pc = g
        /\ \/ a = future[g]
           \/ a = "reject" /\ g \in Timeouts
        /\ Park("tools", fresh, loc, disk)
        /\ future' = [future EXCEPT ![g] = "none"]
        /\ rules' = (rules \/ (g = "command" /\ a = "remember"))
        /\ UNCHANGED <<ask, attempt, turns, repair>>

\* The future is resolved, or the wait timed out (which rejects, even when an
\* answer came in at the same moment).
AnswerInLoop(g, a) ==
    LET fresh == [db EXCEPT !.pending = @ \ {g},
                            !.status = IF @ = GateStatus[g] THEN "EXECUTING" ELSE @,
                            !.remembered = IF a = "remember" THEN @ \cup {g} ELSE @]
    IN  /\ pc = g
        /\ \/ a = future[g]
           \/ a = "reject" /\ g \in Timeouts
        /\ Park("tools", fresh, loc, disk)
        /\ future' = [future EXCEPT ![g] = "none"]
        /\ rules' = (rules \/ (g = "command" /\ a = "remember"))
        /\ UNCHANGED <<ask, attempt, turns, repair>>

-----------------------------------------------------------------------------
(* _execute_plan: validation, repair and the end                            *)

ValidationPasses ==
    /\ pc = "validate"
    /\ EndRun(loc, "READY_FOR_REVIEW", disk)
    /\ UNCHANGED <<ask, future, rules>>

\* The first failure starts the repair step; the second one asks the user.
ValidationFails ==
    LET again  == Set(loc, "EXECUTING")
        asking == [loc EXCEPT !.status = "AWAITING_VALIDATION_DECISION",
                              !.pending = @ \cup {"validation"}]
    IN  /\ pc = "validate"
        /\ IF ~repair
           THEN StartAttempt(again, again, 1, TRUE, disk) /\ UNCHANGED future
           ELSE /\ Park("validation", asking, asking, disk)
                /\ future' = [future EXCEPT !["validation"] = "open"]
                /\ NoAttempt
        /\ UNCHANGED <<ask, rules>>

RepairVerified ==
    LET again == [loc EXCEPT !.status = "VALIDATING", !.events = TRUE]
    IN  /\ pc = "tools" /\ repair
        /\ Park("validate", again, again, disk)
        /\ attempt' = 0 /\ turns' = 0
        /\ UNCHANGED <<ask, future, rules, repair>>

ValidationDecided(a) ==
    LET back == [loc EXCEPT !.pending = @ \ {"validation"}]
    IN  /\ pc = "validation"
        /\ \/ a = future["validation"]
           \/ a = "reject" /\ "validation" \in Timeouts
        /\ EndRun(back, IF a = "accept" THEN "READY_FOR_REVIEW" ELSE "FAILED", disk)
        /\ future' = [future EXCEPT !["validation"] = "none"]
        /\ UNCHANGED <<ask, rules>>

\* Mutant: the pinned baseline is dropped whatever the status.
NarrativeDropsBaseline ==
    LET last == [loc EXCEPT !.baseline = FALSE]
    IN  /\ pc = "narrate"
        /\ db' = last /\ loc' = last /\ pc' = "idle" /\ busy' = FALSE
        /\ disk' = [disk EXCEPT !.baseline = @ /\ ~loc.baseline]
        /\ UNCHANGED <<ask, running, ctl, future, rules, attempt, turns, repair>>

\* The narrative is there: the coroutine saves its copy once more (without
\* the pinned baseline when the run is terminal) and ends.
NarrativeWritten ==
    LET last == [loc EXCEPT !.baseline = @ /\ loc.status = "READY_FOR_REVIEW"]
    IN  /\ pc = "narrate"
        /\ db' = last /\ loc' = last /\ pc' = "idle" /\ busy' = FALSE
        /\ disk' = [disk EXCEPT !.baseline = @ /\ (last.baseline \/ ~loc.baseline)]
        /\ UNCHANGED <<ask, running, ctl, future, rules, attempt, turns, repair>>

-----------------------------------------------------------------------------
(* Routes                                                                   *)

\* POST /scope-decision, /command-decision, /step-decision, /validation-decision
Decide(g, a) ==
    /\ db.status = GateStatus[g] /\ future[g] = "open"
    /\ g = "scope" => "scope" \in db.pending
    /\ a = "remember" => g \in {"scope", "command"}
    /\ future' = [future EXCEPT ![g] = a]
    /\ UNCHANGED <<db, loc, pc, ask, busy, running, ctl, rules, disk, attempt, turns, repair>>

\* Mutant: cancel drops the pinned baseline too.
CancelDropsBaseline ==
    /\ "cancel" \in Requests
    /\ db' = [db EXCEPT !.status = IF @ \in Terminal THEN @ ELSE "ABORTED",
                        !.shadow = FALSE, !.baseline = FALSE]
    /\ disk' = [shadow |-> disk.shadow /\ ~db.shadow, baseline |-> FALSE]
    /\ UNCHANGED <<loc, pc, ask, busy, running, ctl, future, rules, attempt, turns, repair>>

\* POST /cancel
Cancel ==
    /\ "cancel" \in Requests
    /\ db' = [db EXCEPT !.status = IF @ \in Terminal THEN @ ELSE "ABORTED", !.shadow = FALSE]
    /\ disk' = [disk EXCEPT !.shadow = @ /\ ~db.shadow]
    /\ UNCHANGED <<loc, pc, ask, busy, running, ctl, future, rules, attempt, turns, repair>>

\* Mutant: the route removes the shadow itself.
AbortDropsShadow(revert) ==
    /\ "abort" \in Requests /\ ctl.on
    /\ ctl' = [ctl EXCEPT !.abort = TRUE, !.revert = revert]
    /\ disk' = [disk EXCEPT !.shadow = FALSE]
    /\ UNCHANGED <<db, loc, pc, ask, busy, running, future, rules, attempt, turns, repair>>

\* POST /abort
Abort(revert) ==
    /\ "abort" \in Requests /\ ctl.on
    /\ ctl' = [ctl EXCEPT !.abort = TRUE, !.revert = revert]
    /\ UNCHANGED <<db, loc, pc, ask, busy, running, future, rules, disk, attempt, turns, repair>>

\* POST /review-pref
SetReviewPref(auto) ==
    /\ "pref" \in Requests /\ ctl.on
    /\ ctl' = [ctl EXCEPT !.auto = auto]
    /\ future' = IF auto /\ "review" \in db.pending /\ future["review"] = "open"
                 THEN [future EXCEPT !["review"] = "accept"] ELSE future
    /\ UNCHANGED <<db, loc, pc, ask, busy, running, rules, disk, attempt, turns, repair>>

\* Mutant: the routes do not look at the status.
FinalDecisionAnyTime == pc = "idle" \/ "early" \in Requests

\* The client decides once the run has ended; an early one already on "done".
FinalDecision ==
    /\ db.status = "READY_FOR_REVIEW"
    /\ pc = "idle" \/ "early" \in Requests

\* POST /accept: PROMOTING, promote and clean up, SUCCEEDED.  promote raises
\* without a shadow path, and may raise on any file.
Accept(copied) ==
    LET ok == copied /\ db.shadow
    IN  /\ FinalDecision
        /\ db' = [db EXCEPT !.status = IF ok THEN "SUCCEEDED" ELSE "FAILED", !.shadow = @ /\ ~ok]
        /\ disk' = [disk EXCEPT !.shadow = @ /\ ~ok]
        /\ UNCHANGED <<loc, pc, ask, busy, running, ctl, future, rules, attempt, turns, repair>>

\* POST /reject: roll back to the pinned baseline, drop it and the shadow,
\* ABORTED.  Without the baseline on disk the restore raises, after it has
\* removed the shadow.
Reject ==
    LET rollback == db.baseline /\ db.shadow
    IN  /\ FinalDecision
        /\ IF rollback /\ ~disk.baseline
           THEN disk' = [disk EXCEPT !.shadow = FALSE] /\ UNCHANGED db
           ELSE /\ db' = [db EXCEPT !.status = "ABORTED", !.shadow = FALSE, !.baseline = FALSE]
                /\ disk' = [shadow |-> disk.shadow /\ ~db.shadow,
                            baseline |-> disk.baseline /\ ~db.baseline]
        /\ UNCHANGED <<loc, pc, ask, busy, running, ctl, future, rules, attempt, turns, repair>>

-----------------------------------------------------------------------------

Init ==
    /\ db = NewRecord /\ loc = NewRecord
    /\ pc = "start" /\ ask = "approve" /\ busy = FALSE /\ running = FALSE
    /\ ctl = NoControl
    /\ future = [g \in Gates |-> "none"] /\ rules \in BOOLEAN
    /\ disk = [shadow |-> FALSE, baseline |-> FALSE]
    /\ attempt = 0 /\ turns = 0 /\ repair = FALSE

\* The coroutine.
Engine ==
    \/ RunTaskBegin \/ EnvEnsured \/ PlanGenerated \/ RunTaskFails
    \/ ContinueBegin \/ PlanRegenerated \/ ContinueFails
    \/ \E n \in 0 .. NSteps, auto \in AutoAccept : PlanCreated(n, auto)
    \/ BaselineCollected \/ AttemptFails \/ AbortSeen
    \/ StepVerified \/ ReviewDecided
    \/ PlanHandoff \/ \E left \in 0 .. NSteps, restores \in BOOLEAN : PlanRevised(left, restores)
    \/ ExecutionFails
    \/ \E g \in {"scope", "command"} : AskInLoop(g)
    \/ \E g \in {"scope", "command"}, a \in Answers : AnswerInLoop(g, a)
    \/ ValidationPasses \/ ValidationFails \/ RepairVerified
    \/ \E a \in Answers : ValidationDecided(a)
    \/ NarrativeWritten

\* The routes of the API.
Routes ==
    \/ \E kind \in {"approve", "feedback"} : PlanFeedback(kind)
    \/ \E g \in Gates, a \in Answers : Decide(g, a)
    \/ Cancel
    \/ \E revert \in BOOLEAN : Abort(revert)
    \/ \E auto \in BOOLEAN : SetReviewPref(auto)
    \/ \E copied \in BOOLEAN : Accept(copied)
    \/ Reject

\* A settled task is only polled.
Settled == pc = "idle" /\ db.status \in Terminal /\ UNCHANGED vars

Next == Engine \/ Routes \/ Settled

Spec == Init /\ [][Next]_vars

\* asyncio runs every coroutine that is ready, and every awaited call (model,
\* validator, environment probe) returns or raises; a user who is asked a
\* question during a run answers it in the end.
Fairness ==
    /\ WF_vars(Engine)
    /\ \A g \in Gates : WF_vars(\E a \in Answers : Decide(g, a))

FairSpec == Spec /\ Fairness

-----------------------------------------------------------------------------
(* Properties                                                               *)

TypeOK ==
    /\ db \in Record /\ loc \in Record
    /\ pc \in Places /\ ask \in {"approve", "feedback"}
    /\ busy \in BOOLEAN /\ running \in BOOLEAN
    /\ ctl \in Control
    /\ future \in [Gates -> {"none", "open"} \cup Answers]
    /\ rules \in BOOLEAN
    /\ disk \in Directories
    /\ attempt \in 0 .. MaxAttempts /\ turns \in 0 .. MaxTurns /\ repair \in BOOLEAN

\* A gate the record shows is one the waiting coroutine will hear the answer
\* of, and a coroutine that waits is one the record shows with its payload.
GateIsAnswerable ==
    \A g \in Gates :
        /\ db.status = GateStatus[g] => pc = g /\ future[g] # "none"
        /\ pc = g => db.status = GateStatus[g] /\ g \in db.pending

\* At the gates that resume on the caller's object, that object is what the
\* store holds: nothing is lost when it is saved back.
ParkedCopyIsCurrent == pc \in {"review", "validation"} => loc = db

\* A run never works on a shadow somebody removed.
ShadowHeld == pc \in Executing => disk.shadow /\ loc.shadow

\* The pinned baseline outlives every step that may need the rollback.
BaselineHeld == pc \in Executing => disk.baseline /\ loc.baseline

\* Whatever the user decides at READY_FOR_REVIEW can be carried out: there is
\* a shadow to promote and a baseline to roll back to.
ReviewIsActionable ==
    db.status = "READY_FOR_REVIEW" =>
        db.shadow /\ disk.shadow /\ db.baseline /\ disk.baseline /\ db.todo = 0

\* A coroutine that ended left no control, mark, lock or future behind.
NothingLeftBehind ==
    pc = "idle" =>
        /\ ctl = NoControl /\ ~running /\ ~busy
        /\ \A g \in Gates : future[g] = "none"

\* The plan-feedback guard lets a second coroutine in only when the first is
\* gone, although the status it tests is saved while the first still runs.
OneCoroutine == ~busy /\ db.status = "AWAITING_PLAN_APPROVAL" => pc = "idle"

\* The stream endpoint closes on a task that is not marked running: every
\* coroutine past its start that may still emit patch events is marked.
RunningIsMarked == pc \in Executing \cup {"scheduled", "planning", "regen", "json"} => running

\* A closed task stays closed: no later save of an older copy revives it.
TerminalIsFinal == [][db.status \in Terminal => db'.status = db.status]_vars

\* Once an abort is requested no further plan step is begun.
AbortBeginsNoStep ==
    [][ctl.abort /\ pc' = "tools" /\ ~repair' => pc \in {"tools", "scope", "command"}]_vars

\* An abort that was accepted ends the run in ABORTED.
AbortAcknowledged == [][ctl.abort /\ ~ctl'.on => db'.status = "ABORTED"]_vars

\* What the user asked to be remembered for the task stays remembered.
ApprovalsAreRemembered == [][db.remembered \subseteq db'.remembered]_vars

\* Every run comes to an end, whatever the user answers.
RunComesToRest == []<>(pc = "idle")

\* The run implements the client's view of a task.
Life == INSTANCE TaskLife WITH phase <- PhaseOf(db.status)
LifeSpec == Life!Spec
=============================================================================

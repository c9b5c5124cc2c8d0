---------------------------- MODULE TaskRunProofs ----------------------------
(***************************************************************************)
(* What TLAPS proves about TaskRun, for plans of any size, any budget and  *)
(* every choice of client behaviour.                                       *)
(***************************************************************************)
EXTENDS TaskRun, TLAPS

\* The steps of the coroutine that hold the plan-feedback guard.
Guarded == Executing \cup {"scheduled", "regen", "json", "narrate"}

\* The part of the type that stretches of the coroutine touch.
RunTypes ==
    /\ db \in Record /\ loc \in Record /\ pc \in Places
    /\ busy \in BOOLEAN /\ running \in BOOLEAN
    /\ ctl \in Control /\ disk \in Directories
    /\ attempt \in 0 .. MaxAttempts /\ turns \in 0 .. MaxTurns /\ repair \in BOOLEAN

\* The part they do not.
SideTypes ==
    /\ ask \in {"approve", "feedback"} /\ rules \in BOOLEAN
    /\ future \in [Gates -> {"none", "open"} \cup Answers]

\* The guard is held until the coroutine's last save, and until the plan is
\* there for approval nobody can take it.
GuardHeld ==
    /\ pc \in Guarded => busy
    /\ pc \in {"start", "ensure", "planning"} => db.status # "AWAITING_PLAN_APPROVAL"

\* No client may decide on the run, and remove its baseline, before its end.
NotYetFinal ==
    /\ pc \notin {"idle", "narrate"} => db.status # "READY_FOR_REVIEW"
    /\ pc \in Executing => loc.status # "READY_FOR_REVIEW"

\* A plan step that is attempted or reviewed is one of those left to do.
StepIsLeft ==
    \/ pc \in {"tools", "scope", "command"} /\ ~repair
    \/ pc = "review"
    => loc.todo > 0

RunInv == RunTypes /\ BaselineHeld /\ RunningIsMarked /\ GuardHeld /\ NotYetFinal /\ StepIsLeft

Inv == RunInv /\ SideTypes

-----------------------------------------------------------------------------
(* Facts about the constants                                                *)

\* The statuses, as a set.
LEMMA StatusSet ==
    Status = {"QUEUED", "CONTEXT_READY", "AWAITING_PLAN_APPROVAL", "PLANNED", "EXECUTING",
              "AWAITING_SCOPE_DECISION", "AWAITING_COMMAND_DECISION", "AWAITING_STEP_REVIEW",
              "VALIDATING", "REPAIRING", "AWAITING_VALIDATION_DECISION", "VALIDATED",
              "READY_FOR_REVIEW", "PROMOTING", "SUCCEEDED", "FAILED", "ABORTED"}
BY DEF Status, Transitions

\* A gate shows a status of the table, and never the final review.
LEMMA GateStatusType ==
    \A g \in Gates : GateStatus[g] \in Status /\ GateStatus[g] # "READY_FOR_REVIEW"
BY StatusSet DEF Gates, GateStatus

-----------------------------------------------------------------------------
(* The stretches keep the invariant                                         *)

\* A record that a stretch inside _execute_plan may go on with.
Workable(r) == r \in Record /\ r.baseline /\ r.status # "READY_FOR_REVIEW"

\* Directories such a stretch may leave.
Pinned(k) == k \in Directories /\ k.baseline

\* The bounds as numbers.
LEMMA Bounds ==
    /\ MaxAttempts \in Nat /\ MaxAttempts >= 1 /\ MaxTurns \in Nat
    /\ MaxReplans \in Nat /\ MaxIterations \in Nat /\ NSteps \in Nat
<1>1. MaxAttempts \in Nat /\ MaxAttempts # 0
  BY TaskRunAssumption
<1>2. MaxTurns \in Nat /\ MaxReplans \in Nat /\ MaxIterations \in Nat /\ NSteps \in Nat
  BY TaskRunAssumption
<1> QED
  BY <1>1, <1>2

\* With no attempt running its counters are in their ranges.
LEMMA NoAttemptType ==
    ASSUME NoAttempt
    PROVE  attempt' \in 0 .. MaxAttempts /\ turns' \in 0 .. MaxTurns /\ repair' \in BOOLEAN
<1>1. attempt' = 0 /\ turns' = 0 /\ repair' \in BOOLEAN
  BY DEF NoAttempt
<1> QED
  BY <1>1, Bounds

\* The end of a run keeps the invariant, whatever its verdict.
LEMMA EndRunInv ==
    ASSUME RunInv, busy, NEW r \in Record, NEW s \in Status, NEW k \in Directories, EndRun(r, s, k)
    PROVE  RunInv'
<1>1. Set(r, s) \in Record
  BY DEF Set, Record
<1>a. db' \in Record /\ loc' \in Record /\ disk' \in Directories
  BY <1>1 DEF EndRun
<1>b. pc' \in Places /\ ctl' \in Control
  BY DEF EndRun, Places, NoControl, Control
<1>c. busy' \in BOOLEAN /\ running' \in BOOLEAN
  BY DEF EndRun, RunInv, RunTypes
<1>d. attempt' \in 0 .. MaxAttempts /\ turns' \in 0 .. MaxTurns /\ repair' \in BOOLEAN
  BY NoAttemptType DEF EndRun
<1>2. RunTypes'
  BY <1>a, <1>b, <1>c, <1>d DEF RunTypes
<1>3. (BaselineHeld /\ RunningIsMarked /\ NotYetFinal /\ StepIsLeft)'
  BY DEF EndRun, NoAttempt, BaselineHeld, RunningIsMarked, NotYetFinal, StepIsLeft, Executing
<1>4. GuardHeld'
  BY DEF EndRun, GuardHeld
<1> QED
  BY <1>2, <1>3, <1>4 DEF RunInv

\* A failed run keeps the invariant.
LEMMA FailRunInv ==
    ASSUME RunInv, busy, NEW r \in Record, NEW k \in Directories, FailRun(r, k)
    PROVE  RunInv'
BY EndRunInv, StatusSet DEF FailRun

\* An aborted run keeps the invariant, with and without a narrative.
LEMMA AbortRunInv ==
    ASSUME RunInv, busy, NEW r \in Record, NEW k \in Directories, AbortRun(r, k)
    PROVE  RunInv'
<1> DEFINE gone == [r EXCEPT !.shadow = FALSE]
           done == [gone EXCEPT !.baseline = FALSE, !.status = "ABORTED"]
<1>1. CASE r.events
  <2>1. EndRun(gone, "ABORTED", [k EXCEPT !.shadow = FALSE])
    BY <1>1 DEF AbortRun
  <2>2. gone \in Record /\ [k EXCEPT !.shadow = FALSE] \in Directories /\ "ABORTED" \in Status
    BY StatusSet DEF Record, Directories
  <2> QED
    BY <2>1, <2>2, EndRunInv
<1>2. CASE ~r.events
  <2>1. /\ db' = done /\ loc' = done /\ pc' = "idle"
        /\ disk' = [shadow |-> FALSE, baseline |-> FALSE]
        /\ running' = FALSE /\ ctl' = NoControl /\ busy' = FALSE /\ NoAttempt
    BY <1>2 DEF AbortRun
  <2>2. done \in Record
    BY StatusSet DEF Record
  <2>a. pc' \in Places /\ ctl' \in Control /\ disk' \in Directories
    BY <2>1 DEF Places, NoControl, Control, Directories
  <2>b. busy' \in BOOLEAN /\ running' \in BOOLEAN
    BY <2>1
  <2>c. attempt' \in 0 .. MaxAttempts /\ turns' \in 0 .. MaxTurns /\ repair' \in BOOLEAN
    BY <2>1, NoAttemptType
  <2>3. RunTypes'
    BY <2>1, <2>2, <2>a, <2>b, <2>c DEF RunTypes
  <2>4. (BaselineHeld /\ RunningIsMarked /\ GuardHeld /\ NotYetFinal /\ StepIsLeft)'
    BY <2>1 DEF BaselineHeld, RunningIsMarked, GuardHeld, Guarded, NotYetFinal, StepIsLeft, Executing
  <2> QED
    BY <2>3, <2>4 DEF RunInv
<1> QED
  BY <1>1, <1>2

\* Waiting inside _execute_plan keeps the invariant.
LEMMA ParkInv ==
    ASSUME RunInv, pc \in Executing \cup {"json"}, NEW p \in Executing, NEW d \in Record, NEW r, NEW k,
           Workable(r), Pinned(k), d.status # "READY_FOR_REVIEW",
           Park(p, d, r, k),
           attempt' \in 0 .. MaxAttempts, turns' \in 0 .. MaxTurns, repair' \in BOOLEAN,
           (p \in {"tools", "scope", "command"} /\ ~repair') \/ p = "review" => r.todo > 0
    PROVE  RunInv'
<1>1. busy /\ running
  BY DEF RunInv, GuardHeld, RunningIsMarked, Guarded
<1>2. RunTypes'
  BY DEF RunInv, RunTypes, Park, Workable, Pinned, Executing, Places
<1>3. BaselineHeld' /\ RunningIsMarked' /\ GuardHeld'
  BY <1>1 DEF Park, Workable, Pinned, BaselineHeld, RunningIsMarked, GuardHeld, Executing
<1>4. NotYetFinal' /\ StepIsLeft'
  BY DEF Park, Workable, NotYetFinal, StepIsLeft
<1> QED
  BY <1>2, <1>3, <1>4 DEF RunInv

\* An attempt keeps the invariant: the step it starts is one of those left.
LEMMA StartAttemptInv ==
    ASSUME RunInv, pc \in Executing \cup {"json"}, NEW d \in Record, NEW r, NEW n \in 0 .. MaxAttempts,
           NEW rep \in BOOLEAN, NEW k,
           Workable(r), Pinned(k), d.status # "READY_FOR_REVIEW", rep \/ r.todo > 0,
           StartAttempt(d, r, n, rep, k)
    PROVE  RunInv'
<1> DEFINE bumped == [r EXCEPT !.iters = @ + 1]
<1>1. busy /\ r \in Record /\ k \in Directories
  BY DEF RunInv, GuardHeld, Guarded, Workable, Pinned
<1>2. ASSUME r.iters <= MaxIterations PROVE Workable(bumped) /\ bumped.todo = r.todo
  BY <1>2, TaskRunAssumption DEF Workable, Record
<1>3. CASE FailRun(r, k)
  BY <1>1, <1>3, FailRunInv
<1>4. CASE r.iters <= MaxIterations /\ FailRun(bumped, k)
  BY <1>1, <1>2, <1>4, FailRunInv DEF Workable
<1>5. CASE /\ r.iters <= MaxIterations
           /\ Park("tools", d, bumped, k)
           /\ attempt' = n /\ turns' = 0 /\ repair' = rep
  <2>1. "tools" \in Executing /\ turns' \in 0 .. MaxTurns
    BY <1>5, TaskRunAssumption DEF Executing
  <2>2. ("tools" \in {"tools", "scope", "command"} /\ ~repair') \/ "tools" = "review"
           => bumped.todo > 0
    BY <1>2, <1>5
  <2>3. attempt' \in 0 .. MaxAttempts /\ repair' \in BOOLEAN /\ Workable(bumped)
    BY <1>2, <1>5
  <2>4. Park("tools", d, bumped, k)
    BY <1>5
  <2> HIDE DEF bumped
  <2> QED
    BY <2>1, <2>2, <2>3, <2>4, ParkInv
<1> QED
  BY <1>3, <1>4, <1>5 DEF StartAttempt

\* The head of the loop keeps the invariant.
LEMMA LoopTopInv ==
    ASSUME RunInv, pc \in Executing \cup {"json"}, NEW r, NEW k, Workable(r), Pinned(k), LoopTop(r, k)
    PROVE  RunInv'
<1>1. busy /\ r \in Record /\ k \in Directories /\ r.todo \in Nat
  BY TaskRunAssumption DEF RunInv, GuardHeld, Guarded, Workable, Pinned, Record
<1>2. CASE AbortRun(r, k)
  BY <1>1, <1>2, AbortRunInv
<1>3. CASE r.todo > 0 /\ StartAttempt(r, r, 1, FALSE, k)
  <2>1. 1 \in 0 .. MaxAttempts /\ r.status # "READY_FOR_REVIEW"
    BY TaskRunAssumption DEF Workable
  <2> QED
    BY <1>1, <1>3, <2>1, StartAttemptInv
<1>4. CASE /\ r.todo = 0
           /\ Park("validate", Set(r, "VALIDATING"), Set(r, "VALIDATING"), k)
           /\ NoAttempt
  <2> DEFINE v == Set(r, "VALIDATING")
  <2>1. v \in Record /\ Workable(v) /\ v.status # "READY_FOR_REVIEW"
    BY StatusSet DEF Workable, Record, Set
  <2>2. "validate" \in Executing
    BY DEF Executing
  <2>3. attempt' \in 0 .. MaxAttempts /\ turns' \in 0 .. MaxTurns /\ repair' \in BOOLEAN
    BY <1>4, NoAttemptType
  <2>4. Park("validate", v, v, k)
    BY <1>4
  <2> HIDE DEF v
  <2> QED
    BY <2>1, <2>2, <2>3, <2>4, ParkInv
<1> QED
  BY <1>2, <1>3, <1>4 DEF LoopTop

\* A completed step was one of those left to do.
LEMMA CompleteStepInv ==
    ASSUME RunInv, pc \in Executing, NEW r, NEW k, Workable(r), r.todo > 0, Pinned(k), CompleteStep(r, k)
    PROVE  RunInv'
<1> DEFINE next == [r EXCEPT !.todo = @ - 1, !.events = TRUE]
<1>1. Workable(next)
  <2>1. r.todo - 1 \in 0 .. NSteps
    BY Bounds DEF Workable, Record
  <2>2. next \in Record
    BY <2>1 DEF Workable, Record
  <2> QED
    BY <2>2 DEF Workable, Record
<1>2. LoopTop(next, k)
  BY DEF CompleteStep
<1> HIDE DEF next
<1> QED
  BY <1>1, <1>2, LoopTopInv

\* A retry keeps the invariant.
LEMMA RetryAttemptInv ==
    ASSUME RunInv, pc = "tools", RetryAttempt
    PROVE  RunInv'
<1> DEFINE restored == [disk EXCEPT !.shadow = TRUE]
           last     == [loc EXCEPT !.events = TRUE]
<1>1. /\ busy /\ pc \in Executing /\ db \in Record /\ loc \in Record
      /\ attempt \in 0 .. MaxAttempts /\ repair \in BOOLEAN
      /\ db.status # "READY_FOR_REVIEW" /\ Workable(loc)
      /\ repair \/ loc.todo > 0
  BY DEF RunInv, RunTypes, GuardHeld, Guarded, Executing, NotYetFinal, BaselineHeld, StepIsLeft, Workable
<1>2. Pinned(restored)
  BY DEF RunInv, RunTypes, BaselineHeld, Executing, Pinned, Directories
<1>3. CASE attempt < MaxAttempts /\ StartAttempt(db, loc, attempt + 1, repair, restored)
  <2>1. attempt + 1 \in 0 .. MaxAttempts
    BY <1>1, <1>3, TaskRunAssumption
  <2> HIDE DEF restored
  <2> QED
    BY <1>1, <1>2, <1>3, <2>1, StartAttemptInv
<1>4. CASE FailRun(last, restored)
  <2>1. last \in Record
    BY <1>1 DEF Record
  <2> HIDE DEF restored, last
  <2> QED
    BY <1>1, <1>2, <1>4, <2>1, FailRunInv DEF Pinned
<1> QED
  BY <1>3, <1>4 DEF RetryAttempt

-----------------------------------------------------------------------------
(* The steps keep the invariant                                             *)

\* What the invariant says at a place inside _execute_plan.
LEMMA AtWork ==
    ASSUME RunInv, pc \in Executing
    PROVE  /\ busy /\ running /\ loc \in Record /\ db \in Record /\ disk \in Directories
           /\ Workable(loc) /\ Pinned(disk) /\ db.status # "READY_FOR_REVIEW"
<1>1. busy /\ running
  BY DEF RunInv, GuardHeld, RunningIsMarked, Guarded
<1>2. loc \in Record /\ db \in Record /\ disk \in Directories
  BY DEF RunInv, RunTypes
<1>3. db.status # "READY_FOR_REVIEW"
  BY DEF RunInv, NotYetFinal, Executing
<1> QED
  BY <1>1, <1>2, <1>3 DEF RunInv, BaselineHeld, NotYetFinal, Workable, Pinned

\* A step that leaves the coroutine at p, outside _execute_plan, with the
\* counters alone, keeps the invariant.
LEMMA OutsideInv ==
    ASSUME RunInv, NEW p \in Places \ Executing, pc' = p,
           db' \in Record, loc' \in Record, disk' \in Directories,
           busy' \in BOOLEAN, running' \in BOOLEAN, UNCHANGED <<ctl, attempt, turns, repair>>,
           p \in Guarded => busy',
           p \in {"scheduled", "planning", "regen", "json"} => running',
           p \in {"start", "ensure", "planning"} => db'.status # "AWAITING_PLAN_APPROVAL",
           p \notin {"idle", "narrate"} => db'.status # "READY_FOR_REVIEW"
    PROVE  RunInv'
<1>1. RunTypes'
  BY DEF RunInv, RunTypes
<1>2. (BaselineHeld /\ RunningIsMarked /\ GuardHeld /\ NotYetFinal /\ StepIsLeft)'
  BY DEF BaselineHeld, RunningIsMarked, GuardHeld, NotYetFinal, StepIsLeft, Executing
<1> QED
  BY <1>1, <1>2 DEF RunInv

\* run_task.
LEMMA RunTaskInv ==
    ASSUME RunInv, RunTaskBegin \/ EnvEnsured \/ PlanGenerated \/ RunTaskFails
    PROVE  RunInv'
<1>1. CASE RunTaskBegin
  <2>1. "ensure" \in Places \ Executing /\ "ensure" \notin Guarded
    BY DEF Places, Executing, Guarded
  <2> QED
    BY <1>1, <2>1, OutsideInv DEF RunTaskBegin, RunInv, RunTypes, GuardHeld, NotYetFinal
<1>2. CASE EnvEnsured
  <2>1. "planning" \in Places \ Executing /\ "planning" \notin Guarded
    BY DEF Places, Executing, Guarded
  <2>2. db' \in Record /\ loc' \in Record /\ db'.status = "CONTEXT_READY"
    BY <1>2, StatusSet DEF EnvEnsured, RunInv, RunTypes, Record
  <2>3. disk' \in Directories
    BY <1>2 DEF EnvEnsured, RunInv, RunTypes, Directories
  <2> QED
    BY <1>2, <2>1, <2>2, <2>3, OutsideInv DEF EnvEnsured, RunInv, RunTypes
<1>3. CASE PlanGenerated
  <2>1. "idle" \in Places \ Executing /\ "idle" \notin Guarded
    BY DEF Places, Executing, Guarded
  <2>2. db' \in Record /\ loc' \in Record
    BY <1>3, StatusSet DEF PlanGenerated, RunInv, RunTypes, Record, Set
  <2> QED
    BY <1>3, <2>1, <2>2, OutsideInv DEF PlanGenerated, RunInv, RunTypes
<1>4. CASE RunTaskFails
  <2>1. "idle" \in Places \ Executing /\ "idle" \notin Guarded
    BY DEF Places, Executing, Guarded
  <2>2. db' \in Record /\ loc' \in Record
    BY <1>4, StatusSet DEF RunTaskFails, RunInv, RunTypes, Record, Set
  <2> QED
    BY <1>4, <2>1, <2>2, OutsideInv DEF RunTaskFails, RunInv, RunTypes
<1> QED
  BY <1>1, <1>2, <1>3, <1>4

\* continue_task up to the plan.
LEMMA ContinueInv ==
    ASSUME RunInv, \/ \E kind \in {"approve", "feedback"} : PlanFeedback(kind)
                   \/ ContinueBegin \/ PlanRegenerated \/ ContinueFails
    PROVE  RunInv'
<1>i. "idle" \in Places \ Executing /\ "idle" \notin Guarded
  BY DEF Places, Executing, Guarded
<1>1. ASSUME NEW kind, PlanFeedback(kind) PROVE RunInv'
  <2>1. "scheduled" \in Places \ Executing
    BY DEF Places, Executing
  <2> QED
    BY <1>1, <2>1, OutsideInv DEF PlanFeedback, RunInv, RunTypes
<1>2. CASE ContinueBegin
  <2> DEFINE fresh == [db EXCEPT !.shadow = TRUE]
             next  == Set(fresh, IF ask = "approve" THEN "PLANNED" ELSE "CONTEXT_READY")
  <2>1. CASE db.status = "AWAITING_PLAN_APPROVAL"
    <3>1. /\ db' = next /\ loc' = next
          /\ pc' = IF ask = "approve" THEN "json" ELSE "regen"
          /\ disk' = [disk EXCEPT !.shadow = TRUE]
          /\ UNCHANGED <<busy, running, ctl, attempt, turns, repair>>
      BY <1>2, <2>1 DEF ContinueBegin
    <3>2. next \in Record /\ next.status \in {"PLANNED", "CONTEXT_READY"}
      BY StatusSet DEF RunInv, RunTypes, Record, Set
    <3>3. disk' \in Directories
      BY <3>1 DEF RunInv, RunTypes, Directories
    <3>4. pc' \in Places \ Executing /\ pc' \notin {"start", "ensure", "planning"}
      BY <3>1 DEF Places, Executing
    <3>5. busy /\ running /\ busy' \in BOOLEAN /\ running' \in BOOLEAN
      BY <1>2, <3>1 DEF ContinueBegin, RunInv, RunTypes, GuardHeld, Guarded, RunningIsMarked
    <3> HIDE DEF next
    <3> QED
      BY <3>1, <3>2, <3>3, <3>4, <3>5, OutsideInv
  <2>2. CASE db.status # "AWAITING_PLAN_APPROVAL"
    BY <1>2, <2>2, <1>i, OutsideInv DEF ContinueBegin, RunInv, RunTypes
  <2> QED
    BY <2>1, <2>2
<1>3. CASE PlanRegenerated
  <2>1. db' \in Record /\ loc' \in Record
    BY <1>3, StatusSet DEF PlanRegenerated, RunInv, RunTypes, Record, Set
  <2> QED
    BY <1>3, <2>1, <1>i, OutsideInv DEF PlanRegenerated, RunInv, RunTypes
<1>4. CASE ContinueFails
  <2>1. db' \in Record /\ loc' \in Record
    BY <1>4, StatusSet DEF ContinueFails, RunInv, RunTypes, Record, Set
  <2> QED
    BY <1>4, <2>1, <1>i, OutsideInv DEF ContinueFails, RunInv, RunTypes
<1> QED
  BY <1>1, <1>2, <1>3, <1>4

\* The plan is there: the baseline is pinned before anything else.
LEMMA PlanCreatedInv ==
    ASSUME RunInv, NEW n \in 0 .. NSteps, NEW auto \in AutoAccept, PlanCreated(n, auto)
    PROVE  RunInv'
<1> DEFINE exec == [loc EXCEPT !.status = "EXECUTING", !.todo = n]
           pin  == [exec EXCEPT !.baseline = TRUE]
<1>1. busy /\ running /\ pc = "json"
  BY DEF PlanCreated, RunInv, GuardHeld, Guarded, RunningIsMarked
<1>2. exec \in Record /\ pin \in Record /\ pin.status = "EXECUTING" /\ pin.baseline
  BY StatusSet DEF RunInv, RunTypes, Record
<1>3. CASE disk.shadow
  <2>1. /\ ctl' = [NoControl EXCEPT !.on = TRUE, !.auto = auto]
        /\ db' = pin /\ loc' = pin /\ pc' = "baseline"
        /\ disk' = [disk EXCEPT !.baseline = TRUE]
        /\ UNCHANGED <<busy, running, attempt, turns, repair>>
    BY <1>3 DEF PlanCreated
  <2>2. ctl' \in Control
    BY <2>1, TaskRunAssumption DEF NoControl, Control
  <2>3. disk' \in Directories /\ disk'.baseline
    BY <2>1 DEF RunInv, RunTypes, Directories
  <2>4. pc' \in Places
    BY <2>1 DEF Places
  <2> HIDE DEF pin
  <2>5. RunTypes'
    BY <1>2, <2>1, <2>2, <2>3, <2>4 DEF RunInv, RunTypes
  <2>6. (BaselineHeld /\ RunningIsMarked /\ GuardHeld /\ NotYetFinal /\ StepIsLeft)'
    BY <1>1, <1>2, <2>1, <2>3
    DEF BaselineHeld, RunningIsMarked, GuardHeld, NotYetFinal, StepIsLeft
  <2> QED
    BY <2>5, <2>6 DEF RunInv
<1>4. CASE ~disk.shadow
  <2>1. FailRun(exec, disk)
    BY <1>4 DEF PlanCreated
  <2>2. disk \in Directories
    BY DEF RunInv, RunTypes
  <2> HIDE DEF exec
  <2> QED
    BY <1>1, <1>2, <2>1, <2>2, FailRunInv
<1> QED
  BY <1>3, <1>4

\* The steps of the loop over the plan.
LEMMA LoopInv ==
    ASSUME RunInv, BaselineCollected \/ AttemptFails \/ AbortSeen \/ ExecutionFails
    PROVE  RunInv'
<1>1. CASE BaselineCollected
  BY <1>1, AtWork, LoopTopInv DEF BaselineCollected, Executing
<1>2. CASE AttemptFails
  BY <1>2, RetryAttemptInv DEF AttemptFails
<1>3. CASE AbortSeen
  BY <1>3, AtWork, AbortRunInv DEF AbortSeen, Executing
<1>4. CASE ExecutionFails
  BY <1>4, AtWork, FailRunInv DEF ExecutionFails, Executing
<1> QED
  BY <1>1, <1>2, <1>3, <1>4

\* A verified step is promoted at once or waits for its review.
LEMMA StepVerifiedInv ==
    ASSUME RunInv, StepVerified
    PROVE  RunInv'
<1> DEFINE asking == [loc EXCEPT !.status = "AWAITING_STEP_REVIEW", !.pending = @ \cup {"review"}]
<1>1. pc = "tools" /\ pc \in Executing /\ loc.todo > 0
  BY DEF StepVerified, RunInv, StepIsLeft, Executing
<1>2. CASE CompleteStep(loc, disk)
  BY <1>1, <1>2, AtWork, CompleteStepInv
<1>3. CASE Park("review", asking, asking, disk) /\ NoAttempt
  <2>1. Workable(asking) /\ asking.status # "READY_FOR_REVIEW" /\ asking.todo > 0
    BY <1>1, AtWork, StatusSet DEF Workable, Record, Gates
  <2>2. "review" \in Executing /\ asking \in Record
    BY <2>1 DEF Executing, Workable
  <2>3. Park("review", asking, asking, disk) /\ Pinned(disk)
    BY <1>1, <1>3, AtWork
  <2> HIDE DEF asking
  <2> QED
    BY <1>1, <1>3, <2>1, <2>2, <2>3, NoAttemptType, ParkInv
<1> QED
  BY <1>2, <1>3 DEF StepVerified

\* The decided step is completed, or goes back to the head of the loop.
LEMMA ReviewDecidedInv ==
    ASSUME RunInv, ReviewDecided
    PROVE  RunInv'
<1> DEFINE back == [loc EXCEPT !.status = "EXECUTING", !.pending = @ \ {"review"}]
<1>1. pc \in Executing /\ loc.todo > 0
  BY DEF ReviewDecided, RunInv, StepIsLeft, Executing
<1>2. Workable(back) /\ back.todo > 0 /\ Pinned(disk)
  BY <1>1, AtWork, StatusSet DEF Workable, Record
<1>3. CompleteStep(back, disk) \/ LoopTop(back, disk)
  BY DEF ReviewDecided
<1> HIDE DEF back
<1> QED
  BY <1>1, <1>2, <1>3, CompleteStepInv, LoopTopInv

\* A handoff asks for a revision within the budget.
LEMMA PlanHandoffInv ==
    ASSUME RunInv, PlanHandoff
    PROVE  RunInv'
<1> DEFINE restored == [disk EXCEPT !.shadow = TRUE]
           counted  == [loc EXCEPT !.replans = @ + 1]
<1>1. pc \in Executing /\ db \in Record /\ db.status # "READY_FOR_REVIEW"
  BY AtWork DEF PlanHandoff, Executing
<1>2. Pinned(restored)
  BY <1>1, AtWork DEF Pinned, Directories
<1>3. CASE FailRun(loc, restored)
  <2> HIDE DEF restored
  <2> QED
    BY <1>1, <1>2, <1>3, AtWork, FailRunInv DEF Pinned
<1>4. CASE loc.replans < MaxReplans /\ Park("replan", db, counted, restored) /\ NoAttempt
  <2>1. Workable(counted)
    <3>1. loc.replans + 1 \in 0 .. MaxReplans
      BY <1>1, <1>4, AtWork, Bounds DEF Record
    <3>2. counted \in Record
      BY <1>1, <3>1, AtWork DEF Record
    <3> QED
      BY <1>1, <3>2, AtWork DEF Workable, Record
  <2>2. "replan" \in Executing /\ Park("replan", db, counted, restored)
    BY <1>4 DEF Executing
  <2> HIDE DEF restored, counted
  <2> QED
    BY <1>1, <1>2, <1>4, <2>1, <2>2, NoAttemptType, ParkInv
<1>5. loc.replans \in Nat
  BY <1>1, AtWork, Bounds DEF Record
<1> QED
  BY <1>3, <1>4, <1>5, Bounds DEF PlanHandoff

\* A revised plan goes back to the head of the loop.
LEMMA PlanRevisedInv ==
    ASSUME RunInv, NEW left \in 0 .. NSteps, NEW restores \in BOOLEAN, PlanRevised(left, restores)
    PROVE  RunInv'
<1> DEFINE next == [loc EXCEPT !.todo = left, !.events = TRUE]
           k    == [disk EXCEPT !.shadow = @ \/ restores]
<1>1. pc \in Executing
  BY DEF PlanRevised, Executing
<1>2. Workable(next)
  BY <1>1, AtWork DEF Workable, Record
<1>3. Pinned(k)
  BY <1>1, AtWork DEF Pinned, Directories
<1>4. LoopTop(next, k)
  BY DEF PlanRevised
<1> HIDE DEF next, k
<1> QED
  BY <1>1, <1>2, <1>3, <1>4, LoopTopInv

\* Raising a gate from the tool loop keeps the coroutine's own record.
LEMMA AskInLoopInv ==
    ASSUME RunInv, NEW g \in {"scope", "command"}, AskInLoop(g)
    PROVE  RunInv'
<1> DEFINE asking == [db EXCEPT !.status = GateStatus[g], !.pending = @ \cup {g}]
<1>1. pc = "tools" /\ pc \in Executing /\ turns < MaxTurns
  BY DEF AskInLoop, Executing
<1>2. CASE RetryAttempt
  BY <1>1, <1>2, RetryAttemptInv
<1>3. CASE /\ Park(g, asking, loc, disk)
           /\ turns' = turns + 1
           /\ UNCHANGED <<attempt, repair>>
  <2>1. asking \in Record /\ asking.status # "READY_FOR_REVIEW"
    BY <1>1, AtWork, GateStatusType DEF Record, Gates
  <2>2. g \in Executing /\ Workable(loc) /\ Pinned(disk)
    BY <1>1, AtWork DEF Executing
  <2>3. attempt' \in 0 .. MaxAttempts /\ repair' \in BOOLEAN
    BY <1>3 DEF RunInv, RunTypes
  <2>4. turns' \in 0 .. MaxTurns
    BY <1>1, <1>3, Bounds DEF RunInv, RunTypes
  <2>5. (g \in {"tools", "scope", "command"} /\ ~repair') \/ g = "review" => loc.todo > 0
    BY <1>1, <1>3 DEF RunInv, StepIsLeft
  <2>6. Park(g, asking, loc, disk)
    BY <1>3
  <2> HIDE DEF asking
  <2> QED
    BY <1>1, <2>1, <2>2, <2>3, <2>4, <2>5, <2>6, ParkInv
<1> QED
  BY <1>2, <1>3 DEF AskInLoop

\* Leaving such a gate does too, whatever has become of the stored record.
LEMMA AnswerInLoopInv ==
    ASSUME RunInv, NEW g \in {"scope", "command"}, NEW a \in Answers, AnswerInLoop(g, a)
    PROVE  RunInv'
<1> DEFINE fresh == [db EXCEPT !.pending = @ \ {g},
                              !.status = IF @ = GateStatus[g] THEN "EXECUTING" ELSE @,
                              !.remembered = IF a = "remember" THEN @ \cup {g} ELSE @]
<1>1. pc = g /\ pc \in Executing /\ Park("tools", fresh, loc, disk) /\ UNCHANGED <<attempt, turns, repair>>
  BY DEF AnswerInLoop, Executing
<1>2. fresh \in Record /\ fresh.status # "READY_FOR_REVIEW"
  BY <1>1, AtWork, StatusSet DEF Record
<1>3. "tools" \in Executing /\ Workable(loc) /\ Pinned(disk)
  BY <1>1, AtWork DEF Executing
<1>4. attempt' \in 0 .. MaxAttempts /\ turns' \in 0 .. MaxTurns /\ repair' \in BOOLEAN
  BY <1>1 DEF RunInv, RunTypes
<1>5. ("tools" \in {"tools", "scope", "command"} /\ ~repair') \/ "tools" = "review" => loc.todo > 0
  BY <1>1 DEF RunInv, StepIsLeft
<1> HIDE DEF fresh
<1> QED
  BY <1>1, <1>2, <1>3, <1>4, <1>5, ParkInv

\* Validation, the repair step and the user's decision about the rest.
LEMMA ValidationInv ==
    ASSUME RunInv, \/ ValidationPasses \/ ValidationFails \/ RepairVerified
                   \/ \E a \in Answers : ValidationDecided(a)
    PROVE  RunInv'
<1>1. CASE ValidationPasses
  BY <1>1, AtWork, EndRunInv, StatusSet DEF ValidationPasses, Executing
<1>2. CASE ValidationFails
  <2> DEFINE again  == Set(loc, "EXECUTING")
             asking == [loc EXCEPT !.status = "AWAITING_VALIDATION_DECISION",
                                   !.pending = @ \cup {"validation"}]
  <2>1. pc \in Executing
    BY <1>2 DEF ValidationFails, Executing
  <2>2. CASE StartAttempt(again, again, 1, TRUE, disk)
    <3>1. again \in Record /\ Workable(again) /\ again.status # "READY_FOR_REVIEW"
      BY <2>1, AtWork, StatusSet DEF Workable, Record, Set
    <3>2. 1 \in 0 .. MaxAttempts
      BY Bounds
    <3> HIDE DEF again
    <3> QED
      BY <2>1, <2>2, <3>1, <3>2, AtWork, StartAttemptInv
  <2>3. CASE Park("validation", asking, asking, disk) /\ NoAttempt
    <3>1. asking \in Record /\ Workable(asking) /\ asking.status # "READY_FOR_REVIEW"
      BY <2>1, AtWork, StatusSet DEF Workable, Record, Gates
    <3>2. "validation" \in Executing /\ Park("validation", asking, asking, disk)
      BY <2>3 DEF Executing
    <3> HIDE DEF asking
    <3> QED
      BY <2>1, <2>3, <3>1, <3>2, AtWork, NoAttemptType, ParkInv
  <2> QED
    BY <1>2, <2>2, <2>3 DEF ValidationFails
<1>3. CASE RepairVerified
  <2> DEFINE again == [loc EXCEPT !.status = "VALIDATING", !.events = TRUE]
  <2>1. pc \in Executing
    BY <1>3 DEF RepairVerified, Executing
  <2>2. again \in Record /\ Workable(again) /\ again.status # "READY_FOR_REVIEW"
    BY <2>1, AtWork, StatusSet DEF Workable, Record
  <2>3. "validate" \in Executing /\ Park("validate", again, again, disk)
    BY <1>3 DEF RepairVerified, Executing
  <2>4. attempt' \in 0 .. MaxAttempts /\ turns' \in 0 .. MaxTurns
    BY <1>3, Bounds DEF RepairVerified
  <2>5. repair' \in BOOLEAN
    BY <1>3 DEF RepairVerified, RunInv, RunTypes
  <2> HIDE DEF again
  <2> QED
    BY <2>1, <2>2, <2>3, <2>4, <2>5, AtWork, ParkInv
<1>4. ASSUME NEW a \in Answers, ValidationDecided(a) PROVE RunInv'
  <2> DEFINE back == [loc EXCEPT !.pending = @ \ {"validation"}]
             s    == IF a = "accept" THEN "READY_FOR_REVIEW" ELSE "FAILED"
  <2>1. pc \in Executing /\ EndRun(back, s, disk)
    BY <1>4 DEF ValidationDecided, Executing
  <2>2. back \in Record /\ s \in Status
    BY <2>1, AtWork, StatusSet DEF Record
  <2> HIDE DEF back, s
  <2> QED
    BY <2>1, <2>2, AtWork, EndRunInv
<1> QED
  BY <1>1, <1>2, <1>3, <1>4

\* The last save of the run.
LEMMA NarrativeInv ==
    ASSUME RunInv, NarrativeWritten
    PROVE  RunInv'
<1> DEFINE last == [loc EXCEPT !.baseline = @ /\ loc.status = "READY_FOR_REVIEW"]
<1>1. "idle" \in Places \ Executing /\ "idle" \notin Guarded
  BY DEF Places, Executing, Guarded
<1>2. /\ db' = last /\ loc' = last /\ pc' = "idle" /\ busy' = FALSE
      /\ disk' = [disk EXCEPT !.baseline = @ /\ (last.baseline \/ ~loc.baseline)]
      /\ UNCHANGED <<running, ctl, attempt, turns, repair>>
  BY DEF NarrativeWritten
<1>3. last \in Record
  BY DEF RunInv, RunTypes, Record
<1>4. disk' \in Directories
  BY <1>2, <1>3 DEF RunInv, RunTypes, Directories, Record
<1>5. running' \in BOOLEAN /\ busy' \in BOOLEAN
  BY <1>2 DEF RunInv, RunTypes
<1> HIDE DEF last
<1> QED
  BY <1>1, <1>2, <1>3, <1>4, <1>5, OutsideInv

\* A route that keeps the coroutine where it is keeps the invariant, as long as
\* it leaves the pinned baseline to a run that is not over and does not move
\* the status to one the coroutine or the client would act on.
LEMMA RouteInv ==
    ASSUME RunInv, UNCHANGED <<loc, pc, busy, running, attempt, turns, repair>>,
           db' \in Record, ctl' \in Control, disk' \in Directories,
           pc \in Executing => disk'.baseline,
           db'.status = db.status \/ db'.status \in Terminal
    PROVE  RunInv'
<1>1. RunTypes'
  BY DEF RunInv, RunTypes
<1>2. BaselineHeld' /\ RunningIsMarked' /\ StepIsLeft'
  BY DEF RunInv, BaselineHeld, RunningIsMarked, StepIsLeft
<1>3. GuardHeld' /\ NotYetFinal'
  BY DEF RunInv, GuardHeld, NotYetFinal, Terminal
<1> QED
  BY <1>1, <1>2, <1>3 DEF RunInv

\* Every route but plan feedback.
LEMMA RoutesInv ==
    ASSUME RunInv, \/ \E g \in Gates, a \in Answers : Decide(g, a)
                   \/ Cancel
                   \/ \E revert \in BOOLEAN : Abort(revert)
                   \/ \E auto \in BOOLEAN : SetReviewPref(auto)
                   \/ \E copied \in BOOLEAN : Accept(copied)
                   \/ Reject
    PROVE  RunInv'
<1>0. /\ db \in Record /\ ctl \in Control /\ disk \in Directories
      /\ pc \in Executing => disk.baseline
  BY DEF RunInv, RunTypes, BaselineHeld
<1>1. ASSUME NEW g, NEW a, Decide(g, a) PROVE RunInv'
  BY <1>0, <1>1, RouteInv DEF Decide
<1>2. CASE Cancel
  <2>1. db' \in Record /\ (db'.status = db.status \/ db'.status \in Terminal)
    BY <1>0, <1>2, StatusSet DEF Cancel, Record, Terminal
  <2>2. disk' \in Directories /\ disk'.baseline = disk.baseline
    BY <1>0, <1>2 DEF Cancel, Directories, Record
  <2> QED
    BY <1>0, <1>2, <2>1, <2>2, RouteInv DEF Cancel
<1>3. ASSUME NEW revert \in BOOLEAN, Abort(revert) PROVE RunInv'
  <2>1. ctl' \in Control
    BY <1>0, <1>3 DEF Abort, Control
  <2> QED
    BY <1>0, <1>3, <2>1, RouteInv DEF Abort
<1>4. ASSUME NEW auto \in BOOLEAN, SetReviewPref(auto) PROVE RunInv'
  <2>1. ctl' \in Control
    BY <1>0, <1>4 DEF SetReviewPref, Control
  <2> QED
    BY <1>0, <1>4, <2>1, RouteInv DEF SetReviewPref
<1>5. ASSUME NEW copied \in BOOLEAN, Accept(copied) PROVE RunInv'
  <2>1. db' \in Record /\ db'.status \in Terminal
    BY <1>0, <1>5, StatusSet DEF Accept, Record, Terminal
  <2>2. disk' \in Directories /\ disk'.baseline = disk.baseline
    BY <1>0, <1>5 DEF Accept, Directories, Record
  <2> QED
    BY <1>0, <1>5, <2>1, <2>2, RouteInv DEF Accept
<1>6. CASE Reject
  <2>1. pc \notin Executing
    BY <1>6 DEF Reject, FinalDecision, RunInv, NotYetFinal, Executing
  <2> DEFINE closed == [db EXCEPT !.status = "ABORTED", !.shadow = FALSE, !.baseline = FALSE]
             left   == [shadow |-> disk.shadow /\ ~db.shadow,
                        baseline |-> disk.baseline /\ ~db.baseline]
             torn   == [disk EXCEPT !.shadow = FALSE]
  <2>a. (db' = db /\ disk' = torn) \/ (db' = closed /\ disk' = left)
    BY <1>6 DEF Reject
  <2>b. closed \in Record /\ closed.status \in Terminal
    BY <1>0, StatusSet DEF Record, Terminal
  <2>c. left \in Directories /\ torn \in Directories
    BY <1>0 DEF Record, Directories
  <2> HIDE DEF closed, left, torn
  <2>2. db' \in Record /\ (db'.status = db.status \/ db'.status \in Terminal)
    BY <1>0, <2>a, <2>b
  <2>3. disk' \in Directories
    BY <2>a, <2>c
  <2> QED
    BY <1>0, <1>6, <2>1, <2>2, <2>3, RouteInv DEF Reject
<1> QED
  BY <1>1, <1>2, <1>3, <1>4, <1>5, <1>6

\* The variables no stretch touches keep their types.
LEMMA SideStep ==
    ASSUME SideTypes, [Next]_vars
    PROVE  SideTypes'
<1>1. CASE UNCHANGED vars
  BY <1>1 DEF vars, SideTypes
<1>2. CASE Engine
  <2>1. ask' \in {"approve", "feedback"}
    BY <1>2 DEF Engine, SideTypes, RunTaskBegin, EnvEnsured, PlanGenerated, RunTaskFails,
       ContinueBegin, PlanRegenerated, ContinueFails, PlanCreated, BaselineCollected,
       AttemptFails, AbortSeen, StepVerified, ReviewDecided, PlanHandoff, PlanRevised,
       ExecutionFails, AskInLoop, AnswerInLoop, ValidationPasses, ValidationFails,
       RepairVerified, ValidationDecided, NarrativeWritten
  <2>2. rules' \in BOOLEAN
    BY <1>2 DEF Engine, SideTypes, RunTaskBegin, EnvEnsured, PlanGenerated, RunTaskFails,
       ContinueBegin, PlanRegenerated, ContinueFails, PlanCreated, BaselineCollected,
       AttemptFails, AbortSeen, StepVerified, ReviewDecided, PlanHandoff, PlanRevised,
       ExecutionFails, AskInLoop, AnswerInLoop, ValidationPasses, ValidationFails,
       RepairVerified, ValidationDecided, NarrativeWritten
  <2>3. \/ UNCHANGED future
        \/ \E g \in Gates, v \in {"none", "open"} : future' = [future EXCEPT ![g] = v]
    BY <1>2 DEF Engine, Gates, RunTaskBegin, EnvEnsured, PlanGenerated, RunTaskFails,
       ContinueBegin, PlanRegenerated, ContinueFails, PlanCreated, BaselineCollected,
       AttemptFails, AbortSeen, StepVerified, ReviewDecided, PlanHandoff, PlanRevised,
       ExecutionFails, AskInLoop, AnswerInLoop, ValidationPasses, ValidationFails,
       RepairVerified, ValidationDecided, NarrativeWritten
  <2> QED
    BY <2>1, <2>2, <2>3 DEF SideTypes
<1>3. CASE Routes
  <2>1. /\ ask' \in {"approve", "feedback"} /\ rules' = rules
        /\ \/ UNCHANGED future
           \/ \E g \in Gates, a \in Answers : future' = [future EXCEPT ![g] = a]
    BY <1>3 DEF Routes, SideTypes, Gates, Answers, PlanFeedback, Decide, Cancel, Abort,
       SetReviewPref, Accept, Reject
  <2> QED
    BY <2>1 DEF SideTypes
<1>4. CASE Settled
  BY <1>4 DEF Settled, vars, SideTypes
<1> QED
  BY <1>1, <1>2, <1>3, <1>4 DEF Next

\* The invariant holds at first.
LEMMA InvInit ==
    ASSUME Init
    PROVE  Inv
<1>1. NewRecord \in Record
  BY Bounds, StatusSet DEF NewRecord, Record
<1>2. RunTypes
  <2>1. db \in Record /\ loc \in Record /\ pc \in Places
    BY <1>1 DEF Init, Places
  <2>2. busy \in BOOLEAN /\ running \in BOOLEAN /\ repair \in BOOLEAN
    BY DEF Init
  <2>3. ctl \in Control /\ disk \in Directories
    BY DEF Init, NoControl, Control, Directories
  <2>4. attempt \in 0 .. MaxAttempts /\ turns \in 0 .. MaxTurns
    BY Bounds DEF Init
  <2> QED
    BY <2>1, <2>2, <2>3, <2>4 DEF RunTypes
<1>3. SideTypes
  BY DEF Init, SideTypes
<1>4. BaselineHeld /\ RunningIsMarked /\ GuardHeld /\ NotYetFinal /\ StepIsLeft
  BY DEF Init, NewRecord, BaselineHeld, RunningIsMarked, GuardHeld, Guarded, NotYetFinal,
     StepIsLeft, Executing
<1> QED
  BY <1>2, <1>3, <1>4 DEF Inv, RunInv

\* Every step keeps the invariant.
LEMMA InvStep ==
    ASSUME Inv, [Next]_vars
    PROVE  Inv'
<1>1. RunInv /\ SideTypes'
  BY SideStep DEF Inv
<1>2. CASE UNCHANGED vars
  <2>1. RunTypes'
    BY <1>1, <1>2 DEF vars, RunInv, RunTypes
  <2>2. (BaselineHeld /\ RunningIsMarked /\ GuardHeld /\ NotYetFinal /\ StepIsLeft)'
    BY <1>1, <1>2 DEF vars, RunInv, BaselineHeld, RunningIsMarked, GuardHeld, NotYetFinal, StepIsLeft
  <2> QED
    BY <1>1, <2>1, <2>2 DEF Inv, RunInv
<1>3. CASE Engine
  <2>1. RunInv'
    BY <1>1, <1>3, RunTaskInv, ContinueInv, PlanCreatedInv, LoopInv, StepVerifiedInv,
       ReviewDecidedInv, PlanHandoffInv, PlanRevisedInv, AskInLoopInv, AnswerInLoopInv,
       ValidationInv, NarrativeInv
    DEF Engine
  <2> QED
    BY <1>1, <2>1 DEF Inv
<1>4. CASE Routes
  <2>1. RunInv'
    BY <1>1, <1>4, ContinueInv, RoutesInv DEF Routes
  <2> QED
    BY <1>1, <2>1 DEF Inv
<1>5. CASE Settled
  BY <1>2, <1>5 DEF Settled
<1> QED
  BY <1>2, <1>3, <1>4, <1>5 DEF Next

-----------------------------------------------------------------------------
(* Theorems                                                                 *)

\* In every reachable state every variable has its type: no counter passes its
\* budget, and no status is outside the table.
THEOREM TypeCorrect == Spec => []TypeOK
<1>1. Init => Inv
  BY InvInit
<1>2. Inv /\ [Next]_vars => Inv'
  BY InvStep
<1>3. Inv => TypeOK
  BY DEF Inv, RunInv, RunTypes, SideTypes, TypeOK
<1> QED
  BY <1>1, <1>2, <1>3, PTL DEF Spec

\* Whatever the clients do, the pinned baseline is there, on disk and in the
\* coroutine's record, as long as a step can still make the rollback necessary.
THEOREM BaselineIsHeld == Spec => []BaselineHeld
<1>1. Init => Inv
  BY InvInit
<1>2. Inv /\ [Next]_vars => Inv'
  BY InvStep
<1>3. Inv => BaselineHeld
  BY DEF Inv, RunInv
<1> QED
  BY <1>1, <1>2, <1>3, PTL DEF Spec

\* The in-flight guard and the status test of POST /plan/feedback admit a second
\* coroutine only when there is none, in spite of cancels, of saves of stale
\* copies, and of the status being saved while the coroutine still runs.
THEOREM OneCoroutineAtATime == Spec => []OneCoroutine
<1>1. Init => Inv
  BY InvInit
<1>2. Inv /\ [Next]_vars => Inv'
  BY InvStep
<1>3. Inv => OneCoroutine
  BY DEF Inv, RunInv, RunTypes, GuardHeld, Guarded, Executing, Places, OneCoroutine
<1> QED
  BY <1>1, <1>2, <1>3, PTL DEF Spec

\* A coroutine that may still emit patch events is marked running, so that a
\* stream that connects late does not take the task for an idle one.
THEOREM RunningMark == Spec => []RunningIsMarked
<1>1. Init => Inv
  BY InvInit
<1>2. Inv /\ [Next]_vars => Inv'
  BY InvStep
<1>3. Inv => RunningIsMarked
  BY DEF Inv, RunInv
<1> QED
  BY <1>1, <1>2, <1>3, PTL DEF Spec

\* The head of the loop starts no attempt once an abort is requested.
LEMMA LoopTopHeedsAbort ==
    ASSUME NEW r, NEW k, ctl.abort, LoopTop(r, k) \/ CompleteStep(r, k)
    PROVE  pc' # "tools"
BY DEF LoopTop, CompleteStep, AbortRun, EndRun, Park

\* An attempt that starts is an attempt of what it was asked for.
LEMMA RepairAttempt ==
    ASSUME NEW d, NEW r, NEW n, NEW k, StartAttempt(d, r, n, TRUE, k)
    PROVE  pc' # "tools" \/ repair'
BY DEF StartAttempt, FailRun, EndRun, Park

\* A run that is asked to abort begins no further plan step: a tool loop of a
\* plan step that is running then was already running, or waiting at its gate.
THEOREM AbortStopsSteps == Spec => AbortBeginsNoStep
<1>1. ASSUME [Next]_vars, ctl.abort, pc' = "tools", ~repair'
      PROVE  pc \in {"tools", "scope", "command"}
  <2>1. CASE UNCHANGED vars
    BY <1>1, <2>1 DEF vars
  <2>2. CASE \/ RunTaskBegin \/ EnvEnsured \/ PlanGenerated \/ RunTaskFails
             \/ ContinueBegin \/ PlanRegenerated \/ ContinueFails
             \/ \E n \in 0 .. NSteps, auto \in AutoAccept : PlanCreated(n, auto)
    BY <1>1, <2>2 DEF RunTaskBegin, EnvEnsured, PlanGenerated, RunTaskFails, ContinueBegin,
       PlanRegenerated, ContinueFails, PlanCreated, FailRun, EndRun
  <2>3. CASE BaselineCollected \/ ReviewDecided
             \/ \E left \in 0 .. NSteps, restores \in BOOLEAN : PlanRevised(left, restores)
    BY <1>1, <2>3, LoopTopHeedsAbort DEF BaselineCollected, ReviewDecided, PlanRevised
  <2>4. CASE \/ AttemptFails \/ AbortSeen \/ StepVerified \/ PlanHandoff \/ RepairVerified
             \/ \E g \in {"scope", "command"} : AskInLoop(g)
             \/ \E g \in {"scope", "command"}, a \in Answers : AnswerInLoop(g, a)
    BY <2>4 DEF AttemptFails, AbortSeen, StepVerified, PlanHandoff, RepairVerified, AskInLoop,
       AnswerInLoop
  <2>5. CASE ValidationFails
    BY <1>1, <2>5, RepairAttempt DEF ValidationFails, Park
  <2>6. CASE \/ ExecutionFails \/ ValidationPasses \/ NarrativeWritten
             \/ \E a \in Answers : ValidationDecided(a)
    BY <1>1, <2>6 DEF ExecutionFails, ValidationPasses, NarrativeWritten, ValidationDecided,
       FailRun, EndRun
  <2>7. CASE Routes \/ Settled
    BY <1>1, <2>7 DEF Routes, PlanFeedback, Decide, Cancel, Abort, SetReviewPref, Accept, Reject,
       Settled, vars
  <2> QED
    BY <1>1, <2>1, <2>2, <2>3, <2>4, <2>5, <2>6, <2>7 DEF Next, Engine
<1> QED
  BY <1>1, PTL DEF Spec, AbortBeginsNoStep
=============================================================================

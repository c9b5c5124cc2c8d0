--------------------------- MODULE TaskRunSafeProofs ---------------------------
(***************************************************************************)
(* What TLAPS proves about TaskRun for a client that neither cancels nor   *)
(* decides before the run has ended, for any bounds: the stored record and *)
(* the coroutine's copy agree wherever it waits, the gates are answerable, *)
(* the end leaves nothing behind, and the task implements TaskLife.        *)
(***************************************************************************)
EXTENDS TaskRunProofs

\* The final decision waits for the end of the run.
Patient == Requests \cap {"cancel", "early"} = {}

\* Where the coroutine waits decides the status that is stored ...
Standing ==
    /\ pc \in {"start", "ensure"} => db.status = "QUEUED"
    /\ pc \in {"planning", "regen"} => db.status = "CONTEXT_READY"
    /\ pc = "scheduled" => db.status = "AWAITING_PLAN_APPROVAL"
    /\ pc = "json" => db.status = "PLANNED"
    /\ pc \in {"baseline", "tools", "replan"} => db.status = "EXECUTING"
    /\ pc \in Gates => db.status = GateStatus[pc] /\ pc \in db.pending
    /\ pc = "validate" => db.status = "VALIDATING"
    /\ pc = "narrate" => db.status \in {"READY_FOR_REVIEW"} \cup Terminal
    /\ pc = "idle" => db.status \in {"AWAITING_PLAN_APPROVAL", "READY_FOR_REVIEW"} \cup Terminal

\* ... and whether the coroutine's copy is the stored record.  The tool loop and its
\* gates work on one of their own, and a replan has not saved its usage.
CopyAgrees ==
    /\ pc \in {"ensure", "planning", "regen", "json", "baseline", "review", "validate",
               "validation", "narrate"} => loc = db
    /\ pc \in {"tools", "scope", "command", "replan"} => loc.status = "EXECUTING"

\* A run has its shadow from the approval of its plan on.
HasShadow ==
    /\ pc \in Executing => disk.shadow /\ loc.shadow
    /\ pc = "json" => loc.shadow

\* A future waits exactly at its gate.
Heard == \A g \in Gates : future[g] # "none" <=> pc = g

\* Outside a run there is no control, and the marks are gone with the coroutine.
Released ==
    /\ pc \notin Executing => ctl = NoControl
    /\ pc \in {"start", "ensure", "narrate", "idle"} => ~running
    /\ pc \in {"start", "ensure", "planning", "idle"} => ~busy

\* What is validated, and what the repair step repairs, is a plan carried out.
PlanIsDone ==
    \/ pc \in {"validate", "validation"}
    \/ pc \in {"tools", "scope", "command"} /\ repair
    => loc.todo = 0

SafeInv ==
    Standing /\ CopyAgrees /\ HasShadow /\ Heard /\ Released /\ PlanIsDone /\ ReviewIsActionable

\* No gate waits for an answer.
Quiet == \A g \in Gates : future[g] = "none"

-----------------------------------------------------------------------------
(* The stretches of the coroutine keep the invariant                        *)

\* The end of a run does, if a run that is up for review has what it takes.
LEMMA EndRunSafe ==
    ASSUME NEW r \in Record, NEW s \in {"READY_FOR_REVIEW"} \cup Terminal, NEW k \in Directories,
           EndRun(r, s, k), Quiet',
           s = "READY_FOR_REVIEW" => /\ r.shadow /\ k.shadow /\ r.baseline /\ k.baseline
                                     /\ r.todo = 0
    PROVE  SafeInv'
<1>1. /\ db' = Set(r, s) /\ loc' = Set(r, s) /\ disk' = k
      /\ pc' = "narrate" /\ running' = FALSE /\ ctl' = NoControl
  BY DEF EndRun
<1>2. /\ Set(r, s).status = s /\ Set(r, s).shadow = r.shadow /\ Set(r, s).baseline = r.baseline
      /\ Set(r, s).todo = r.todo
  BY DEF Set, Record
<1>3. Standing' /\ CopyAgrees' /\ HasShadow' /\ PlanIsDone' /\ Released'
  BY <1>1, <1>2 DEF Standing, CopyAgrees, HasShadow, PlanIsDone, Released, Executing, Gates
<1>4. Heard'
  BY <1>1 DEF Heard, Quiet, Gates
<1>5. ReviewIsActionable'
  BY <1>1, <1>2 DEF ReviewIsActionable
<1> QED
  BY <1>3, <1>4, <1>5 DEF SafeInv

\* A failed run keeps it.
LEMMA FailRunSafe ==
    ASSUME NEW r \in Record, NEW k \in Directories, FailRun(r, k), Quiet'
    PROVE  SafeInv'
BY EndRunSafe DEF FailRun, Terminal

\* So does an aborted run, with and without a narrative.
LEMMA AbortRunSafe ==
    ASSUME NEW r \in Record, NEW k \in Directories, AbortRun(r, k), Quiet'
    PROVE  SafeInv'
<1> DEFINE gone == [r EXCEPT !.shadow = FALSE]
           done == [gone EXCEPT !.baseline = FALSE, !.status = "ABORTED"]
<1>1. CASE r.events
  <2>1. EndRun(gone, "ABORTED", [k EXCEPT !.shadow = FALSE])
    BY <1>1 DEF AbortRun
  <2>2. gone \in Record /\ [k EXCEPT !.shadow = FALSE] \in Directories /\ "ABORTED" \in Terminal
    BY DEF Record, Directories, Terminal
  <2> QED
    BY <2>1, <2>2, EndRunSafe
<1>2. CASE ~r.events
  <2>1. /\ db' = done /\ pc' = "idle" /\ running' = FALSE /\ ctl' = NoControl /\ busy' = FALSE
    BY <1>2 DEF AbortRun
  <2>2. done.status = "ABORTED"
    BY DEF Record
  <2> HIDE DEF done
  <2>3. Standing' /\ CopyAgrees' /\ HasShadow' /\ PlanIsDone' /\ Released'
    BY <2>1, <2>2
    DEF Standing, CopyAgrees, HasShadow, PlanIsDone, Released, Executing, Gates, Terminal
  <2>4. Heard' /\ ReviewIsActionable'
    BY <2>1, <2>2 DEF Heard, Quiet, Gates, ReviewIsActionable
  <2> QED
    BY <2>3, <2>4 DEF SafeInv
<1> QED
  BY <1>1, <1>2

\* Waiting inside _execute_plan does, with a shadow and at the right place.
LEMMA ParkSafe ==
    ASSUME NEW p \in Executing, NEW d, NEW r, NEW k, Park(p, d, r, k),
           r.shadow, k.shadow, d.status # "READY_FOR_REVIEW",
           Standing', CopyAgrees', Heard', PlanIsDone'
    PROVE  SafeInv'
<1>1. db' = d /\ loc' = r /\ pc' = p /\ disk' = k
  BY DEF Park
<1>2. HasShadow' /\ Released' /\ ReviewIsActionable'
  BY <1>1 DEF HasShadow, Released, ReviewIsActionable, Executing
<1> QED
  BY <1>2 DEF SafeInv

\* What an attempt, and the head of the loop, may be entered with.
Carried(r, k) ==
    r \in Record /\ r.status = "EXECUTING" /\ r.shadow /\ k \in Directories /\ k.shadow

\* Entering the tool loop, or coming back to it.
LEMMA ToolsSafe ==
    ASSUME NEW d, NEW r, NEW k, Carried(r, k), d.status = "EXECUTING", Park("tools", d, r, k),
           Quiet', repair' => r.todo = 0
    PROVE  SafeInv'
<1>1. "tools" \in Executing /\ r.shadow /\ k.shadow /\ d.status # "READY_FOR_REVIEW"
  BY DEF Executing, Carried
<1>2. db' = d /\ loc' = r /\ pc' = "tools"
  BY DEF Park
<1>3. Standing' /\ CopyAgrees' /\ PlanIsDone' /\ Heard'
  BY <1>2 DEF Standing, CopyAgrees, PlanIsDone, Heard, Quiet, Gates, Carried
<1> QED
  BY <1>1, <1>3, ParkSafe

\* An attempt keeps the invariant.
LEMMA StartAttemptSafe ==
    ASSUME NEW d, NEW r, NEW n, NEW rep, NEW k, Carried(r, k), d.status = "EXECUTING",
           rep => r.todo = 0, StartAttempt(d, r, n, rep, k), Quiet'
    PROVE  SafeInv'
<1> DEFINE bumped == [r EXCEPT !.iters = @ + 1]
<1>1. ASSUME r.iters <= MaxIterations PROVE Carried(bumped, k) /\ bumped.todo = r.todo
  BY <1>1, Bounds DEF Carried, Record
<1>2. CASE FailRun(r, k)
  BY <1>2, FailRunSafe DEF Carried
<1>3. CASE r.iters <= MaxIterations /\ FailRun(bumped, k)
  BY <1>1, <1>3, FailRunSafe DEF Carried
<1>4. CASE r.iters <= MaxIterations /\ Park("tools", d, bumped, k) /\ repair' = rep
  <2>1. Carried(bumped, k) /\ bumped.todo = r.todo
    BY <1>1, <1>4
  <2> HIDE DEF bumped
  <2> QED
    BY <1>4, <2>1, ToolsSafe
<1> QED
  BY <1>2, <1>3, <1>4 DEF StartAttempt

\* The head of the loop keeps the invariant: only a plan carried out is validated.
LEMMA LoopTopSafe ==
    ASSUME NEW r, NEW k, Carried(r, k), LoopTop(r, k), Quiet'
    PROVE  SafeInv'
<1>1. CASE AbortRun(r, k)
  BY <1>1, AbortRunSafe DEF Carried
<1>2. CASE StartAttempt(r, r, 1, FALSE, k)
  BY <1>2, StartAttemptSafe DEF Carried
<1>3. CASE r.todo = 0 /\ Park("validate", Set(r, "VALIDATING"), Set(r, "VALIDATING"), k)
  <2> DEFINE v == Set(r, "VALIDATING")
  <2>1. v.status = "VALIDATING" /\ v.shadow /\ v.todo = 0 /\ k.shadow
    BY <1>3 DEF Carried, Set, Record
  <2>2. db' = v /\ loc' = v /\ pc' = "validate" /\ Park("validate", v, v, k)
    BY <1>3 DEF Park
  <2> HIDE DEF v
  <2>3. Standing' /\ CopyAgrees' /\ PlanIsDone' /\ Heard'
    BY <2>1, <2>2 DEF Standing, CopyAgrees, PlanIsDone, Heard, Quiet, Gates
  <2>4. "validate" \in Executing
    BY DEF Executing
  <2> QED
    BY <2>1, <2>2, <2>3, <2>4, ParkSafe
<1> QED
  BY <1>1, <1>2, <1>3 DEF LoopTop

\* Completing a step does.
LEMMA CompleteStepSafe ==
    ASSUME NEW r, NEW k, Carried(r, k), r.todo > 0, CompleteStep(r, k), Quiet'
    PROVE  SafeInv'
<1> DEFINE next == [r EXCEPT !.todo = @ - 1, !.events = TRUE]
<1>1. r.todo - 1 \in 0 .. NSteps
  BY Bounds DEF Carried, Record
<1>2. Carried(next, k)
  BY <1>1 DEF Carried, Record
<1>3. LoopTop(next, k)
  BY DEF CompleteStep
<1> HIDE DEF next
<1> QED
  BY <1>2, <1>3, LoopTopSafe

\* What the two invariants say of a coroutine inside _execute_plan: outside the
\* gates that resume on its copy, that copy can be carried on.
LEMMA AtPlace ==
    ASSUME Inv, SafeInv, pc \in Executing
    PROVE  /\ loc \in Record /\ db \in Record /\ disk \in Directories
           /\ loc.shadow /\ disk.shadow /\ loc.baseline /\ disk.baseline
           /\ pc \in {"baseline", "tools", "scope", "command", "replan"} => Carried(loc, disk)
<1>1. loc \in Record /\ db \in Record /\ disk \in Directories
  BY DEF Inv, RunInv, RunTypes
<1>2. loc.shadow /\ disk.shadow /\ loc.baseline /\ disk.baseline
  BY DEF SafeInv, HasShadow, Inv, RunInv, BaselineHeld
<1>3. pc \in {"baseline", "tools", "scope", "command", "replan"} => loc.status = "EXECUTING"
  BY DEF SafeInv, CopyAgrees, Standing
<1> QED
  BY <1>1, <1>2, <1>3 DEF Carried

\* A retry does, with the shadow restored.
LEMMA RetryAttemptSafe ==
    ASSUME Inv, SafeInv, pc = "tools", RetryAttempt, Quiet'
    PROVE  SafeInv'
<1> DEFINE restored == [disk EXCEPT !.shadow = TRUE]
           last     == [loc EXCEPT !.events = TRUE]
<1>1. Carried(loc, disk) /\ pc \in Executing /\ db.status = "EXECUTING"
  BY AtPlace DEF Executing, SafeInv, Standing
<1>2. Carried(loc, restored) /\ last \in Record /\ restored \in Directories
  BY <1>1 DEF Carried, Directories, Record
<1>3. repair => loc.todo = 0
  BY DEF SafeInv, PlanIsDone
<1>4. CASE StartAttempt(db, loc, attempt + 1, repair, restored)
  <2> HIDE DEF restored
  <2> QED
    BY <1>1, <1>2, <1>3, <1>4, StartAttemptSafe
<1>5. CASE FailRun(last, restored)
  <2> HIDE DEF restored, last
  <2> QED
    BY <1>2, <1>5, FailRunSafe
<1> QED
  BY <1>4, <1>5 DEF RetryAttempt

-----------------------------------------------------------------------------
(* The steps keep the invariant                                             *)

\* With the gates as they were and none waiting, none waits.
LEMMA StaysQuiet ==
    ASSUME SafeInv, pc \notin Gates, UNCHANGED future
    PROVE  Quiet'
BY DEF SafeInv, Heard, Quiet

\* The gate the coroutine waited at was the only one.
LEMMA BecomesQuiet ==
    ASSUME Inv, SafeInv, NEW g \in Gates, pc = g, future' = [future EXCEPT ![g] = "none"]
    PROVE  Quiet'
BY DEF SafeInv, Heard, Quiet, Inv, SideTypes

\* run_task and continue_task up to the plan.
LEMMA PreparationSafe ==
    ASSUME Inv, SafeInv,
           \/ RunTaskBegin \/ EnvEnsured \/ PlanGenerated \/ RunTaskFails
           \/ ContinueBegin \/ PlanRegenerated \/ ContinueFails
           \/ \E kind \in {"approve", "feedback"} : PlanFeedback(kind)
    PROVE  SafeInv'
<1>t. loc \in Record /\ db \in Record /\ disk \in Directories
  BY DEF Inv, RunInv, RunTypes
<1>1. ASSUME pc \in {"start", "ensure", "planning", "scheduled", "regen", "json", "idle"},
             pc' \in {"ensure", "planning", "regen", "json", "scheduled", "idle"},
             UNCHANGED <<future, ctl>>, db'.status # "READY_FOR_REVIEW",
             Standing', CopyAgrees', pc' = "json" => loc'.shadow,
             pc' \in {"ensure", "idle"} => ~running',
             pc' \in {"ensure", "planning", "idle"} => ~busy'
      PROVE  SafeInv'
  <2>1. HasShadow' /\ PlanIsDone' /\ ReviewIsActionable'
    BY <1>1 DEF HasShadow, PlanIsDone, ReviewIsActionable, Executing
  <2>2. Released'
    BY <1>1 DEF SafeInv, Released, Executing
  <2>3. Heard'
    BY <1>1 DEF SafeInv, Heard, Gates
  <2> QED
    BY <1>1, <2>1, <2>2, <2>3 DEF SafeInv
<1>2. CASE RunTaskBegin
  <2>1. Standing' /\ CopyAgrees'
    BY <1>2 DEF RunTaskBegin, SafeInv, Standing, CopyAgrees, Gates
  <2> QED
    BY <1>1, <1>2, <2>1 DEF RunTaskBegin, SafeInv, Standing, Released
<1>3. CASE EnvEnsured
  <2>1. db'.status = "CONTEXT_READY" /\ loc' = db' /\ pc' = "planning"
    BY <1>t, <1>3 DEF EnvEnsured, Record
  <2>2. Standing' /\ CopyAgrees'
    BY <2>1 DEF Standing, CopyAgrees, Gates
  <2> QED
    BY <1>1, <1>3, <2>1, <2>2 DEF EnvEnsured, SafeInv, Released
<1>4. CASE PlanGenerated \/ PlanRegenerated
  <2>1. db'.status = "AWAITING_PLAN_APPROVAL" /\ loc' = db' /\ pc' = "idle"
    BY <1>t, <1>4 DEF PlanGenerated, PlanRegenerated, Set, Record
  <2>2. Standing' /\ CopyAgrees'
    BY <2>1 DEF Standing, CopyAgrees, Gates
  <2> QED
    BY <1>1, <1>4, <2>1, <2>2 DEF PlanGenerated, PlanRegenerated, SafeInv, Released
<1>5. CASE RunTaskFails \/ ContinueFails
  <2>1. loc.status \notin Terminal
    BY <1>5 DEF RunTaskFails, ContinueFails, SafeInv, Standing, CopyAgrees, Terminal
  <2>2. db'.status = "FAILED" /\ loc' = db' /\ pc' = "idle"
    BY <1>t, <1>5, <2>1 DEF RunTaskFails, ContinueFails, Set, Record
  <2>3. Standing' /\ CopyAgrees'
    BY <2>2 DEF Standing, CopyAgrees, Gates, Terminal
  <2> QED
    BY <1>1, <1>5, <2>2, <2>3 DEF RunTaskFails, ContinueFails, SafeInv, Released
<1>6. CASE ContinueBegin
  <2> DEFINE fresh == [db EXCEPT !.shadow = TRUE]
             next  == Set(fresh, IF ask = "approve" THEN "PLANNED" ELSE "CONTEXT_READY")
  <2>1. db.status = "AWAITING_PLAN_APPROVAL"
    BY <1>6 DEF ContinueBegin, SafeInv, Standing
  <2>2. /\ db' = next /\ loc' = next /\ pc' = IF ask = "approve" THEN "json" ELSE "regen"
        /\ UNCHANGED <<future, ctl>> /\ pc = "scheduled"
    BY <1>6, <2>1 DEF ContinueBegin
  <2>3. next.status = (IF ask = "approve" THEN "PLANNED" ELSE "CONTEXT_READY") /\ next.shadow
    BY <1>t DEF Set, Record
  <2> HIDE DEF next
  <2>4. Standing' /\ CopyAgrees'
    BY <2>2, <2>3 DEF Standing, CopyAgrees, Gates
  <2> QED
    BY <1>1, <2>2, <2>3, <2>4
<1>7. ASSUME NEW kind, PlanFeedback(kind) PROVE SafeInv'
  <2>1. pc = "idle"
    BY <1>7 DEF PlanFeedback, Inv, RunInv, RunTypes, GuardHeld, Guarded, Executing, Places
  <2>2. Standing' /\ CopyAgrees'
    BY <1>7 DEF PlanFeedback, Standing, CopyAgrees, Gates
  <2> QED
    BY <1>1, <1>7, <2>1, <2>2 DEF PlanFeedback
<1> QED
  BY <1>2, <1>3, <1>4, <1>5, <1>6, <1>7

\* The plan is there: the shadow is too, or the run fails.
LEMMA PlanCreatedSafe ==
    ASSUME Inv, SafeInv, NEW n \in 0 .. NSteps, NEW auto \in AutoAccept, PlanCreated(n, auto)
    PROVE  SafeInv'
<1> DEFINE exec == [loc EXCEPT !.status = "EXECUTING", !.todo = n]
           pin  == [exec EXCEPT !.baseline = TRUE]
<1>1. loc \in Record /\ disk \in Directories /\ loc.shadow /\ pc = "json" /\ UNCHANGED future
  BY DEF PlanCreated, Inv, RunInv, RunTypes, SafeInv, HasShadow
<1>2. exec \in Record /\ pin.status = "EXECUTING" /\ pin.shadow
  BY <1>1, StatusSet DEF Record
<1>3. CASE disk.shadow
  <2>1. /\ db' = pin /\ loc' = pin /\ pc' = "baseline" /\ disk' = [disk EXCEPT !.baseline = TRUE]
    BY <1>3 DEF PlanCreated
  <2>2. disk'.shadow
    BY <1>1, <1>3, <2>1 DEF Directories
  <2> HIDE DEF pin
  <2>3. Standing' /\ CopyAgrees' /\ HasShadow'
    BY <1>2, <2>1, <2>2 DEF Standing, CopyAgrees, HasShadow, Gates
  <2>4. Released' /\ PlanIsDone' /\ ReviewIsActionable'
    BY <1>2, <2>1 DEF Released, PlanIsDone, ReviewIsActionable, Executing
  <2>5. Heard'
    BY <1>1, <2>1 DEF SafeInv, Heard, Gates
  <2> QED
    BY <2>3, <2>4, <2>5 DEF SafeInv
<1>4. CASE FailRun(exec, disk)
  <2>1. Quiet'
    BY <1>1, StaysQuiet DEF Gates
  <2> HIDE DEF exec
  <2> QED
    BY <1>1, <1>2, <1>4, <2>1, FailRunSafe
<1> QED
  BY <1>3, <1>4 DEF PlanCreated

\* The steps of the loop over the plan that hand on the coroutine's copy.
LEMMA LoopSafe ==
    ASSUME Inv, SafeInv, BaselineCollected \/ AttemptFails \/ AbortSeen \/ ExecutionFails
    PROVE  SafeInv'
<1>1. pc \in Executing /\ pc \notin Gates /\ UNCHANGED future
  BY DEF BaselineCollected, AttemptFails, AbortSeen, ExecutionFails, Executing, Gates
<1>2. Quiet'
  BY <1>1, StaysQuiet
<1>3. CASE BaselineCollected
  BY <1>1, <1>2, <1>3, AtPlace, LoopTopSafe DEF BaselineCollected
<1>4. CASE AttemptFails
  BY <1>2, <1>4, RetryAttemptSafe DEF AttemptFails
<1>5. CASE AbortSeen
  BY <1>1, <1>2, <1>5, AtPlace, AbortRunSafe DEF AbortSeen
<1>6. CASE ExecutionFails
  BY <1>1, <1>2, <1>6, AtPlace, FailRunSafe DEF ExecutionFails
<1> QED
  BY <1>3, <1>4, <1>5, <1>6

\* Waiting at a gate, with the record that shows it stored.
LEMMA GateSafe ==
    ASSUME Inv, SafeInv, NEW g \in Gates, pc \notin Gates, NEW d, NEW r,
           Park(g, d, r, disk), d.status = GateStatus[g], g \in d.pending,
           disk.shadow, r.shadow, future' = [future EXCEPT ![g] = "open"],
           g \in {"review", "validation"} => r = d,
           g \in {"scope", "command"} => r.status = "EXECUTING",
           g = "validation" \/ (g \in {"scope", "command"} /\ repair') => r.todo = 0
    PROVE  SafeInv'
<1>1. db' = d /\ loc' = r /\ pc' = g
  BY DEF Park
<1>2. g \in Executing /\ d.status # "READY_FOR_REVIEW"
  BY GateStatusType DEF Gates, Executing
<1>3. Standing' /\ CopyAgrees' /\ PlanIsDone'
  BY <1>1 DEF Standing, CopyAgrees, PlanIsDone, Gates
<1>4. Heard'
  BY <1>1 DEF SafeInv, Heard, Inv, SideTypes
<1> QED
  BY <1>2, <1>3, <1>4, ParkSafe

\* A verified step is completed or waits for its review.
LEMMA StepVerifiedSafe ==
    ASSUME Inv, SafeInv, StepVerified
    PROVE  SafeInv'
<1> DEFINE asking == [loc EXCEPT !.status = "AWAITING_STEP_REVIEW", !.pending = @ \cup {"review"}]
<1>1. pc = "tools" /\ pc \in Executing /\ pc \notin Gates /\ loc.todo > 0
  BY DEF StepVerified, Inv, RunInv, StepIsLeft, Executing, Gates
<1>2. Carried(loc, disk)
  BY <1>1, AtPlace
<1>3. CASE CompleteStep(loc, disk) /\ UNCHANGED future
  BY <1>1, <1>2, <1>3, StaysQuiet, CompleteStepSafe
<1>4. CASE Park("review", asking, asking, disk) /\ future' = [future EXCEPT !["review"] = "open"]
  <2>1. asking.status = GateStatus["review"] /\ "review" \in asking.pending /\ asking.shadow
    BY <1>2 DEF Carried, Record, GateStatus
  <2>2. "review" \in Gates /\ disk.shadow
    BY <1>2 DEF Gates, Carried
  <2> HIDE DEF asking
  <2> QED
    BY <1>1, <1>4, <2>1, <2>2, GateSafe
<1> QED
  BY <1>3, <1>4 DEF StepVerified

\* The decided step is completed, or goes back to the head of the loop.
LEMMA ReviewDecidedSafe ==
    ASSUME Inv, SafeInv, ReviewDecided
    PROVE  SafeInv'
<1> DEFINE back == [loc EXCEPT !.status = "EXECUTING", !.pending = @ \ {"review"}]
<1>1. pc = "review" /\ pc \in Executing /\ pc \in Gates /\ loc.todo > 0
  BY DEF ReviewDecided, Inv, RunInv, StepIsLeft, Executing, Gates
<1>2. Carried(back, disk) /\ back.todo > 0
  BY <1>1, AtPlace, StatusSet DEF Carried, Record
<1>3. Quiet'
  BY <1>1, BecomesQuiet DEF ReviewDecided
<1>4. CompleteStep(back, disk) \/ LoopTop(back, disk)
  BY DEF ReviewDecided
<1> HIDE DEF back
<1> QED
  BY <1>2, <1>3, <1>4, CompleteStepSafe, LoopTopSafe

\* A handoff waits for the planner with a restored shadow, or fails the run.
LEMMA PlanHandoffSafe ==
    ASSUME Inv, SafeInv, PlanHandoff
    PROVE  SafeInv'
<1> DEFINE restored == [disk EXCEPT !.shadow = TRUE]
           counted  == [loc EXCEPT !.replans = @ + 1]
<1>1. pc = "tools" /\ pc \in Executing /\ pc \notin Gates /\ UNCHANGED future
  BY DEF PlanHandoff, Executing, Gates
<1>2. Quiet' /\ Carried(loc, disk) /\ db.status = "EXECUTING"
  BY <1>1, StaysQuiet, AtPlace DEF SafeInv, Standing
<1>3. CASE FailRun(loc, restored)
  <2>1. loc \in Record /\ restored \in Directories
    BY <1>2 DEF Carried, Directories
  <2> HIDE DEF restored
  <2> QED
    BY <1>2, <1>3, <2>1, FailRunSafe
<1>4. CASE Park("replan", db, counted, restored)
  <2>1. counted.status = "EXECUTING" /\ counted.shadow /\ restored.shadow
    BY <1>2 DEF Carried, Record, Directories
  <2>2. db' = db /\ loc' = counted /\ pc' = "replan" /\ "replan" \in Executing
    BY <1>4 DEF Park, Executing
  <2> HIDE DEF restored, counted
  <2>3. Standing' /\ CopyAgrees' /\ PlanIsDone' /\ Heard'
    BY <1>2, <2>1, <2>2 DEF Standing, CopyAgrees, PlanIsDone, Heard, Quiet, Gates
  <2> QED
    BY <1>2, <1>4, <2>1, <2>2, <2>3, ParkSafe
<1> QED
  BY <1>3, <1>4 DEF PlanHandoff

\* A revised plan goes back to the head of the loop.
LEMMA PlanRevisedSafe ==
    ASSUME Inv, SafeInv, NEW left \in 0 .. NSteps, NEW restores \in BOOLEAN,
           PlanRevised(left, restores)
    PROVE  SafeInv'
<1> DEFINE next == [loc EXCEPT !.todo = left, !.events = TRUE]
           k    == [disk EXCEPT !.shadow = @ \/ restores]
<1>1. pc = "replan" /\ pc \in Executing /\ pc \notin Gates /\ UNCHANGED future
  BY DEF PlanRevised, Executing, Gates
<1>2. Quiet' /\ Carried(loc, disk)
  BY <1>1, StaysQuiet, AtPlace
<1>3. Carried(next, k)
  BY <1>2 DEF Carried, Record, Directories
<1>4. LoopTop(next, k)
  BY DEF PlanRevised
<1> HIDE DEF next, k
<1> QED
  BY <1>2, <1>3, <1>4, LoopTopSafe

\* The tool loop's gates keep the coroutine's own record beside the stored one:
\* the transition table never refuses them.
LEMMA AskInLoopSafe ==
    ASSUME Inv, SafeInv, NEW g \in {"scope", "command"}, AskInLoop(g)
    PROVE  SafeInv'
<1> DEFINE asking == [db EXCEPT !.status = GateStatus[g], !.pending = @ \cup {g}]
<1>1. pc = "tools" /\ pc \in Executing /\ pc \notin Gates /\ g \in Gates
  BY DEF AskInLoop, Executing, Gates
<1>2. Carried(loc, disk) /\ db \in Record /\ db.status = "EXECUTING"
  BY <1>1, AtPlace DEF SafeInv, Standing
<1>3. CanTransition(db.status, GateStatus[g])
  BY <1>2 DEF CanTransition, Transitions, GateStatus
<1>4. /\ Park(g, asking, loc, disk) /\ future' = [future EXCEPT ![g] = "open"]
      /\ repair' = repair
  BY <1>3 DEF AskInLoop
<1>5. asking.status = GateStatus[g] /\ g \in asking.pending
  BY <1>1, <1>2 DEF Record
<1>6. repair' => loc.todo = 0
  BY <1>1, <1>4 DEF SafeInv, PlanIsDone
<1>7. disk.shadow /\ loc.shadow /\ loc.status = "EXECUTING" /\ g \notin {"review", "validation"}
  BY <1>2 DEF Carried
<1> HIDE DEF asking
<1> QED
  BY <1>1, <1>4, <1>5, <1>6, <1>7, GateSafe

\* The answer takes the stored record back to the status of the copy.
LEMMA AnswerInLoopSafe ==
    ASSUME Inv, SafeInv, NEW g \in {"scope", "command"}, NEW a \in Answers, AnswerInLoop(g, a)
    PROVE  SafeInv'
<1> DEFINE fresh == [db EXCEPT !.pending = @ \ {g},
                              !.status = IF @ = GateStatus[g] THEN "EXECUTING" ELSE @,
                              !.remembered = IF a = "remember" THEN @ \cup {g} ELSE @]
<1>1. /\ pc = g /\ pc \in Executing /\ pc \in Gates /\ Park("tools", fresh, loc, disk)
      /\ future' = [future EXCEPT ![g] = "none"] /\ repair' = repair
  BY DEF AnswerInLoop, Executing, Gates
<1>2. Carried(loc, disk) /\ db \in Record /\ db.status = GateStatus[g] /\ Quiet'
  BY <1>1, AtPlace, BecomesQuiet DEF SafeInv, Standing
<1>3. fresh.status = "EXECUTING"
  BY <1>2 DEF Record
<1>4. repair' => loc.todo = 0
  BY <1>1 DEF SafeInv, PlanIsDone
<1> HIDE DEF fresh
<1> QED
  BY <1>1, <1>2, <1>3, <1>4, ToolsSafe

\* Validation, the repair step and the user's decision about the rest.
LEMMA ValidationSafe ==
    ASSUME Inv, SafeInv, \/ ValidationPasses \/ ValidationFails \/ RepairVerified
                         \/ \E a \in Answers : ValidationDecided(a)
    PROVE  SafeInv'
<1>1. CASE ValidationPasses
  <2>1. pc = "validate" /\ pc \in Executing /\ pc \notin Gates /\ UNCHANGED future
    BY <1>1 DEF ValidationPasses, Executing, Gates
  <2>2. Quiet' /\ loc.todo = 0
    BY <2>1, StaysQuiet DEF SafeInv, PlanIsDone
  <2> QED
    BY <1>1, <2>1, <2>2, AtPlace, EndRunSafe DEF ValidationPasses
<1>2. CASE ValidationFails
  <2> DEFINE again  == Set(loc, "EXECUTING")
             asking == [loc EXCEPT !.status = "AWAITING_VALIDATION_DECISION",
                                   !.pending = @ \cup {"validation"}]
  <2>1. pc = "validate" /\ pc \in Executing /\ pc \notin Gates /\ loc.todo = 0
    BY <1>2 DEF ValidationFails, Executing, Gates, SafeInv, PlanIsDone
  <2>2. CASE StartAttempt(again, again, 1, TRUE, disk) /\ UNCHANGED future
    <3>1. Carried(again, disk) /\ again.status = "EXECUTING" /\ again.todo = 0
      BY <2>1, AtPlace, StatusSet DEF Carried, Set, Record
    <3>2. Quiet'
      BY <2>1, <2>2, StaysQuiet
    <3> HIDE DEF again
    <3> QED
      BY <2>2, <3>1, <3>2, StartAttemptSafe
  <2>3. CASE /\ Park("validation", asking, asking, disk)
             /\ future' = [future EXCEPT !["validation"] = "open"]
    <3>1. /\ asking.status = GateStatus["validation"] /\ "validation" \in asking.pending
          /\ asking.shadow /\ asking.todo = 0
      BY <2>1, AtPlace DEF Record, GateStatus
    <3>2. "validation" \in Gates /\ disk.shadow
      BY <2>1, AtPlace DEF Gates
    <3> HIDE DEF asking
    <3> QED
      BY <2>1, <2>3, <3>1, <3>2, GateSafe
  <2> QED
    BY <1>2, <2>2, <2>3 DEF ValidationFails
<1>3. CASE RepairVerified
  <2> DEFINE again == [loc EXCEPT !.status = "VALIDATING", !.events = TRUE]
  <2>1. pc = "tools" /\ repair /\ pc \in Executing /\ pc \notin Gates /\ UNCHANGED future
    BY <1>3 DEF RepairVerified, Executing, Gates
  <2>2. Quiet' /\ loc.todo = 0 /\ disk.shadow
    BY <2>1, StaysQuiet, AtPlace DEF SafeInv, PlanIsDone
  <2>3. again.status = "VALIDATING" /\ again.shadow /\ again.todo = 0
    BY <2>1, <2>2, AtPlace DEF Record
  <2>4. Park("validate", again, again, disk) /\ "validate" \in Executing
    BY <1>3 DEF RepairVerified, Executing
  <2>5. db' = again /\ loc' = again /\ pc' = "validate"
    BY <2>4 DEF Park
  <2> HIDE DEF again
  <2>6. Standing' /\ CopyAgrees' /\ PlanIsDone' /\ Heard'
    BY <2>2, <2>3, <2>5 DEF Standing, CopyAgrees, PlanIsDone, Heard, Quiet, Gates
  <2> QED
    BY <2>2, <2>3, <2>4, <2>6, ParkSafe
<1>4. ASSUME NEW a \in Answers, ValidationDecided(a) PROVE SafeInv'
  <2> DEFINE back == [loc EXCEPT !.pending = @ \ {"validation"}]
             s    == IF a = "accept" THEN "READY_FOR_REVIEW" ELSE "FAILED"
  <2>1. pc = "validation" /\ pc \in Executing /\ "validation" \in Gates /\ EndRun(back, s, disk)
    BY <1>4 DEF ValidationDecided, Executing, Gates
  <2>2. Quiet' /\ loc.todo = 0
    BY <1>4, <2>1, BecomesQuiet DEF ValidationDecided, SafeInv, PlanIsDone
  <2>3. /\ back \in Record /\ back.shadow /\ back.baseline /\ back.todo = 0
        /\ disk \in Directories /\ disk.shadow /\ disk.baseline
    BY <2>1, <2>2, AtPlace DEF Record
  <2>4. s \in {"READY_FOR_REVIEW"} \cup Terminal
    BY DEF Terminal
  <2> HIDE DEF back, s
  <2> QED
    BY <2>1, <2>2, <2>3, <2>4, EndRunSafe
<1> QED
  BY <1>1, <1>2, <1>3, <1>4

\* The last save keeps the baseline that a rejection will need.
LEMMA NarrativeSafe ==
    ASSUME Inv, SafeInv, NarrativeWritten
    PROVE  SafeInv'
<1> DEFINE last == [loc EXCEPT !.baseline = @ /\ loc.status = "READY_FOR_REVIEW"]
<1>1. /\ db' = last /\ loc' = last /\ pc' = "idle" /\ busy' = FALSE /\ pc = "narrate"
      /\ disk' = [disk EXCEPT !.baseline = @ /\ (last.baseline \/ ~loc.baseline)]
      /\ UNCHANGED <<running, ctl, future>>
  BY DEF NarrativeWritten
<1>2. loc = db /\ loc \in Record /\ disk \in Directories
  BY <1>1 DEF SafeInv, CopyAgrees, Inv, RunInv, RunTypes
<1>3. /\ last.status = db.status /\ last.shadow = db.shadow /\ last.todo = db.todo
      /\ db.status = "READY_FOR_REVIEW" => last.baseline = db.baseline
  BY <1>2 DEF Record
<1> HIDE DEF last
<1>4. Standing' /\ CopyAgrees' /\ HasShadow' /\ PlanIsDone'
  BY <1>1, <1>3
  DEF SafeInv, Standing, CopyAgrees, HasShadow, PlanIsDone, Executing, Gates, Terminal
<1>5. Heard' /\ Released'
  BY <1>1 DEF SafeInv, Heard, Released, Executing, Gates
<1>6. ReviewIsActionable'
  BY <1>1, <1>2, <1>3 DEF SafeInv, ReviewIsActionable, Directories
<1> QED
  BY <1>4, <1>5, <1>6 DEF SafeInv

\* A patient client's routes: an answer, an abort, a preference, a final decision.
LEMMA RoutesSafe ==
    ASSUME Patient, Inv, SafeInv, \/ \E g \in Gates, a \in Answers : Decide(g, a)
                                  \/ Cancel
                                  \/ \E revert \in BOOLEAN : Abort(revert)
                                  \/ \E auto \in BOOLEAN : SetReviewPref(auto)
                                  \/ \E copied \in BOOLEAN : Accept(copied)
                                  \/ Reject
    PROVE  SafeInv'
<1>t. db \in Record /\ disk \in Directories
  BY DEF Inv, RunInv, RunTypes
<1>1. ASSUME NEW g \in Gates, NEW a \in Answers, Decide(g, a) PROVE SafeInv'
  <2>1. UNCHANGED <<db, loc, pc, busy, running, ctl, disk, repair>>
    BY <1>1 DEF Decide
  <2>2. Heard'
    BY <1>1, <2>1 DEF Decide, SafeInv, Heard, Inv, SideTypes, Answers
  <2> QED
    BY <2>1, <2>2
    DEF SafeInv, Standing, CopyAgrees, HasShadow, Released, PlanIsDone, ReviewIsActionable
<1>2. ASSUME Cancel PROVE FALSE
  BY <1>2 DEF Cancel, Patient
<1>3. ASSUME NEW revert \in BOOLEAN, Abort(revert) PROVE SafeInv'
  <2>1. UNCHANGED <<db, loc, pc, busy, running, future, disk, repair>> /\ ctl.on
    BY <1>3 DEF Abort
  <2>2. Released'
    BY <2>1 DEF SafeInv, Released, NoControl
  <2> QED
    BY <2>1, <2>2
    DEF SafeInv, Standing, CopyAgrees, HasShadow, Heard, PlanIsDone, ReviewIsActionable
<1>4. ASSUME NEW auto \in BOOLEAN, SetReviewPref(auto) PROVE SafeInv'
  <2>1. UNCHANGED <<db, loc, pc, busy, running, disk, repair>> /\ ctl.on
    BY <1>4 DEF SetReviewPref
  <2>2. Released'
    BY <2>1 DEF SafeInv, Released, NoControl
  <2>3. Heard'
    BY <1>4, <2>1 DEF SetReviewPref, SafeInv, Heard, Inv, SideTypes
  <2> QED
    BY <2>1, <2>2, <2>3
    DEF SafeInv, Standing, CopyAgrees, HasShadow, PlanIsDone, ReviewIsActionable
<1>5. ASSUME pc = "idle", UNCHANGED <<pc, busy, running, ctl, future>>, db'.status \in Terminal
      PROVE  SafeInv'
  <2>1. Standing' /\ CopyAgrees' /\ HasShadow' /\ PlanIsDone'
    BY <1>5 DEF Standing, CopyAgrees, HasShadow, PlanIsDone, Executing, Gates
  <2>2. Heard' /\ Released' /\ ReviewIsActionable'
    BY <1>5 DEF SafeInv, Heard, Released, ReviewIsActionable, Terminal
  <2> QED
    BY <2>1, <2>2 DEF SafeInv
<1>6. ASSUME FinalDecision PROVE pc = "idle"
  BY <1>6 DEF FinalDecision, Patient
<1>7. ASSUME NEW copied \in BOOLEAN, Accept(copied) PROVE SafeInv'
  <2>1. db'.status \in Terminal
    BY <1>t, <1>7 DEF Accept, Record, Terminal
  <2> QED
    BY <1>5, <1>6, <1>7, <2>1 DEF Accept
<1>8. CASE Reject
  <2>1. disk.baseline
    BY <1>8 DEF Reject, FinalDecision, SafeInv, ReviewIsActionable
  <2>2. db'.status \in Terminal
    BY <1>t, <1>8, <2>1 DEF Reject, Record, Terminal
  <2> QED
    BY <1>5, <1>6, <1>8, <2>2 DEF Reject
<1> QED
  BY <1>1, <1>2, <1>3, <1>4, <1>7, <1>8

-----------------------------------------------------------------------------
(* The theorems                                                             *)

\* A new task has the invariant.
LEMMA SafeInit ==
    ASSUME Init
    PROVE  SafeInv
<1>1. /\ db = NewRecord /\ loc = NewRecord /\ pc = "start" /\ ~busy /\ ~running
      /\ ctl = NoControl /\ future = [g \in Gates |-> "none"]
  BY DEF Init
<1>2. Standing /\ CopyAgrees /\ HasShadow /\ PlanIsDone /\ Released
  BY <1>1 DEF Standing, CopyAgrees, HasShadow, PlanIsDone, Released, Executing, Gates, NewRecord
<1>3. Heard /\ ReviewIsActionable
  BY <1>1 DEF Heard, ReviewIsActionable, Gates, NewRecord
<1> QED
  BY <1>2, <1>3 DEF SafeInv

\* Every step keeps it.
LEMMA SafeStep ==
    ASSUME Patient, Inv, SafeInv, [Next]_vars
    PROVE  SafeInv'
<1>1. CASE UNCHANGED vars
  BY <1>1 DEF vars, SafeInv, Standing, CopyAgrees, HasShadow, Heard, Released, PlanIsDone,
     ReviewIsActionable
<1>2. CASE \/ RunTaskBegin \/ EnvEnsured \/ PlanGenerated \/ RunTaskFails
           \/ ContinueBegin \/ PlanRegenerated \/ ContinueFails
  BY <1>2, PreparationSafe
<1>3. CASE \E n \in 0 .. NSteps, auto \in AutoAccept : PlanCreated(n, auto)
  BY <1>3, PlanCreatedSafe
<1>4. CASE BaselineCollected \/ AttemptFails \/ AbortSeen \/ ExecutionFails
  BY <1>4, LoopSafe
<1>5. CASE StepVerified \/ ReviewDecided \/ PlanHandoff
  BY <1>5, StepVerifiedSafe, ReviewDecidedSafe, PlanHandoffSafe
<1>6. CASE \E left \in 0 .. NSteps, restores \in BOOLEAN : PlanRevised(left, restores)
  BY <1>6, PlanRevisedSafe
<1>7. CASE \/ \E g \in {"scope", "command"} : AskInLoop(g)
           \/ \E g \in {"scope", "command"}, a \in Answers : AnswerInLoop(g, a)
  BY <1>7, AskInLoopSafe, AnswerInLoopSafe
<1>8. CASE \/ ValidationPasses \/ ValidationFails \/ RepairVerified
           \/ \E a \in Answers : ValidationDecided(a)
  BY <1>8, ValidationSafe
<1>9. CASE NarrativeWritten
  BY <1>9, NarrativeSafe
<1>10. CASE Routes
  BY <1>10, PreparationSafe, RoutesSafe DEF Routes
<1>11. CASE Settled
  BY <1>1, <1>11 DEF Settled
<1> QED
  BY <1>1, <1>2, <1>3, <1>4, <1>5, <1>6, <1>7, <1>8, <1>9, <1>10, <1>11 DEF Next, Engine

\* Both invariants hold throughout.
LEMMA SafeAlways == ASSUME Patient PROVE Spec => [](Inv /\ SafeInv)
<1>1. Init => Inv /\ SafeInv
  BY InvInit, SafeInit
<1>2. Inv /\ SafeInv /\ [Next]_vars => (Inv /\ SafeInv)'
  BY InvStep, SafeStep
<1> QED
  BY <1>1, <1>2, PTL DEF Spec

\* A gate the record shows is one the coroutine waits at with an open or an
\* answered future, and the other way round: a decision route never answers
\* nobody, and never refuses the answer somebody waits for.
THEOREM GatesAreAnswerable == ASSUME Patient PROVE Spec => []GateIsAnswerable
<1>1. Inv /\ SafeInv => GateIsAnswerable
  <2> SUFFICES ASSUME Inv, SafeInv, NEW g \in Gates
               PROVE  /\ db.status = GateStatus[g] => pc = g /\ future[g] # "none"
                      /\ pc = g => db.status = GateStatus[g] /\ g \in db.pending
    BY DEF GateIsAnswerable
  <2>1. pc = g => db.status = GateStatus[g] /\ g \in db.pending
    BY DEF SafeInv, Standing
  <2>2. ASSUME db.status = GateStatus[g] PROVE pc = g
    <3>1. pc \in Places
      BY DEF Inv, RunInv, RunTypes
    <3> QED
      BY <2>2, <3>1 DEF SafeInv, Standing, Places, Gates, GateStatus, Terminal
  <2> QED
    BY <2>1, <2>2 DEF SafeInv, Heard
<1> QED
  BY <1>1, SafeAlways, PTL

\* At the review of a step and at the validation decision the copy that will be
\* saved back is the stored record.
THEOREM ParkedCopiesAreCurrent == ASSUME Patient PROVE Spec => []ParkedCopyIsCurrent
<1>1. Inv /\ SafeInv => ParkedCopyIsCurrent
  BY DEF SafeInv, CopyAgrees, ParkedCopyIsCurrent
<1> QED
  BY <1>1, SafeAlways, PTL

\* No step, replan or validation works on a shadow that is gone.
THEOREM ShadowIsHeld == ASSUME Patient PROVE Spec => []ShadowHeld
<1>1. Inv /\ SafeInv => ShadowHeld
  BY DEF SafeInv, HasShadow, ShadowHeld
<1> QED
  BY <1>1, SafeAlways, PTL

\* At READY_FOR_REVIEW both decisions can be carried out, and every step is done.
THEOREM ReviewsAreActionable == ASSUME Patient PROVE Spec => []ReviewIsActionable
<1>1. Inv /\ SafeInv => ReviewIsActionable
  BY DEF SafeInv
<1> QED
  BY <1>1, SafeAlways, PTL

\* When a coroutine has ended its control, its marks and its futures are gone.
THEOREM NothingIsLeftBehind == ASSUME Patient PROVE Spec => []NothingLeftBehind
<1>1. Inv /\ SafeInv => NothingLeftBehind
  BY DEF SafeInv, Released, Heard, NothingLeftBehind, Executing, Gates
<1> QED
  BY <1>1, SafeAlways, PTL

-----------------------------------------------------------------------------
(* What a step makes of the status                                          *)

\* The statuses of a run at work, and of one that waits for its user.
Working == {"PLANNED", "EXECUTING", "VALIDATING"}
Asking  == {GateStatus[g] : g \in Gates}

\* The moves from status s to status t that a step of the system makes.
Move(s, t) ==
    \/ t = s
    \/ s \notin Terminal /\ t \in Terminal
    \/ s = "QUEUED" /\ t = "CONTEXT_READY"
    \/ s = "CONTEXT_READY" /\ t = "AWAITING_PLAN_APPROVAL"
    \/ s = "AWAITING_PLAN_APPROVAL" /\ t \in {"PLANNED", "CONTEXT_READY"}
    \/ s \in Working \cup Asking /\ t \in Working \cup Asking \cup {"READY_FOR_REVIEW"}

\* The stretches of a run leave the coroutine inside the run, at its narrative,
\* or ended by an abort.
Onward == pc' \in Executing \cup {"narrate"} \/ (pc' = "idle" /\ db'.status = "ABORTED")

LEMMA StretchOnward ==
    ASSUME NEW d, NEW r, NEW n, NEW rep, NEW s, NEW k, NEW p \in Executing,
           EndRun(r, s, k) \/ FailRun(r, k) \/ Park(p, d, r, k) \/ StartAttempt(d, r, n, rep, k)
    PROVE  Onward
BY DEF StartAttempt, FailRun, EndRun, Park, Onward, Executing

\* So does the head of the loop.
LEMMA LoopOnward ==
    ASSUME NEW r \in Record, NEW k, LoopTop(r, k) \/ AbortRun(r, k)
    PROVE  Onward
<1> DEFINE done == [[r EXCEPT !.shadow = FALSE] EXCEPT !.baseline = FALSE, !.status = "ABORTED"]
<1>1. done.status = "ABORTED"
  BY DEF Record
<1>2. CASE AbortRun(r, k)
  <2>1. pc' = "narrate" \/ (pc' = "idle" /\ db' = done)
    BY <1>2 DEF AbortRun, EndRun
  <2> QED
    BY <1>1, <2>1 DEF Onward
<1>3. CASE StartAttempt(r, r, 1, FALSE, k)
  BY <1>3 DEF StartAttempt, FailRun, EndRun, Park, Onward, Executing
<1>4. CASE Park("validate", Set(r, "VALIDATING"), Set(r, "VALIDATING"), k)
  BY <1>4 DEF Park, Onward, Executing
<1> QED
  BY <1>2, <1>3, <1>4 DEF LoopTop

\* And the completion of a step.
LEMMA CompleteOnward ==
    ASSUME NEW r \in Record, NEW k, r.todo > 0, CompleteStep(r, k)
    PROVE  Onward
<1> DEFINE next == [r EXCEPT !.todo = @ - 1, !.events = TRUE]
<1>1. r.todo - 1 \in 0 .. NSteps
  BY Bounds DEF Record
<1>2. next \in Record
  BY <1>1 DEF Record
<1>3. LoopTop(next, k)
  BY DEF CompleteStep
<1> HIDE DEF next
<1> QED
  BY <1>2, <1>3, LoopOnward

\* A step of a run goes on with it.
LEMMA RunOnward ==
    ASSUME Inv, SafeInv, pc \in Executing \cup {"json"}, Engine
    PROVE  Onward \/ (pc = "json" /\ db'.status = "FAILED")
<1>t. loc \in Record
  BY DEF Inv, RunInv, RunTypes
<1>r. ASSUME RetryAttempt PROVE Onward
  BY <1>r DEF RetryAttempt, StartAttempt, FailRun, EndRun, Park, Onward, Executing
<1>1. CASE \/ AttemptFails \/ PlanHandoff \/ ExecutionFails \/ ValidationPasses
           \/ ValidationFails \/ RepairVerified
           \/ \E a \in Answers : ValidationDecided(a)
           \/ \E g \in {"scope", "command"} : AskInLoop(g)
           \/ \E g \in {"scope", "command"}, a \in Answers : AnswerInLoop(g, a)
  <2>1. CASE AttemptFails
    BY <2>1, <1>r DEF AttemptFails
  <2>2. CASE PlanHandoff \/ ExecutionFails \/ ValidationPasses
    BY <2>2 DEF PlanHandoff, ExecutionFails, ValidationPasses, FailRun, EndRun, Park, Onward,
       Executing
  <2>3. CASE ValidationFails
    BY <2>3 DEF ValidationFails, StartAttempt, FailRun, EndRun, Park, Onward, Executing
  <2>4. CASE RepairVerified \/ \E a \in Answers : ValidationDecided(a)
    BY <2>4 DEF RepairVerified, ValidationDecided, EndRun, Park, Onward, Executing
  <2>5. CASE \/ \E g \in {"scope", "command"} : AskInLoop(g)
             \/ \E g \in {"scope", "command"}, a \in Answers : AnswerInLoop(g, a)
    BY <2>5, <1>r DEF AskInLoop, AnswerInLoop, Park, Onward, Executing
  <2> QED
    BY <1>1, <2>1, <2>2, <2>3, <2>4, <2>5
<1>2. CASE BaselineCollected \/ AbortSeen
  BY <1>t, <1>2, LoopOnward DEF BaselineCollected, AbortSeen
<1>3. CASE \E left \in 0 .. NSteps, restores \in BOOLEAN : PlanRevised(left, restores)
  <2>1. PICK left \in 0 .. NSteps, restores \in BOOLEAN : PlanRevised(left, restores)
    BY <1>3
  <2>2. [loc EXCEPT !.todo = left, !.events = TRUE] \in Record
    BY <1>t DEF Record
  <2> QED
    BY <2>1, <2>2, LoopOnward DEF PlanRevised
<1>4. CASE StepVerified
  <2>1. loc.todo > 0
    BY <1>4 DEF StepVerified, Inv, RunInv, StepIsLeft
  <2>2. CASE CompleteStep(loc, disk)
    BY <1>t, <2>1, <2>2, CompleteOnward
  <2>3. CASE ~CompleteStep(loc, disk)
    BY <1>4, <2>3 DEF StepVerified, Park, Onward, Executing
  <2> QED
    BY <2>2, <2>3
<1>5. CASE ReviewDecided
  <2> DEFINE back == [loc EXCEPT !.status = "EXECUTING", !.pending = @ \ {"review"}]
  <2>1. loc.todo > 0
    BY <1>5 DEF ReviewDecided, Inv, RunInv, StepIsLeft
  <2>2. back \in Record /\ back.todo > 0
    BY <1>t, <2>1, StatusSet DEF Record
  <2>3. CompleteStep(back, disk) \/ LoopTop(back, disk)
    BY <1>5 DEF ReviewDecided
  <2> HIDE DEF back
  <2> QED
    BY <2>2, <2>3, CompleteOnward, LoopOnward
<1>6. CASE \E n \in 0 .. NSteps, auto \in AutoAccept : PlanCreated(n, auto)
  BY <1>6 DEF PlanCreated, FailRun, EndRun, Onward, Executing
<1>7. CASE ContinueFails
  BY <1>t, <1>7 DEF ContinueFails, Set, Record, Executing
<1> QED
  BY <1>1, <1>2, <1>3, <1>4, <1>5, <1>6, <1>7
  DEF Engine, RunTaskBegin, EnvEnsured, PlanGenerated, RunTaskFails, ContinueBegin,
      PlanRegenerated, NarrativeWritten, Executing

\* Every step makes one of the moves.
LEMMA StepMoves ==
    ASSUME Patient, Inv, SafeInv, [Next]_vars
    PROVE  Move(db.status, db'.status)
<1>t. db \in Record /\ loc \in Record /\ pc \in Places
  BY DEF Inv, RunInv, RunTypes
<1>s. Inv' /\ SafeInv'
  BY InvStep, SafeStep
<1>1. CASE Engine /\ pc \in Executing \cup {"json"}
  <2>1. db.status \in Working \cup Asking
    BY <1>1 DEF SafeInv, Standing, Executing, Gates, GateStatus, Working, Asking
  <2>2. db.status \notin Terminal
    BY <2>1 DEF Working, Asking, Gates, GateStatus, Terminal
  <2>3. CASE pc' \in Executing \cup {"narrate"}
    <3>1. db'.status \in Working \cup Asking \cup {"READY_FOR_REVIEW"} \cup Terminal
      BY <1>s, <2>3 DEF SafeInv, Standing, Executing, Gates, GateStatus, Working, Asking
    <3> QED
      BY <2>1, <2>2, <3>1 DEF Move
  <2>4. CASE db'.status \in {"ABORTED", "FAILED"}
    BY <2>2, <2>4 DEF Move, Terminal
  <2> QED
    BY <1>1, <2>3, <2>4, RunOnward DEF Onward
<1>2. CASE Engine /\ pc \notin Executing \cup {"json"}
  <2>1. CASE RunTaskBegin
    BY <2>1 DEF RunTaskBegin, Move
  <2>2. CASE EnvEnsured
    BY <1>t, <2>2 DEF EnvEnsured, SafeInv, Standing, CopyAgrees, Record, Move
  <2>3. CASE PlanGenerated \/ PlanRegenerated
    BY <1>t, <2>3 DEF PlanGenerated, PlanRegenerated, SafeInv, Standing, Set, Record, Move
  <2>4. CASE RunTaskFails \/ ContinueFails
    <3>1. db.status \notin Terminal /\ loc.status \notin Terminal
      BY <2>4 DEF RunTaskFails, ContinueFails, SafeInv, Standing, CopyAgrees, Terminal
    <3>2. db'.status = "FAILED"
      BY <1>t, <2>4, <3>1 DEF RunTaskFails, ContinueFails, Set, Record
    <3> QED
      BY <3>1, <3>2 DEF Move, Terminal
  <2>5. CASE ContinueBegin
    <3>1. db.status = "AWAITING_PLAN_APPROVAL"
      BY <2>5 DEF ContinueBegin, SafeInv, Standing
    <3>2. pc' \in {"json", "regen"}
      BY <2>5, <3>1 DEF ContinueBegin
    <3> QED
      BY <1>s, <3>1, <3>2 DEF SafeInv, Standing, Move
  <2>6. CASE NarrativeWritten
    <3>1. loc = db
      BY <2>6 DEF NarrativeWritten, SafeInv, CopyAgrees
    <3>2. db'.status = db.status
      BY <1>t, <2>6, <3>1 DEF NarrativeWritten, Record
    <3> QED
      BY <3>2 DEF Move
  <2> QED
    BY <1>2, <2>1, <2>2, <2>3, <2>4, <2>5, <2>6
    DEF Engine, PlanCreated, BaselineCollected, AttemptFails, AbortSeen, StepVerified,
        ReviewDecided, PlanHandoff, PlanRevised, ExecutionFails, AskInLoop, AnswerInLoop,
        ValidationPasses, ValidationFails, RepairVerified, ValidationDecided, Executing
<1>3. CASE \E copied \in BOOLEAN : Accept(copied)
  BY <1>t, <1>3 DEF Accept, FinalDecision, Record, Move, Terminal
<1>4. CASE Reject
  BY <1>t, <1>4 DEF Reject, FinalDecision, Record, Move, Terminal
<1>5. CASE UNCHANGED db
  BY <1>5 DEF Move
<1> QED
  BY <1>1, <1>2, <1>3, <1>4, <1>5
  DEF Next, Routes, PlanFeedback, Decide, Cancel, Abort, SetReviewPref, Settled, Patient, vars

\* A closed task stays closed: no later save of an older copy reopens it.
THEOREM ClosedStaysClosed == ASSUME Patient PROVE Spec => TerminalIsFinal
<1>1. Inv /\ SafeInv /\ [Next]_vars => (db.status \in Terminal => db'.status = db.status)
  <2>1. ASSUME Move(db.status, db'.status), db.status \in Terminal PROVE db'.status = db.status
    BY <2>1 DEF Move, Terminal, Working, Asking, Gates, GateStatus
  <2> QED
    BY <2>1, StepMoves
<1>2. Inv /\ SafeInv /\ [Next]_vars => [db.status \in Terminal => db'.status = db.status]_vars
  BY <1>1
<1> QED
  BY <1>2, SafeAlways, PTL DEF Spec, TerminalIsFinal

\* The phase of each class of status.
LEMMA Phases ==
    /\ PhaseOf("QUEUED") = "preparing" /\ PhaseOf("CONTEXT_READY") = "preparing"
    /\ PhaseOf("AWAITING_PLAN_APPROVAL") = "approval"
    /\ PhaseOf("READY_FOR_REVIEW") = "review"
    /\ \A s \in Working : PhaseOf(s) = "working"
    /\ \A s \in Asking : PhaseOf(s) = "asking"
    /\ \A s \in Terminal : PhaseOf(s) = "closed"
    /\ \A s \in Status \ Terminal : PhaseOf(s) # "closed"
BY StatusSet DEF PhaseOf, Working, Asking, Gates, GateStatus, Terminal

\* A move of the status is a step of the client's view, or none.
LEMMA MoveIsLife ==
    ASSUME NEW s \in Status, NEW t \in Status, Move(s, t), PhaseOf(s) # PhaseOf(t)
    PROVE  \/ PhaseOf(s) = "preparing" /\ PhaseOf(t) = "approval"
           \/ PhaseOf(s) = "approval" /\ PhaseOf(t) \in {"preparing", "working"}
           \/ PhaseOf(s) = "working" /\ PhaseOf(t) \in {"asking", "review"}
           \/ PhaseOf(s) = "asking" /\ PhaseOf(t) \in {"working", "review"}
           \/ PhaseOf(s) # "closed" /\ PhaseOf(t) = "closed"
<1>1. "PLANNED" \in Working
  BY DEF Working
<1> QED
  BY <1>1, Phases DEF Move

\* For a patient client the run implements TaskLife: work only after an approval,
\* a review only after work, and nothing after the end.
THEOREM RunImplementsLife == ASSUME Patient PROVE Spec => LifeSpec
<1>1. Init => Life!Init
  BY Phases DEF Init, NewRecord, Life!Init
<1>2. Inv /\ SafeInv /\ [Next]_vars => [Life!Next]_(PhaseOf(db.status))
  <2> SUFFICES ASSUME Inv, SafeInv, [Next]_vars, PhaseOf(db.status) # PhaseOf(db'.status)
               PROVE  Life!Next
    OBVIOUS
  <2>1. db.status \in Status /\ db'.status \in Status
    BY InvStep DEF Inv, RunInv, RunTypes, Record
  <2>2. Move(db.status, db'.status)
    BY StepMoves
  <2> QED
    BY <2>1, <2>2, MoveIsLife
    DEF Life!Next, Life!Submit, Life!Revise, Life!Approve, Life!Ask, Life!Answer, Life!Finish,
        Life!Close
<1> QED
  BY <1>1, <1>2, SafeAlways, PTL DEF Spec, LifeSpec, Life!Spec

=============================================================================

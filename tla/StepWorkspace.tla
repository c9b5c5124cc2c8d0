---------------------------- MODULE StepWorkspace ----------------------------
(***************************************************************************)
(* What a run does to files.  A plan's steps are executed one after the    *)
(* other in a shadow copy of the workspace; each accepted step is copied   *)
(* to the real workspace at once; a delta replan takes steps back; the     *)
(* final decision promotes the shadow or rolls everything back.            *)
(*                                                                         *)
(* An action is a whole stretch of the engine between two suspension       *)
(* points.  TaskRun has the statuses and the interleavings of the same     *)
(* stretches; here is the data they move.                                  *)
(***************************************************************************)
EXTENDS Naturals, FiniteSets, SequencesExt

CONSTANTS
    Files,        \* the files a run may touch
    Steps,        \* the ids plan steps may have
    MaxAttempts,  \* max_attempts_per_step
    MaxReplans,   \* budget.max_delta_replans
    MaxStamps,    \* bound: the attempts of a run (its iteration budget)
    Features,     \* what happens in this instance
    Created       \* the files that do not exist before the run

\* "delete": a patch has delete_file operations;  "multi": a step emits several
\* patches;  "command": a command the loop runs changes files of the shadow;
\* "discard": reviewed steps are discarded;  "auto": the review is off at times.
\* "partial": a revision may keep completed a step later than a reverted one;
\* "torn": a patch may fail after some of its operations were carried out;
\* "stale": a revision may revert a step that an earlier one took back unrun.
AllFeatures == {"delete", "multi", "command", "discard", "auto", "partial", "torn", "stale"}

ASSUME StepWorkspaceAssumption ==
    /\ Steps \subseteq Nat \ {0} /\ IsFiniteSet(Steps) /\ Created \subseteq Files
    /\ MaxAttempts \in Nat \ {0} /\ MaxReplans \in Nat
    /\ MaxStamps \in Nat \ {0, 1}
    /\ Features \subseteq AllFeatures

VARIABLES
    real, shadow,   \* the two workspaces
    base,           \* the baseline pinned before the first step
    plan,           \* the ids of the plan's steps, in order
    completed,      \* completed_step_ids
    ckpt,           \* step_checkpoints: the shadow before a step's first attempt
    modified,       \* modified_files
    ops,            \* the keys of completed_ops_by_file
    replans,        \* delta_replans_used
    stage,          \* where the run waits
    cur,            \* the step that is running, RepairStep, or 0
    before,         \* the checkpoint of the attempt that is running
    attempt,        \* its number
    stamp,          \* marks what this attempt writes
    touched,        \* the files it touched: touched_files
    last,           \* the files of its last patch: the keys of patch_ops_by_file
    granted,        \* the stamps of accepted steps
    author,         \* history: the completed step whose accepted write a file has
    stray           \* history: the files a failed patch has changed

recordVars == <<plan, completed, modified, ops, replans>>
attemptVars == <<cur, before, attempt, stamp, touched, last>>
vars == <<real, shadow, base, ckpt, stage, granted, author, stray, recordVars, attemptVars>>

\* What a file may hold, as a number: it is absent, it has its text of before
\* the run, or what the attempt with stamp n wrote.
Absent == 0
Original == 1
Stamps == 2 .. MaxStamps
Content == {Absent, Original} \cup Stamps
Tree == [Files -> Content]

\* The id that stands for the repair step, and for no step.
RepairStep == 0

Stages == {"run", "review", "replan", "validate", "revalidate", "gate", "ready",
           "succeeded", "failed", "reverted", "stopped"}
Closed == {"succeeded", "failed", "reverted", "stopped"}

-----------------------------------------------------------------------------
(* Workspace operations                                                     *)

\* workspace/promote.py: copy the touched files that exist; delete nothing.
CopyInto(dst, src, files) ==
    [f \in Files |-> IF f \in files /\ src[f] # Absent THEN src[f] ELSE dst[f]]

\* ShadowWorkspaceManager.promote: copy the files that exist, delete the others.
Promote(dst, src, files) == [f \in Files |-> IF f \in files THEN src[f] ELSE dst[f]]

-----------------------------------------------------------------------------
(* Stretches.  They read the primed values their caller has just set.       *)

NextIncomplete(p, done) == SelectInSeq(p, LAMBDA s : s \notin done)

NoAttempt ==
    /\ cur' = 0 /\ attempt' = 0 /\ touched' = {} /\ last' = {}
    /\ before' = base /\ UNCHANGED stamp

\* The run is over without its final review.
End(s) == stage' = s /\ NoAttempt

\* Mutant: the budget is compared after the usage is bumped the wrong way.
StartAttemptLate(s, n) ==
    IF stamp <= MaxStamps
    THEN /\ stage' = "run" /\ cur' = s /\ attempt' = n
         /\ before' = shadow' /\ stamp' = stamp + 1
         /\ touched' = {} /\ last' = {}
    ELSE End("failed")

\* An attempt of step s: the iteration budget is asserted, the shadow copied.
StartAttempt(s, n) ==
    IF stamp < MaxStamps
    THEN /\ stage' = "run" /\ cur' = s /\ attempt' = n
         /\ before' = shadow' /\ stamp' = stamp + 1
         /\ touched' = {} /\ last' = {}
    ELSE End("failed")

\* The checkpoints c once the tree t is recorded for step s.
Recorded(c, s, t) == [x \in DOMAIN c \cup {s} |-> IF x = s THEN t ELSE c[x]]

\* The head of the loop over the steps, with the checkpoints kept in c.  The
\* first attempt of a step records its checkpoint.
LoopTop(c) ==
    LET i == NextIncomplete(plan', completed')
    IN  IF i = 0
        THEN /\ stage' = "validate" /\ NoAttempt /\ ckpt' = c
        ELSE /\ StartAttempt(plan'[i], 1)
             /\ ckpt' = IF stage' = "run" THEN Recorded(c, plan'[i], shadow') ELSE c

-----------------------------------------------------------------------------
(* The tool loop of a step                                                  *)

\* A patch of the running step.  A delete_file operation names an existing file.
PatchOf(writes, deletes) ==
    /\ stage = "run" /\ writes \cup deletes # {} /\ writes \cap deletes = {}
    /\ \A f \in deletes : shadow[f] # Absent
    /\ deletes # {} => "delete" \in Features

\* The shadow after the attempt wrote and removed files in it.
Changed(writes, removes) ==
    [f \in Files |-> IF f \in writes THEN stamp ELSE IF f \in removes THEN Absent ELSE shadow[f]]

\* One emitted patch is applied to the shadow.  A delete_file operation reports
\* its file touched and leaves it in place: _apply_delete_file removes
\* directories only.
ApplyPatch(writes, deletes) ==
    /\ PatchOf(writes, deletes)
    /\ last # {} => "multi" \in Features
    /\ shadow' = Changed(writes, {})
    /\ touched' = touched \cup writes \cup deletes
    /\ last' = writes \cup deletes
    /\ UNCHANGED <<real, base, ckpt, stage, granted, author, stray, recordVars, cur, before, attempt, stamp>>

\* A patch passes its preflight, and then one of its operations raises: the
\* other ones, to writes, stay carried out, and the tool loop is told of no
\* touched file.  It reports the error to the model and goes on.
PatchFails(writes) ==
    /\ PatchOf(writes, {}) /\ "torn" \in Features
    /\ shadow' = Changed(writes, {})
    /\ stray' = stray \cup writes
    /\ UNCHANGED <<real, base, ckpt, stage, granted, author, recordVars, attemptVars>>

\* A command the loop runs, in the shadow, writes and removes files: no list of
\* the step knows of it.
CommandRuns(writes, removes) ==
    /\ stage = "run" /\ "command" \in Features
    /\ writes \cup removes # {} /\ writes \cap removes = {}
    /\ shadow' = Changed(writes, removes)
    /\ stray' = stray \cup writes \cup removes
    /\ UNCHANGED <<real, base, ckpt, stage, granted, author, recordVars, attemptVars>>

\* Mutant: the shadow is not restored before the next attempt.
AttemptKeepsShadow ==
    /\ stage = "run"
    /\ UNCHANGED shadow
    /\ IF attempt < MaxAttempts THEN StartAttempt(cur, attempt + 1) ELSE End("failed")
    /\ UNCHANGED <<real, base, stray, ckpt, granted, author, recordVars>>

\* The attempt is not verified: the shadow goes back to its checkpoint, and
\* the step is attempted again or the run fails.
AttemptFails ==
    /\ stage = "run"
    /\ shadow' = before
    /\ IF attempt < MaxAttempts THEN StartAttempt(cur, attempt + 1) ELSE End("failed")
    /\ UNCHANGED <<real, base, stray, ckpt, granted, author, recordVars>>

\* Mutant: only the last patch of the step is merged.
MergeLast == modified' = modified \cup last /\ ops' = ops \cup last

\* _merge_step_result, and the operations of the step's last patch.
Merge == modified' = modified \cup touched /\ ops' = ops \cup last

\* Mutant: only the last patch of the step is promoted.
PromoteLast ==
    /\ real' = CopyInto(real, shadow, last)
    /\ granted' = granted \cup {stamp}
    /\ completed' = completed \cup {cur}
    /\ author' = [f \in Files |-> IF f \in touched THEN <<cur, shadow[f]>> ELSE author[f]]

\* The accepted changes of the running step reach the real workspace, and
\* only then is the step marked completed.
PromoteStep ==
    /\ real' = CopyInto(real, shadow, touched)
    /\ granted' = granted \cup {stamp}
    /\ completed' = completed \cup {cur}
    /\ author' = [f \in Files |-> IF f \in touched THEN <<cur, shadow[f]>> ELSE author[f]]

\* A verified plan step without a review.
StepVerified ==
    /\ stage = "run" /\ cur # RepairStep /\ "auto" \in Features
    /\ Merge
    /\ PromoteStep
    /\ UNCHANGED <<shadow, base, stray, plan, replans>>
    /\ LoopTop(ckpt)

\* Mutant: the step is promoted before its review.
ReviewPromoted ==
    /\ stage = "run" /\ cur # RepairStep
    /\ Merge
    /\ stage' = "review" /\ real' = CopyInto(real, shadow, touched)
    /\ UNCHANGED <<shadow, base, stray, ckpt, granted, author, plan, completed, replans, attemptVars>>

\* A verified plan step waits for its review.
StepReview ==
    /\ stage = "run" /\ cur # RepairStep
    /\ Merge
    /\ stage' = "review"
    /\ UNCHANGED <<real, shadow, base, stray, ckpt, granted, author, plan, completed, replans, attemptVars>>

AcceptStep ==
    /\ stage = "review"
    /\ PromoteStep
    /\ UNCHANGED <<shadow, base, stray, plan, modified, ops, replans>>
    /\ LoopTop(ckpt)

\* Mutant: only the files of the last patch are put back.
UnmergeLast == [f \in Files |-> IF f \in last THEN real[f] ELSE shadow[f]]

\* The shadow without the discarded step.
Unmerge == [f \in Files |-> IF f \in touched THEN real[f] ELSE shadow[f]]

\* _unmerge_step_result: the shadow is copied back from the real workspace,
\* the step's files leave the accumulator, and modified_files keeps what the
\* accumulator still knows.
DiscardStep ==
    /\ stage = "review" /\ "discard" \in Features
    /\ shadow' = Unmerge
    /\ completed' = completed \ {cur}
    /\ ops' = ops \ touched
    /\ modified' = modified \cap ops'
    /\ UNCHANGED <<real, base, stray, granted, author, plan, replans>>
    /\ LoopTop(ckpt)

-----------------------------------------------------------------------------
(* Delta replans                                                            *)

\* The step hands the plan back; its own changes are undone.
PlanHandoff ==
    /\ stage = "run" /\ cur # RepairStep
    /\ shadow' = before
    /\ IF replans < MaxReplans
       THEN stage' = "replan" /\ replans' = replans + 1
       ELSE stage' = "failed" /\ UNCHANGED replans
    /\ NoAttempt
    /\ UNCHANGED <<real, base, stray, ckpt, granted, author, plan, completed, modified, ops>>

\* The revision reverts every completed step that comes after a reverted one.
TakesAllBack(reverted) ==
    \A i, j \in DOMAIN plan :
        i < j /\ plan[i] \in reverted /\ plan[j] \in completed => plan[j] \in reverted

\* The revision reverts no step that waits behind an incomplete one: its checkpoint,
\* if it has one, is of before a replan that took back steps ahead of it.
RevertsCurrent(reverted) ==
    \A i, j \in DOMAIN plan :
        i < j /\ plan[i] \notin completed /\ plan[j] \in reverted => plan[j] \in completed

\* Mutant: a reverted step takes the shadow back to the pinned baseline.
RevertedToBase(reverted) == IF reverted \cap ToSet(plan) # {} THEN base ELSE shadow

\* The shadow goes back to before the earliest reverted step of the plan, if
\* its checkpoint is known.
Reverted(reverted) ==
    LET first == SelectInSeq(plan, LAMBDA s : s \in reverted)
    IN  IF first # 0 /\ plan[first] \in DOMAIN ckpt THEN ckpt[plan[first]] ELSE shadow

\* Step s comes before step t in the plan p.
Precedes(p, s, t) == \E i, j \in DOMAIN p : i < j /\ p[i] = s /\ p[j] = t

\* The plan once revised: reverted steps the revision does not define are dropped,
\* the others keep their order, and new steps are appended.
RevisedPlans(reverted, revised) ==
    LET kept  == {s \in ToSet(plan) : s \notin reverted \/ s \in revised}
        fresh == revised \ ToSet(plan)
    IN  {p \in SetToSeqs(kept \cup fresh) :
           \A s \in kept, t \in kept \cup fresh :
              t \in fresh \/ Precedes(plan, s, t) => Precedes(p, s, t)}

\* _apply_revision: reverted steps are incomplete again, and the plan is the revised one.
ApplyRevision(reverted, revised) ==
    /\ stage = "replan"
    /\ "partial" \in Features \/ TakesAllBack(reverted)
    /\ "stale" \in Features \/ RevertsCurrent(reverted)
    /\ shadow' = Reverted(reverted)
    /\ completed' = completed \ reverted
    /\ plan' \in RevisedPlans(reverted, revised)
    /\ author' = [f \in Files |-> IF author[f][1] \in reverted THEN <<0, Absent>> ELSE author[f]]
    /\ UNCHANGED <<real, base, stray, granted, modified, ops, replans>>
    /\ LoopTop(Restrict(ckpt, DOMAIN ckpt \ reverted))

-----------------------------------------------------------------------------
(* Validation and repair                                                    *)

ValidationPasses ==
    /\ stage \in {"validate", "revalidate"}
    /\ stage' = "ready"
    /\ UNCHANGED <<real, shadow, base, stray, ckpt, granted, author, recordVars, attemptVars>>

\* The first failure runs the repair step on the shadow.
ValidationFails ==
    /\ stage = "validate"
    /\ UNCHANGED <<real, shadow, base, stray, ckpt, granted, author, recordVars>>
    /\ StartAttempt(RepairStep, 1)

\* The repair step is not promoted: that is left to the final decision.
RepairVerified ==
    /\ stage = "run" /\ cur = RepairStep
    /\ modified' = modified \cup touched
    /\ stage' = "revalidate"
    /\ author' = [f \in Files |-> IF f \in touched THEN <<0, Absent>> ELSE author[f]]
    /\ UNCHANGED <<real, shadow, base, stray, ckpt, granted, plan, completed, ops, replans>>
    /\ NoAttempt

\* The repair step cannot hand the plan back.
RepairHandoff ==
    /\ stage = "run" /\ cur = RepairStep
    /\ shadow' = before
    /\ End("failed")
    /\ UNCHANGED <<real, base, stray, ckpt, granted, author, recordVars>>

RevalidationFails ==
    /\ stage = "revalidate" /\ stage' = "gate"
    /\ UNCHANGED <<real, shadow, base, stray, ckpt, granted, author, recordVars, attemptVars>>

ValidationDecided(accept) ==
    /\ stage = "gate" /\ stage' = IF accept THEN "ready" ELSE "failed"
    /\ UNCHANGED <<real, shadow, base, stray, ckpt, granted, author, recordVars, attemptVars>>

-----------------------------------------------------------------------------
(* The end of the run                                                       *)

\* Mutant: the rollback copies files back but removes none.
RollbackCopies == real' = CopyInto(real, base, modified) /\ shadow' = base

\* _rollback_to_pre_execution: the shadow is restored from the baseline and
\* promoted over the modified files.
Rollback == real' = Promote(real, base, modified) /\ shadow' = base

\* The abort is seen inside a step's tool loop (between two steps it is seen
\* before the next tool loop touches anything).
AbortRun(revert) ==
    /\ stage = "run"
    /\ IF revert THEN Rollback ELSE UNCHANGED <<real, shadow>>
    /\ End(IF revert THEN "reverted" ELSE "stopped")
    /\ UNCHANGED <<base, stray, ckpt, granted, author, recordVars>>

\* Mutant: accept copies files but removes none.
AcceptCopies ==
    /\ stage = "ready"
    /\ real' = CopyInto(real, shadow, modified)
    /\ stage' = "succeeded"
    /\ UNCHANGED <<shadow, base, stray, ckpt, granted, author, recordVars, attemptVars>>

\* POST /accept
Accept ==
    /\ stage = "ready"
    /\ real' = Promote(real, shadow, modified)
    /\ stage' = "succeeded"
    /\ UNCHANGED <<shadow, base, stray, ckpt, granted, author, recordVars, attemptVars>>

\* POST /reject
Reject ==
    /\ stage = "ready"
    /\ Rollback
    /\ stage' = "reverted"
    /\ UNCHANGED <<base, stray, ckpt, granted, author, recordVars, attemptVars>>

-----------------------------------------------------------------------------

\* _execute_plan starts on a plan of distinct steps, with a shadow prepared
\* from the real workspace and the baseline copied from the shadow.
Init ==
    /\ real = [f \in Files |-> IF f \in Created THEN Absent ELSE Original]
    /\ shadow = real /\ base = real
    /\ plan \in UNION {SetToSeqs(S) : S \in (SUBSET Steps) \ {{}}}
    /\ completed = {} /\ modified = {} /\ ops = {} /\ replans = 0
    /\ stage = "run" /\ cur = plan[1] /\ before = shadow
    /\ attempt = 1 /\ stamp = 2 /\ touched = {} /\ last = {}
    /\ ckpt = Recorded(<<>>, plan[1], shadow)
    /\ granted = {} /\ author = [f \in Files |-> <<0, Absent>>] /\ stray = {}

\* A closed run stays as it is.
Settled == stage \in Closed /\ UNCHANGED vars

Next ==
    \/ \E writes, deletes \in SUBSET Files : ApplyPatch(writes, deletes)
    \/ \E writes \in SUBSET Files : PatchFails(writes)
    \/ \E writes, removes \in SUBSET Files : CommandRuns(writes, removes)
    \/ AttemptFails \/ StepVerified \/ StepReview \/ AcceptStep \/ DiscardStep
    \/ PlanHandoff
    \/ \E reverted, revised \in SUBSET Steps : ApplyRevision(reverted, revised)
    \/ ValidationPasses \/ ValidationFails \/ RepairVerified \/ RepairHandoff
    \/ RevalidationFails \/ \E accept \in BOOLEAN : ValidationDecided(accept)
    \/ \E revert \in BOOLEAN : AbortRun(revert)
    \/ Accept \/ Reject \/ Settled

Spec == Init /\ [][Next]_vars

-----------------------------------------------------------------------------
(* Properties                                                               *)

\* Every variable keeps its type; in particular the plan never names a step
\* twice, and no attempt starts beyond the iteration budget (assert_budget).
TypeOK ==
    /\ real \in Tree /\ shadow \in Tree /\ base \in Tree
    /\ plan \in Seq(Steps) /\ IsInjective(plan)
    /\ completed \subseteq Steps
    /\ DOMAIN ckpt \subseteq Steps /\ \A s \in DOMAIN ckpt : ckpt[s] \in Tree
    /\ modified \subseteq Files /\ ops \subseteq Files
    /\ replans \in 0 .. MaxReplans /\ stage \in Stages
    /\ cur \in Steps \cup {RepairStep} /\ before \in Tree
    /\ attempt \in 0 .. MaxAttempts /\ stamp \in Stamps
    /\ touched \subseteq Files /\ last \subseteq touched
    /\ granted \subseteq Stamps /\ stray \subseteq Files
    /\ author \in [Files -> (Steps \cup {0}) \X Content]

\* Until the final accept the real workspace holds, file by file, what it held
\* before the run or what an accepted step wrote: a failed attempt, a step
\* under review, a discarded step or the repair never leaks out of the shadow.
\* A file that a failed patch or a command changed unreported is the exception:
\* a later step may list it, and promotes it as it finds it.
NoUnreviewedChange ==
    stage # "succeeded" => \A f \in Files \ stray : real[f] \in granted \cup {base[f]}

\* Every file of the real workspace that differs from the baseline is listed
\* in modified_files, the only files the rollback looks at.
ChangesAreTracked == \A f \in Files : real[f] # base[f] => f \in modified

\* Rejecting, or aborting with revert, takes the real workspace back to what
\* it was before the first step (_rollback_to_pre_execution).
RevertIsTrue == [][stage # "reverted" /\ stage' = "reverted" => real' = base]_vars

\* Accepting the run leaves the real workspace equal to the validated shadow,
\* whatever was deleted, replanned or repaired on the way.
AcceptDelivers == [][stage = "ready" /\ stage' = "succeeded" => real' = shadow]_vars

\* Every retry of a step starts from the shadow its first attempt started from.
AttemptsStartAlike ==
    [][stage = "run" /\ stage' = "run" /\ cur' = cur /\ cur # RepairStep /\ attempt' = attempt + 1
         => shadow' = ckpt[cur]]_vars

\* Without replans, discarding a step puts back in the shadow what the step
\* found there (_unmerge_step_result copies it from the real workspace), save
\* for what a failed patch or a command changed unreported.
DiscardRestores ==
    [][stage = "review" /\ cur \notin completed' /\ replans = 0 =>
          \A f \in Files \ stray : shadow'[f] = ckpt[cur][f]]_vars

\* Without replans, whatever the shadow holds between two attempts is in the
\* real workspace: completed steps were promoted before they were marked.
\* What a failed patch or a command changed unreported is the exception.
CompletedIsPromoted ==
    stage \in {"run", "validate"} /\ touched = {} /\ replans = 0 =>
        \A f \in Files \ stray : real[f] = shadow[f]

\* What the latest completed step to touch a file made of it is what the shadow
\* holds: a delta replan restores the shadow to before the steps it reverts,
\* and loses nothing of the steps that stay completed.
CompletedWorkIsInShadow ==
    stage \notin Closed =>
        \A f \in Files : author[f][1] \in completed /\ f \notin touched
            => shadow[f] = author[f][2]
=============================================================================

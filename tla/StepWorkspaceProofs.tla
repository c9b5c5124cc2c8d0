------------------------- MODULE StepWorkspaceProofs -------------------------
(***************************************************************************)
(* What TLAPS proves about StepWorkspace, for any set of files, any plan,  *)
(* any budgets and any contents.                                           *)
(***************************************************************************)
EXTENDS StepWorkspace, TLAPS, SequenceTheorems, FiniteSetTheorems, WellFoundedInduction

\* An attempt that starts has touched nothing yet, or the run has failed.
LEMMA StartAttemptStage ==
    ASSUME NEW s, NEW n, StartAttempt(s, n)
    PROVE  \/ stage' = "run" /\ touched' = {} /\ before' = shadow' /\ cur' = s /\ attempt' = n
           \/ stage' = "failed"
BY DEF StartAttempt, End

\* The head of the loop starts the first attempt of a step and records its
\* checkpoint, or leaves the loop.
LEMMA LoopTopStage ==
    ASSUME NEW c, LoopTop(c)
    PROVE  \/ /\ stage' = "run" /\ touched' = {} /\ before' = shadow' /\ attempt' = 1
              /\ cur' \in DOMAIN ckpt' /\ ckpt'[cur'] = shadow'
           \/ stage' \in {"failed", "validate"}
<1> DEFINE i == NextIncomplete(plan', completed')
<1>1. CASE i = 0
  BY <1>1 DEF LoopTop
<1>2. CASE i # 0 /\ stage' = "run"
  <2>1. StartAttempt(plan'[i], 1) /\ ckpt' = Recorded(c, plan'[i], shadow')
    BY <1>2 DEF LoopTop
  <2>2. cur' = plan'[i] /\ touched' = {} /\ before' = shadow' /\ attempt' = 1
    BY <1>2, <2>1, StartAttemptStage
  <2>3. cur' \in DOMAIN ckpt' /\ ckpt'[cur'] = shadow'
    BY <2>1, <2>2 DEF Recorded
  <2> QED
    BY <1>2, <2>2, <2>3
<1>3. CASE i # 0 /\ stage' # "run"
  <2>1. StartAttempt(plan'[i], 1)
    BY <1>3 DEF LoopTop
  <2> QED
    BY <1>3, <2>1, StartAttemptStage
<1> QED
  BY <1>1, <1>2, <1>3

-----------------------------------------------------------------------------
(* A run can be taken back                                                  *)

\* The files of the step under review are merged already, and the baseline is
\* a tree.
Tracked ==
    /\ base \in Tree /\ ChangesAreTracked
    /\ stage = "review" => touched \subseteq modified

\* Copying files that are tracked keeps every change tracked.
LEMMA CopyTracked ==
    ASSUME Tracked, NEW src, NEW files,
           real' = CopyInto(real, src, files) \/ real' = Promote(real, src, files),
           files \subseteq modified', modified \subseteq modified', UNCHANGED base
    PROVE  ChangesAreTracked'
BY DEF Tracked, ChangesAreTracked, CopyInto, Promote

\* A step keeps the changes tracked unless it discards a reviewed step.
LEMMA TrackedStep ==
    ASSUME Tracked, [Next]_vars, "discard" \notin Features
    PROVE  Tracked'
<1>0. UNCHANGED base
  BY DEF Next, vars, ApplyPatch, PatchFails, CommandRuns, AttemptFails, StepVerified, StepReview, AcceptStep, DiscardStep,
     PlanHandoff, ApplyRevision, ValidationPasses, ValidationFails, RepairVerified, RepairHandoff,
     RevalidationFails, ValidationDecided, AbortRun, Accept, Reject, Settled
<1>1. ASSUME UNCHANGED <<real, modified>>, stage' # "review" PROVE Tracked'
  BY <1>0, <1>1 DEF Tracked, ChangesAreTracked
<1>2. CASE \/ UNCHANGED vars \/ Settled
  BY <1>2 DEF vars, recordVars, attemptVars, Settled, Tracked, ChangesAreTracked
<1>3. CASE \E writes, deletes \in SUBSET Files : ApplyPatch(writes, deletes) \/ PatchFails(writes) \/ CommandRuns(writes, deletes)
  BY <1>1, <1>3 DEF ApplyPatch, PatchFails, CommandRuns, PatchOf, recordVars
<1>4. CASE AttemptFails
  BY <1>1, <1>4, StartAttemptStage DEF AttemptFails, recordVars, End
<1>5. CASE StepVerified
  <2>1. stage' # "review" /\ real' = CopyInto(real, shadow, touched) /\ modified' = modified \cup touched
    BY <1>5, LoopTopStage DEF StepVerified, PromoteStep, Merge
  <2> QED
    BY <1>0, <2>1, CopyTracked DEF Tracked
<1>6. CASE StepReview
  BY <1>0, <1>6 DEF StepReview, Merge, Tracked, ChangesAreTracked, attemptVars
<1>7. CASE AcceptStep
  <2>1. stage' # "review" /\ real' = CopyInto(real, shadow, touched) /\ modified' = modified
        /\ stage = "review"
    BY <1>7, LoopTopStage DEF AcceptStep, PromoteStep
  <2> QED
    BY <1>0, <2>1, CopyTracked DEF Tracked
<1>8. CASE DiscardStep
  BY <1>8 DEF DiscardStep
<1>9. CASE PlanHandoff
  BY <1>1, <1>9 DEF PlanHandoff
<1>10. CASE \E reverted, revised \in SUBSET Steps : ApplyRevision(reverted, revised)
  BY <1>1, <1>10, LoopTopStage DEF ApplyRevision
<1>11. CASE ValidationPasses \/ RevalidationFails \/ \E accept \in BOOLEAN : ValidationDecided(accept)
  BY <1>1, <1>11 DEF ValidationPasses, RevalidationFails, ValidationDecided, recordVars
<1>12. CASE ValidationFails
  BY <1>1, <1>12, StartAttemptStage DEF ValidationFails, recordVars
<1>13. CASE RepairVerified
  BY <1>0, <1>13 DEF RepairVerified, Tracked, ChangesAreTracked
<1>14. CASE RepairHandoff
  BY <1>1, <1>14 DEF RepairHandoff, End, recordVars
<1>15. CASE \E revert \in BOOLEAN : AbortRun(revert)
  <2>1. /\ stage' # "review" /\ modified' = modified
        /\ real' = real \/ real' = Promote(real, base, modified)
    BY <1>15 DEF AbortRun, Rollback, End, recordVars
  <2> QED
    BY <1>0, <1>1, <2>1, CopyTracked DEF Tracked
<1>16. CASE Accept \/ Reject
  <2>1. /\ stage' # "review" /\ modified' = modified
        /\ real' = Promote(real, shadow, modified) \/ real' = Promote(real, base, modified)
    BY <1>16 DEF Accept, Reject, Rollback, recordVars
  <2> QED
    BY <1>0, <2>1, CopyTracked DEF Tracked
<1> QED
  BY <1>2, <1>3, <1>4, <1>5, <1>6, <1>7, <1>8, <1>9, <1>10, <1>11, <1>12, <1>13, <1>14, <1>15,
     <1>16 DEF Next

\* At first nothing has changed.
LEMMA TrackedInit ==
    ASSUME Init
    PROVE  Tracked
BY DEF Init, Tracked, ChangesAreTracked, Tree, Content

\* A run that discards no reviewed step keeps track, in modified_files, of every
\* file of the real workspace that differs from the baseline.
THEOREM ChangesTracked ==
    ASSUME "discard" \notin Features
    PROVE  Spec => []ChangesAreTracked
<1>1. Init => Tracked
  BY TrackedInit
<1>2. Tracked /\ [Next]_vars => Tracked'
  BY TrackedStep
<1>3. Tracked => ChangesAreTracked
  BY DEF Tracked
<1> QED
  BY <1>1, <1>2, <1>3, PTL DEF Spec

\* The rollback of such a run restores every file.
LEMMA RollbackIsComplete ==
    ASSUME Tracked, real' = Promote(real, base, modified)
    PROVE  real' = base
BY DEF Tracked, ChangesAreTracked, Promote, Tree

\* Rejecting it, or aborting it with revert, leaves the real workspace as it was
\* before the first step, deletions and replans included.
THEOREM RevertsExactly ==
    ASSUME "discard" \notin Features
    PROVE  Spec => RevertIsTrue
<1>1. ASSUME Tracked, [Next]_vars, stage # "reverted", stage' = "reverted"
      PROVE  real' = base
  <2>1. CASE Reject \/ \E revert \in BOOLEAN : AbortRun(revert)
    <3>1. real' = Promote(real, base, modified)
      BY <1>1, <2>1 DEF Reject, AbortRun, Rollback, End
    <3> QED
      BY <1>1, <3>1, RollbackIsComplete
  <2>2. CASE AttemptFails \/ ValidationFails
    BY <1>1, <2>2, StartAttemptStage DEF AttemptFails, ValidationFails, End
  <2>3. CASE \/ StepVerified \/ AcceptStep \/ DiscardStep
             \/ \E reverted, revised \in SUBSET Steps : ApplyRevision(reverted, revised)
    BY <1>1, <2>3, LoopTopStage DEF StepVerified, AcceptStep, DiscardStep, ApplyRevision
  <2>4. CASE \/ \E writes, deletes \in SUBSET Files : ApplyPatch(writes, deletes) \/ PatchFails(writes) \/ CommandRuns(writes, deletes)
             \/ StepReview \/ PlanHandoff \/ ValidationPasses \/ RepairVerified \/ RepairHandoff
             \/ RevalidationFails \/ \E accept \in BOOLEAN : ValidationDecided(accept)
             \/ Accept
    BY <1>1, <2>4 DEF ApplyPatch, PatchFails, CommandRuns, StepReview, PlanHandoff, ValidationPasses, RepairVerified,
       RepairHandoff, RevalidationFails, ValidationDecided, Accept, End
  <2>5. CASE UNCHANGED vars \/ Settled
    BY <1>1, <2>5 DEF vars, Settled
  <2> QED
    BY <1>1, <2>1, <2>2, <2>3, <2>4, <2>5 DEF Next
<1>2. Init => Tracked
  BY TrackedInit
<1>3. Tracked /\ [Next]_vars => Tracked'
  BY TrackedStep
<1> QED
  BY <1>1, <1>2, <1>3, PTL DEF Spec, RevertIsTrue

-----------------------------------------------------------------------------
(* Nothing reaches the real workspace unreviewed                            *)

\* The tree t holds, outside the stray files, only text of before the run and
\* what accepted steps wrote.
Known(t) == \A f \in Files \ stray : t[f] \in granted \cup {base[f]}

\* Every checkpoint is known, and so is the shadow between two steps.  While a
\* step runs or waits for its review, the shadow is the checkpoint of its attempt
\* but for the files the attempt touched, and those carry its stamp if changed.
Provenance ==
    /\ \A s \in DOMAIN ckpt : Known(ckpt[s])
    /\ stage \in {"replan", "validate"} => Known(shadow)
    /\ stage \in {"run", "review"} =>
          /\ Known(before)
          /\ \A f \in Files \ stray :
                \/ shadow[f] = before[f]
                \/ (f \in touched /\ shadow[f] = stamp)

Reviewed == NoUnreviewedChange /\ Provenance

\* A known tree stays known while steps are accepted and files go astray.
LEMMA KnownStays ==
    ASSUME NEW t, Known(t), granted \subseteq granted', stray \subseteq stray', UNCHANGED base
    PROVE  \A f \in Files \ stray' : t[f] \in granted' \cup {base'[f]}
BY DEF Known

\* Promoting the running step grants exactly its stamp: the real workspace and
\* the shadow are known afterwards.
LEMMA PromoteStepGrants ==
    ASSUME Reviewed, stage \in {"run", "review"}, PromoteStep, UNCHANGED <<base, stray, shadow>>
    PROVE  NoUnreviewedChange' /\ Known(shadow)'
<1>1. \A f \in Files \ stray : shadow[f] \in granted' \cup {base[f]}
  BY DEF Reviewed, Provenance, Known, PromoteStep
<1>2. \A f \in Files \ stray : real[f] \in granted' \cup {base[f]}
  BY DEF Reviewed, NoUnreviewedChange, PromoteStep
<1>3. \A f \in Files : real'[f] \in {real[f], shadow[f]}
  BY DEF PromoteStep, CopyInto
<1> QED
  BY <1>1, <1>2, <1>3 DEF NoUnreviewedChange, Known

\* The head of the loop starts from a known shadow and keeps known checkpoints.
LEMMA LoopTopKnown ==
    ASSUME NEW c, LoopTop(c), Known(shadow)',
           \A s \in DOMAIN c : \A f \in Files \ stray' : c[s][f] \in granted' \cup {base'[f]}
    PROVE  Provenance'
<1>1. \A s \in DOMAIN ckpt' : \A f \in Files \ stray' : ckpt'[s][f] \in granted' \cup {base'[f]}
  <2>1. ckpt' = c \/ \E s : ckpt' = Recorded(c, s, shadow')
    BY DEF LoopTop
  <2>2. CASE ckpt' = c
    BY <2>2
  <2>3. CASE \E s : ckpt' = Recorded(c, s, shadow')
    <3>1. PICK step : ckpt' = Recorded(c, step, shadow')
      BY <2>3
    <3>2. \A s \in DOMAIN ckpt' : ckpt'[s] = shadow' \/ (s \in DOMAIN c /\ ckpt'[s] = c[s])
      BY <3>1 DEF Recorded
    <3>3. \A f \in Files \ stray' : shadow'[f] \in granted' \cup {base'[f]}
      BY DEF Known
    <3> QED
      BY <3>2, <3>3
  <2> QED
    BY <2>1, <2>2, <2>3
<1>2. \/ stage' = "run" /\ before' = shadow'
      \/ stage' \in {"failed", "validate"}
  BY LoopTopStage
<1> QED
  BY <1>1, <1>2 DEF Provenance, Known

\* Every step keeps the real workspace to reviewed changes, all features included.
LEMMA ReviewedStep ==
    ASSUME Reviewed, [Next]_vars
    PROVE  Reviewed'
<1>0. UNCHANGED base
  BY DEF Next, vars, ApplyPatch, PatchFails, CommandRuns, AttemptFails, StepVerified, StepReview, AcceptStep, DiscardStep,
     PlanHandoff, ApplyRevision, ValidationPasses, ValidationFails, RepairVerified, RepairHandoff,
     RevalidationFails, ValidationDecided, AbortRun, Accept, Reject, Settled
<1>1. ASSUME UNCHANGED <<real, granted>>, stray \subseteq stray', stage # "succeeded"
      PROVE NoUnreviewedChange'
  BY <1>0, <1>1 DEF Reviewed, NoUnreviewedChange
<1>2. ASSUME UNCHANGED <<ckpt, granted, stray>>, stage' \notin {"run", "review", "replan", "validate"}
      PROVE Provenance'
  BY <1>0, <1>2 DEF Reviewed, Provenance, Known
<1>3. CASE UNCHANGED vars \/ Settled
  BY <1>3 DEF vars, attemptVars, recordVars, Settled, Reviewed, NoUnreviewedChange, Provenance, Known
<1>4. CASE \E writes, deletes \in SUBSET Files : ApplyPatch(writes, deletes) \/ PatchFails(writes) \/ CommandRuns(writes, deletes)
  <2>1. PICK writes \in SUBSET Files, deletes \in SUBSET Files :
               ApplyPatch(writes, deletes) \/ PatchFails(writes) \/ CommandRuns(writes, deletes)
    BY <1>4
  <2>2. stage = "run" /\ stage' = "run" /\ UNCHANGED <<real, granted, stamp, ckpt, before>>
    BY <2>1 DEF ApplyPatch, PatchFails, CommandRuns, PatchOf, attemptVars
  <2>3. stray \subseteq stray'
    BY <2>1 DEF ApplyPatch, PatchFails, CommandRuns
  <2>4. \A s \in DOMAIN ckpt' : Known(ckpt[s])'
    BY <1>0, <2>2, <2>3 DEF Reviewed, Provenance, Known
  <2>5. Known(before)'
    BY <1>0, <2>2, <2>3 DEF Reviewed, Provenance, Known
  <2>6. \A f \in Files \ stray' : \/ shadow'[f] = before'[f]
                                  \/ (f \in touched' /\ shadow'[f] = stamp')
    <3>1. CASE ApplyPatch(writes, deletes)
      <4>1. /\ stray' = stray /\ touched' = touched \cup writes \cup deletes
            /\ shadow' = Changed(writes, {})
        BY <3>1 DEF ApplyPatch
      <4> QED
        BY <2>2, <4>1 DEF Reviewed, Provenance, Changed
    <3>2. CASE PatchFails(writes)
      <4>1. stray' = stray \cup writes /\ touched' = touched /\ shadow' = Changed(writes, {})
        BY <3>2 DEF PatchFails, attemptVars
      <4> QED
        BY <2>2, <4>1 DEF Reviewed, Provenance, Changed
    <3>3. CASE CommandRuns(writes, deletes)
      <4>1. /\ stray' = stray \cup writes \cup deletes /\ touched' = touched
            /\ shadow' = Changed(writes, deletes)
        BY <3>3 DEF CommandRuns, attemptVars
      <4> QED
        BY <2>2, <4>1 DEF Reviewed, Provenance, Changed
    <3> QED
      BY <2>1, <3>1, <3>2, <3>3
  <2>7. Provenance'
    BY <2>2, <2>4, <2>5, <2>6 DEF Provenance
  <2> QED
    BY <1>1, <2>2, <2>3, <2>7 DEF Reviewed
<1>5. CASE AttemptFails
  <2>1. stage = "run" /\ shadow' = before /\ UNCHANGED <<real, stray, ckpt, granted>>
    BY <1>5 DEF AttemptFails
  <2>2. \/ stage' = "run" /\ before' = shadow'
        \/ stage' = "failed"
    BY <1>5, StartAttemptStage DEF AttemptFails, End
  <2>3. Provenance'
    BY <1>0, <2>1, <2>2 DEF Reviewed, Provenance, Known
  <2> QED
    BY <1>1, <2>1, <2>3 DEF Reviewed
<1>6. CASE StepVerified \/ AcceptStep
  <2>1. stage \in {"run", "review"} /\ PromoteStep /\ LoopTop(ckpt) /\ UNCHANGED <<stray, shadow>>
    BY <1>6 DEF StepVerified, AcceptStep
  <2>2. NoUnreviewedChange' /\ Known(shadow)'
    BY <1>0, <2>1, PromoteStepGrants
  <2>3. \A s \in DOMAIN ckpt : \A f \in Files \ stray' : ckpt[s][f] \in granted' \cup {base'[f]}
    BY <1>0, <2>1 DEF Reviewed, Provenance, Known, PromoteStep
  <2>4. Provenance'
    BY <2>1, <2>2, <2>3, LoopTopKnown
  <2> QED
    BY <2>2, <2>4 DEF Reviewed
<1>7. CASE StepReview
  <2>1. stage = "run" /\ stage' = "review" /\ UNCHANGED <<real, shadow, stray, ckpt, granted, attemptVars>>
    BY <1>7 DEF StepReview
  <2>2. Provenance'
    BY <1>0, <2>1 DEF Reviewed, Provenance, Known, attemptVars
  <2> QED
    BY <1>1, <2>1, <2>2 DEF Reviewed
<1>8. CASE DiscardStep
  <2>1. /\ stage = "review" /\ shadow' = Unmerge /\ LoopTop(ckpt)
        /\ UNCHANGED <<real, stray, granted>>
    BY <1>8 DEF DiscardStep
  <2>2. Known(shadow)'
    BY <1>0, <2>1 DEF Reviewed, NoUnreviewedChange, Provenance, Known, Unmerge
  <2>3. \A s \in DOMAIN ckpt : \A f \in Files \ stray' : ckpt[s][f] \in granted' \cup {base'[f]}
    BY <1>0, <2>1 DEF Reviewed, Provenance, Known
  <2>4. Provenance'
    BY <2>1, <2>2, <2>3, LoopTopKnown
  <2> QED
    BY <1>1, <2>1, <2>4 DEF Reviewed
<1>9. CASE PlanHandoff
  <2>1. /\ stage = "run" /\ stage' \in {"replan", "failed"} /\ shadow' = before
        /\ UNCHANGED <<real, stray, ckpt, granted>>
    BY <1>9 DEF PlanHandoff
  <2>2. Provenance'
    BY <1>0, <2>1 DEF Reviewed, Provenance, Known
  <2> QED
    BY <1>1, <2>1, <2>2 DEF Reviewed
<1>10. CASE \E reverted, revised \in SUBSET Steps : ApplyRevision(reverted, revised)
  <2>1. PICK reverted \in SUBSET Steps, revised \in SUBSET Steps : ApplyRevision(reverted, revised)
    BY <1>10
  <2>2. /\ stage = "replan" /\ shadow' = Reverted(reverted)
        /\ UNCHANGED <<real, stray, granted>>
        /\ LoopTop(Restrict(ckpt, DOMAIN ckpt \ reverted))
    BY <2>1 DEF ApplyRevision
  <2>3. shadow' = shadow \/ \E s \in DOMAIN ckpt : shadow' = ckpt[s]
    BY <2>2 DEF Reverted
  <2>4. Known(shadow)'
    BY <1>0, <2>2, <2>3 DEF Reviewed, Provenance, Known
  <2> DEFINE c == Restrict(ckpt, DOMAIN ckpt \ reverted)
  <2>5. \A s \in DOMAIN c : s \in DOMAIN ckpt /\ c[s] = ckpt[s]
    BY DEF Restrict
  <2>6. \A s \in DOMAIN c : \A f \in Files \ stray' : c[s][f] \in granted' \cup {base'[f]}
    BY <1>0, <2>2, <2>5 DEF Reviewed, Provenance, Known
  <2> HIDE DEF c
  <2>7. Provenance'
    BY <2>2, <2>4, <2>6, LoopTopKnown DEF c
  <2> QED
    BY <1>1, <2>2, <2>7 DEF Reviewed
<1>11. CASE ValidationPasses \/ RevalidationFails \/ \E accept \in BOOLEAN : ValidationDecided(accept)
  BY <1>1, <1>2, <1>11 DEF ValidationPasses, RevalidationFails, ValidationDecided, Reviewed
<1>12. CASE ValidationFails
  <2>1. stage = "validate" /\ UNCHANGED <<real, shadow, stray, ckpt, granted>>
    BY <1>12 DEF ValidationFails
  <2>2. \/ stage' = "run" /\ before' = shadow'
        \/ stage' = "failed"
    BY <1>12, StartAttemptStage DEF ValidationFails
  <2>3. Provenance'
    BY <1>0, <2>1, <2>2 DEF Reviewed, Provenance, Known
  <2> QED
    BY <1>1, <2>1, <2>3 DEF Reviewed
<1>13. CASE RepairVerified
  BY <1>1, <1>2, <1>13 DEF RepairVerified, Reviewed
<1>14. CASE RepairHandoff
  BY <1>1, <1>2, <1>14 DEF RepairHandoff, End, Reviewed
<1>15. CASE \E revert \in BOOLEAN : AbortRun(revert)
  <2>1. /\ UNCHANGED <<granted, stray, ckpt>> /\ stage = "run" /\ stage' \in {"reverted", "stopped"}
        /\ real' = real \/ real' = Promote(real, base, modified)
    BY <1>15 DEF AbortRun, Rollback, End
  <2>2. NoUnreviewedChange'
    BY <1>0, <2>1 DEF Reviewed, NoUnreviewedChange, Promote
  <2> QED
    BY <1>2, <2>1, <2>2 DEF Reviewed
<1>16. CASE Accept
  BY <1>2, <1>16 DEF Accept, Reviewed, NoUnreviewedChange
<1>17. CASE Reject
  <2>1. /\ UNCHANGED <<granted, stray, ckpt>> /\ stage = "ready" /\ stage' = "reverted"
        /\ real' = Promote(real, base, modified)
    BY <1>17 DEF Reject, Rollback
  <2>2. NoUnreviewedChange'
    BY <1>0, <2>1 DEF Reviewed, NoUnreviewedChange, Promote
  <2> QED
    BY <1>2, <2>1, <2>2 DEF Reviewed
<1> QED
  BY <1>3, <1>4, <1>5, <1>6, <1>7, <1>8, <1>9, <1>10, <1>11, <1>12, <1>13, <1>14, <1>15, <1>16,
     <1>17 DEF Next

\* Whatever is attempted, discarded, replanned or repaired, the real workspace
\* holds, outside the files changed unreported, nothing but its baseline and what
\* accepted steps wrote, until the run itself is accepted.
THEOREM OnlyReviewedChanges == Spec => []NoUnreviewedChange
<1>1. Init => Reviewed
  BY DEF Init, Reviewed, NoUnreviewedChange, Provenance, Known, Recorded
<1>2. Reviewed /\ [Next]_vars => Reviewed'
  BY ReviewedStep
<1>3. Reviewed => NoUnreviewedChange
  BY DEF Reviewed
<1> QED
  BY <1>1, <1>2, <1>3, PTL DEF Spec

-----------------------------------------------------------------------------
(* Retries start alike                                                      *)

\* The checkpoint of the running attempt is the one recorded for its step.
Anchored ==
    stage = "run" =>
        /\ attempt \in Nat \ {0}
        /\ cur # RepairStep => cur \in DOMAIN ckpt /\ before = ckpt[cur]

\* Every step keeps the running attempt anchored.
LEMMA AnchoredStep ==
    ASSUME Anchored, [Next]_vars
    PROVE  Anchored'
<1>1. ASSUME stage' # "run" PROVE Anchored'
  BY <1>1 DEF Anchored
<1>2. ASSUME NEW c, LoopTop(c) PROVE Anchored'
  BY <1>2, LoopTopStage DEF Anchored
<1>3. CASE UNCHANGED vars \/ Settled
  BY <1>3 DEF vars, attemptVars, Settled, Anchored
<1>4. CASE \E writes, deletes \in SUBSET Files : ApplyPatch(writes, deletes) \/ PatchFails(writes) \/ CommandRuns(writes, deletes)
  BY <1>4 DEF ApplyPatch, PatchFails, CommandRuns, attemptVars, Anchored
<1>5. CASE AttemptFails
  <2>1. CASE attempt < MaxAttempts
    <3>1. stage = "run" /\ shadow' = before /\ ckpt' = ckpt /\ StartAttempt(cur, attempt + 1)
      BY <1>5, <2>1 DEF AttemptFails
    <3> QED
      BY <3>1, StartAttemptStage DEF Anchored
  <2>2. CASE ~(attempt < MaxAttempts)
    BY <1>1, <1>5, <2>2 DEF AttemptFails, End
  <2> QED
    BY <2>1, <2>2
<1>6. CASE StepVerified \/ AcceptStep \/ DiscardStep
  BY <1>2, <1>6 DEF StepVerified, AcceptStep, DiscardStep
<1>7. CASE \E reverted, revised \in SUBSET Steps : ApplyRevision(reverted, revised)
  BY <1>2, <1>7 DEF ApplyRevision
<1>8. CASE ValidationFails
  BY <1>8, StartAttemptStage DEF ValidationFails, Anchored
<1>9. CASE \/ StepReview \/ PlanHandoff \/ ValidationPasses \/ RepairVerified \/ RepairHandoff
           \/ RevalidationFails \/ \E accept \in BOOLEAN : ValidationDecided(accept)
           \/ \E revert \in BOOLEAN : AbortRun(revert)
           \/ Accept \/ Reject
  BY <1>1, <1>9 DEF StepReview, PlanHandoff, ValidationPasses, RepairVerified, RepairHandoff, End,
     RevalidationFails, ValidationDecided, AbortRun, Accept, Reject
<1> QED
  BY <1>3, <1>4, <1>5, <1>6, <1>7, <1>8, <1>9 DEF Next

\* Every retry of a plan step starts from the shadow its first attempt had.
THEOREM RetriesStartAlike == Spec => AttemptsStartAlike
<1>1. ASSUME Anchored, [Next]_vars, stage = "run", stage' = "run", cur' = cur, cur # RepairStep,
             attempt' = attempt + 1
      PROVE  shadow' = ckpt[cur]
  <2>1. attempt' # attempt /\ attempt' # 1
    BY <1>1 DEF Anchored
  <2>2. CASE AttemptFails
    BY <1>1, <2>2 DEF AttemptFails, Anchored
  <2>3. CASE \/ StepVerified \/ AcceptStep \/ DiscardStep
             \/ \E reverted, revised \in SUBSET Steps : ApplyRevision(reverted, revised)
    BY <1>1, <2>1, <2>3, LoopTopStage DEF StepVerified, AcceptStep, DiscardStep, ApplyRevision
  <2>4. CASE \/ StepReview \/ PlanHandoff \/ ValidationPasses \/ ValidationFails \/ RepairVerified
             \/ RepairHandoff \/ RevalidationFails \/ \E accept \in BOOLEAN : ValidationDecided(accept)
             \/ \E revert \in BOOLEAN : AbortRun(revert)
             \/ Accept \/ Reject
    BY <1>1, <2>4 DEF StepReview, PlanHandoff, ValidationPasses, ValidationFails, RepairVerified,
       RepairHandoff, End, RevalidationFails, ValidationDecided, AbortRun, Accept, Reject
  <2>5. CASE \/ UNCHANGED vars \/ Settled
             \/ \E writes, deletes \in SUBSET Files : ApplyPatch(writes, deletes) \/ PatchFails(writes) \/ CommandRuns(writes, deletes)
    BY <2>1, <2>5 DEF vars, attemptVars, Settled, ApplyPatch, PatchFails, CommandRuns
  <2> QED
    BY <1>1, <2>2, <2>3, <2>4, <2>5 DEF Next
<1>2. Init => Anchored
  BY DEF Init, Anchored, Recorded
<1>3. Anchored /\ [Next]_vars => Anchored'
  BY AnchoredStep
<1> QED
  BY <1>1, <1>2, <1>3, PTL DEF Spec, AttemptsStartAlike
-----------------------------------------------------------------------------
(* Before the first replan the two workspaces agree between attempts        *)

\* Attempts are numbered upwards by stamps, none of which says "absent".
StampIsText == stamp \in Nat \ {Absent}

\* Outside the files changed unreported, an attempt starts from the real
\* workspace, and the shadow differs from there by its own writes only.
FromReal ==
    \A f \in Files \ stray :
        /\ before[f] = real[f]
        /\ shadow[f] = before[f] \/ (f \in touched /\ shadow[f] = stamp)

\* The shadow is the real workspace, outside those files.
Same == \A f \in Files \ stray : real[f] = shadow[f]

\* While no step handed the plan back, attempts start from the real workspace,
\* and a step under review still has its checkpoint.
Mirrored ==
    /\ Anchored /\ StampIsText
    /\ replans \in Nat /\ (stage = "replan" => replans # 0)
    /\ replans = 0 =>
         /\ stage \in {"run", "review"} => FromReal
         /\ stage = "review" => before = ckpt[cur]
         /\ stage = "validate" => Same

\* Neither an attempt that starts nor the end of one brings the stamp back.
LEMMA StampStays ==
    ASSUME StampIsText, stamp' = stamp \/ (\E s, n : StartAttempt(s, n)) \/ (\E c : LoopTop(c))
    PROVE  StampIsText'
<1>1. ASSUME NEW s, NEW n, StartAttempt(s, n) PROVE stamp' \in {stamp, stamp + 1}
  BY <1>1 DEF StartAttempt, End, NoAttempt
<1>2. ASSUME NEW c, LoopTop(c) PROVE stamp' \in {stamp, stamp + 1}
  <2>1. stamp' = stamp \/ \E s, n : StartAttempt(s, n)
    BY <1>2 DEF LoopTop, NoAttempt
  <2> QED
    BY <1>1, <2>1
<1> QED
  BY <1>1, <1>2 DEF StampIsText, Absent

\* A step that starts from equal workspaces keeps them mirrored.
LEMMA MirroredStart ==
    ASSUME Mirrored, Anchored', StampIsText', replans' \in Nat, replans' = 0 => Same',
           (\E s, n : StartAttempt(s, n)) \/ (\E c : LoopTop(c))
    PROVE  Mirrored'
<1>1. \/ stage' = "run" /\ before' = shadow'
      \/ stage' \in {"failed", "validate"}
  BY StartAttemptStage, LoopTopStage
<1> QED
  BY <1>1 DEF Mirrored, FromReal, Same

\* After its promotion the work of the running step is in both workspaces.
LEMMA PromotedIsSame ==
    ASSUME FromReal, StampIsText, PromoteStep, UNCHANGED <<shadow, stray>>
    PROVE  Same'
BY DEF FromReal, StampIsText, PromoteStep, CopyInto, Same

\* Every step keeps the workspaces mirrored.
LEMMA MirroredStep ==
    ASSUME Mirrored, [Next]_vars
    PROVE  Mirrored'
<1>a. Anchored'
  BY AnchoredStep DEF Mirrored
<1>1. ASSUME UNCHANGED <<stamp, replans>>, stage' \notin {"run", "review", "replan", "validate"}
      PROVE  Mirrored'
  BY <1>a, <1>1 DEF Mirrored, StampIsText
<1>2. CASE UNCHANGED vars \/ Settled
  BY <1>a, <1>2 DEF vars, attemptVars, recordVars, Settled, Mirrored, StampIsText, FromReal, Same
<1>3. CASE \E writes, deletes \in SUBSET Files : ApplyPatch(writes, deletes) \/ PatchFails(writes) \/ CommandRuns(writes, deletes)
  <2>1. PICK writes \in SUBSET Files, deletes \in SUBSET Files :
               ApplyPatch(writes, deletes) \/ PatchFails(writes) \/ CommandRuns(writes, deletes)
    BY <1>3
  <2>2. stage = "run" /\ stage' = "run" /\ UNCHANGED <<real, stamp, before, replans>>
    BY <2>1 DEF ApplyPatch, PatchFails, CommandRuns, PatchOf, attemptVars, recordVars
  <2>3. ASSUME FromReal PROVE FromReal'
    <3>1. CASE ApplyPatch(writes, deletes)
      <4>1. /\ stray' = stray /\ touched' = touched \cup writes \cup deletes
            /\ shadow' = Changed(writes, {})
        BY <3>1 DEF ApplyPatch
      <4> QED
        BY <2>2, <2>3, <4>1 DEF FromReal, Changed
    <3>2. CASE PatchFails(writes)
      <4>1. stray' = stray \cup writes /\ touched' = touched /\ shadow' = Changed(writes, {})
        BY <3>2 DEF PatchFails, attemptVars
      <4> QED
        BY <2>2, <2>3, <4>1 DEF FromReal, Changed
    <3>3. CASE CommandRuns(writes, deletes)
      <4>1. /\ stray' = stray \cup writes \cup deletes /\ touched' = touched
            /\ shadow' = Changed(writes, deletes)
        BY <3>3 DEF CommandRuns, attemptVars
      <4> QED
        BY <2>2, <2>3, <4>1 DEF FromReal, Changed
    <3> QED
      BY <2>1, <3>1, <3>2, <3>3
  <2> QED
    BY <1>a, <2>2, <2>3 DEF Mirrored, StampIsText
<1>4. CASE AttemptFails
  <2>1. stage = "run" /\ shadow' = before /\ UNCHANGED <<real, stray, replans>>
    BY <1>4 DEF AttemptFails, recordVars
  <2>2. CASE attempt < MaxAttempts
    <3>1. StartAttempt(cur, attempt + 1)
      BY <1>4, <2>2 DEF AttemptFails
    <3>2. replans' = 0 => Same'
      BY <2>1 DEF Mirrored, FromReal, Same
    <3> QED
      BY <1>a, <2>1, <3>1, <3>2, StampStays, MirroredStart DEF Mirrored
  <2>3. CASE ~(attempt < MaxAttempts)
    BY <1>1, <1>4, <2>1, <2>3 DEF AttemptFails, End, NoAttempt
  <2> QED
    BY <2>2, <2>3
<1>5. CASE StepVerified \/ AcceptStep
  <2>1. /\ stage \in {"run", "review"} /\ PromoteStep /\ LoopTop(ckpt)
        /\ UNCHANGED <<shadow, stray, replans>>
    BY <1>5 DEF StepVerified, AcceptStep
  <2>2. replans' = 0 => Same'
    BY <2>1, PromotedIsSame DEF Mirrored
  <2> QED
    BY <1>a, <2>1, <2>2, StampStays, MirroredStart DEF Mirrored
<1>6. CASE StepReview
  <2>1. /\ stage = "run" /\ cur # RepairStep /\ stage' = "review"
        /\ UNCHANGED <<real, shadow, stray, ckpt, replans, attemptVars>>
    BY <1>6 DEF StepReview
  <2>2. replans' = 0 => FromReal' /\ before' = ckpt'[cur']
    BY <2>1 DEF attemptVars, Mirrored, Anchored, FromReal
  <2> QED
    BY <1>a, <2>1, <2>2 DEF attemptVars, Mirrored, StampIsText
<1>7. CASE DiscardStep
  <2>1. /\ stage = "review" /\ shadow' = Unmerge /\ LoopTop(ckpt)
        /\ UNCHANGED <<real, stray, replans>>
    BY <1>7 DEF DiscardStep
  <2>2. replans' = 0 => Same'
    BY <2>1 DEF Mirrored, FromReal, Unmerge, Same
  <2> QED
    BY <1>a, <2>1, <2>2, StampStays, MirroredStart DEF Mirrored
<1>8. CASE PlanHandoff
  <2>1. /\ stage' \in {"replan", "failed"} /\ stamp' = stamp
        /\ replans' = replans + 1 \/ (stage' = "failed" /\ replans' = replans)
    BY <1>8 DEF PlanHandoff, NoAttempt
  <2> QED
    BY <1>a, <2>1 DEF Mirrored, StampIsText
<1>9. CASE \E reverted, revised \in SUBSET Steps : ApplyRevision(reverted, revised)
  <2>1. stage = "replan" /\ replans' = replans /\ \E c : LoopTop(c)
    BY <1>9 DEF ApplyRevision
  <2>2. replans' \in Nat /\ replans' # 0
    BY <2>1 DEF Mirrored
  <2> QED
    BY <1>a, <2>1, <2>2, StampStays, MirroredStart DEF Mirrored
<1>10. CASE ValidationPasses \/ RevalidationFails \/ \E accept \in BOOLEAN : ValidationDecided(accept)
  BY <1>1, <1>10 DEF ValidationPasses, RevalidationFails, ValidationDecided, recordVars, attemptVars
<1>11. CASE ValidationFails
  <2>1. /\ stage = "validate" /\ StartAttempt(RepairStep, 1)
        /\ UNCHANGED <<real, shadow, stray, replans>>
    BY <1>11 DEF ValidationFails, recordVars
  <2>2. replans' = 0 => Same'
    BY <2>1 DEF Mirrored, Same
  <2> QED
    BY <1>a, <2>1, <2>2, StampStays, MirroredStart DEF Mirrored
<1>12. CASE RepairVerified
  BY <1>1, <1>12 DEF RepairVerified, NoAttempt
<1>13. CASE RepairHandoff \/ \E revert \in BOOLEAN : AbortRun(revert)
  BY <1>1, <1>13 DEF RepairHandoff, AbortRun, End, NoAttempt, recordVars
<1>14. CASE Accept \/ Reject
  BY <1>1, <1>14 DEF Accept, Reject, recordVars, attemptVars
<1> QED
  BY <1>2, <1>3, <1>4, <1>5, <1>6, <1>7, <1>8, <1>9, <1>10, <1>11, <1>12, <1>13, <1>14 DEF Next

\* At first the shadow is a copy of the real workspace.
LEMMA MirroredInit ==
    ASSUME Init
    PROVE  Mirrored
BY DEF Init, Mirrored, Anchored, StampIsText, FromReal, Recorded, Absent

\* Before a replan, what the shadow holds between two attempts is in the real
\* workspace, outside the files changed unreported: completed steps were
\* promoted first, and failed and discarded ones left nothing behind.
THEOREM CompletedPromoted == Spec => []CompletedIsPromoted
<1>1. Mirrored => CompletedIsPromoted
  BY DEF Mirrored, FromReal, Same, CompletedIsPromoted
<1> QED
  BY <1>1, MirroredInit, MirroredStep, PTL DEF Spec

\* Before a replan, discarding a step gives the shadow back what the step found
\* in it, although it is copied from the real workspace and not the checkpoint.
THEOREM DiscardsRestore == Spec => DiscardRestores
<1>1. ASSUME Mirrored, Next, stage = "review", cur \notin completed', replans = 0
      PROVE  \A f \in Files \ stray : shadow'[f] = ckpt[cur][f]
  <2>1. FromReal /\ before = ckpt[cur]
    BY <1>1 DEF Mirrored
  <2>2. ~AcceptStep
    BY <1>1 DEF AcceptStep, PromoteStep
  <2>3. DiscardStep
    BY <1>1, <2>2 DEF Next, ApplyPatch, PatchFails, CommandRuns, PatchOf, AttemptFails, StepVerified,
       StepReview, PlanHandoff, ApplyRevision, ValidationPasses, ValidationFails, RepairVerified,
       RepairHandoff, RevalidationFails, ValidationDecided, AbortRun, Accept, Reject, Settled, Closed
  <2> QED
    BY <2>1, <2>3 DEF DiscardStep, Unmerge, FromReal
<1> QED
  BY <1>1, MirroredInit, MirroredStep, PTL DEF Spec, DiscardRestores
-----------------------------------------------------------------------------
(* An accepted run delivers its shadow                                      *)

\* The tree t differs from the baseline in the files of m only.
DiffersIn(t, m) == t = [f \in Files |-> t[f]] /\ \A f \in Files : t[f] # base[f] => f \in m

\* Every tree the shadow may go back to, and the shadow between two attempts,
\* differ from the baseline in modified files only; while a step runs, the shadow
\* differs in the files the attempt touched as well.
Listed ==
    /\ Tracked
    /\ \A s \in DOMAIN ckpt : DiffersIn(ckpt[s], modified)
    /\ stage = "run" => DiffersIn(before, modified) /\ DiffersIn(shadow, modified \cup touched)
    /\ stage \notin Closed \cup {"run"} => DiffersIn(shadow, modified)

\* The head of the loop starts from a listed shadow and keeps listed checkpoints.
LEMMA LoopTopListed ==
    ASSUME NEW c, LoopTop(c), Tracked', DiffersIn(shadow, modified)',
           \A s \in DOMAIN c : c[s] = [f \in Files |-> c[s][f]]
                               /\ \A f \in Files : c[s][f] # base'[f] => f \in modified'
    PROVE  Listed'
<1>1. \A s \in DOMAIN ckpt' : DiffersIn(ckpt[s], modified)'
  <2>1. ckpt' = c \/ \E s : ckpt' = Recorded(c, s, shadow')
    BY DEF LoopTop
  <2>2. \A s \in DOMAIN ckpt' : ckpt'[s] = shadow' \/ (s \in DOMAIN c /\ ckpt'[s] = c[s])
    BY <2>1 DEF Recorded
  <2> QED
    BY <2>2 DEF DiffersIn
<1>2. \/ stage' = "run" /\ before' = shadow' /\ touched' = {}
      \/ stage' \in {"failed", "validate"}
  BY LoopTopStage
<1> QED
  BY <1>1, <1>2 DEF Listed, Closed, DiffersIn

\* Every step of a run without discards, torn patches and commands keeps what
\* it changed listed.
LEMMA ListedStep ==
    ASSUME Listed, [Next]_vars, Features \cap {"discard", "torn", "command"} = {}
    PROVE  Listed'
<1>a. Tracked'
  BY TrackedStep DEF Listed
<1>0. UNCHANGED base
  BY DEF Next, vars, ApplyPatch, PatchFails, CommandRuns, AttemptFails, StepVerified, StepReview, AcceptStep, DiscardStep,
     PlanHandoff, ApplyRevision, ValidationPasses, ValidationFails, RepairVerified, RepairHandoff,
     RevalidationFails, ValidationDecided, AbortRun, Accept, Reject, Settled
<1>1. ASSUME UNCHANGED <<shadow, ckpt, modified>>, stage \notin Closed \cup {"run"}, stage' # "run"
      PROVE  Listed'
  BY <1>a, <1>0, <1>1 DEF Listed, DiffersIn
<1>2. ASSUME UNCHANGED <<ckpt, modified>>, stage' \in Closed
      PROVE  Listed'
  BY <1>a, <1>0, <1>2 DEF Listed, DiffersIn, Closed
<1>3. CASE UNCHANGED vars \/ Settled
  BY <1>a, <1>3 DEF vars, recordVars, attemptVars, Settled, Listed, DiffersIn
<1>4. CASE \E writes, deletes \in SUBSET Files : ApplyPatch(writes, deletes)
  <2>1. PICK writes \in SUBSET Files, deletes \in SUBSET Files : ApplyPatch(writes, deletes)
    BY <1>4
  <2>2. /\ stage = "run" /\ stage' = "run" /\ UNCHANGED <<ckpt, before, modified>>
        /\ shadow' = Changed(writes, {}) /\ touched' = touched \cup writes \cup deletes
    BY <2>1 DEF ApplyPatch, PatchOf, recordVars
  <2>3. DiffersIn(before, modified)' /\ DiffersIn(shadow, modified \cup touched)'
    BY <1>0, <2>2 DEF Listed, DiffersIn, Changed
  <2>4. \A s \in DOMAIN ckpt' : DiffersIn(ckpt[s], modified)'
    BY <1>0, <2>2 DEF Listed, DiffersIn
  <2> QED
    BY <1>a, <2>2, <2>3, <2>4 DEF Listed
<1>5. ~DiscardStep /\ ~\E writes, deletes \in SUBSET Files : PatchFails(writes) \/ CommandRuns(writes, deletes)
  BY DEF PatchFails, DiscardStep, CommandRuns
<1>6. CASE AttemptFails
  <2>1. stage = "run" /\ shadow' = before /\ UNCHANGED <<ckpt, modified>>
    BY <1>6 DEF AttemptFails, recordVars
  <2>2. \/ stage' = "run" /\ touched' = {} /\ before' = shadow'
        \/ stage' = "failed"
    BY <1>6, StartAttemptStage DEF AttemptFails, End
  <2> QED
    BY <1>a, <1>0, <2>1, <2>2 DEF Listed, DiffersIn, Closed
<1>7. CASE StepVerified \/ AcceptStep
  <2>1. LoopTop(ckpt) /\ UNCHANGED shadow
    BY <1>7 DEF StepVerified, AcceptStep
  <2>2. /\ modified \subseteq modified'
        /\ (stage = "run" /\ modified' = modified \cup touched) \/ stage = "review"
    BY <1>7 DEF StepVerified, AcceptStep, Merge
  <2>3. DiffersIn(shadow, modified)'
    BY <1>0, <2>1, <2>2 DEF Listed, DiffersIn, Closed
  <2>4. \A s \in DOMAIN ckpt : ckpt[s] = [f \in Files |-> ckpt[s][f]]
                               /\ \A f \in Files : ckpt[s][f] # base'[f] => f \in modified'
    BY <1>0, <2>2 DEF Listed, DiffersIn
  <2> QED
    BY <1>a, <2>1, <2>3, <2>4, LoopTopListed
<1>8. CASE StepReview \/ RepairVerified
  <2>1. /\ stage = "run" /\ stage' \in {"review", "revalidate"}
        /\ UNCHANGED <<shadow, ckpt>> /\ modified' = modified \cup touched
    BY <1>8 DEF StepReview, RepairVerified, Merge
  <2> QED
    BY <1>a, <1>0, <2>1 DEF Listed, DiffersIn
<1>9. CASE PlanHandoff
  <2>1. /\ stage = "run" /\ stage' \in {"replan", "failed"} /\ shadow' = before
        /\ UNCHANGED <<ckpt, modified>>
    BY <1>9 DEF PlanHandoff
  <2> QED
    BY <1>a, <1>0, <2>1 DEF Listed, DiffersIn
<1>10. CASE \E reverted, revised \in SUBSET Steps : ApplyRevision(reverted, revised)
  <2>1. PICK reverted \in SUBSET Steps, revised \in SUBSET Steps : ApplyRevision(reverted, revised)
    BY <1>10
  <2> DEFINE c == Restrict(ckpt, DOMAIN ckpt \ reverted)
  <2>2. /\ stage = "replan" /\ shadow' = Reverted(reverted) /\ UNCHANGED modified /\ LoopTop(c)
    BY <2>1 DEF ApplyRevision
  <2>3. shadow' = shadow \/ \E s \in DOMAIN ckpt : shadow' = ckpt[s]
    BY <2>2 DEF Reverted
  <2>4. DiffersIn(shadow, modified)'
    BY <1>0, <2>2, <2>3 DEF Listed, DiffersIn, Closed
  <2>5. \A s \in DOMAIN c : s \in DOMAIN ckpt /\ c[s] = ckpt[s]
    BY DEF Restrict
  <2>6. \A s \in DOMAIN c : c[s] = [f \in Files |-> c[s][f]]
                            /\ \A f \in Files : c[s][f] # base'[f] => f \in modified'
    BY <1>0, <2>2, <2>5 DEF Listed, DiffersIn
  <2> HIDE DEF c
  <2> QED
    BY <1>a, <2>2, <2>4, <2>6, LoopTopListed
<1>11. CASE ValidationFails
  <2>1. stage = "validate" /\ UNCHANGED <<shadow, ckpt, modified>>
    BY <1>11 DEF ValidationFails, recordVars
  <2>2. \/ stage' = "run" /\ touched' = {} /\ before' = shadow'
        \/ stage' = "failed"
    BY <1>11, StartAttemptStage DEF ValidationFails
  <2> QED
    BY <1>a, <1>0, <2>1, <2>2 DEF Listed, DiffersIn, Closed
<1>12. CASE ValidationPasses \/ RevalidationFails \/ \E accept \in BOOLEAN : ValidationDecided(accept)
  BY <1>1, <1>12 DEF ValidationPasses, RevalidationFails, ValidationDecided, recordVars, Closed
<1>13. CASE RepairHandoff \/ (\E revert \in BOOLEAN : AbortRun(revert)) \/ Accept \/ Reject
  BY <1>2, <1>13 DEF RepairHandoff, AbortRun, Accept, Reject, End, recordVars, Closed
<1> QED
  BY <1>3, <1>4, <1>5, <1>6, <1>7, <1>8, <1>9, <1>10, <1>11, <1>12, <1>13 DEF Next

\* Accepting a run that discarded no step, had no patch fail half-way and no
\* command change files unreported leaves the real workspace equal to the
\* validated shadow, over any retries, replans, reverted steps and repair.
THEOREM AcceptsDeliver ==
    ASSUME Features \cap {"discard", "torn", "command"} = {}
    PROVE  Spec => AcceptDelivers
<1>1. ASSUME Listed, Next, stage = "ready", stage' = "succeeded"
      PROVE  real' = shadow
  <2>1. Accept
    BY <1>1 DEF Next, ApplyPatch, PatchFails, CommandRuns, PatchOf, AttemptFails, StepVerified,
       StepReview, AcceptStep, DiscardStep, PlanHandoff, ApplyRevision, ValidationPasses,
       ValidationFails, RepairVerified, RepairHandoff, RevalidationFails, ValidationDecided, AbortRun,
       Reject, Settled, Closed
  <2>2. real' = Promote(real, shadow, modified)
    BY <2>1 DEF Accept
  <2>3. \A f \in Files \ modified : real[f] = base[f] /\ shadow[f] = base[f]
    BY <1>1 DEF Listed, Tracked, ChangesAreTracked, DiffersIn, Closed
  <2>4. shadow = [f \in Files |-> shadow[f]]
    BY <1>1 DEF Listed, DiffersIn, Closed
  <2> QED
    BY <2>2, <2>3, <2>4 DEF Promote
<1>2. Init => Listed
  <2> SUFFICES ASSUME Init PROVE Listed
    OBVIOUS
  <2>1. DiffersIn(shadow, modified) /\ before = shadow /\ stage = "run" /\ touched = {}
    BY DEF Init, DiffersIn
  <2>2. \A s \in DOMAIN ckpt : ckpt[s] = shadow
    BY DEF Init, Recorded
  <2> QED
    BY <2>1, <2>2, TrackedInit DEF Listed, DiffersIn, Closed
<1>3. Listed /\ [Next]_vars => Listed'
  BY ListedStep
<1> QED
  BY <1>1, <1>2, <1>3, PTL DEF Spec, AcceptDelivers

-----------------------------------------------------------------------------
(* Operators on sequences of steps                                         *)

\* A set of natural numbers that is not empty has a least one.
LEMMA LeastNumber ==
    ASSUME NEW S \in SUBSET Nat, S # {}
    PROVE  \E n \in S : \A m \in S : n <= m
<1>1. \E R : /\ R = {ss \in Nat \X Nat : ss[1] < ss[2]}
             /\ \E n \in S : \A m \in S : <<m, n>> \notin R
  <2>1. OpToRel(<, Nat) = {ss \in Nat \X Nat : ss[1] < ss[2]}
    BY Zenon DEF OpToRel
  <2>2. \E n \in S : \A m \in S : <<m, n>> \notin OpToRel(<, Nat)
    BY NatLessThanWellFounded, WFMin
  <2> QED
    BY <2>1, <2>2, Zenon
<1>2. PICK n \in S : \A m \in S : <<m, n>> \notin {ss \in Nat \X Nat : ss[1] < ss[2]}
  BY <1>1
<1>3. ASSUME NEW m \in S PROVE n <= m
  <2>1. <<m, n>> \in Nat \X Nat /\ ~(m < n)
    BY <1>2
  <2> QED
    BY <2>1
<1> QED
  BY <1>3

\* i is the first place of the sequence s with an element of T, or 0 if there is none.
FirstIn(i, s, T) ==
    \/ i = 0 /\ \A j \in DOMAIN s : s[j] \notin T
    \/ i \in DOMAIN s /\ s[i] \in T /\ \A j \in DOMAIN s : j < i => s[j] \notin T

\* The least of the places I of the sequence s.
LEMMA LeastPlace ==
    ASSUME NEW s \in Seq(Steps), NEW T, NEW I, I = {i \in 1 .. Len(s) : s[i] \in T},
           NEW i, i = IF I # {} THEN Min(I) ELSE 0
    PROVE  FirstIn(i, s, T)
<1>0. DOMAIN s = 1 .. Len(s) /\ Len(s) \in Nat
  OBVIOUS
<1>1. CASE I # {}
  <2>0. I \in SUBSET Nat
    BY <1>0
  <2>1. \E n \in I : \A m \in I : n <= m
    BY <1>1, <2>0, LeastNumber
  <2>2. i \in I /\ \A m \in I : i <= m
    BY <1>1, <2>1 DEF Min
  <2>3. i \in DOMAIN s /\ s[i] \in T
    BY <1>0, <2>2
  <2>4. ASSUME NEW j \in DOMAIN s, j < i PROVE s[j] \notin T
    BY <1>0, <2>0, <2>2, <2>4
  <2> QED
    BY <2>3, <2>4 DEF FirstIn
<1>2. CASE I = {}
  BY <1>0, <1>2 DEF FirstIn
<1> QED
  BY <1>1, <1>2

\* The next step to run is the first that is not completed.
LEMMA NextIsFirst ==
    ASSUME NEW p \in Seq(Steps), NEW done
    PROVE  FirstIn(NextIncomplete(p, done), p, Steps \ done)
<1> DEFINE I == {i \in 1 .. Len(p) : p[i] \in Steps \ done}
<1>1. I = {i \in 1 .. Len(p) : p[i] \notin done}
  OBVIOUS
<1>2. NextIncomplete(p, done) = IF I # {} THEN Min(I) ELSE 0
  BY <1>1 DEF NextIncomplete, SelectInSeq
<1> QED
  BY <1>2, LeastPlace

\* The revision reverts to the first of the reverted steps.
LEMMA RevertedIsFirst ==
    ASSUME plan \in Seq(Steps), NEW reverted
    PROVE  \/ shadow = Reverted(reverted) /\ \A i \in DOMAIN plan : plan[i] \notin reverted
           \/ \E i \in DOMAIN plan :
                /\ plan[i] \in reverted /\ \A j \in DOMAIN plan : j < i => plan[j] \notin reverted
                /\ Reverted(reverted) = IF plan[i] \in DOMAIN ckpt THEN ckpt[plan[i]] ELSE shadow
<1> DEFINE I == {i \in 1 .. Len(plan) : plan[i] \in reverted}
           first == SelectInSeq(plan, LAMBDA s : s \in reverted)
<1>1. first = IF I # {} THEN Min(I) ELSE 0
  BY DEF SelectInSeq
<1>2. Reverted(reverted) = IF first # 0 /\ plan[first] \in DOMAIN ckpt THEN ckpt[plan[first]] ELSE shadow
  BY DEF Reverted
<1> HIDE DEF first
<1>3. FirstIn(first, plan, reverted)
  BY <1>1, LeastPlace
<1> QED
  BY <1>2, <1>3 DEF FirstIn
-----------------------------------------------------------------------------
(* The types                                                                *)

\* The types, and that a step under review is a step of the plan, never the repair:
\* without it, accepting the step might mark the repair as completed.
Typed == TypeOK /\ (stage = "review" => cur \in Steps)

\* The record of the attempt that is running.
AttemptOK ==
    /\ cur \in Steps \cup {RepairStep} /\ before \in Tree
    /\ attempt \in 0 .. MaxAttempts /\ stamp \in Stamps
    /\ touched \subseteq Files /\ last \subseteq touched

\* The checkpoints c are those of steps, and trees.
CheckpointsOK(c) == DOMAIN c \subseteq Steps /\ \A s \in DOMAIN c : c[s] \in Tree

\* An attempt that starts, or the end of the run, is typed.
LEMMA StartAttemptTyped ==
    ASSUME NEW s \in Steps \cup {RepairStep}, NEW n \in 1 .. MaxAttempts, StartAttempt(s, n),
           stamp \in Stamps, shadow' \in Tree, base \in Tree
    PROVE  AttemptOK' /\ stage' \in Stages
<1>0. MaxStamps \in Nat /\ MaxAttempts \in Nat
  BY StepWorkspaceAssumption
<1>1. CASE stamp < MaxStamps
  BY <1>0, <1>1 DEF StartAttempt, AttemptOK, Stages, Stamps
<1>2. CASE ~(stamp < MaxStamps)
  BY <1>0, <1>2 DEF StartAttempt, End, NoAttempt, AttemptOK, Stages, RepairStep
<1> QED
  BY <1>1, <1>2

\* The attempt that is ended is none, which is typed.
LEMMA NoAttemptTyped ==
    ASSUME NoAttempt, stamp \in Stamps, base \in Tree
    PROVE  AttemptOK'
BY StepWorkspaceAssumption DEF NoAttempt, AttemptOK, RepairStep

\* The head of the loop leaves everything typed.
LEMMA LoopTopTyped ==
    ASSUME NEW c, LoopTop(c), CheckpointsOK(c), plan' \in Seq(Steps), stamp \in Stamps,
           shadow' \in Tree, base \in Tree
    PROVE  AttemptOK' /\ stage' \in Stages /\ CheckpointsOK(ckpt')
<1> DEFINE i == NextIncomplete(plan', completed')
<1>1. CASE i = 0
  BY <1>1, NoAttemptTyped DEF LoopTop, Stages
<1>2. CASE i # 0
  <2>1. StartAttempt(plan'[i], 1) /\ (ckpt' = c \/ ckpt' = Recorded(c, plan'[i], shadow'))
    BY <1>2 DEF LoopTop
  <2>2. plan'[i] \in Steps
    BY <1>2, NextIsFirst DEF FirstIn
  <2>3. AttemptOK' /\ stage' \in Stages
    <3>1. 1 \in 1 .. MaxAttempts
      BY StepWorkspaceAssumption
    <3> HIDE DEF i
    <3> QED
      BY <2>1, <2>2, <3>1, StartAttemptTyped
  <2>4. CheckpointsOK(Recorded(c, plan'[i], shadow'))
    BY <2>2 DEF CheckpointsOK, Recorded
  <2> QED
    BY <2>1, <2>3, <2>4
<1> QED
  BY <1>1, <1>2

\* A sequence of SetToSeqs(S) has each element of S once.
LEMMA Permutation ==
    ASSUME NEW S, IsFiniteSet(S), NEW p \in SetToSeqs(S)
    PROVE  p \in Seq(S) /\ IsInjective(p) /\ ToSet(p) = S
<1>1. Cardinality(S) \in Nat
  BY FS_CardinalityType
<1>2. p \in [1 .. Cardinality(S) -> S] /\ IsInjective(p)
  BY DEF SetToSeqs, IsInjective
<1>3. p \in Injection(1 .. Cardinality(S), S)
  BY <1>2 DEF Injection, IsInjective
<1>4. Cardinality(1 .. Cardinality(S)) = Cardinality(S)
  BY <1>1, FS_Interval
<1>5. p \in Surjection(1 .. Cardinality(S), S)
  BY <1>3, <1>4, FS_Injection
<1>6. ToSet(p) = S
  BY <1>2, <1>5 DEF Surjection, ToSet
<1> QED
  BY <1>1, <1>2, <1>6

\* A revised plan has each step once.
LEMMA RevisedPlanTyped ==
    ASSUME plan \in Seq(Steps), NEW reverted \in SUBSET Steps, NEW revised \in SUBSET Steps,
           plan' \in RevisedPlans(reverted, revised)
    PROVE  /\ plan' \in Seq(Steps) /\ IsInjective(plan)'
           /\ ToSet(plan') = {s \in ToSet(plan) : s \notin reverted \/ s \in revised}
                             \cup (revised \ ToSet(plan))
<1> DEFINE K == {s \in ToSet(plan) : s \notin reverted \/ s \in revised}
                \cup (revised \ ToSet(plan))
<1>1. ToSet(plan) \subseteq Steps
  BY DEF ToSet
<1>2. K \subseteq Steps /\ plan' \in SetToSeqs(K)
  BY <1>1 DEF RevisedPlans
<1>3. IsFiniteSet(K)
  BY <1>2, FS_Subset, StepWorkspaceAssumption
<1> HIDE DEF K
<1>4. plan' \in Seq(K) /\ IsInjective(plan)' /\ ToSet(plan') = K
  BY <1>2, <1>3, Permutation
<1>5. plan' \in Seq(Steps)
  BY <1>2, <1>4, SeqMonotonic
<1> QED
  BY <1>4, <1>5 DEF K

\* What a step leaves in a shadow is a tree.
LEMMA TreesStay ==
    ASSUME TypeOK
    PROVE  /\ \A writes \in SUBSET Files, removes \in SUBSET Files : Changed(writes, removes) \in Tree
           /\ \A files : CopyInto(real, shadow, files) \in Tree
           /\ \A files : Promote(real, shadow, files) \in Tree /\ Promote(real, base, files) \in Tree
           /\ Unmerge \in Tree
           /\ \A s : Reverted(s) \in Tree
<1>1. /\ real \in [Files -> Content] /\ shadow \in [Files -> Content] /\ base \in [Files -> Content]
      /\ stamp \in Content /\ Absent \in Content /\ \A s \in DOMAIN ckpt : ckpt[s] \in Tree
  BY DEF TypeOK, Tree, Content
<1>2. \A s : Reverted(s) \in Tree
  BY <1>1 DEF Reverted, Tree
<1>3. \A writes \in SUBSET Files, removes \in SUBSET Files : Changed(writes, removes) \in Tree
  BY <1>1 DEF Changed, Tree
<1>4. \A files : CopyInto(real, shadow, files) \in Tree
  BY <1>1 DEF CopyInto, Tree
<1>5. \A files : Promote(real, shadow, files) \in Tree /\ Promote(real, base, files) \in Tree
  BY <1>1 DEF Promote, Tree
<1>6. Unmerge \in Tree
  BY <1>1 DEF Unmerge, Tree
<1> QED
  BY <1>2, <1>3, <1>4, <1>5, <1>6

\* What an accepted step writes in the histories is typed.
LEMMA PromoteTyped ==
    ASSUME TypeOK, PromoteStep \/ UNCHANGED <<granted, completed, author>>
    PROVE  /\ granted' \subseteq Stamps /\ author' \in [Files -> (Steps \cup {0}) \X Content]
           /\ cur \in Steps => completed' \subseteq Steps
<1>1. shadow \in [Files -> Content] /\ cur \in Steps \cup {0} /\ stamp \in Stamps
  BY DEF TypeOK, Tree, RepairStep
<1>2. ASSUME author' = [f \in Files |-> IF f \in touched THEN <<cur, shadow[f]>> ELSE author[f]]
      PROVE  author' \in [Files -> (Steps \cup {0}) \X Content]
  BY <1>1, <1>2 DEF TypeOK
<1>3. CASE PromoteStep
  BY <1>1, <1>2, <1>3 DEF PromoteStep, TypeOK
<1>4. CASE UNCHANGED <<granted, completed, author>>
  BY <1>4 DEF TypeOK
<1> QED
  BY <1>3, <1>4

\* Every step keeps the types.
LEMMA TypedStep ==
    ASSUME Typed, [Next]_vars
    PROVE  Typed'
<1>0. UNCHANGED base
  BY DEF Next, vars, ApplyPatch, PatchFails, CommandRuns, AttemptFails, StepVerified, StepReview, AcceptStep, DiscardStep,
     PlanHandoff, ApplyRevision, ValidationPasses, ValidationFails, RepairVerified, RepairHandoff,
     RevalidationFails, ValidationDecided, AbortRun, Accept, Reject, Settled
<1>1. /\ AttemptOK /\ CheckpointsOK(ckpt) /\ base \in Tree /\ plan \in Seq(Steps) /\ IsInjective(plan)
      /\ shadow \in Tree /\ real \in Tree /\ stamp \in Stamps /\ before \in Tree /\ stage \in Stages
      /\ modified \subseteq Files /\ ops \subseteq Files /\ completed \subseteq Steps
      /\ stray \subseteq Files /\ granted \subseteq Stamps /\ replans \in 0 .. MaxReplans
      /\ author \in [Files -> (Steps \cup {0}) \X Content]
      /\ cur \in Steps \cup {RepairStep} /\ touched \subseteq Files /\ last \subseteq touched
      /\ TypeOK
  BY DEF Typed, TypeOK, AttemptOK, CheckpointsOK
<1>2. ASSUME AttemptOK', CheckpointsOK(ckpt'), real' \in Tree, shadow' \in Tree, stage' \in Stages,
             granted' \subseteq Stamps, completed' \subseteq Steps,
             stray' \subseteq Files, modified' \subseteq Files, ops' \subseteq Files,
             replans' \in 0 .. MaxReplans, author' \in [Files -> (Steps \cup {0}) \X Content],
             plan' \in Seq(Steps), IsInjective(plan)', stage' = "review" => cur' \in Steps
      PROVE  Typed'
  BY <1>0, <1>1, <1>2 DEF Typed, TypeOK, AttemptOK, CheckpointsOK
<1>3. CASE \E writes, deletes \in SUBSET Files : ApplyPatch(writes, deletes)
  <2>1. PICK writes \in SUBSET Files, deletes \in SUBSET Files : ApplyPatch(writes, deletes)
    BY <1>3
  <2>2. shadow' \in Tree
    BY <1>1, <2>1, TreesStay DEF ApplyPatch
  <2>3. AttemptOK'
    BY <1>1, <2>1 DEF ApplyPatch, AttemptOK
  <2> QED
    BY <1>1, <1>2, <2>1, <2>2, <2>3 DEF ApplyPatch, PatchOf, recordVars, CheckpointsOK
<1>4. CASE \E writes \in SUBSET Files : PatchFails(writes)
  <2>1. PICK writes \in SUBSET Files : PatchFails(writes)
    BY <1>4
  <2>2. shadow' \in Tree
    BY <1>1, <2>1, TreesStay DEF PatchFails
  <2> QED
    BY <1>1, <1>2, <2>1, <2>2 DEF PatchFails, PatchOf, recordVars, attemptVars, CheckpointsOK, AttemptOK
<1>5. CASE \E writes, removes \in SUBSET Files : CommandRuns(writes, removes)
  <2>1. PICK writes \in SUBSET Files, removes \in SUBSET Files : CommandRuns(writes, removes)
    BY <1>5
  <2>2. shadow' \in Tree
    BY <1>1, <2>1, TreesStay DEF CommandRuns
  <2> QED
    BY <1>1, <1>2, <2>1, <2>2 DEF CommandRuns, recordVars, attemptVars, CheckpointsOK, AttemptOK
<1>6. CASE AttemptFails
  <2>1. AttemptOK' /\ stage' \in Stages /\ stage' # "review"
    <3>1. CASE attempt < MaxAttempts
      <4>1. attempt + 1 \in 1 .. MaxAttempts /\ StartAttempt(cur, attempt + 1) /\ shadow' \in Tree
        BY <1>1, <1>6, <3>1, StepWorkspaceAssumption DEF AttemptFails, AttemptOK
      <4> QED
        BY <1>1, <4>1, StartAttemptTyped, StartAttemptStage
    <3>2. CASE ~(attempt < MaxAttempts)
      BY <1>1, <1>6, <3>2, NoAttemptTyped DEF AttemptFails, End, Stages
    <3> QED
      BY <3>1, <3>2
  <2> QED
    BY <1>1, <1>2, <1>6, <2>1 DEF AttemptFails, recordVars, CheckpointsOK
<1>7. CASE StepVerified
  <2>1. real' \in Tree /\ granted' \subseteq Stamps /\ author' \in [Files -> (Steps \cup {0}) \X Content]
        /\ completed' \subseteq Steps
    BY <1>1, <1>7, TreesStay, PromoteTyped DEF StepVerified, PromoteStep, RepairStep
  <2>2. AttemptOK' /\ stage' \in Stages /\ CheckpointsOK(ckpt') /\ stage' # "review"
    BY <1>1, <1>7, LoopTopTyped, LoopTopStage DEF StepVerified
  <2> QED
    BY <1>1, <1>2, <1>7, <2>1, <2>2 DEF StepVerified, Merge
<1>8. CASE StepReview
  BY <1>1, <1>2, <1>8 DEF StepReview, Merge, attemptVars, AttemptOK, CheckpointsOK, Stages
<1>9. CASE AcceptStep
  <2>1. real' \in Tree /\ granted' \subseteq Stamps /\ author' \in [Files -> (Steps \cup {0}) \X Content]
        /\ completed' \subseteq Steps
    BY <1>1, <1>9, TreesStay, PromoteTyped DEF AcceptStep, PromoteStep, Typed
  <2>2. AttemptOK' /\ stage' \in Stages /\ CheckpointsOK(ckpt') /\ stage' # "review"
    BY <1>1, <1>9, LoopTopTyped, LoopTopStage DEF AcceptStep
  <2> QED
    BY <1>1, <1>2, <1>9, <2>1, <2>2 DEF AcceptStep
<1>10. CASE DiscardStep
  <2>1. shadow' \in Tree
    BY <1>1, <1>10, TreesStay DEF DiscardStep
  <2>2. AttemptOK' /\ stage' \in Stages /\ CheckpointsOK(ckpt') /\ stage' # "review"
    BY <1>1, <1>10, <2>1, LoopTopTyped, LoopTopStage DEF DiscardStep
  <2> QED
    BY <1>1, <1>2, <1>10, <2>1, <2>2 DEF DiscardStep
<1>11. CASE PlanHandoff
  <2>1. AttemptOK'
    BY <1>1, <1>11, NoAttemptTyped DEF PlanHandoff
  <2>2. replans' \in 0 .. MaxReplans
    BY <1>1, <1>11, StepWorkspaceAssumption DEF PlanHandoff
  <2> QED
    BY <1>1, <1>2, <1>11, <2>1, <2>2 DEF PlanHandoff, Stages, CheckpointsOK
<1>12. CASE \E reverted, revised \in SUBSET Steps : ApplyRevision(reverted, revised)
  <2>1. PICK reverted \in SUBSET Steps, revised \in SUBSET Steps : ApplyRevision(reverted, revised)
    BY <1>12
  <2>2. shadow' \in Tree
    BY <1>1, <2>1, TreesStay DEF ApplyRevision
  <2>3. plan' \in Seq(Steps) /\ IsInjective(plan)'
    BY <1>1, <2>1, RevisedPlanTyped DEF ApplyRevision
  <2>4. PICK c : c = Restrict(ckpt, DOMAIN ckpt \ reverted) /\ LoopTop(c)
    BY <2>1 DEF ApplyRevision
  <2>5. CheckpointsOK(c)
    BY <1>1, <2>4 DEF CheckpointsOK, Restrict
  <2>6. AttemptOK' /\ stage' \in Stages /\ CheckpointsOK(ckpt') /\ stage' # "review"
    BY <1>1, <2>2, <2>3, <2>4, <2>5, LoopTopTyped, LoopTopStage
  <2>7. author' \in [Files -> (Steps \cup {0}) \X Content]
    <3>1. <<0, Absent>> \in (Steps \cup {0}) \X Content
      BY DEF Content
    <3> QED
      BY <1>1, <2>1, <3>1 DEF ApplyRevision
  <2> QED
    BY <1>1, <1>2, <2>1, <2>2, <2>3, <2>6, <2>7 DEF ApplyRevision
<1>13. CASE ValidationPasses
  BY <1>1, <1>2, <1>13 DEF ValidationPasses, recordVars, attemptVars, AttemptOK, CheckpointsOK, Stages
<1>14. CASE ValidationFails
  <2>1. AttemptOK' /\ stage' \in Stages /\ stage' # "review"
    <3>1. 1 \in 1 .. MaxAttempts
      BY StepWorkspaceAssumption
    <3> QED
      BY <1>1, <1>14, <3>1, StartAttemptTyped, StartAttemptStage DEF ValidationFails
  <2> QED
    BY <1>1, <1>2, <1>14, <2>1 DEF ValidationFails, recordVars, CheckpointsOK
<1>15. CASE RepairVerified
  <2>1. AttemptOK'
    BY <1>1, <1>15, NoAttemptTyped DEF RepairVerified
  <2>2. author' \in [Files -> (Steps \cup {0}) \X Content]
    <3>1. <<0, Absent>> \in (Steps \cup {0}) \X Content
      BY DEF Content
    <3> QED
      BY <1>1, <1>15, <3>1 DEF RepairVerified
  <2> QED
    BY <1>1, <1>2, <1>15, <2>1, <2>2 DEF RepairVerified, Stages, CheckpointsOK
<1>16. CASE RepairHandoff
  <2>1. AttemptOK'
    BY <1>1, <1>16, NoAttemptTyped DEF RepairHandoff, End
  <2> QED
    BY <1>1, <1>2, <1>16, <2>1 DEF RepairHandoff, End, Stages, CheckpointsOK, recordVars
<1>17. CASE RevalidationFails
  BY <1>1, <1>2, <1>17 DEF RevalidationFails, recordVars, attemptVars, AttemptOK, CheckpointsOK, Stages
<1>18. CASE \E accept \in BOOLEAN : ValidationDecided(accept)
  BY <1>1, <1>2, <1>18 DEF ValidationDecided, recordVars, attemptVars, AttemptOK, CheckpointsOK, Stages
<1>19. CASE \E revert \in BOOLEAN : AbortRun(revert)
  <2>1. AttemptOK'
    BY <1>1, <1>19, NoAttemptTyped DEF AbortRun, End
  <2>2. real' \in Tree /\ shadow' \in Tree
    BY <1>1, <1>19, TreesStay DEF AbortRun, Rollback
  <2> QED
    BY <1>1, <1>2, <1>19, <2>1, <2>2 DEF AbortRun, End, Stages, CheckpointsOK, recordVars
<1>20. CASE Accept
  <2>1. real' \in Tree
    BY <1>1, <1>20, TreesStay DEF Accept
  <2> QED
    BY <1>1, <1>2, <1>20, <2>1 DEF Accept, recordVars, attemptVars, AttemptOK, CheckpointsOK, Stages
<1>21. CASE Reject
  <2>1. real' \in Tree
    BY <1>1, <1>21, TreesStay DEF Reject, Rollback
  <2> QED
    BY <1>1, <1>2, <1>21, <2>1 DEF Reject, Rollback, recordVars, attemptVars, AttemptOK, CheckpointsOK, Stages
<1>22. CASE Settled \/ UNCHANGED vars
  BY <1>1, <1>2, <1>22 DEF Settled, vars, recordVars, attemptVars, AttemptOK, CheckpointsOK, Typed
<1> QED
  BY <1>3, <1>4, <1>5, <1>6, <1>7, <1>8, <1>9, <1>10, <1>11, <1>12, <1>13, <1>14, <1>15, <1>16,
     <1>17, <1>18, <1>19, <1>20, <1>21, <1>22 DEF Next

\* The first attempt starts on a typed run.
LEMMA TypedInit ==
    ASSUME Init
    PROVE  Typed
<1>1. /\ base \in Tree /\ real \in Tree /\ shadow \in Tree /\ before \in Tree
  BY DEF Init, Tree, Content
<1>2. PICK S \in (SUBSET Steps) \ {{}} : plan \in SetToSeqs(S)
  BY DEF Init
<1>3. IsFiniteSet(S)
  BY <1>2, FS_Subset, StepWorkspaceAssumption
<1>4. plan \in Seq(S) /\ IsInjective(plan) /\ ToSet(plan) = S
  BY <1>2, <1>3, Permutation
<1>5. plan \in Seq(Steps)
  BY <1>2, <1>4, SeqMonotonic
<1>6. plan[1] \in Steps /\ 1 \in DOMAIN plan
  <2>1. plan # <<>>
    BY <1>2, <1>4 DEF ToSet
  <2> QED
    BY <1>5, <2>1
<1>7. author \in [Files -> (Steps \cup {0}) \X Content]
  BY DEF Init, Content
<1>8. DOMAIN ckpt \subseteq Steps /\ \A s \in DOMAIN ckpt : ckpt[s] \in Tree
  BY <1>1, <1>6 DEF Init, Recorded
<1> QED
  BY <1>1, <1>4, <1>5, <1>6, <1>7, <1>8, StepWorkspaceAssumption DEF Init, Typed, TypeOK, Stages, Stamps

\* Every variable of a run keeps its type: in particular the plan never names a
\* step twice, whatever revisions replace it, and no attempt starts beyond the budget.
THEOREM TypeCorrect == Spec => []TypeOK
<1>1. Init => Typed
  BY TypedInit
<1>2. Typed /\ [Next]_vars => Typed'
  BY TypedStep
<1>3. Typed => TypeOK
  BY DEF Typed
<1> QED
  BY <1>1, <1>2, <1>3, PTL DEF Spec

-----------------------------------------------------------------------------
(* The work of completed steps                                              *)

\* Two steps of a plan come one before the other.
LEMMA PlanIsTotal ==
    ASSUME NEW p \in Seq(Steps), NEW s \in ToSet(p), NEW t \in ToSet(p), s # t
    PROVE  Precedes(p, s, t) \/ Precedes(p, t, s)
<1>1. PICK i \in DOMAIN p, j \in DOMAIN p : s = p[i] /\ t = p[j]
  BY DEF ToSet
<1>2. i \in Nat /\ j \in Nat /\ i # j
  BY <1>1
<1> QED
  BY <1>1, <1>2 DEF Precedes

\* In a plan that names no step twice, no two steps come before each other.
LEMMA PlanIsStrict ==
    ASSUME NEW p \in Seq(Steps), IsInjective(p), NEW s, NEW t, Precedes(p, s, t)
    PROVE  s \in ToSet(p) /\ t \in ToSet(p) /\ s # t /\ ~Precedes(p, t, s)
<1>1. PICK i \in DOMAIN p, j \in DOMAIN p : i < j /\ p[i] = s /\ p[j] = t
  BY DEF Precedes
<1>2. i \in Nat /\ j \in Nat /\ DOMAIN p \subseteq Nat
  OBVIOUS
<1>3. s # t
  BY <1>1, <1>2 DEF IsInjective
<1>4. ASSUME NEW k \in DOMAIN p, NEW l \in DOMAIN p, k < l, p[k] = t, p[l] = s
      PROVE  FALSE
  <2>1. k = j /\ l = i
    BY <1>1, <1>4 DEF IsInjective
  <2> QED
    BY <1>1, <1>2, <1>4, <2>1
<1> QED
  BY <1>1, <1>3, <1>4 DEF Precedes, ToSet

\* The tree t has what completed steps made of the files.
Holds(t) == \A f \in Files : author[f][1] # 0 => t[f] = author[f][2]

\* The tree t has what the steps before s made of the files.
HoldsBefore(t, s) == \A f \in Files : Precedes(plan, author[f][1], s) => t[f] = author[f][2]

\* Every step of the plan before s is completed.
Due(s) == s \in ToSet(plan) /\ \A t \in ToSet(plan) : Precedes(plan, t, s) => t \in completed

\* The steps are completed in the order of the plan, and only a completed step
\* is the author of a file.
InOrder ==
    /\ completed \subseteq ToSet(plan)
    /\ \A s, t \in ToSet(plan) : Precedes(plan, s, t) /\ t \in completed => s \in completed
    /\ \A f \in Files : author[f][1] \in completed \cup {0}

\* The checkpoint of a step that is due has the work of the steps before it.
CheckpointsHold == \A s \in DOMAIN ckpt : Due(s) => HoldsBefore(ckpt[s], s)

\* What the attempt that is running started from has the work of completed steps,
\* and the shadow is that but for the files the attempt touched.
AttemptHolds == Holds(before) /\ \A f \in Files \ touched : shadow[f] = before[f]

\* A running plan step is the next one that is due; the shadow has the work of
\* completed steps, and so has every checkpoint a replan may go back to.
Kept ==
    /\ Typed
    /\ InOrder
    /\ stage \in {"run", "review"} =>
          AttemptHolds /\ (cur # RepairStep => Due(cur) /\ cur \notin completed)
    /\ stage \notin Closed \cup {"run", "review"} => Holds(shadow)
    /\ stage \notin Closed => CheckpointsHold

\* The head of the loop runs the first step that is not completed, on a shadow
\* that has the work of the others; checkpoints of completed steps stay true, and
\* the step that starts has its own recorded.
LEMMA LoopTopKept ==
    ASSUME NEW c, LoopTop(c), Typed', InOrder', Holds(shadow)',
           \A s \in DOMAIN c : s \in completed' /\ Due(s)' => HoldsBefore(c[s], s)'
    PROVE  Kept'
<1>0. plan' \in Seq(Steps) /\ IsInjective(plan)' /\ completed' \subseteq Steps
  BY DEF Typed, TypeOK
<1> DEFINE i == NextIncomplete(plan', completed')
<1>1. FirstIn(i, plan', Steps \ completed')
  BY <1>0, NextIsFirst
<1>2. 0 \notin Steps /\ i = NextIncomplete(plan', completed')
  BY StepWorkspaceAssumption
<1>3. CASE i = 0
  <2>1. \A s \in ToSet(plan') : s \in completed'
    BY <1>0, <1>1, <1>3 DEF FirstIn, ToSet
  <2>2. stage' = "validate" /\ ckpt' = c
    BY <1>3 DEF LoopTop
  <2>3. CheckpointsHold'
    BY <2>1, <2>2 DEF CheckpointsHold, Due
  <2> QED
    BY <2>2, <2>3 DEF Kept
<1>4. CASE i # 0
  <2>1. PICK next : next = plan'[i]
    OBVIOUS
  <2>2. StartAttempt(next, 1) /\ (stage' = "run" => ckpt' = Recorded(c, next, shadow'))
    BY <1>4, <2>1 DEF LoopTop
  <2> HIDE DEF i
  <2>3. i \in DOMAIN plan' /\ plan'[i] = next /\ next \in Steps \ completed'
        /\ \A j \in DOMAIN plan' : j < i => plan'[j] \notin Steps \ completed'
    BY <1>1, <1>4, <2>1 DEF FirstIn
  <2>4. next \in ToSet(plan')
    BY <2>3 DEF ToSet
  <2>5. ASSUME NEW t, Precedes(plan', t, next) PROVE t \in completed'
    <3>1. PICK k \in DOMAIN plan', l \in DOMAIN plan' : k < l /\ plan'[k] = t /\ plan'[l] = next
      BY <2>5 DEF Precedes
    <3>2. l = i /\ t \in Steps
      BY <1>0, <2>3, <3>1 DEF IsInjective
    <3> QED
      BY <2>3, <3>1, <3>2
  <2>6. Due(next)'
    BY <2>4, <2>5 DEF Due
  <2>7. CASE stage' = "failed"
    BY <2>7 DEF Kept, Closed
  <2>8. CASE stage' = "run" /\ touched' = {} /\ before' = shadow' /\ cur' = next
    <3>1. ASSUME NEW s \in DOMAIN ckpt', Due(s)' PROVE HoldsBefore(ckpt[s], s)'
      <4>1. CASE s = next
        <5>1. ckpt'[s] = shadow'
          BY <2>2, <2>8, <4>1 DEF Recorded
        <5>2. ASSUME NEW f \in Files, Precedes(plan', author'[f][1], s)
              PROVE  shadow'[f] = author'[f][2]
          <6>1. author'[f][1] \in ToSet(plan')
            BY <1>0, <5>2, PlanIsStrict
          <6>2. author'[f][1] # 0
            BY <1>0, <1>2, <6>1 DEF ToSet
          <6> QED
            BY <6>2 DEF Holds
        <5> QED
          BY <5>1, <5>2 DEF HoldsBefore
      <4>2. CASE s # next
        <5>1. s \in DOMAIN c /\ ckpt'[s] = c[s]
          BY <2>2, <2>8, <4>2 DEF Recorded
        <5>2. s \in ToSet(plan') /\ (Precedes(plan', next, s) => next \in completed')
          BY <2>4, <3>1 DEF Due
        <5>3. s \in completed'
          BY <1>0, <2>3, <2>4, <2>5, <4>2, <5>2, PlanIsTotal
        <5> QED
          BY <3>1, <5>1, <5>3
      <4> QED
        BY <4>1, <4>2
    <3>2. CheckpointsHold'
      BY <3>1 DEF CheckpointsHold
    <3>3. AttemptHolds'
      BY <2>8 DEF AttemptHolds, Holds
    <3> QED
      BY <2>3, <2>6, <2>8, <3>2, <3>3 DEF Kept, Closed
  <2> QED
    BY <2>2, <2>7, <2>8, StartAttemptStage
<1> QED
  BY <1>3, <1>4

\* Promoting the running step makes it the author of the files it touched: the
\* shadow then has the work of the completed steps, the new one included.
LEMMA PromoteKeeps ==
    ASSUME Kept, stage \in {"run", "review"}, cur # RepairStep, PromoteStep,
           UNCHANGED <<plan, shadow>>, NEW c, c = ckpt
    PROVE  /\ InOrder' /\ Holds(shadow)'
           /\ \A s \in DOMAIN c : s \in completed' /\ Due(s)' => HoldsBefore(c[s], s)'
<1>1. /\ plan \in Seq(Steps) /\ IsInjective(plan) /\ InOrder /\ AttemptHolds /\ Due(cur)
      /\ cur \in ToSet(plan) \ completed /\ CheckpointsHold
      /\ author \in [Files -> (Steps \cup {0}) \X Content]
  BY DEF Kept, Typed, TypeOK, Closed, Due
<1>2. /\ completed' = completed \cup {cur} /\ plan' = plan /\ shadow' = shadow
      /\ \A f \in touched : author'[f][1] = cur /\ author'[f][2] = shadow[f]
      /\ \A f \in Files \ touched : author'[f] = author[f]
  <2>1. \A f \in Files : author'[f] = IF f \in touched THEN <<cur, shadow[f]>> ELSE author[f]
    BY DEF PromoteStep
  <2>2. touched \subseteq Files
    BY DEF Kept, Typed, TypeOK
  <2> QED
    BY <2>1, <2>2 DEF PromoteStep
<1>3. InOrder'
  <2>1. completed' \subseteq ToSet(plan') /\ \A f \in Files : author'[f][1] \in completed' \cup {0}
    BY <1>1, <1>2 DEF InOrder
  <2>2. ASSUME NEW s \in ToSet(plan'), NEW t \in ToSet(plan'), Precedes(plan', s, t), t \in completed'
        PROVE  s \in completed'
    BY <1>1, <1>2, <2>2 DEF InOrder, Due
  <2> QED
    BY <2>1, <2>2 DEF InOrder
<1>4. Holds(shadow)'
  BY <1>1, <1>2 DEF Holds, AttemptHolds
<1>5. ASSUME NEW s \in DOMAIN c, s \in completed', Due(s)'
      PROVE  HoldsBefore(c[s], s)'
  <2>1. ~Precedes(plan, cur, s)
    <3>1. CASE s = cur
      BY <1>1, <3>1, PlanIsStrict
    <3>2. CASE s \in completed
      BY <1>1, <3>2 DEF InOrder
    <3> QED
      BY <1>2, <1>5, <3>1, <3>2
  <2>2. Due(s) /\ s \in DOMAIN ckpt
    BY <1>2, <1>5, <2>1 DEF Due
  <2>3. HoldsBefore(ckpt[s], s)
    BY <1>1, <2>2 DEF CheckpointsHold
  <2> QED
    BY <1>2, <2>1, <2>3 DEF HoldsBefore
<1> QED
  BY <1>3, <1>4, <1>5

\* Two steps that a revision keeps, or one it keeps and one it adds, stay in order.
LEMMA RevisionOrder ==
    ASSUME TypeOK, NEW reverted \in SUBSET Steps, NEW revised \in SUBSET Steps,
           plan' \in RevisedPlans(reverted, revised),
           NEW s \in ToSet(plan) \ reverted, NEW t \in ToSet(plan'), Precedes(plan', t, s)
    PROVE  t \in ToSet(plan) /\ Precedes(plan, t, s)
<1>1. /\ plan \in Seq(Steps) /\ plan' \in Seq(Steps) /\ IsInjective(plan)'
      /\ ToSet(plan') = {x \in ToSet(plan) : x \notin reverted \/ x \in revised}
                        \cup (revised \ ToSet(plan))
  BY RevisedPlanTyped DEF TypeOK
<1>2. ~Precedes(plan', s, t) /\ s # t
  BY <1>1, PlanIsStrict
<1>3. t \notin revised \ ToSet(plan) /\ ~Precedes(plan, s, t)
  BY <1>1, <1>2 DEF RevisedPlans
<1> QED
  BY <1>1, <1>2, <1>3, PlanIsTotal

\* A revision that takes everything back that it must leaves the other steps in
\* order, the shadow with their work, and their checkpoints true.
LEMMA RevisionKeeps ==
    ASSUME Kept, NEW reverted \in SUBSET Steps, NEW revised \in SUBSET Steps,
           ApplyRevision(reverted, revised), Features \cap {"partial", "stale"} = {},
           NEW c, c = Restrict(ckpt, DOMAIN ckpt \ reverted)
    PROVE  /\ InOrder' /\ Holds(shadow)'
           /\ \A s \in DOMAIN c : s \in completed' /\ Due(s)' => HoldsBefore(c[s], s)'
<1>1. /\ TypeOK /\ plan \in Seq(Steps) /\ IsInjective(plan) /\ InOrder /\ CheckpointsHold /\ Holds(shadow)
      /\ author \in [Files -> (Steps \cup {0}) \X Content]
      /\ completed \subseteq ToSet(plan) /\ 0 \notin Steps /\ completed \subseteq Steps
  BY StepWorkspaceAssumption DEF Kept, Typed, TypeOK, InOrder, Closed, ApplyRevision
<1>2. /\ TakesAllBack(reverted) /\ RevertsCurrent(reverted)
      /\ shadow' = Reverted(reverted) /\ completed' = completed \ reverted
      /\ plan' \in RevisedPlans(reverted, revised)
      /\ \A f \in Files : author'[f] = IF author[f][1] \in reverted THEN <<0, Absent>> ELSE author[f]
  BY DEF ApplyRevision
<1>3. ToSet(plan') = {s \in ToSet(plan) : s \notin reverted \/ s \in revised}
                     \cup (revised \ ToSet(plan))
  BY <1>1, <1>2, RevisedPlanTyped
<1>4. \A s \in completed', t \in ToSet(plan') :
         Precedes(plan', t, s) => t \in completed' /\ Precedes(plan, t, s)
  <2> SUFFICES ASSUME NEW s \in completed', NEW t \in ToSet(plan'), Precedes(plan', t, s)
               PROVE  t \in completed' /\ Precedes(plan, t, s)
    OBVIOUS
  <2>1. t \in ToSet(plan) /\ Precedes(plan, t, s) /\ s \in completed /\ s \notin reverted
    BY <1>1, <1>2, RevisionOrder
  <2>2. t \in completed
    BY <1>1, <2>1 DEF InOrder
  <2>3. t \notin reverted
    BY <1>2, <2>1 DEF TakesAllBack, Precedes
  <2> QED
    BY <1>2, <2>1, <2>2, <2>3
<1>5. InOrder'
  BY <1>1, <1>2, <1>3, <1>4 DEF InOrder
<1>6. ASSUME NEW f \in Files, author'[f][1] # 0
      PROVE  author'[f] = author[f] /\ author[f][1] \in completed' /\ shadow'[f] = author'[f][2]
  <2>1. author'[f] = author[f] /\ author[f][1] \in completed' /\ author[f][1] \in ToSet(plan) \ reverted
    BY <1>1, <1>2, <1>6 DEF InOrder
  <2>2. shadow[f] = author[f][2]
    BY <1>1, <1>6, <2>1 DEF Holds
  <2>3. CASE shadow' = shadow
    BY <2>1, <2>2, <2>3
  <2>4. ASSUME NEW i \in DOMAIN plan, plan[i] \in reverted, plan[i] \in DOMAIN ckpt,
               \A j \in DOMAIN plan : j < i => plan[j] \notin reverted,
               shadow' = ckpt[plan[i]]
        PROVE  shadow'[f] = author'[f][2]
    <3>1. plan[i] \in ToSet(plan)
      BY DEF ToSet
    <3>2. ~Precedes(plan, plan[i], author[f][1])
      <4>1. SUFFICES ASSUME NEW k \in DOMAIN plan, NEW l \in DOMAIN plan, k < l,
                            plan[k] = plan[i], plan[l] = author[f][1]
                     PROVE  FALSE
        BY DEF Precedes
      <4> QED
        BY <1>2, <2>1, <2>4, <4>1 DEF TakesAllBack
    <3>3. Precedes(plan, author[f][1], plan[i])
      BY <1>1, <2>1, <2>4, <3>1, <3>2, PlanIsTotal
    <3>4. Due(plan[i])
      <4>1. ASSUME NEW t, Precedes(plan, t, plan[i]) PROVE t \in completed
        <5>1. PICK k \in DOMAIN plan, l \in DOMAIN plan : k < l /\ plan[k] = t /\ plan[l] = plan[i]
          BY <4>1 DEF Precedes
        <5>2. CASE t \notin completed
          <6>1. plan[i] \in completed
            BY <1>2, <2>4, <5>1, <5>2 DEF RevertsCurrent
          <6>2. t \in ToSet(plan)
            BY <5>1 DEF ToSet
          <6> QED
            BY <1>1, <3>1, <4>1, <5>2, <6>1, <6>2 DEF InOrder
        <5> QED
          BY <5>2
      <4> QED
        BY <3>1, <4>1 DEF Due
    <3>5. HoldsBefore(ckpt[plan[i]], plan[i])
      BY <1>1, <2>4, <3>4 DEF CheckpointsHold
    <3> QED
      BY <2>1, <2>4, <3>3, <3>5 DEF HoldsBefore
  <2> QED
    BY <1>1, <1>2, <2>1, <2>3, <2>4, RevertedIsFirst
<1>7. Holds(shadow)'
  BY <1>6 DEF Holds
<1>8. ASSUME NEW s \in DOMAIN c, s \in completed', Due(s)'
      PROVE  HoldsBefore(c[s], s)'
  <2>1. s \in DOMAIN ckpt /\ c[s] = ckpt[s] /\ s \in completed /\ s \notin reverted
    BY <1>2, <1>8 DEF Restrict
  <2>2. Due(s)
    BY <1>1, <2>1 DEF Due, InOrder
  <2>3. HoldsBefore(ckpt[s], s)
    BY <1>1, <2>1, <2>2 DEF CheckpointsHold
  <2>4. ASSUME NEW f \in Files, Precedes(plan', author'[f][1], s)
        PROVE  c[s][f] = author'[f][2]
    <3>1. author'[f][1] \in ToSet(plan') /\ author'[f][1] # 0
      <4>1. plan' \in Seq(Steps) /\ IsInjective(plan)'
        BY <1>1, <1>2, RevisedPlanTyped
      <4>2. author'[f][1] \in ToSet(plan')
        BY <2>4, <4>1, PlanIsStrict
      <4> QED
        BY <1>1, <4>1, <4>2 DEF ToSet
    <3>2. Precedes(plan, author'[f][1], s) /\ author'[f] = author[f]
      BY <1>4, <1>6, <1>8, <2>4, <3>1
    <3> QED
      BY <2>1, <2>3, <3>2 DEF HoldsBefore
  <2> QED
    BY <2>4 DEF HoldsBefore
<1> QED
  BY <1>5, <1>7, <1>8

\* Steps that change neither the plan nor what is completed, nor the checkpoints.
LEMMA KeptStays ==
    ASSUME Kept, Typed', UNCHANGED <<plan, completed, author, ckpt>>, stage \notin Closed,
           \/ stage' \in Closed
           \/ /\ stage' \in {"run", "review"} /\ AttemptHolds'
              /\ cur' # RepairStep => cur' = cur /\ stage \in {"run", "review"}
           \/ stage' \notin Closed \cup {"run", "review"} /\ Holds(shadow)'
    PROVE  Kept'
<1>1. InOrder'
  BY DEF Kept, InOrder
<1>2. CheckpointsHold'
  BY DEF Kept, CheckpointsHold, Due, HoldsBefore
<1> QED
  BY <1>1, <1>2 DEF Kept, Due, Closed

\* Every step keeps the work of completed steps.
LEMMA KeptStep ==
    ASSUME Kept, [Next]_vars,
           Features \cap {"discard", "partial", "torn", "stale", "command"} = {}
    PROVE  Kept'
<1>1. /\ Typed /\ Typed' /\ InOrder /\ (stage \in {"run", "review"} => AttemptHolds)
      /\ (stage \notin Closed \cup {"run", "review"} => Holds(shadow))
  BY TypedStep DEF Kept
<1>2. CASE \E writes, deletes \in SUBSET Files : ApplyPatch(writes, deletes)
  <2>1. PICK writes \in SUBSET Files, deletes \in SUBSET Files : ApplyPatch(writes, deletes)
    BY <1>2
  <2>2. AttemptHolds'
    BY <1>1, <2>1 DEF ApplyPatch, PatchOf, AttemptHolds, Holds, Changed
  <2> QED
    BY <1>1, <2>1, <2>2, KeptStays DEF ApplyPatch, PatchOf, recordVars, Closed
<1>3. CASE AttemptFails
  <2>1. stage' = "failed" \/ (stage' = "run" /\ touched' = {} /\ before' = shadow' /\ cur' = cur)
    BY <1>3, StartAttemptStage DEF AttemptFails, End
  <2>2. shadow' = before /\ stage = "run" /\ UNCHANGED <<plan, completed, author, ckpt>>
    BY <1>3 DEF AttemptFails, recordVars
  <2>3. CASE stage' = "run"
    <3>1. AttemptHolds'
      BY <1>1, <2>1, <2>2, <2>3 DEF AttemptHolds, Holds
    <3> QED
      BY <1>1, <2>1, <2>2, <2>3, <3>1, KeptStays DEF Closed
  <2> QED
    BY <1>1, <2>1, <2>2, <2>3, KeptStays DEF Closed
<1>4. CASE StepVerified \/ AcceptStep
  <2>1. PICK c : c = ckpt /\ LoopTop(c)
    BY <1>4 DEF StepVerified, AcceptStep
  <2>2. /\ stage \in {"run", "review"} /\ cur # RepairStep /\ PromoteStep
        /\ UNCHANGED <<plan, shadow>>
    BY <1>1, <1>4, StepWorkspaceAssumption DEF StepVerified, AcceptStep, Typed, RepairStep
  <2>3. /\ InOrder' /\ Holds(shadow)'
        /\ \A s \in DOMAIN c : s \in completed' /\ Due(s)' => HoldsBefore(c[s], s)'
    BY <2>1, <2>2, PromoteKeeps
  <2> QED
    BY <1>1, <2>1, <2>3, LoopTopKept
<1>5. CASE StepReview
  <2>1. AttemptHolds'
    BY <1>1, <1>5 DEF StepReview, attemptVars, AttemptHolds, Holds
  <2> QED
    BY <1>1, <1>5, <2>1, KeptStays DEF StepReview, attemptVars, Closed
<1>6. CASE PlanHandoff
  <2>1. stage' = "failed" \/ (stage' = "replan" /\ Holds(shadow)')
    BY <1>1, <1>6 DEF PlanHandoff, AttemptHolds, Holds
  <2> QED
    BY <1>1, <1>6, <2>1, KeptStays DEF PlanHandoff, Closed
<1>7. CASE \E reverted, revised \in SUBSET Steps : ApplyRevision(reverted, revised)
  <2>1. PICK reverted \in SUBSET Steps, revised \in SUBSET Steps : ApplyRevision(reverted, revised)
    BY <1>7
  <2>2. PICK c : c = Restrict(ckpt, DOMAIN ckpt \ reverted) /\ LoopTop(c)
    BY <2>1 DEF ApplyRevision
  <2>3. /\ InOrder' /\ Holds(shadow)'
        /\ \A s \in DOMAIN c : s \in completed' /\ Due(s)' => HoldsBefore(c[s], s)'
    BY <2>1, <2>2, RevisionKeeps
  <2> QED
    BY <1>1, <2>2, <2>3, LoopTopKept
<1>8. CASE ValidationPasses \/ RevalidationFails \/ \E accept \in BOOLEAN : ValidationDecided(accept)
  <2>1. stage' \in Closed \/ stage' \notin Closed \cup {"run", "review"}
    BY <1>8 DEF ValidationPasses, RevalidationFails, ValidationDecided, Closed
  <2>2. /\ UNCHANGED <<plan, completed, author, ckpt, shadow>>
        /\ stage \notin Closed \cup {"run", "review"}
    BY <1>8 DEF ValidationPasses, RevalidationFails, ValidationDecided, Closed, recordVars
  <2>3. Holds(shadow)'
    BY <1>1, <2>2 DEF Holds
  <2> QED
    BY <1>1, <2>1, <2>2, <2>3, KeptStays
<1>9. CASE ValidationFails
  <2>1. stage' = "failed"
        \/ (stage' = "run" /\ touched' = {} /\ before' = shadow' /\ cur' = RepairStep)
    BY <1>9, StartAttemptStage DEF ValidationFails
  <2>2. stage = "validate" /\ UNCHANGED <<plan, completed, author, ckpt, shadow>>
    BY <1>9 DEF ValidationFails, recordVars
  <2>3. CASE stage' = "run"
    <3>1. AttemptHolds'
      BY <1>1, <2>1, <2>2, <2>3 DEF AttemptHolds, Holds, Closed
    <3> QED
      BY <1>1, <2>1, <2>2, <2>3, <3>1, KeptStays DEF Closed
  <2> QED
    BY <1>1, <2>1, <2>2, <2>3, KeptStays DEF Closed
<1>10. CASE RepairVerified
  <2>1. /\ \A f \in touched : author'[f][1] = 0
        /\ \A f \in Files \ touched : author'[f] = author[f]
        /\ stage = "run" /\ stage' = "revalidate" /\ UNCHANGED <<plan, completed, ckpt, shadow>>
    BY <1>1, <1>10 DEF RepairVerified, Typed, TypeOK
  <2>2. InOrder'
    BY <1>1, <2>1 DEF InOrder
  <2>3. Holds(shadow)'
    BY <1>1, <2>1 DEF Holds, AttemptHolds
  <2>4. 0 \notin Steps /\ plan \in Seq(Steps) /\ IsInjective(plan)
    BY <1>1, StepWorkspaceAssumption DEF Typed, TypeOK
  <2>5. \A f \in touched : \A s : ~Precedes(plan, author'[f][1], s)
    <3>1. 0 \notin ToSet(plan)
      BY <2>4 DEF ToSet
    <3> QED
      BY <2>1, <2>4, <3>1, PlanIsStrict
  <2>6. CheckpointsHold
    BY <2>1 DEF Kept, Closed
  <2>7. CheckpointsHold'
    BY <2>1, <2>5, <2>6 DEF CheckpointsHold, HoldsBefore, Due
  <2> QED
    BY <1>1, <2>1, <2>2, <2>3, <2>7 DEF Kept, Closed
<1>11. CASE RepairHandoff \/ \E revert \in BOOLEAN : AbortRun(revert)
  <2>1. stage' \in Closed /\ stage = "run" /\ UNCHANGED <<plan, completed, author, ckpt>>
    BY <1>11 DEF RepairHandoff, AbortRun, End, Closed, recordVars
  <2> QED
    BY <1>1, <2>1, KeptStays DEF Closed
<1>12. CASE Accept \/ Reject
  <2>1. stage' \in Closed /\ stage = "ready" /\ UNCHANGED <<plan, completed, author, ckpt>>
    BY <1>12 DEF Accept, Reject, Closed, recordVars
  <2> QED
    BY <1>1, <2>1, KeptStays DEF Closed
<1>13. CASE Settled \/ UNCHANGED vars
  <2>1. UNCHANGED <<real, shadow, base, ckpt, stage, granted, author, stray, recordVars, attemptVars>>
    BY <1>13 DEF Settled, vars
  <2>2. InOrder' /\ (CheckpointsHold => CheckpointsHold') /\ (AttemptHolds => AttemptHolds')
        /\ (Holds(shadow) => Holds(shadow)') /\ (Due(cur) => Due(cur)')
    BY <1>1, <2>1 DEF InOrder, CheckpointsHold, AttemptHolds, Holds, Due, HoldsBefore, recordVars, attemptVars
  <2> QED
    BY <1>1, <2>1, <2>2 DEF Kept, recordVars, attemptVars
<1> QED
  BY <1>2, <1>3, <1>4, <1>5, <1>6, <1>7, <1>8, <1>9, <1>10, <1>11, <1>12, <1>13
     DEF Next, PatchFails, CommandRuns, DiscardStep

\* The run starts with no work done.
LEMMA KeptInit ==
    ASSUME Init
    PROVE  Kept
<1>1. Typed /\ 0 \notin Steps
  BY TypedInit, StepWorkspaceAssumption
<1>2. plan \in Seq(Steps) /\ IsInjective(plan)
  BY <1>1 DEF Typed, TypeOK
<1>3. plan # <<>>
  <2>1. PICK S \in (SUBSET Steps) \ {{}} : plan \in SetToSeqs(S)
    BY DEF Init
  <2>2. IsFiniteSet(S)
    BY <2>1, FS_Subset, StepWorkspaceAssumption
  <2>3. ToSet(plan) = S
    BY <2>1, <2>2, Permutation
  <2> QED
    BY <2>1, <2>3 DEF ToSet
<1>4. 1 \in DOMAIN plan /\ cur = plan[1] /\ cur \in ToSet(plan)
  BY <1>2, <1>3 DEF Init, ToSet
<1>5. \A t : ~Precedes(plan, t, cur)
  <2>1. \A i, j \in DOMAIN plan : i < j => plan[j] # plan[1]
    BY <1>2, <1>4 DEF IsInjective
  <2> QED
    BY <1>4, <2>1 DEF Precedes
<1>6. Due(cur) /\ cur \notin completed
  BY <1>4, <1>5 DEF Due, Init
<1>7. /\ \A f \in Files : author[f][1] = 0
      /\ stage = "run" /\ before = shadow /\ completed = {}
  BY DEF Init
<1>8. InOrder /\ AttemptHolds
  BY <1>7 DEF InOrder, AttemptHolds, Holds
<1>9. CheckpointsHold
  <2>1. \A f \in Files : \A s : ~Precedes(plan, author[f][1], s)
    <3>1. 0 \notin ToSet(plan)
      BY <1>1, <1>2 DEF ToSet
    <3> QED
      BY <1>2, <1>7, <3>1, PlanIsStrict
  <2> QED
    BY <2>1 DEF CheckpointsHold, HoldsBefore
<1> QED
  BY <1>1, <1>6, <1>7, <1>8, <1>9 DEF Kept, Closed

\* What completed steps made of the files is what the shadow holds, whatever
\* attempts fail and whatever steps replans take back: as long as revisions take
\* back every completed step that depends on a reverted one, revert no step that
\* waits behind another, and nothing but reported patches changes files.
THEOREM CompletedWorkStays ==
    ASSUME Features \cap {"discard", "partial", "torn", "stale", "command"} = {}
    PROVE  Spec => []CompletedWorkIsInShadow
<1>1. Init => Kept
  BY KeptInit
<1>2. Kept /\ [Next]_vars => Kept'
  BY KeptStep
<1>3. Kept => CompletedWorkIsInShadow
  BY StepWorkspaceAssumption DEF Kept, Typed, TypeOK, AttemptHolds, Holds, CompletedWorkIsInShadow, Closed
<1> QED
  BY <1>1, <1>2, <1>3, PTL DEF Spec
=============================================================================

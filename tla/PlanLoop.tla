------------------------------- MODULE PlanLoop -------------------------------
(***************************************************************************)
(* The planning agent: rounds that write a plan, patch it after the user's *)
(* feedback, or revise the steps of a plan under way.  A round is a loop   *)
(* of turns with a budget, retries of the model and corrections.           *)
(*                                                                         *)
(* A plan is known by the rewrite it comes from and the patches made to it *)
(* since.  The text of the conversation, which only grows, is left out;    *)
(* so a call already made is a turn that changes nothing.                  *)
(***************************************************************************)
EXTENDS Naturals, Sequences

CONSTANTS
    MaxCalls,       \* max_planning_tool_calls, max_revision_tool_calls
    MaxRetries,     \* _MAX_STEP_RETRIES
    MaxMalformed,   \* _MAX_MALFORMED
    MaxRounds       \* bound: the rounds of a task

VARIABLE plan

Modes == {"first", "feedback", "revision"}

NoText == [rewrite |-> 0, patches |-> << >>]

\* The round; the task's plan_markdown; plan.md of the scratch directory; the runs of a
\* revision; and, of the round, how many model calls failed in a row and how many answers.
NoPlan ==
    [pc |-> "idle", mode |-> "first", rounds |-> 0, markdown |-> NoText, file |-> NoText,
     shown |-> NoText, turn |-> 0, failures |-> 0, malformed |-> 0, corrected |-> FALSE,
     result |-> "none"]

Turn == plan.pc = "turn"

\* The turns are the calls and one more, to emit.
NextTurn(p) ==
    plan' = IF p.turn < MaxCalls THEN [p EXCEPT !.turn = @ + 1, !.failures = 0]
                                 ELSE [p EXCEPT !.pc = "raised"]
Raise == plan' = [plan EXCEPT !.pc = "raised"]

-----------------------------------------------------------------------------

\* generate_plan, or revise: a round begins from the plan the user saw.
Begin(mode) ==
    /\ plan.pc \in {"idle", "done"} /\ plan.rounds < MaxRounds
    /\ (mode = "first") = (plan.markdown = NoText)
    /\ plan' = [plan EXCEPT !.pc = "turn", !.mode = mode, !.rounds = @ + 1, !.shown = plan.markdown,
                            !.turn = 0, !.failures = 0, !.malformed = 0, !.corrected = FALSE,
                            !.result = "none"]

\* create_planning_step raises: it is called again with a correction, then given up.
ModelFails ==
    /\ Turn
    /\ IF plan.failures < MaxRetries THEN plan' = [plan EXCEPT !.failures = @ + 1] ELSE Raise

\* An empty plan or an answer without a type: a correction, and too many in a row end it.
Malformed ==
    /\ Turn
    /\ IF plan.malformed >= MaxMalformed THEN Raise
       ELSE NextTurn([plan EXCEPT !.malformed = @ + 1])

\* A tool is called, or was called before and is not again; the last turn is not for tools.
\* Arguments that do not convert raise out of the loop.
CallTool(raises) ==
    /\ Turn
    /\ IF plan.turn >= MaxCalls \/ raises THEN Raise
       ELSE NextTurn([plan EXCEPT !.malformed = 0])

\* A round without a result of the kind it asked for: revise() runs the loop once more with
\* a correction, generate_plan() asserts.
Misfit ==
    IF plan.mode = "revision" /\ ~plan.corrected
    THEN plan' = [plan EXCEPT !.corrected = TRUE, !.turn = 0, !.failures = 0, !.malformed = 0]
    ELSE Raise

\* The plan of the task is replaced by the result of the round.
Deliver(text) == plan' = [plan EXCEPT !.pc = "done", !.result = "plan", !.markdown = text]

EmitPlan ==
    /\ Turn
    /\ IF plan.mode = "revision" THEN Misfit
       ELSE Deliver([rewrite |-> plan.rounds, patches |-> << >>])

EmitRevision(empty) ==
    /\ Turn
    /\ IF empty THEN Raise
       ELSE IF plan.mode # "revision" THEN Misfit
       ELSE plan' = [plan EXCEPT !.pc = "done", !.result = "revision"]

\* Mutant: plan.md is written once and patched from then on.
PatchFileKept(file, current) == IF file = NoText THEN current ELSE file

\* apply_plan_patch writes the current plan to plan.md and patches that.
PatchFile(file, current) == current

\* A patch of the plan.  An operation that does not fit leaves plan.md as it was written:
\* the preflight judges all of them first (PatchOps).  No round but a feedback round has
\* a plan that an operation could fit.
EmitPlanPatch(fits) ==
    /\ Turn
    /\ fits => plan.mode = "feedback"
    /\ LET text == PatchFile(plan.file, IF plan.mode = "feedback" THEN plan.shown ELSE NoText)
           new == [text EXCEPT !.patches = Append(@, plan.rounds)]
       IN IF fits
          THEN plan' = [plan EXCEPT !.pc = "done", !.result = "plan", !.markdown = new, !.file = new]
          ELSE NextTurn([plan EXCEPT !.file = text])

-----------------------------------------------------------------------------

Init == plan = NoPlan

Next ==
    \/ \E m \in Modes : Begin(m)
    \/ ModelFails \/ Malformed \/ EmitPlan
    \/ \E b \in BOOLEAN : CallTool(b) \/ EmitRevision(b) \/ EmitPlanPatch(b)

\* A round that is done did what was asked.  A revision left the text of the plan alone;
\* any other made a plan anew, or made one patch to the plan the user had seen and gave
\* feedback on, whatever earlier rounds and failed patches left in the scratch file.
RoundDelivers ==
    plan.pc = "done" =>
        IF plan.mode = "revision" THEN plan.result = "revision" /\ plan.markdown = plan.shown
        ELSE /\ plan.result = "plan"
             /\ \/ plan.markdown = [rewrite |-> plan.rounds, patches |-> << >>]
                \/ plan.mode = "feedback" /\
                   plan.markdown = [plan.shown EXCEPT !.patches = Append(@, plan.rounds)]
=============================================================================

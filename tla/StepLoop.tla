------------------------------- MODULE StepLoop -------------------------------
(***************************************************************************)
(* The tool loop of one plan step, seen from inside: turns of the model, a *)
(* state machine that says which actions a turn may take, the patches and  *)
(* their static checks, the installs a manifest asks for, and the budgets. *)
(* TaskRun and StepWorkspace see a whole attempt as one outcome; this      *)
(* module says which outcomes there are and what they promise.             *)
(*                                                                         *)
(* What a call is (its arguments, its output) is left out.  So a patch     *)
(* already tried and a call already made in the state are turns that       *)
(* change nothing, like an answer that does not parse: see WastedTurn.     *)
(***************************************************************************)
EXTENDS Naturals

CONSTANTS
    Files,            \* the files a patch may write
    Manifests,        \* those that are the manifest of an ecosystem of the profile
    MaxExplore,       \* max_tool_calls_per_step
    MaxVerify,        \* max_verify_calls_per_step
    Slack,            \* the turns the outer cap adds to the two budgets (10)
    MaxPatchRetries   \* MAX_PATCH_RETRIES

VARIABLE loop

Lock == "lock"                          \* the lock file an install may rewrite
Readers == {"read", "look"}             \* read_file and search_code; the other readers
Setups == {"setup"}                     \* find_binary, setup_env, init_workspace
Failing == {"MUST_READ", "CAN_RETRY"}   \* _FAILED_PATCH_STATES

\* _ALLOWED_TOOLS: what a turn may do in a state.
Offered(state) ==
    Readers \cup
    (CASE state = "EXPLORE"     -> {"emit_patch"}
       [] state = "MUST_READ"   -> {}
       [] state = "CAN_RETRY"   -> {"emit_patch"}
       [] state = "BLOCKING"    -> {"emit_patch"} \cup Setups
       [] state = "CLEAN"       -> {"run_command", "verify_done"} \cup Setups
       [] state = "TEST_FAILED" -> {"emit_patch", "run_command"} \cup Setups
       [] state = "TEST_PASSED" -> {"verify_done"})

\* Mutant: a step that only runs commands may skip them.
AllowedSkip(state, commandOnly) == Offered(state)

\* allowed_tools, allowed_action_types: such a step is not done before its commands ran.
Allowed(state, commandOnly) ==
    Offered(state) \ (IF commandOnly /\ state = "CLEAN" THEN {"verify_done"} ELSE {})

May(action) == loop.pc = "turn" /\ action \in Allowed(loop.state, loop.commandOnly)

-----------------------------------------------------------------------------
(* How a turn and the loop end                                              *)

Total == MaxExplore + MaxVerify + Slack

Return(l, result) == loop' = [l EXCEPT !.pc = "ended", !.result = result]

\* The loop gives up: a scope that was refused makes it the plan's problem.
GiveUp(l) == Return(l, IF l.refused THEN "handoff" ELSE "raised")

EndTurn(l) ==
    IF l.turns + 1 < Total THEN loop' = [l EXCEPT !.turns = @ + 1] ELSE GiveUp(l)

\* transition: the table is total on what the loop dispatches, and what it says of
\* an event does not depend on the state.
StateAfter(event) ==
    CASE event = "failed"   -> "MUST_READ"
      [] event = "read"     -> "CAN_RETRY"
      [] event = "blocking" -> "BLOCKING"
      [] event = "clean"    -> "CLEAN"
      [] event = "passed"   -> "TEST_PASSED"
      [] event = "unpassed" -> "TEST_FAILED"

\* The failures in a row are forgotten once a patch gets through.
Fire(l, event) ==
    [l EXCEPT !.state = StateAfter(event),
              !.retries = IF l.state \in Failing /\ StateAfter(event) \notin Failing THEN 0 ELSE @]

\* maybe_run_pending_install: the install of the manifest written last, once, whatever
\* it returns.  It may rewrite the lock file, which then counts as touched.
Installed(l, locks) ==
    IF l.pending = {} THEN l
    ELSE [l EXCEPT !.pending = {}, !.owed = @ \ l.pending,
                   !.drift = @ \/ locks,
                   !.touched = IF locks THEN @ \cup {Lock} ELSE @]

\* _flush_pending_install, before the loop returns a verified step.
Flushed(l, locks) == Installed(l, locks)

-----------------------------------------------------------------------------
(* The turns                                                                *)

NoLoop ==
    [pc |-> "idle", commandOnly |-> FALSE, skip |-> FALSE, broken |-> {}, state |-> "EXPLORE",
     retries |-> 0, patched |-> FALSE, explore |-> 0, verify |-> 0, turns |-> 0,
     refused |-> FALSE, pending |-> {}, owed |-> {}, touched |-> {}, drift |-> FALSE,
     known |-> {}, errs |-> {}, ran |-> FALSE, result |-> "none"]

\* A step begins.  Some files have errors nobody asked it to repair; a step without
\* files to write only runs commands; checking may be switched off.
Begin(commandOnly, skip, broken) ==
    /\ loop.pc = "idle"
    /\ loop' = [NoLoop EXCEPT !.pc = "turn", !.commandOnly = commandOnly, !.skip = skip,
                              !.broken = broken,
                              !.state = IF commandOnly THEN "CLEAN" ELSE "EXPLORE"]

\* The abort is looked at before each turn.
AbortSeen == loop.pc = "turn" /\ Return(loop, "aborted")

\* An answer that does not parse, an action or a tool the state does not offer, a patch
\* already tried, a call already made: the model is told so, and a turn is gone.
WastedTurn == loop.pc = "turn" /\ EndTurn(loop)

VerifyDone(verified, locks) ==
    /\ May("verify_done")
    /\ Return(Flushed(loop, locks), IF verified THEN "verified" ELSE "unverified")

RevisionNeeded == loop.pc = "turn" /\ Return(loop, "handoff")

\* A patch without a list of operations.
EmitBad == May("emit_patch") /\ Return(loop, "raised")

\* A patch that does not apply.  The model must read before it tries again; the failures
\* that follow a read are counted.
PatchFails ==
    /\ May("emit_patch")
    /\ IF loop.state # "CAN_RETRY"
       THEN EndTurn(Fire(loop, "failed"))
       ELSE IF loop.retries + 1 >= MaxPatchRetries
            THEN Return([loop EXCEPT !.retries = @ + 1], "unverified")
            ELSE EndTurn([Fire(loop, "failed") EXCEPT !.retries = @ + 1])

\* A patch outside the files of the step that the user does not grant.
ScopeRefused == May("emit_patch") /\ EndTurn([loop EXCEPT !.refused = TRUE])

\* The checks of the files touched so far, the errors forgiven by the baseline left out.
\* An error has the file and the text of a line of output: the baseline forgives by both.
Blocked(l) == \/ l.errs \cap l.touched # {}
              \/ (l.broken \cap l.touched) \ l.known # {}

\* A patch is applied to `files`: `bad` has errors it introduced, `fixed` lost those it
\* had.  The baseline is taken once, of the files of the first patch.
Patched(files, bad, fixed) ==
    [loop EXCEPT !.patched = TRUE, !.ran = FALSE,
                 !.touched = @ \cup files,
                 !.errs = (@ \ files) \cup bad,
                 !.known = IF loop.patched THEN @ ELSE loop.broken \cap files,
                 !.broken = @ \ fixed,
                 !.owed = @ \cup (files \cap Manifests)]

\* resolve_manifest_scope_key: one manifest of the patch, if it has any, has its install
\* put off until a command runs or the step is verified.
Scheduled(files) ==
    IF files \cap Manifests = {} THEN {loop.pending} ELSE {{m} : m \in files \cap Manifests}

PatchApplied(files, bad, fixed, locks) ==
    /\ May("emit_patch")
    /\ LET l == Patched(files, bad, fixed) IN
       \E p \in Scheduled(files) :
         LET next == Fire([l EXCEPT !.pending = p], IF Blocked(l) THEN "blocking" ELSE "clean") IN
         IF loop.skip THEN Return(Flushed(next, locks), "verified") ELSE EndTurn(next)

\* Until a patch got through, a call is paid from the budget to explore; then, and in a
\* step that only runs commands, from the budget to verify.
Verifying == loop.patched \/ loop.commandOnly

\* What a call that returned does to the state machine.
Called(l, tool, ok) ==
    CASE tool = "read" /\ l.state = "MUST_READ" /\ ok -> Fire(l, "read")
      [] tool = "run_command" -> Fire([l EXCEPT !.ran = ok], IF ok THEN "passed" ELSE "unpassed")
      [] OTHER -> l

Call(tool, ok, locks) ==
    /\ May(tool)
    /\ tool \notin {"emit_patch", "verify_done"}
    /\ IF Verifying /\ loop.verify >= MaxVerify THEN Return(loop, "unverified")
       ELSE IF ~Verifying /\ loop.explore >= MaxExplore THEN GiveUp(loop)
       ELSE LET paid == IF Verifying THEN [loop EXCEPT !.verify = @ + 1]
                                     ELSE [loop EXCEPT !.explore = @ + 1]
                l == IF tool = "run_command" THEN Installed(paid, locks) ELSE paid
            IN EndTurn(Called(l, tool, ok))

-----------------------------------------------------------------------------

Init == loop = NoLoop

Next ==
    \/ \E c, s \in BOOLEAN, b \in SUBSET Files : Begin(c, s, b)
    \/ AbortSeen \/ WastedTurn \/ RevisionNeeded \/ EmitBad \/ PatchFails \/ ScopeRefused
    \/ \E v, k \in BOOLEAN : VerifyDone(v, k)
    \/ \E f \in (SUBSET Files) \ {{}}, k \in BOOLEAN :
         \E b \in SUBSET f, x \in SUBSET (f \cap loop.broken) : PatchApplied(f, b, x, k)
    \/ \E t \in Readers \cup Setups \cup {"run_command"}, ok, k \in BOOLEAN : Call(t, ok, k)

\* A step reported as verified has no error it introduced in a file it touched, and,
\* when its commands are all there is to it, they ran and passed since the last patch:
\* every way through the state machine to verify_done comes by the checks.
VerifiedIsChecked ==
    loop.result = "verified" /\ ~loop.skip =>
        /\ loop.errs \cap loop.touched = {}
        /\ loop.commandOnly => loop.ran

\* With one ecosystem, no install a manifest asked for is lost when the step is
\* verified, and a lock file an install rewrote is among the files to promote.
InstallsRun ==
    loop.result = "verified" =>
        /\ (\E m \in Manifests : Manifests = {m}) => loop.owed = {}
        /\ loop.drift => Lock \in loop.touched
=============================================================================

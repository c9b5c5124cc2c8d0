------------------------------ MODULE Validation ------------------------------
(***************************************************************************)
(* What validation sees.  The errors of the workspace are collected before *)
(* a run; without the tool loop a step then tries candidate patches on its *)
(* shadow, each from the same checkpoint, and keeps the best if it passes; *)
(* at the end the errors that were there before are not counted.           *)
(***************************************************************************)
EXTENDS Integers, Sequences, FiniteSets, FiniteSetsExt

CONSTANTS
    Projects,      \* the tools of a workspace: a set of features
    Trees,         \* the files of a workspace before a run: functions of Files
    Candidates,    \* the patches the model may propose
    MaxProposed,   \* AI_EDITOR_PATCH_CANDIDATES: bound of the candidates of an attempt
    MaxAttempts,   \* max_attempts_per_step
    MaxOps         \* max_ops of a candidate; its files are bounded alike

VARIABLE val

\* A file, with its test, is absent, parses ("ok"), does not ("bad"), fails the test ("red"),
\* keeps it from being set up ("setup"), or from being collected ("err").  Those in Python are modules.
Modules == {"p.py", "r.py"}
Files == Modules \cup {"q.ts"}
Texts == {"absent", "ok", "bad", "red", "setup", "err"}
Where(shadow, texts) == {f \in Files : shadow[f] \in texts}

-----------------------------------------------------------------------------
(* The validator                                                            *)

\* The commands a workspace is validated with, by default.
Commands(project) ==
    LET Blocking(name) == [name |-> name, level |-> "error"]
        Advisory(name) == [name |-> name, level |-> "warning"]
        If(cond, command) == IF cond THEN {command} ELSE {}
        Has(feature) == feature \in project
    IN If(Has("py"), Blocking("compileall"))
       \cup If(Has("py") /\ Has("mypy"), Advisory("mypy"))
       \cup If(Has("py") /\ Has("ruff"), Advisory("ruff"))
       \cup If(Has("py") /\ Has("pytest"), Blocking("pytest"))
       \cup If(Has("package.json") /\ Has("typecheck"), Blocking("tsc"))
       \cup If(Has("package.json") /\ ~Has("typecheck") /\ Has("tsc"), Advisory("tsc"))
       \cup If(Has("package.json") /\ (Has("test") \/ Has("jest")), Blocking("jest"))

\* The files a command complains of: pytest runs no test when one cannot be collected.
Uncollected(shadow) == Where(shadow, {"bad", "err"}) \cap Modules
Complaints(name, shadow) ==
    CASE name = "compileall" -> Where(shadow, {"bad"}) \cap Modules
      [] name = "mypy"       -> Uncollected(shadow)
      [] name = "ruff"       -> Where(shadow, {"bad"}) \cap Modules
      [] name = "pytest"     -> IF Uncollected(shadow) # {} THEN Uncollected(shadow)
                                ELSE Where(shadow, {"red", "setup"}) \cap Modules
      [] name = "tsc"        -> Where(shadow, {"bad", "err"}) \ Modules
      [] name = "jest"       -> Where(shadow, {"bad", "red", "setup", "err"}) \ Modules

\* The stable part of a complaint.  Of pytest only the tests that FAILED, if any: those that
\* could not be set up or collected are in its summary as ERROR, and are not looked at.
FailedTests(shadow) == Complaints("pytest", shadow) \cap Where(shadow, {"red"})
Fingerprint(name, shadow) == IF name = "pytest" THEN FailedTests(shadow) ELSE Complaints(name, shadow)

\* Mutant: the names of the tests are volatile data as well.
NormalizedToTool(name, shadow) == <<name, {}>>

Normalized(name, shadow) == <<name, {<<f, shadow[f]>> : f \in Fingerprint(name, shadow)}>>

\* A command that fails says all it complains of in one diagnostic.
NoCommand == [level |-> "error", message |-> <<"no command", {}>>]
Run(project, shadow) ==
    IF Commands(project) = {} THEN {NoCommand}
    ELSE {[level |-> c.level, message |-> Normalized(c.name, shadow)] :
             c \in {c \in Commands(project) : Complaints(c.name, shadow) # {}}}

\* The diagnostics that were not there before, and whether an error is left.
Filtered(diagnostics, baseline) == {d \in diagnostics : d.message \notin baseline}
Success(diagnostics) == \A d \in diagnostics : d.level # "error"

\* Of the files a patch touched, those that can be parsed here must.
FastPasses(shadow, touched) ==
    LET parsed == IF "tsc" \in val.project THEN Files ELSE Modules
    IN Where(shadow, {"bad"}) \cap touched \cap parsed = {}

\* The step's own test command: skipped unless its runner is known and found.
TestPasses(shadow) ==
    val.test = "pytest" /\ "pytest" \in val.project => Complaints("pytest", shadow) = {}

-----------------------------------------------------------------------------
(* Candidates                                                               *)

Touched(c) == {op.file : op \in c.ops}
Preflight(shadow, c) == \A op \in c.ops : shadow[op.file] = op.from
Applied(shadow, ops) ==
    [f \in Files |-> IF \E op \in ops : op.file = f
                     THEN (CHOOSE op \in ops : op.file = f).to ELSE shadow[f]]

\* In twentieths of a point.
Score(pass, valid, lines, ops, new) ==
    (IF pass THEN 2000 ELSE 0) + (IF valid THEN 1200 ELSE 0) - lines - 40 * ops - 100 * new

Failed(c, pass) ==
    [c |-> c, pass |-> pass, files |-> Cardinality(Touched(c)), lines |-> 0,
     score |-> Score(pass, FALSE, 0, Cardinality(c.ops), 0)]

Evaluated(c, shadow) ==
    [c |-> c, pass |-> TRUE, files |-> Cardinality(Touched(c)), lines |-> c.lines,
     score |-> Score(TRUE, FastPasses(shadow, Touched(c)), c.lines, Cardinality(c.ops),
                     Cardinality(Where(val.checkpoint, {"absent"}) \cap Touched(c)))]

\* Those that pass preflight before the others; by score, files, lines and order.
Best(evals) ==
    LET passing == {k \in DOMAIN evals : evals[k].pass}
        among == IF passing = {} THEN DOMAIN evals ELSE passing
        Before(j, k) ==
            \/ evals[j].score > evals[k].score
            \/ /\ evals[j].score = evals[k].score
               /\ \/ evals[j].files < evals[k].files
                  \/ /\ evals[j].files = evals[k].files
                     /\ \/ evals[j].lines < evals[k].lines
                        \/ evals[j].lines = evals[k].lines /\ j < k
    IN evals[CHOOSE k \in among : \A j \in among \ {k} : Before(k, j)].c

-----------------------------------------------------------------------------
(* A step                                                                   *)

Restored == val.checkpoint

\* The errors before the run; the validator may itself fail.
CollectBaseline(project, shadow, test, raises) ==
    /\ val.pc = "new"
    /\ val' = [val EXCEPT
          !.pc = "attempt", !.project = project, !.test = test, !.shadow = shadow, !.began = shadow,
          !.base = IF raises THEN {} ELSE {d.message : d \in Run(project, shadow)}]

\* A reply without candidates counts as one that cannot be had.
Propose(candidates) ==
    /\ val.pc = "attempt" /\ val.attempt < MaxAttempts
    /\ val' = [val EXCEPT !.pc = "evaluate", !.attempt = @ + 1, !.checkpoint = val.shadow,
                          !.candidates = candidates, !.evals = << >>]

\* A candidate that is applied may break off with some of its files written.
Evaluate(written) ==
    /\ val.pc = "evaluate" /\ Len(val.evals) < Len(val.candidates)
    /\ LET c == val.candidates[Len(val.evals) + 1]
           fits == Cardinality(c.ops) <= MaxOps /\ Preflight(Restored, c)
           shadow == Applied(Restored, written)
       IN /\ written \subseteq c.ops /\ (written # {} => fits)
          /\ val' = [val EXCEPT
                !.shadow = shadow,
                !.evals = Append(@, IF ~fits THEN Failed(c, FALSE)
                                    ELSE IF written # c.ops THEN Failed(c, TRUE)
                                    ELSE Evaluated(c, shadow))]

\* Another attempt, if there is one left, from the checkpoint.
AttemptFails == [val EXCEPT !.pc = IF val.attempt < MaxAttempts THEN "attempt" ELSE "exhausted",
                            !.shadow = Restored]

\* The limits are not looked at again: a candidate beyond them is chosen when no other fits.
Select ==
    /\ val.pc = "evaluate" /\ Len(val.evals) = Len(val.candidates)
    /\ val' = IF val.evals # << >> /\ Preflight(Restored, Best(val.evals))
              THEN [val EXCEPT !.pc = "apply", !.shadow = Restored, !.chosen = Best(val.evals)]
              ELSE AttemptFails

\* Applied for good, then validated; applying may raise, and so may the validation.
Install(raises) ==
    /\ val.pc = "apply"
    /\ LET shadow == Applied(val.shadow, val.chosen.ops)
       IN val' = IF ~raises /\ FastPasses(shadow, Touched(val.chosen)) /\ TestPasses(shadow)
                 THEN [val EXCEPT !.pc = "completed", !.shadow = shadow]
                 ELSE AttemptFails

\* Full validation of the run.
Validate ==
    /\ val.pc = "completed"
    /\ val' = [val EXCEPT !.pc =
          IF Success(Filtered(Run(val.project, val.shadow), val.base)) THEN "passed" ELSE "repair"]

Init ==
    val = [pc |-> "new", project |-> {}, test |-> "none", shadow |-> [f \in Files |-> "absent"],
           began |-> [f \in Files |-> "absent"], base |-> {}, attempt |-> 0,
           checkpoint |-> [f \in Files |-> "absent"], candidates |-> << >>, evals |-> << >>,
           chosen |-> [ops |-> {}, lines |-> 0]]

Next ==
    \/ Select \/ Validate
    \/ /\ val.pc = "new"
       /\ \E project \in Projects, shadow \in Trees, test \in {"none", "pytest"} :
             \E raises \in BOOLEAN : CollectBaseline(project, shadow, test, raises)
    \/ \E raises \in BOOLEAN : Install(raises)
    \/ /\ val.pc = "attempt"
       /\ \E n \in 0 .. MaxProposed : \E candidates \in [1 .. n -> Candidates] : Propose(candidates)
    \/ /\ val.pc = "evaluate"
       /\ \E c \in Candidates : \E written \in SUBSET c.ops : Evaluate(written)

-----------------------------------------------------------------------------
(* Properties                                                               *)

\* A step that completes leaves exactly what its chosen candidate makes of the checkpoint,
\* nothing of the other candidates or attempts; one that is exhausted leaves the checkpoint.
StepLeavesChosen ==
    /\ val.pc \in {"completed", "passed", "repair"} =>
          val.shadow = Applied(val.checkpoint, val.chosen.ops)
    /\ val.pc = "exhausted" => val.shadow = val.began

\* What stands after a run that passed full validation stood before it: each test that
\* fails failed, each complaint of another blocking command was made of the same files, and
\* pytest complains of nothing if it did not before.  Where it did, a test that can no
\* longer be set up or collected is forgiven if no other failure comes or goes.
PassedFailsNothingNew ==
    val.pc = "passed" =>
        /\ \A c \in Commands(val.project) : c.level = "error" =>
              /\ Fingerprint(c.name, val.shadow) \subseteq Fingerprint(c.name, val.began)
              /\ Complaints(c.name, val.began) = {} => Complaints(c.name, val.shadow) = {}

ValidatedIsNoWorse == StepLeavesChosen /\ PassedFailsNothingNew
=============================================================================

# TLA+ models of shadow-forge

shadow-forge is an AI code editor: a Python service (`agentd`) that runs coding
tasks for a VS Code extension, and a Rust indexer. A task is planned by a model,
approved by the user, executed step after step in a *shadow* copy of the
workspace, and promoted to the real workspace. This directory holds TLA+ models
of that core and of the services around it, the TLC instances that check them
and the TLAPS proofs about them.

Paths below are relative to `services/agentd-py/agentd/`.

## 1. The system

| Component | State it keeps | Operations |
|---|---|---|
| Task state machine (`domain/state_machine.py`, `domain/models.py`) | the status of a `TaskRecord`, its budgets and `execution_state` | `can_transition`, `transition` |
| Orchestrator (`orchestrator/engine.py`, `task_control.py`) | `_running_tasks`, `_task_controls`, four maps of pending decision futures, one coroutine per task | `run_task`, `continue_task`, `resume_task`, `revalidate_task`, `_execute_plan`, the gates, delta replan, repair, abort |
| Task routes (`api/routes.py`) | `_in_flight_feedback`, `_in_flight_resume` | create, plan feedback, the four decisions, cancel, abort, review preference, accept, reject, resume, stream |
| Task store (`storage/`) | one JSON document per task | `create`, `get` (a fresh copy), `save` (whole) |
| Shadow workspaces (`workspace/`) | directories: shadow, step checkpoints, pinned baseline | `prepare`, `clone`, `promote`, `cleanup`, `prune_checkpoints`, `promote_files` |
| Event broadcaster (`orchestrator/broadcaster.py`) | a replay buffer of 50 and the queues of each channel | `subscribe`, `broadcast`, `clear_replay`; `stream-patch` |
| Tool loop (`tools/loop.py`, `verify_phase_sm.py`) | phase, history, retries, the files touched by a step | explore, `emit_patch`, verify, hand the plan back |
| Patch engine (`patch/`) | none between calls | preflight and application of a candidate's operations |
| Command rules (`tools/command_rules.py`) | the remembered commands of a workspace | match, add |
| Chat controller (`chat/`) | turns in flight, edit and command futures, gates and history of a thread | message, mode, clarify, edit and command decisions, stop |
| Chat edit session (`chat/edit_session.py`) | the shadow of a turn, the files pending a decision | apply, accept, reject, close |
| Classifying chat agent (`chat/agent.py`) | the thread, inline changes, their shadows and manifests | explore, classify, change inline, create or resume a task, promote, discard |
| Planning agent (`planning/`) | the plan's text, a scratch `plan.md` | first plan, feedback round, revision |
| Command validator (`validation/`) | the fingerprints of old errors | baseline, candidate validation, full validation |
| Memory (`memory/`) | a run's history, segments and anchor; memories | compaction, consolidation, recall |
| Environment profiles (`env/`, `tools/env.py`) | one profile file per workspace, a lock | ensure, `setup_env`, `init_workspace` |
| Retrieval (`retrieval/`) | a vector table, the mark of the last snapshot | build, load a context |
| Rust indexer (`services/indexer-rs`) | the symbol graph of a workspace, its snapshot | bootstrap, watch, parse, resolve |
| Reasoning, providers, runtime | none of their own | calls that return or raise |
| Clients (`apps/`) | what was last polled | poll, render, post decisions |

**How they interact.** `agentd` is one asyncio process: a coroutine keeps the
processor until it awaits something that is not ready. The routes and the
coroutine of a task share (a) the stored record, of which each works on copies
of its own, (b) the in-memory control, futures and guard sets, and (c) the
directories on disk. Routes never wait for the coroutine: a decision resolves a
future, an abort sets an event, and a client learns the outcome by polling and
by the event stream. The clients decide from the status alone.

**What is hard.** Two copies of one record saved by whoever comes last; gates
whose payload, status and future must agree across a wait; an abort that is
looked at in two places only; retries, replans, discarded steps and a repair
that move three copies of the files; a rollback that only looks at a list of
files that six places edit; several exits that must each release the same marks.

**What makes each part correct.**

* *Task life*: a gate the record shows is a gate somebody waits at, and back; a
  closed task stays closed; the run ends and leaves no mark, lock or future
  behind; one coroutine per task; a final decision can always be carried out;
  an abort begins no more work and is acknowledged; an approval that is
  remembered stays so.
* *Files of a run*: nothing reaches the real workspace unreviewed; every change
  there is listed; a revert is exact; an accept delivers what was validated;
  completed work is never lost by a replan; every retry starts alike.
* *Resume*: a child runs on the work of its completed steps, all of it and no
  other; one child of the route at a time; a stream ends when the task is over,
  but for the ways the code ends a task without saying so.
* *Chat*: one turn per thread, every turn's relay ends, every gate has an owner,
  every edit of the workspace is on a card and in the conversation; the turn
  shadow equals the workspace between edits, and a rejected edit is nowhere.
* *Step loop and patches*: no way through the turns reaches `verified` past the
  checks; what the preflight accepts is what lands, but for node operations.
* *Validation*: the shadow holds the chosen candidate and nothing of the others;
  old errors are forgiven, tests that fail only now are not.
* *Planning, memory, environment, index*: a round delivers the plan it was asked
  for; nothing compacted is lost and a memory names its sources; one builder per
  profile, and a profile names what is on disk; no edge of an old source, no
  chunk taken for newer than it is.

The hazards behind these properties, each at its line, are in `PROJECT.json`.

## 2. The modules

`TaskStatus` (constants) is used by `TaskRun`, which implements `TaskLife`.
`StepWorkspace` models the files of the same run. `ChatThread` models a thread
of the chat controller. `TaskRunProofs`, `TaskRunSafeProofs`,
`StepWorkspaceProofs` and `ChatThreadProofs` hold the theorems about the modules
they name. `Services` instantiates eleven modules, each a part that `TaskRun`,
`StepWorkspace` or `ChatThread` takes as one call or one outcome: `StepLoop`,
`PatchOps`, `PlanLoop`, `EditSession`, `Memory`, `Lineage`, `InlineChat`,
`Validation`, `EnvProfile`, `CodeGraph`, `SemanticIndex`. It leaves their
constants open; `MCServices` gives them the values that are explored. The
theorems about the eleven are in four modules, by what they are about:
`LoopProofs` (`StepLoop`, `Validation`, `PlanLoop`), `EditProofs` (`PatchOps`,
`EditSession`, `InlineChat`), `ResumeProofs` (`EnvProfile`, `Lineage`) and
`KnowledgeProofs` (`Memory`, `SemanticIndex`, `CodeGraph`).

**TaskStatus** — the transition table row by row, the terminal statuses, the
gates and their statuses, and `PhaseOf`, the phase a status belongs to.

**TaskLife** — the abstract specification: the six phases a polling client may
rely on (preparing, approval, working, asking, review, closed) and the moves
between them. A result comes up for review only after work, and nothing leaves
`closed`.

**TaskRun** — one task, from `POST /tasks` to its final decision.

* An action is the whole stretch of code between two suspension points, with
  its saves. `pc` names the await the coroutine is parked at: `"start"` (task
  created, not run), `"ensure"` (environment), `"planning"`, `"scheduled"`
  (plan feedback accepted), `"regen"`, `"json"` (the executable plan),
  `"baseline"` (diagnostics of before the run), `"tools"` (a step's tool loop),
  `"scope"`, `"command"`, `"review"`, `"validation"` (the gates), `"replan"`,
  `"validate"`, `"narrate"`, or `"idle"` when there is no coroutine.
* `db` is the stored record and `loc` the coroutine's copy, saved back whole.
  Gates inside the tool loop (`AskInLoop`, `AnswerInLoop`) fetch a copy of
  their own, as the code does; the step review and the validation gate change
  the coroutine's copy in place.
* Of a record it keeps the status, the number of plan steps still to do, the
  usage counters, the pending payloads, what is remembered, and whether the
  shadow and baseline paths are set. The plan itself is abstracted to its number
  of incomplete steps; a delta replan may leave any number. Any condition the
  model abstracts (the run-time budget, the planner, the validator, the
  patches) is a choice between its outcomes.
* The *stretch* operators (`LoopTop`, `StartAttempt`, `EndRun`, `AbortRun`, ...)
  are pieces of `_execute_plan` that several actions end with.
* `Requests` selects what the client may do beyond answering: `"cancel"`,
  `"abort"`, `"pref"` (the review preference) and `"early"` (decide while the
  narrative is being written, i.e. right after `done`).

**StepWorkspace** — the data the run moves: `real` and `shadow` map files to
contents, `base` is the pinned baseline, `ckpt` the step checkpoints, `before`
the checkpoint of the running attempt. A content is *absent*, *original*, or the
stamp of the attempt that wrote it, which is all the properties tell apart. The
lists the code decides by are there as the code has them: `completed`,
`modified` (`modified_files`), `ops` (the keys of `completed_ops_by_file`),
`touched` and `last` (the files of all and of the last patch of a step).
`granted`, `author` and `stray` are history variables that no action reads.
`Features` selects what happens: deletions, several patches per step, commands
that write or delete files of the shadow, discarded steps, unreviewed steps,
revisions that keep a completed step later than a reverted one, revisions that
revert a step an earlier one took back unrun, and patches that fail after some
of their operations were carried out. A patch never deletes a
regular file (see section 6), so a deletion is a command's. Gates, statuses and
interleavings are left to `TaskRun`.

**ChatThread** — one thread of the controller: the stored thread (gate, replayed
history, ledger, cards), the coroutine of the turn, and what is only in memory
(`active`, the in-flight registry; `future`, the decision waited for; `toggle`,
the review preference; `relays`, the requests that forward events). A turn is
launched, begins later, loops over replies of the model with a phase and a
budget, holds an edit or a command at a gate, and ends; the user may decide
twice, late or never, stop it at any moment (one that has not begun too), and
the process may restart with other settings. `wanted`, `lost`, `silent` and
`orphaned` are history variables.

**StepLoop** — one attempt of a step from inside (`tools/loop.py`,
`verify_phase_sm.py`): the seven states, what each offers, patches with their
static checks against a baseline, the one pending install, retries, the two
budgets and the cap over all turns. Its results (`verified`, `unverified`,
`handoff`, `aborted`, `raised`) are the outcomes of an attempt in `TaskRun`.

**PatchOps** — a patch candidate operation by operation over files that are
sequences of lines. The preflight simulates on copies; the application is
separate code. Search, range, diff (with the shrinking of its context) and
Python node operations are operators that return the set of their result, empty
when they fail. The first three are one code in both. Node operations are two:
the preflight splices raw text between the offsets of the node (`NodeSplice`),
the application edits the parsed module (`NodeEdit`), so that such an operation
carries what the splice puts there (`raw`) beside the statements that its text
parses to, and nothing ties the two. A validator may look on during the
application (`watched`) and find errors in what was just written.

**PlanLoop** — rounds of the planning agent. A plan is the rewrite it comes from
and the patches made to it since, which is what a wrong scratch file would mix up.

**EditSession** — the shadow of a chat turn. A content is the set of edits in it,
so that a diff that carries more than its own edit shows.

**Memory** — compaction, consolidation and recall over one run's history and the
memories of its workspace. A message is its number, role, size, and whether it
was cut; the segments keep them in order.

**Lineage** — a failed task, its children and theirs. The shadow is the set of
steps whose work is in it. `Resume` stores a child, `Launch` is its coroutine,
later: what happened to the parent meanwhile is why the two are apart. Planning
(`PlanEnds`), the answer to a plan (`Feedback`) and the executable plan made of
an approved one (`PlanApproved`) are steps of their own, each of which may fail:
with an exception, which broadcasts `done`, or, for an executable plan that does
not fit the schema, without a word. A client may follow the stream of a task.

**InlineChat** — a thread of the classifying agent: explore, classify, change
inline, promote or discard from the card, tasks and their resumption, a request
that is closed, restarts.

**Validation** — the validator's commands and levels, the baseline, the
candidates of an attempt (policy, limits, preflight, application that may stop
half-way, validation, ranking), and full validation. Of three files, each with
its test, one may not parse, fail its test, keep it from being set up or from
being collected, beside files in another of these states. `Complaints` is what
a command says, `Fingerprint` the part of it that is compared: of pytest the
`FAILED` tests only.

**EnvProfile** — tasks that start together on one workspace, the profile's file,
the draft of the model and what is verified of it, installs, fallbacks,
manifests promoted by tasks, age and crashes. The model may name any path as a
runner: one of an environment of the workspace, its own or another directory's,
or `"elsewhere"` (an absolute path, one through `..`, a file that is no runner).

**CodeGraph** — the indexer's bootstrap and watch loop: nodes, edges, calls
parked until resolved, events with their debounce. `answers` is a history
variable: what each call of a file resolved to when it was last parsed.

**SemanticIndex** — builds of the vector table, split at every read and write
that another build or a writer may fall between.

`map` in `PROJECT.json` gives the lines each definition translates.

## 3. The runs

| Run | Result | What it shows |
|---|---|---|
| `TaskRun_safe` | holds, 54 640 states | For a client that aborts, flips its preference and answers in any way: types and budgets, `GateIsAnswerable`, `ParkedCopyIsCurrent`, `ShadowHeld`, `ReviewIsActionable`, `NothingLeftBehind`, `TerminalIsFinal`, the refinement of `TaskLife`, and `RunComesToRest` |
| `TaskRun_hostile` | holds, 187 659 states | With a cancel at any time and early decisions too: `BaselineHeld`, `OneCoroutine`, `RunningIsMarked`, `AbortBeginsNoStep` |
| `TaskRun_abort` | violated | `AbortAcknowledged`: an abort accepted during the last review, validation or its gate is never looked at |
| `TaskRun_early` | violated | `TerminalIsFinal`: a decision made on `done` is overwritten after the narrative |
| `TaskRun_remember` | violated | `ApprovalsAreRemembered`: the loop saves its older copy over a remembered approval |
| `StepWorkspace_any` | holds, 674 808 states | With every feature: `NoUnreviewedChange`, `CompletedIsPromoted`, `AttemptsStartAlike`, `DiscardRestores` |
| `StepWorkspace_kept` | holds, 704 163 states | Two replans, without discards, commands, torn patches and partial or stale revisions: `ChangesAreTracked`, `CompletedWorkIsInShadow`, `RevertIsTrue`, `AcceptDelivers` |
| `StepWorkspace_discard` | violated | `RevertIsTrue`: a discarded step hides an accepted change of the same run from the rollback |
| `StepWorkspace_torn` | violated | `AcceptDelivers`: what a half-applied patch wrote is validated and not promoted |
| `ChatThread_turns` | holds, 116 948 states | Stops at any moment, timeouts, late and repeated decisions, restarts: `ActiveIsLive`, `GateHasOwner`, `EditsAreOnRecord`, `PromotedIsRemembered`, `RelaysEnd`, and `TurnSettles`: every turn ends |
| `ChatThread_restart` | violated | `ReviewIsHonoured`: after a restart a mode gate is decided without the review toggle of its message |
| `Services` | holds, 2 117 286 states | One promise of each of the eleven services, explored one at a time (table below) |

`Services`, with the values of `MCServices`, chooses one service at the start and
runs it alone: they share no state in the code, so their product would say
nothing more.

| Focus | States | Promise | Instance |
|---|---|---|---|
| `StepLoop` | 65 295 | `VerifiedIsChecked` | a source file and a manifest, 2 explore and 2 verify turns, 2 slack turns, 2 patch retries: a retry after a failure and a budget that runs out in each phase |
| `PatchOps` | 74 105 | `LandsAsChecked` | candidates of up to 2 operations of every kind over a Python file of two declarations (one twice, in one tree) and another file: the second operation meets what the first left; node operations whose splice and statements differ |
| `PlanLoop` | 4 210 | `RoundDelivers` | 4 rounds of 3 calls, so that a round follows a failed one and its leftovers |
| `EditSession` | 18 561 | `EditsLandAsDecided` | 2 files, 3 writes: a rejected edit between two accepted ones, a write of the user between |
| `Memory` | 209 890 | `MemoryIsGrounded` | 2 tasks of a workspace with small budgets: every other message compacts, two consolidations overlap |
| `Lineage` | 635 563 | `ResumeContinues` | 3 tasks: a child of a child, or two children; 1 step each, 1 plan, a client on any of them |
| `InlineChat` | 450 136 | `InlineAsShown` | 2 turns, 2 tasks, 2 plans: a decision on an older card, a change beside a task |
| `Validation` | 303 679 | `ValidatedIsNoWorse` | 2 attempts of 2 candidates on 3 kinds of project; tests that fail, cannot be set up and cannot be collected beside each other |
| `EnvProfile` | 180 539 | `EnvironmentIsReal` | 2 tasks, 2 outside events, 3 kinds of workspace: two builders, a crash and a second build; a reply of the model leaves out one of the facts at most |
| `CodeGraph` | 146 940 | `CodeIndexIsTrue` | 2 files, 3 writes: a function whose call changes from one name to another, a source with an error, two calls at the top level in the line of a function |
| `SemanticIndex` | 28 368 | `ChunksAreCurrent` | 2 files, 2 ticks, 2 snapshots: a write at every point of a build |

Each of these promises is a conjunction named in its module; `StepLoop`'s adds
`InstallsRun`, that no install a manifest asked for is lost.

The violated runs are the six findings of `PROJECT.json`, each with the sentence
of the repository it contradicts. Every property of a passing run has a mutant
beside the definition it mutates (`\* Mutant: ...`): a plausible bug of the code
under which TLC finds the property violated.

**Bounds.** `TaskRun`: up to 3 steps and 2 replans, 2 attempts per step, 6
iterations and 2 gates per attempt. Two of each suffice for a retry after a
retry, a replan after a replan and a second gate after an answered one; three
steps let a replan leave fewer, as many or more. `MaxIterations` is large enough
for a retried step, a replan and the repair, and small enough for the budget to
be hit. One timed gate (`Timeouts = {"scope"}`) and one that waits for ever are
both present. The violated runs use smaller instances, which is enough to find
the shortest counterexample. `StepWorkspace`: two files, one that exists before
the run and one that it creates; two or three steps with all their orders; two
replans; `MaxStamps` bounds the attempts of a whole run, as the iteration budget
of the code does. `StepWorkspace_any` has all features on two steps, the
smallest plan in which a later step may stay completed while an earlier one is
reverted, and `StepWorkspace_kept` three steps, the smallest in which a step is
completed ahead of one that is reverted and another waits behind it.
`ChatThread`: 3 turns, 2 edits, 3 replies of the model per turn (an edit, the
next one, an end) and 1 malformed reply; a third turn is the first that can
find what a stop and a restart of earlier ones left. Deadlock is checked: a task
or a thread at rest takes an idle step. `Services` says `CHECK_DEADLOCK FALSE`,
because a loop that has returned, a patch that has landed or a spent bound on
events is where the exploration of a service really ends.

**Fairness.** `TaskRun`'s `FairSpec` assumes weak fairness of the coroutine as a
whole (the event loop runs what is ready, and every awaited model call,
validator or probe returns or raises; all have timeouts or fail with their
process) and of the user's answer at a gate of a running task. Nothing is
assumed of plan approval or of the final decision: there the coroutine has
ended. `RunComesToRest` needs the second assumption, since only gates with a
timeout end by themselves. `ChatThread`'s `FairSpec` is the same for a turn: weak
fairness of its steps, of the return of a stop that was asked for, and of the
decision at a gate that waits. `TurnSettles` needs the last one because the
edit gate of a turn waits for ever when no timeout is configured.

## 4. The proofs

`TaskRunProofs` proves, for every value of the constants and every set of
`Requests`: `TypeOK`, `BaselineHeld`, `OneCoroutine`, `RunningIsMarked` and
`AbortBeginsNoStep`. The first four follow from one inductive invariant
`Inv == RunInv /\ SideTypes`. None of the four is inductive as it stands: that
the baseline is held needs that no final decision, which may remove it, is open
before the end of the run (`NotYetFinal`), that the guard and the mark are held needs to know
which stretches hold them (`GuardHeld`), and that the counters keep their
types needs that a step is completed only where one is left (`StepIsLeft`). The
stretches are treated by one lemma each, stated for any record and directory
argument, and the actions by citing the stretches they end with.
`AbortBeginsNoStep` is an action property that follows from the guards of the
stretches alone, whatever the state.

`TaskRunSafeProofs` proves every safety property of `TaskRun_safe`, for every
value of the constants, under `Patient`: the client neither cancels nor decides
before the run has ended. `TaskRun_early` and the findings of §6 show what those
two do to them, so the restriction is in the statements. `SafeInv` says where the
stored record and the coroutine's copy stand at each suspension point: the place
decides the status (`Standing`) and whether the copy is the record
(`CopyAgrees`), the shadow is there from the approval on (`HasShadow`), a future
waits exactly at its gate (`Heard`), the marks go with the coroutine (`Released`)
and what is validated has no step left (`PlanIsDone`). None of the properties
carries itself: that a gate can be answered needs that the transition table never
refuses it, hence the status at the tool loop; that a review is actionable needs
the shadow and the plan of the copy that the verdict is saved with, back to the
approval. `TerminalIsFinal` and the refinement `LifeSpec` follow from the
moves a step makes of the status (`StepMoves`), read off `SafeInv` before and
after the step: a stretch of a run leaves the coroutine inside the run, at its
narrative or ended by an abort (`RunOnward`).

`StepWorkspaceProofs` proves every property of the two passing runs, `TypeOK`
included:

* `TypeOK` by `Typed`, which adds that a step under review is a step of the
  plan, never the repair: without it, accepting the step might mark the repair as
  completed. No revision leaves a plan that names a step twice.
* `CompletedWorkIsInShadow` when revisions take back every completed step that
  follows a reverted one and none that waits since an earlier revision, nothing is discarded, no
  patch fails half-way and no command changes files. The invariant `Kept`
  speaks of the plan's order: the work of the completed steps is in the shadow
  between attempts, in the tree a running attempt goes back to, and in every
  checkpoint as far as the steps before its own are concerned (`CheckpointsHold`),
  and a step that runs is the next one due.
* `ChangesAreTracked` and `RevertIsTrue` when no step is discarded, for any
  plan, files, patches, failed patches, revisions and retries. The invariant
  `Tracked` adds that the files of a step under review are in `modified` before
  the review is answered, since accepting it promotes them without another merge.
* `AcceptDelivers` when moreover no patch fails half-way and no command changes
  files. The invariant `Listed` says of every tree the shadow may go back to
  (checkpoints and the one of the running attempt) what `Tracked` says of the
  real workspace: it differs from the baseline in modified files only. So
  whatever the plan, a file that is not promoted at the end is the same in both.
* `NoUnreviewedChange` with every feature. The invariant `Reviewed` adds
  `Provenance`: a file a running step touched holds its stamp or what the
  attempt found, so that promoting the touched files grants that stamp and
  carries nothing else.
* `AttemptsStartAlike` with every feature, by `Anchored`: the checkpoint of the
  running attempt is the one recorded for its step.
* `CompletedIsPromoted` and `DiscardRestores` with every feature, by `Mirrored`:
  before the first replan an attempt starts from the real workspace, and the
  shadow differs from there by the attempt's own writes. The stamp is a positive
  number there, because promotion skips files that are absent.

`ChatThreadProofs` proves every invariant of `ChatThread_turns` for any bounds
and any `Requests`: `TypeOK`, `ActiveIsLive`, `GateHasOwner`, `EditsAreOnRecord`,
`PromotedIsRemembered`, `RelaysEnd`. They are proved together,
because the ends of a turn (reply, stop, timeout, error, restart) each release
what several of them speak of. The strengthening says whose a future is
(`FutureHasTurn`), that a stop has a turn to reach (`StopHasTurn`), that the edit
at the gate has no card yet (`EditIsNew`), that the stored ledger is the one
decided by (`LedgerIsShown`), where the knowledge of a promoted edit is while a
turn runs (`HistoryKnows`) and which requests relay (`RelaysKnown`).

The theorems about the eleven services are theorems of the specification
`Services`, for every value of its constants, the budgets and bounds included.
Each rests on an invariant of the variable of its own service.

`LoopProofs`:

* `VerifiedIsChecked`, for any files, manifests and budgets. `LoopInv` is about
  the states from which `verify_done` can be reached without another patch
  (`CLEAN`, `TEST_FAILED`, `TEST_PASSED`): there no touched file has an error the
  step introduced, whatever path led there, and what is owed to a manifest is
  pending.
* `ValidatedIsNoWorse`, for any tools of a workspace and any candidates. `ValInv`
  carries the two facts the property hides: every attempt starts from the
  workspace as the run found it (`FromTheStart`, also after a candidate that
  stopped half-way), and the run is judged against the complaints of that
  workspace and no others (`Judged`). The step from "this message was there" to
  "these tests failed before" is the lemma `SameFingerprint`: normalised
  messages of one command are equal only if the same files are in them. What the
  property does not say is what the code does not ensure: where pytest
  complained before, a test that can no longer be set up or collected is
  forgiven as long as the set of failed tests is the same (section 6).
* `RoundDelivers`, for any budgets and number of rounds: nobody touches the plan
  the user was shown while a round runs.

`EditProofs`:

* `LandsAsChecked`, for any sources, operations and policies, whatever the splice
  of a node operation puts where the module has its statements. The preflight and
  the application are separate code over separate copies, so `PatchInv` ties them
  by a trace: the sources before each operation as the preflight simulated them.
  While the patch is applied the files agree with that trace (`Alike`), but for
  those the patch deletes or edits by node (`Loose`), of which nothing is known
  from the preflight. Of these it says instead that they have their syntax as
  soon as the last operation on them checks it (`Truthful`). What breaks the
  application off is in `Unforeseen`, the list of what only the application
  checks, and `Whole` is what the preflight judged at its end.
* `EditsLandAsDecided`, for any files and any number of edits and outside writes.
  `Sound` adds that edits and writes have numbers of their own (`Numbered`), the
  shadow carries nothing a rejected diff has shown (`Decided`), it holds files it
  was seeded with only (`Opened`), and while an edit is held its files are as they
  were shown and its number is in no other file (`Pending`), so that promoting
  them grants what was shown and restoring them removes what was rejected.
* `InlineAsShown`, for any messages, tasks, plans and changes. `ChatInv` says
  that a card points at something of the thread (`Carded`), that what a change
  would copy is what its card shows and has what was in the file when it was read
  (`Faithful`), that a change still being made has no card (`Making`, without
  which its shown part could still move under a decided card), and that the plan a
  task waits for is the one on its last card (`PlansShown`). That the last card is
  unique needs that a bounded set of numbers has extremes (`Extremes`).

`ResumeProofs`:

* `EnvironmentIsReal`, for any tasks and workspaces. `EnvInv` says that the lock
  and the building task belong together (`Locked`), that what a probe did not
  find was missing and is noted, or has been made since (`Drafted`), and of every
  entry of a profile that its runner in the workspace exists and is the entry's
  own or the root's choice (`Real`). Of a runner outside the workspace nothing is
  claimed: the code keeps it if the file exists.
* `ResumeContinues`, for any number of runs. `Line` follows every run on its own
  (`Sound`, by what it is doing: the work in its shadow is that of its steps, plus
  one while a step is half done; a fresh shadow while it is planned; no new error
  where it is ready for review without consent) and against its parent (`Follows`: a child still to be
  cloned counts the steps of a parent that has ended and does no more). The
  second is why the clone may come later than the checks of the route. A client
  is left waiting only where the code ends a task without a broadcast: a cancel,
  and an executable plan that does not fit its schema.

`KnowledgeProofs`:

* `MemoryIsGrounded`, for any messages, budgets and overlapping consolidations.
  `MemInv` says where a message is at every stage of a compaction (`Had`), and
  that no number of a span is yet to be given to a segment (`Numbered`, `Given`),
  so that later segments never change the text a memory was distilled from.
  The next number is above all others because a bounded set of numbers has a
  largest (`Largest`), and what a round cuts off and keeps is the whole history
  (`TailAndRest`).
* `CodeIndexIsTrue`, for any sources and any answers of the language server:
  `GraphInv` says that a call, resolved or parked, comes from a function that has
  a node (`Rooted`, `ParkedIn`), without which wiping a file would leave calls
  behind, and that the edges out of a file read again are exactly the calls of
  its source, each to what it resolved to (`Current`, by `Accounted`), which
  needs that resolving one file touches no edge of another. `Saved` does the
  same for what a reader finds on disk.
* `ChunksAreCurrent`, for any paths and any number of builds: `SemInv` says that
  a build has read settled files as they are (`InStep`) and that rows and builds
  never hold a time later than their text.

**Assumptions.** `TaskRunAssumption`, `StepWorkspaceAssumption`,
`ChatThreadAssumption` and `ServicesAssumption`: natural numbers where the code
has counters, a positive number of attempts, and known names of requests and
features; the lock file is not among the files patches name, the kinds of the
operations are those of `PatchOperationV2`, and no task is called as the free lock
is. TLC evaluates them in every run. The restrictions on `Features` and
`Requests` are in the statements of the theorems.

**What the proofs changed.** The proof of `LandsAsChecked` did not go through
because two arms of the case distinction in `Written` overlapped: TLC took the
first, the definition leaves it open which one holds. The arms exclude each
other now, and what an operation writes is the same.

**Only model-checked.** `RunComesToRest` and `TurnSettles`: liveness under
fairness is out of the prover's reach, as is ENABLED. Every safety property and
every action property of a passing run is stated by a theorem; those of
`TaskRun_safe` but `TypeOK` for a client that neither cancels nor decides early,
as its run has it.

## 5. What is not modelled

In modelled components:

* *Task life*: a rollback that itself raises inside the abort handler; the other
  tasks of the process (each task has its own record, control and directories,
  but `prune_checkpoints` removes directories of old tasks and is left out).
* *Task routes*: listings, settings and the memory routes read or write one record.
* *Streams*: the replay buffer is whether `done` was broadcast, not its limit of
  50 events.
* *Patch engine*: TypeScript and Rust node operations, diffs of several hunks,
  and the V1 entry points that nothing calls.
* *Command rules*: how a command line matches a rule. The gate that asks is
  modelled with either outcome.
* *Memory, retrieval*: scores, rankings and the graph walk are a choice of any
  part of what lives; prompts, embeddings and the text of chunks are left out.
* *Environment*: what an installer does inside.
* *Indexer*: the extractors of single languages, queries and the LSP transport.
* *Validator*: running commands and parsing output; a command is what it
  complains of.
* *Tool sources*: file and search helpers keep no state between calls.

Whole components: prompts and model transports (calls that return or raise),
wiring, debug artifacts, the scripted engine of the tests, the evaluation
harness (offline scripts without state), the VS Code host and webview beyond the
statuses they branch on (polling and rendering). The user's own edits of the real
workspace during a *task* are left out, since the repository promises nothing
about them; in chat edits and inline changes, where the code compares with what
the user has, they are modelled. The in-memory store shares one object with every
caller and hides the findings about stale copies; the models follow the SQLite
store, which `main.py` uses.

What a next extension would take: several tasks over one checkpoint directory,
where `prune_checkpoints` may remove what a running task goes back to.

## 6. Divergences met while modelling

Beside the six findings, which runs exhibit, these are places where the models
follow the code and a comment, a document or an expectation says otherwise.
Where the property of a module carries an exception, this is why.

*Tasks and files*

* `delete_file` removes directories only: a regular file passes the checks, is
  reported touched and stays (`patch/engine.py:413`; `docs/implementation-plan.md:453`
  says "Remove files"). In `StepWorkspace` and `PatchOps` it leaves its file alone.
* A step that a replan takes back keeps its checkpoint until a revision reverts
  it by name. All checkpoints are offered as revertable (`planning/agent.py:130`),
  where `docs/superpowers/specs/2026-04-27-agentic-planning-delta-replan-design.md:93`
  speaks of completed steps. Reverting such a step restores a shadow of before
  the redone work of a completed one. `StepWorkspace` has this as the feature
  `"stale"`; with it, three steps and two replans `CompletedWorkIsInShadow` fails.
* A resumed execution collects its baseline of errors on the shadow it inherits
  (`orchestrator/engine.py:1462`): errors of the parent count as old. Hence the
  exception in `ResumeContinues`.
* A child whose clone raises stays `PLANNED` with no coroutine, and after a
  restart a running task keeps its status with nothing to run it.
* Errors of pytest are forgiven by the names of its `FAILED` tests alone
  (`orchestrator/engine.py:2957`). Tests that cannot be set up or collected are
  in the summary as `ERROR` and are not looked at: beside the same failures a new
  one of them is forgiven, and a baseline of set-up errors alone forgives a later
  error of collection. Hence the exception in `ValidatedIsNoWorse`.
* Node operations exempt their file from the syntax check of the preflight, other
  operations on the same file included (`patch/engine.py:970`). The comment there
  gives the reason: the splice of the preflight is not what the application
  writes. A search or range operation that follows one on the same file is then
  written with its syntax unchecked (`:351`, `:424`); a validator that could look
  on (`:1041`) is passed by the loop over candidates alone
  (`orchestrator/engine.py:2713`). Hence the exceptions in `LandsAsChecked`.
* An executable plan that does not fit its schema fails the task with a return
  (`orchestrator/engine.py:576`), which broadcasts nothing, where every other
  failure broadcasts `done`. A client of the stream is sent pings for ever
  (`api/routes.py:491`). A child sent back to its plan is approved and run later
  outside `_in_flight_resume`, so that a second child may be started beside it.
  Hence what `ResumeContinues` says of clients and of children.
* One pending install is kept (`tools/loop.py:766`): a second manifest in
  another scope overwrites it. Hence `InstallsRun` speaks of one manifest.

*Chat*

* A turn stopped before its task first runs never enters `_run_turn`, and its
  registry entry stays: the thread answers 409 until a restart. The docstring of
  `stop_turn` says that `_run_turn` pops it (`chat/controller.py:723`).
  `ActiveIsLive` names the exception.
* A second mode or clarify decision returns without `chat_done`
  (`chat/controller.py:763`), and its relay does not end. `RelaysEnd` names it.
* A chat patch that raises half-way leaves what it wrote in the turn shadow, and
  a later accepted edit of the same file carries it, although the header of
  `chat/edit_session.py` says that shadow = real at every patch boundary.
* Promoting an inline change copies whole files from its shadow over what the
  user wrote since (`orchestrator/engine.py:1180`), and the `chat_done` of a
  resumed run closes whichever stream is open on the channel (`:873`).

*Environment, memory, index*

* The path of a runner is put below its directory unless it is absolute or the
  entry is the root's (`env/profile_builder.py:228`), and is kept if a file of
  that name exists (`:130`): an absolute path, one through `..`, a file that is no
  runner, and for the root the environment of another directory all pass.
  `RunnersAreReal` speaks of the others.
* The fallback of `setup_env` installs at the workspace root (`tools/env.py:459`),
  where the comment at `:470` says environments land in the directory asked for.
* A malformed reply to the draft of a profile raises; the docstring of
  `EnvProfileBuilder` (`env/profile_builder.py:246`) promises a bootstrap profile.
* Superseding a memory that was retired meanwhile overwrites what retired it
  (`memory/consolidator.py:199`).
* Skipping an index build beside a running one is called safe
  (`retrieval/artifact_client.py:184`): a snapshot written after the running
  build read its own waits for the next notification. A file written between the
  snapshot and a build keeps the old chunk boundaries with the new time until it
  is written again (`retrieval/semantic_index.py:130`).
* In the indexer the debounce keeps the first event of a burst and drops the
  last (`service.rs:204`), removed files keep their nodes, and the calls of a
  source with syntax errors stay parked and are resolved later to edges its next
  source does not have. `CallsAreCurrent` speaks of the files parsed since their
  last change without such leftovers.
* A call that the server places on an external node standing nearest to its
  definition keeps an edge to that name, and a later call of the name in the same
  function takes it away again (`resolver.rs:115`). `Accounted` names this: an
  edge may be missing only there.

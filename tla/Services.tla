------------------------------- MODULE Services -------------------------------
(***************************************************************************)
(* The services around a task.  They share no state in the code but what   *)
(* their own models hold (a shadow, a history, a store), so they are       *)
(* explored one at a time: "focus" chooses which one runs, and each        *)
(* property speaks of one focus.  TaskRun, StepWorkspace and ChatThread    *)
(* compose those that do interact; MCServices has the instances explored.  *)
(***************************************************************************)
EXTENDS Naturals, FiniteSets

CONSTANTS
    \* StepLoop
    LoopFiles, LoopManifests, MaxExplore, MaxVerify, Slack, MaxPatchRetries,
    \* PatchOps
    PatchTrees, PatchSet, MaxPatchOps, Python, Scope, Forbidden, Escaping,
    \* PlanLoop
    MaxPlanCalls, MaxPlanRetries, MaxMalformed, MaxRounds,
    \* EditSession
    EditNames, MaxEdits,
    \* Memory
    Sizes, Trigger, HotBudget, HotTurns, MaxMessages, MaxMemories, MaxConsolidations,
    \* Lineage
    MaxLineage, MaxSteps, MaxSnapshots,
    \* InlineChat
    MaxTurns, MaxChatCalls, MaxChatTasks, MaxPlans, Window,
    \* Validation
    ValProjects, ValTrees, Candidates, MaxProposed, MaxAttempts, MaxOps,
    \* EnvProfile
    EnvTasks, EnvProjects, MaxEvents,
    \* CodeGraph
    Sources, Implementations, MaxGraphWrites,
    \* SemanticIndex
    Paths, MaxClock, MaxGen

VARIABLES focus, loop, patch, plan, edit, mem, tasks, chat, val, env, graph, index

Loop == INSTANCE StepLoop WITH Files <- LoopFiles, Manifests <- LoopManifests

Patch == INSTANCE PatchOps WITH Trees <- PatchTrees, Ops <- PatchSet, MaxOps <- MaxPatchOps

Plan == INSTANCE PlanLoop WITH MaxCalls <- MaxPlanCalls, MaxRetries <- MaxPlanRetries

Edit == INSTANCE EditSession WITH Names <- EditNames, MaxWrites <- MaxEdits

Mem == INSTANCE Memory WITH MaxTasks <- MaxConsolidations

Lin == INSTANCE Lineage WITH MaxTasks <- MaxLineage

Inl == INSTANCE InlineChat WITH MaxCalls <- MaxChatCalls, MaxTasks <- MaxChatTasks

Val == INSTANCE Validation WITH Projects <- ValProjects, Trees <- ValTrees

Env == INSTANCE EnvProfile WITH Tasks <- EnvTasks, Projects <- EnvProjects

Graph == INSTANCE CodeGraph WITH Versions <- Sources, MaxWrites <- MaxGraphWrites

Sem == INSTANCE SemanticIndex

\* The lock file is not a file patches name, an operation of a patch is one of those the
\* engine knows, and "free" is no task.
ASSUME ServicesAssumption ==
    /\ Loop!Lock \notin LoopFiles
    /\ \A op \in PatchSet : op.kind \in Patch!Kinds
    /\ "free" \notin EnvTasks

-----------------------------------------------------------------------------

Init ==
    /\ focus \in {"loop", "patch", "plan", "edit", "memory", "lineage", "inline", "valid", "env", "graph", "index"}
    /\ Loop!Init /\ Patch!Init /\ Plan!Init /\ Edit!Init /\ Mem!Init /\ Lin!Init
    /\ Inl!Init /\ Val!Init /\ Env!Init /\ Graph!Init /\ Sem!Init

Next ==
    /\ focus' = focus
    /\ \/ focus = "loop" /\ Loop!Next /\ UNCHANGED <<patch, plan, edit, mem, tasks, chat, val, env, graph, index>>
       \/ focus = "patch" /\ Patch!Next /\ UNCHANGED <<loop, plan, edit, mem, tasks, chat, val, env, graph, index>>
       \/ focus = "plan" /\ Plan!Next /\ UNCHANGED <<loop, patch, edit, mem, tasks, chat, val, env, graph, index>>
       \/ focus = "edit" /\ Edit!Next /\ UNCHANGED <<loop, patch, plan, mem, tasks, chat, val, env, graph, index>>
       \/ focus = "memory" /\ Mem!Next /\ UNCHANGED <<loop, patch, plan, edit, tasks, chat, val, env, graph, index>>
       \/ focus = "lineage" /\ Lin!Next /\ UNCHANGED <<loop, patch, plan, edit, mem, chat, val, env, graph, index>>
       \/ focus = "inline" /\ Inl!Next /\ UNCHANGED <<loop, patch, plan, edit, mem, tasks, val, env, graph, index>>
       \/ focus = "valid" /\ Val!Next /\ UNCHANGED <<loop, patch, plan, edit, mem, tasks, chat, env, graph, index>>
       \/ focus = "env" /\ Env!Next /\ UNCHANGED <<loop, patch, plan, edit, mem, tasks, chat, val, graph, index>>
       \/ focus = "graph" /\ Graph!Next /\ UNCHANGED <<loop, patch, plan, edit, mem, tasks, chat, val, env, index>>
       \/ focus = "index" /\ Sem!Next /\ UNCHANGED <<loop, patch, plan, edit, mem, tasks, chat, val, env, graph>>

vars == <<focus, loop, patch, plan, edit, mem, tasks, chat, val, env, graph, index>>

Spec == Init /\ [][Next]_vars

\* The step loop (tools/loop.py) reports a step as verified only after its commands ran and
\* passed since the last patch, with no error it introduced left in a file it touched, no
\* install a manifest asked for outstanding, and a rewritten lock file among its files.
VerifiedIsChecked == focus = "loop" => Loop!VerifiedIsChecked /\ Loop!InstallsRun

\* What the preflight of a patch accepted (patch/engine.py) is what its application writes,
\* and the application breaks off only for what the preflight cannot know.
LandsAsChecked == focus = "patch" => Patch!LandsAsChecked

\* A planning round (planning/agent.py) gives the plan it was asked for: patched from the
\* plan the user saw, whatever earlier rounds and failed patches left in the scratch file.
RoundDelivers == focus = "plan" => Plan!RoundDelivers

\* A chat edit (chat/edit_session.py) that was rejected is in no file of the user's, whatever
\* edits of the same files follow, and what is there was shown in an accepted diff.
EditsLandAsDecided == focus = "edit" => Edit!EditsLandAsDecided

\* Compaction loses no message (memory/harness.py): each is in the history or in a segment,
\* and a memory names the very segments it was distilled from.
MemoryIsGrounded == focus = "memory" => Mem!MemoryIsGrounded

\* A resumed task (api/routes.py, orchestrator/engine.py) runs on the work of its completed
\* steps, all of it and no other, one child of a parent at a time.
ResumeContinues == focus = "lineage" => Lin!ResumeContinues

\* What a chat agent's card says was done is what was done (chat/agent.py), restarts between
\* a diff and its decision included.
InlineAsShown == focus = "inline" => Inl!InlineAsShown

\* A step that completes leaves exactly its chosen candidate in the shadow, and a run that
\* passes validation fails no test and reports no complaint that was not there before it, but
\* for the errors an earlier complaint of pytest forgives (orchestrator/engine.py).
ValidatedIsNoWorse == focus = "valid" => Val!ValidatedIsNoWorse

\* A task that asks for the environment profile (env/profile_builder.py) gets one built by
\* one builder; an environment it names is on disk, and what the probe noted of a directory
\* is that directory's own or absent.
EnvironmentIsReal == focus = "env" => Env!EnvironmentIsReal

\* The graph of the code (indexer-rs) has the calls of the sources last read, each an edge to
\* what it resolved to, and no edge of earlier ones, through bursts of events, removals and
\* sources with errors.
CodeIndexIsTrue == focus = "graph" => Graph!GraphIsCurrent

\* No chunk (retrieval/semantic_index.py) is taken for newer than its text, and a build that
\* is marked has left none of an older text, through writes that fall between the steps of a
\* build, builds that overlap or fail, and restarts.
ChunksAreCurrent == focus = "index" => Sem!SemanticIsTrue
=============================================================================

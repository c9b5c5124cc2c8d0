------------------------------ MODULE EnvProfile ------------------------------
(***************************************************************************)
(* The environment of a workspace: tasks that start together have its      *)
(* profile built once, by a probe and a draft of the model, under a lock;  *)
(* then each makes environments in the one real workspace by its installs. *)
(* A profile is read for as long as it is young, whatever happens to the   *)
(* workspace meanwhile.                                                    *)
(***************************************************************************)
EXTENDS Naturals, FiniteSets

CONSTANTS
    Tasks,        \* the tasks of the workspace
    Projects,     \* the workspaces: [files: directory -> file names, made: directories, tools: names]
    MaxEvents     \* bound: crashes, edits, installs and the file growing old

VARIABLE env

Dirs == {"", "sub"}                  \* the root of the workspace, and a package below it

Ecosystems == {"python", "node", "rust"}
Manifest == [python |-> "pyproject.toml", node |-> "package.json", rust |-> "Cargo.toml"]

Profile(entries, absent, bootstrap) ==
    [state |-> "readable", entries |-> entries, absent |-> absent, bootstrap |-> bootstrap]
NoProfile == [Profile({}, {}, FALSE) EXCEPT !.state = "missing"]
Torn == [Profile({}, {}, FALSE) EXCEPT !.state = "torn"]
Readable(p) == p.state = "readable"

Idle == [pc |-> "new", tries |-> 0, pinned |-> << >>, absent |-> {}, shadow |-> [d \in Dirs |-> {}]]

Job(t) == env.jobs[t]
Update(t, job) == [env EXCEPT !.jobs[t] = job]

\* The task goes on with or without a profile: its shadow is cloned from the real workspace.
Proceeds(t) == [Idle EXCEPT !.pc = "ready", !.shadow = env.files]

Bounded == env.events < MaxEvents
Event(e) == [e EXCEPT !.events = @ + 1]

-----------------------------------------------------------------------------
(* The profile                                                              *)

Stale == env.profile = NoProfile \/ env.old

Fact(d, eco) == [dir |-> d, eco |-> eco]

Probed(files) ==
    {f \in {Fact(d, eco) : d \in Dirs, eco \in Ecosystems} : Manifest[f.eco] \in files[f.dir]}

\* Where the runner of an ecosystem would be: an environment of the directory.
Made(f) == Fact(f.dir, f.eco) \in env.made

Absent(files) == {f \in Probed(files) : f.eco # "rust" /\ ~Made(f)}

\* A lockfile pins the manager; without one the model is asked.
Pinned(f) ==
    LET has(lock) == lock \in env.files[f.dir]
    IN CASE f.eco = "python" -> IF has("uv.lock") THEN "uv"
                                ELSE IF has("poetry.lock") THEN "poetry"
                                ELSE IF has("requirements.txt") THEN "pip" ELSE "none"
         [] f.eco = "node" -> IF has("package-lock.json") THEN "npm"
                              ELSE IF has("yarn.lock") THEN "yarn" ELSE "none"
         [] OTHER -> "cargo"

\* A runner is named by the directory whose environment it is in; "elsewhere" is any other
\* path of the disk: an absolute one, one through "..", a file that is no runner.
Runners == Dirs \cup {"elsewhere", "none"}

\* A runner is kept only if it is on disk; nothing else is asked of it.
Verified(f, runner) ==
    IF runner \in Dirs => Fact(runner, f.eco) \in env.made THEN runner ELSE "none"

Entry(f, manager, runner, source) ==
    [dir |-> f.dir, eco |-> f.eco, manager |-> manager, runner |-> runner, source |-> source]

Synthesized(pinned) ==
    {Entry(f, pinned[f], IF f.eco = "rust" THEN "none" ELSE Verified(f, f.dir), "probe") : f \in DOMAIN pinned}

\* Mutant: every path stays as the model gave it.
UnprefixedRunner(f, guess) == guess

\* The model may name any path.  A relative one that does not begin with the entry's own
\* directory, the root's runner, is put below it; others stay, and for the root all do.
Normalised(f, guess) == IF guess = "" THEN f.dir ELSE guess

-----------------------------------------------------------------------------
(* Ensuring it                                                              *)

Open(p) ==
    /\ env.jobs = [t \in Tasks |-> Idle] /\ env.tools = {}
    /\ env' = [env EXCEPT !.files = p.files, !.made = p.made, !.tools = p.tools]

Arrive(t) ==
    /\ env.tools # {} /\ Job(t).pc = "new"
    /\ env' = Update(t, [Idle EXCEPT !.pc = "queued"])

Enter(t) ==
    /\ Job(t).pc = "queued" /\ env.lock = "free"
    /\ env' = IF Stale THEN [Update(t, [Job(t) EXCEPT !.pc = "probe"]) EXCEPT !.lock = t]
              ELSE Update(t, Proceeds(t))

Probe(t) ==
    /\ Job(t).pc = "probe"
    /\ env' = Update(t, [Job(t) EXCEPT !.pc = "draft", !.absent = Absent(env.files),
                                         !.pinned = [f \in Probed(env.files) |-> Pinned(f)]])

Facts(t) == DOMAIN Job(t).pinned

\* The lock is left, whatever came of the build.
Leaves(t) == [Update(t, Proceeds(t)) EXCEPT !.lock = "free"]

\* The write may fail, before the file is opened or with a part of it written.
Writes(t, profile) ==
    \E left \in {profile, Torn, env.profile} :
        env' = [Leaves(t) EXCEPT !.profile = left,
                                 !.old = IF left = env.profile THEN @ ELSE FALSE]

Synthesize(t) ==
    /\ Job(t).pc = "draft" /\ \A f \in Facts(t) : Job(t).pinned[f] # "none"
    /\ Writes(t, Profile(Synthesized(Job(t).pinned), Job(t).absent, Facts(t) = {}))

Ambiguous(t) ==
    Job(t).pc = "draft" /\ \E f \in Facts(t) : Job(t).pinned[f] = "none"

\* One call and one more.
DraftFails(t) ==
    /\ Ambiguous(t)
    /\ IF Job(t).tries = 0 THEN env' = Update(t, [Job(t) EXCEPT !.tries = 1])
       ELSE Writes(t, Profile({}, Job(t).absent, TRUE))

\* The manager the model names, one of those of the ecosystem.
Chosen(f, pips) ==
    CASE f.eco = "node" -> "npm" [] f.eco = "rust" -> "cargo" [] OTHER -> IF f \in pips THEN "pip" ELSE "uv"

\* An entry may be left out (bound: one of them), and a reply of another shape raises out of the build.  The
\* entries of a reply are judged one by one: they share a guess here.
Draft(t, listed, guess) ==
    /\ Ambiguous(t)
    /\ \/ \E pips \in SUBSET {f \in listed : f.eco = "python"} :
             Writes(t, Profile({Entry(f, Chosen(f, pips), Verified(f, Normalised(f, guess)), "model") : f \in listed},
                               Job(t).absent, FALSE))
       \/ env' = Leaves(t)

Cancel(t) ==
    /\ Job(t).pc \in {"queued", "probe", "draft"} /\ Bounded
    /\ env' = [Event(Update(t, [Idle EXCEPT !.pc = "gone"])) EXCEPT !.lock = IF @ = t THEN "free" ELSE @]

-----------------------------------------------------------------------------
(* Installing from it                                                       *)

\* Without its manager, an install falls back to an environment at the root.
InstallRoot(manager, dir) == IF manager \in env.tools THEN dir ELSE ""

\* The environment an install makes, if it comes to that: by its manager or, for Python, by
\* venv and pip; the others leave theirs in the shadow.
Installed(e) ==
    IF e.manager \in {"uv", "pip"} \/ (e.manager = "yarn" /\ "yarn" \in env.tools)
    THEN [env EXCEPT !.made = @ \cup {Fact(InstallRoot(e.manager, e.dir), e.eco)}]
    ELSE env

\* Refused without the directory; one that fails or times out may have made it or not.
Install(t, e) ==
    /\ Job(t).pc = "ready" /\ Bounded
    /\ e.dir # "" => Job(t).shadow[e.dir] # {}
    /\ \E left \in {env, Installed(e)} : env' = Event(left)

InitWorkspace(t, eco) ==
    /\ Job(t).pc = "ready" /\ Manifest[eco] \notin Job(t).shadow[""]
    /\ env' = [env EXCEPT !.jobs[t].shadow[""] = @ \cup {Manifest[eco]}]

Promote(t) ==
    /\ Job(t).pc = "ready"
    /\ env' = [env EXCEPT !.files = [d \in Dirs |-> @[d] \cup Job(t).shadow[d]], !.jobs[t] = [Idle EXCEPT !.pc = "gone"]]

-----------------------------------------------------------------------------
(* Around it                                                                *)

GrowOld == Bounded /\ env.profile # NoProfile /\ ~env.old
           /\ env' = Event([env EXCEPT !.old = TRUE])

Edit(d, name) == Bounded /\ env.tools # {} /\ name \notin env.files[d]
                 /\ env' = Event([env EXCEPT !.files[d] = @ \cup {name}])

Crash == Bounded /\ (\E t \in Tasks : Job(t).pc # "new")
         /\ env' = Event([env EXCEPT !.jobs = [t \in Tasks |-> Idle], !.lock = "free"])

Init ==
    env = [jobs |-> [t \in Tasks |-> Idle], lock |-> "free", profile |-> NoProfile, old |-> FALSE,
           files |-> [d \in Dirs |-> {}], made |-> {}, tools |-> {}, events |-> 0]

Next ==
    \/ \E p \in Projects : Open(p)
    \/ \E t \in Tasks :
          \/ Arrive(t) \/ Enter(t) \/ Probe(t) \/ Synthesize(t) \/ DraftFails(t) \/ Cancel(t) \/ Promote(t)
          \/ Job(t).pc = "draft" /\ \E listed \in SUBSET Facts(t), guess \in Runners :
                Cardinality(Facts(t) \ listed) <= 1 /\ Draft(t, listed, guess)
          \/ Readable(env.profile) /\ \E e \in env.profile.entries : Install(t, e)
          \/ \E eco \in Ecosystems : InitWorkspace(t, eco)
    \/ GrowOld \/ Crash
    \/ \E name \in {"uv.lock", "pyproject.toml"} : Edit("sub", name)

-----------------------------------------------------------------------------

\* A task that waits, waits for one that builds, and only a profile that is missing or too
\* old is built.
BuiltOnce ==
    /\ env.lock # "free" => Job(env.lock).pc \in {"probe", "draft"}
    /\ \A t \in Tasks : Job(t).pc \in {"probe", "draft"} => (env.lock = t /\ Stale)

\* The profile says what the disk has, now and not only when it was built: the environment
\* whose runner an entry names is there.  What a probe wrote is its own directory's, or was
\* missing with a diagnostic that says so; what the model wrote below the root is never the
\* root's environment by its relative path.  A path elsewhere is the model's word.
RunnersAreReal ==
    Readable(env.profile) => \A e \in env.profile.entries :
        /\ e.runner \in Dirs => Fact(e.runner, e.eco) \in env.made
        /\ e.runner \in Dirs => e.runner = e.dir \/ (e.source = "model" /\ e.dir = "")
        /\ e.source = "probe" =>
             /\ e.runner # "elsewhere"
             /\ e.runner = "none" /\ e.eco # "rust" => Fact(e.dir, e.eco) \in env.profile.absent

EnvironmentIsReal == BuiltOnce /\ RunnersAreReal
=============================================================================

---------------------------- MODULE ResumeProofs ------------------------------
(***************************************************************************)
(* What TLAPS proves about what a run goes on with, for any tasks, runs and *)
(* projects: its environment profile, and the shadow it takes over.         *)
(***************************************************************************)
EXTENDS Services, Sequences, TLAPS


\* The environment and the jobs have their fields.
JobShaped(j) ==
    \E a, b, c, d, e : j = [pc |-> a, tries |-> b, pinned |-> c, absent |-> d, shadow |-> e]
EnvShaped(e) ==
    /\ e = [jobs |-> e.jobs, lock |-> e.lock, profile |-> e.profile, old |-> e.old,
            files |-> e.files, made |-> e.made, tools |-> e.tools, events |-> e.events]
    /\ e.jobs = [t \in EnvTasks |-> e.jobs[t]] /\ e.lock \in EnvTasks \cup {"free"}
    /\ \A t \in EnvTasks : JobShaped(e.jobs[t])

\* Before the workspace is opened there is no task, no profile and no install.
Unopened(e) ==
    e.tools = {} => /\ \A t \in EnvTasks : e.jobs[t].pc = "new"
                    /\ e.profile = Env!NoProfile

\* A task that builds has the lock, and the lock a task that builds.
Locked(e) ==
    /\ e.lock # "free" => e.jobs[e.lock].pc \in {"probe", "draft"}
    /\ \A t \in EnvTasks : e.jobs[t].pc \in {"probe", "draft"} =>
         e.lock = t /\ (e.profile = Env!NoProfile \/ e.old)

\* What the probe did not find was missing, and is noted, or has been made since.
Drafted(e) ==
    \A t \in EnvTasks : e.jobs[t].pc = "draft" =>
        \A f \in DOMAIN e.jobs[t].pinned :
            /\ f.dir \in Env!Dirs /\ f.eco \in Env!Ecosystems /\ f = Env!Fact(f.dir, f.eco)
            /\ f.eco # "rust" /\ f \notin e.made => f \in e.jobs[t].absent

\* The profile p says of the environments made what there is.
RealEntry(x, absent, made) ==
    /\ x.runner \in Env!Dirs => Env!Fact(x.runner, x.eco) \in made
    /\ x.runner \in Env!Dirs => x.runner = x.dir \/ (x.source = "model" /\ x.dir = "")
    /\ x.source = "probe" =>
         /\ x.runner # "elsewhere"
         /\ x.runner = "none" /\ x.eco # "rust" => Env!Fact(x.dir, x.eco) \in absent
Real(p, made) == Env!Readable(p) => \A x \in p.entries : RealEntry(x, p.absent, made)

EnvInv ==
    /\ EnvShaped(env) /\ Unopened(env) /\ Locked(env) /\ Drafted(env)
    /\ Real(env.profile, env.made)

\* A job keeps its fields when some of them change.
LEMMA JobMoves ==
    ASSUME NEW c, JobShaped(c), NEW d, NEW pc, d = [c EXCEPT !.pc = pc]
    PROVE  JobShaped(d) /\ d.pc = pc
<1>1. PICK a1, a2, a3, a4, a5 : c = [pc |-> a1, tries |-> a2, pinned |-> a3, absent |-> a4, shadow |-> a5]
  BY DEF JobShaped
<1>2. d = [pc |-> pc, tries |-> a2, pinned |-> a3, absent |-> a4, shadow |-> a5]
  BY <1>1
<1> QED
  BY <1>2 DEF JobShaped

\* So it does when a try is counted.
LEMMA JobTries ==
    ASSUME NEW c, JobShaped(c), NEW d, NEW tries, d = [c EXCEPT !.tries = tries]
    PROVE  JobShaped(d) /\ d.pc = c.pc /\ d.pinned = c.pinned /\ d.absent = c.absent
<1>1. PICK a1, a2, a3, a4, a5 : c = [pc |-> a1, tries |-> a2, pinned |-> a3, absent |-> a4, shadow |-> a5]
  BY DEF JobShaped
<1>2. d = [pc |-> a1, tries |-> tries, pinned |-> a3, absent |-> a4, shadow |-> a5]
  BY <1>1
<1> QED
  BY <1>1, <1>2 DEF JobShaped

\* So it does when its draft is written.
LEMMA JobWrites ==
    ASSUME NEW c, JobShaped(c), NEW d, NEW shadow, d = [c EXCEPT !.shadow = shadow]
    PROVE  JobShaped(d) /\ d.pc = c.pc
<1>1. PICK a1, a2, a3, a4, a5 : c = [pc |-> a1, tries |-> a2, pinned |-> a3, absent |-> a4, shadow |-> a5]
  BY DEF JobShaped
<1>2. d = [pc |-> a1, tries |-> a2, pinned |-> a3, absent |-> a4, shadow |-> shadow]
  BY <1>1
<1> QED
  BY <1>1, <1>2 DEF JobShaped

\* A task that goes on is none that builds.
LEMMA ProceedsIsReady ==
    ASSUME NEW t
    PROVE  JobShaped(Env!Proceeds(t)) /\ Env!Proceeds(t).pc = "ready"
<1>1. PICK s, f, p : s = [d \in Env!Dirs |-> {}] /\ f = env.files /\ p = Env!Proceeds(t)
  OBVIOUS
<1>2. Env!Idle = [pc |-> "new", tries |-> 0, pinned |-> << >>, absent |-> {}, shadow |-> s]
  BY <1>1 DEF Env!Idle
<1>3. p = [Env!Idle EXCEPT !.pc = "ready", !.shadow = f]
  BY <1>1 DEF Env!Proceeds
<1>4. p = [pc |-> "ready", tries |-> 0, pinned |-> << >>, absent |-> {}, shadow |-> f]
  BY <1>2, <1>3
<1>5. JobShaped(p) /\ p.pc = "ready"
  BY <1>4 DEF JobShaped
<1> QED
  BY <1>1, <1>5

\* A task that has not begun, or has gone, has the fields of one.
LEMMA IdleIsShaped ==
    ASSUME NEW pc
    PROVE  JobShaped([Env!Idle EXCEPT !.pc = pc]) /\ JobShaped(Env!Idle) /\ Env!Idle.pc = "new"
<1>1. PICK s, p : s = [d \in Env!Dirs |-> {}] /\ p = [Env!Idle EXCEPT !.pc = pc]
  OBVIOUS
<1>2. Env!Idle = [pc |-> "new", tries |-> 0, pinned |-> << >>, absent |-> {}, shadow |-> s]
  BY <1>1 DEF Env!Idle
<1>3. p = [pc |-> pc, tries |-> 0, pinned |-> << >>, absent |-> {}, shadow |-> s]
  BY <1>1, <1>2
<1>4. JobShaped(p)
  BY <1>3 DEF JobShaped
<1>5. JobShaped(Env!Idle) /\ Env!Idle.pc = "new"
  BY <1>2 DEF JobShaped
<1> QED
  BY <1>1, <1>4, <1>5

\* A profile without entries is real, and so is one that cannot be read.
LEMMA EmptyIsReal ==
    ASSUME NEW absent, NEW bootstrap, NEW made
    PROVE  /\ Real(Env!Profile({}, absent, bootstrap), made) /\ Real(Env!Torn, made) /\ Real(Env!NoProfile, made)
           /\ Env!Torn # Env!NoProfile
<1>1. Env!Torn.state = "torn" /\ Env!NoProfile.state = "missing"
  BY DEF Env!Torn, Env!NoProfile, Env!Profile
<1>2. Env!Profile({}, absent, bootstrap).entries = {}
  BY DEF Env!Profile
<1> QED
  BY <1>1, <1>2 DEF Real, Env!Readable

\* The task that builds leaves: the lock is free, and the profile is written or not.
LEMMA WritesKeep ==
    ASSUME EnvInv, NEW t \in EnvTasks, env.jobs[t].pc = "draft", NEW p, Real(p, env.made), Env!Writes(t, p)
    PROVE  EnvInv'
<1>1. PICK left \in {p, Env!Torn, env.profile} :
        env' = [Env!Leaves(t) EXCEPT !.profile = left,
                                 !.old = IF left = env.profile THEN env.old ELSE FALSE]
  BY DEF Env!Writes, Env!Leaves, Env!Update, EnvInv, EnvShaped
<1>2. /\ EnvShaped(env)' /\ env'.jobs = [env.jobs EXCEPT ![t] = Env!Proceeds(t)] /\ env'.lock = "free"
      /\ env'.profile = left /\ env'.made = env.made /\ env'.tools = env.tools
  BY <1>1, ProceedsIsReady DEF EnvInv, EnvShaped, Env!Leaves, Env!Update
<1>3. \A u \in EnvTasks \ {t} : env.jobs[u].pc \notin {"probe", "draft"}
  BY ServicesAssumption DEF EnvInv, Locked
<1>4. \A u \in EnvTasks : env'.jobs[u].pc \notin {"probe", "draft"}
  BY <1>2, <1>3, ProceedsIsReady DEF EnvInv, EnvShaped
<1>5. Real(left, env.made)
  BY EmptyIsReal DEF EnvInv
<1>6. env.tools # {}
  BY DEF EnvInv, Unopened
<1>7. Unopened(env)' /\ Locked(env)' /\ Drafted(env)'
  BY <1>2, <1>4, <1>6 DEF Unopened, Locked, Drafted
<1> QED
  BY <1>2, <1>5, <1>7 DEF EnvInv

\* A step that moves one task, which neither builds before nor after.
LEMMA MovesKeep ==
    ASSUME EnvInv, NEW t \in EnvTasks, NEW j, JobShaped(j), j.pc \notin {"probe", "draft"},
           env.tools # {}, env.jobs[t].pc \notin {"probe", "draft"},
           EnvShaped(env)', env'.jobs = [env.jobs EXCEPT ![t] = j],
           UNCHANGED <<env.lock, env.profile, env.old, env.made, env.tools>>
    PROVE  EnvInv'
<1>1. Unopened(env)' /\ Locked(env)' /\ Drafted(env)'
  BY ServicesAssumption DEF EnvInv, EnvShaped, Unopened, Locked, Drafted
<1>2. Real(env'.profile, env'.made)
  BY DEF EnvInv
<1> QED
  BY <1>1, <1>2 DEF EnvInv

\* A step that moves no task keeps it all, if environments and installs only grow.
LEMMA AroundKeeps ==
    ASSUME EnvInv, EnvShaped(env)', env.tools # {},
           UNCHANGED <<env.jobs, env.lock, env.profile, env.tools>>, env'.old = env.old \/ env'.old = TRUE,
           env.made \subseteq env'.made
    PROVE  EnvInv'
<1>1. Unopened(env)' /\ Locked(env)' /\ Drafted(env)'
  BY DEF EnvInv, EnvShaped, Unopened, Locked, Drafted
<1>2. Real(env'.profile, env'.made)
  BY DEF EnvInv, Real, RealEntry
<1> QED
  BY <1>1, <1>2 DEF EnvInv

\* An install only adds environments.
LEMMA InstallGrows ==
    ASSUME EnvShaped(env), NEW t, NEW e, Env!Install(t, e)
    PROVE  \E made : env' = Env!Event([env EXCEPT !.made = made]) /\ env.made \subseteq made
<1>1. env = [env EXCEPT !.made = env.made]
  BY DEF EnvShaped
<1>2. PICK left \in {env, Env!Installed(e)} : env' = Env!Event(left)
  BY DEF Env!Install
<1>3. \E made : left = [env EXCEPT !.made = made] /\ env.made \subseteq made
  <2>1. CASE left = env
    BY <1>1, <2>1
  <2>2. CASE left = [env EXCEPT !.made = env.made \cup {Env!Fact(Env!InstallRoot(e.manager, e.dir), e.eco)}]
    BY <2>2
  <2> QED
    BY <1>2, <2>1, <2>2 DEF Env!Installed
<1> QED
  BY <1>2, <1>3

\* A step of any task, or around them, keeps the invariant.
LEMMA EnvStep ==
    ASSUME EnvInv, Env!Next
    PROVE  EnvInv'
<1>0. EnvShaped(env)
  BY DEF EnvInv
<1>1. ASSUME NEW p \in EnvProjects, Env!Open(p) PROVE EnvInv'
  <2>1. /\ EnvShaped(env)' /\ env.jobs = [t \in EnvTasks |-> Env!Idle] /\ env.tools = {}
        /\ UNCHANGED <<env.jobs, env.lock, env.profile, env.old>>
    BY <1>0, <1>1 DEF Env!Open, EnvShaped
  <2>2. env.profile = Env!NoProfile /\ \A t \in EnvTasks : env.jobs[t].pc = "new"
    BY <2>1 DEF EnvInv, Unopened
  <2>3. env.lock = "free"
    BY <1>0, <2>2 DEF EnvInv, Locked, EnvShaped
  <2>4. Unopened(env)' /\ Locked(env)' /\ Drafted(env)'
    BY <2>1, <2>2, <2>3 DEF Unopened, Locked, Drafted
  <2>5. Real(env'.profile, env'.made)
    BY <2>1, <2>2, EmptyIsReal
  <2> QED
    BY <2>1, <2>4, <2>5 DEF EnvInv
<1>2. ASSUME NEW t \in EnvTasks, Env!Arrive(t) PROVE EnvInv'
  <2>1. PICK j : j = [Env!Idle EXCEPT !.pc = "queued"]
    OBVIOUS
  <2>2. JobShaped(j) /\ j.pc = "queued"
    BY <2>1, IdleIsShaped DEF Env!Idle
  <2>3. env' = [env EXCEPT !.jobs[t] = j] /\ env.tools # {} /\ env.jobs[t].pc = "new"
    BY <1>2, <2>1 DEF Env!Arrive, Env!Update, Env!Job
  <2>4. EnvShaped(env)' /\ env'.jobs = [env.jobs EXCEPT ![t] = j]
        /\ UNCHANGED <<env.lock, env.profile, env.old, env.made, env.tools>>
    BY <1>0, <2>2, <2>3 DEF EnvShaped
  <2> QED
    BY <2>2, <2>3, <2>4, MovesKeep
<1>3. ASSUME NEW t \in EnvTasks, Env!Enter(t) PROVE EnvInv'
  <2>0. env.tools # {} /\ env.jobs[t].pc = "queued" /\ env.lock = "free"
    BY <1>3 DEF EnvInv, Unopened, Env!Enter, Env!Job
  <2>1. CASE Env!Stale
    <3>1. PICK j : j = [env.jobs[t] EXCEPT !.pc = "probe"]
      OBVIOUS
    <3>2. JobShaped(j) /\ j.pc = "probe"
      <4>1. PICK c : c = env.jobs[t] /\ JobShaped(c)
        BY <1>0 DEF EnvShaped
      <4> QED
        BY <3>1, <4>1, JobMoves
    <3>3. env' = [[env EXCEPT !.jobs[t] = j] EXCEPT !.lock = t]
      BY <1>3, <2>1, <3>1 DEF Env!Enter, Env!Update, Env!Job
    <3>4. EnvShaped(env)' /\ env'.jobs = [env.jobs EXCEPT ![t] = j] /\ env'.lock = t
          /\ UNCHANGED <<env.profile, env.old, env.made, env.tools>>
      BY <1>0, <3>2, <3>3 DEF EnvShaped
    <3>5. \A u \in EnvTasks \ {t} : env'.jobs[u] = env.jobs[u] /\ env.jobs[u].pc \notin {"probe", "draft"}
      BY <1>0, <2>0, <3>4, ServicesAssumption DEF EnvInv, Locked, EnvShaped
    <3>6. env'.jobs[t] = j
      BY <1>0, <3>4 DEF EnvShaped
    <3>7. Unopened(env)' /\ Locked(env)' /\ Drafted(env)'
      BY <2>0, <2>1, <3>2, <3>4, <3>5, <3>6 DEF Unopened, Locked, Drafted, Env!Stale
    <3>8. Real(env'.profile, env'.made)
      BY <3>4 DEF EnvInv
    <3> QED
      BY <3>4, <3>7, <3>8 DEF EnvInv
  <2>2. CASE ~Env!Stale
    <3>1. PICK j : j = Env!Proceeds(t) /\ env' = [env EXCEPT !.jobs[t] = j]
      BY <1>3, <2>2 DEF Env!Enter, Env!Update
    <3>2. JobShaped(j) /\ j.pc = "ready"
      BY <3>1, ProceedsIsReady
    <3>3. EnvShaped(env)' /\ env'.jobs = [env.jobs EXCEPT ![t] = j]
          /\ UNCHANGED <<env.lock, env.profile, env.old, env.made, env.tools>>
      BY <1>0, <3>1, <3>2 DEF EnvShaped
    <3> QED
      BY <2>0, <3>2, <3>3, MovesKeep
  <2> QED
    BY <2>1, <2>2
<1>4. ASSUME NEW t \in EnvTasks, Env!Probe(t) PROVE EnvInv'
  <2>0. env.tools # {} /\ env.jobs[t].pc = "probe" /\ env.lock = t /\ (env.profile = Env!NoProfile \/ env.old)
    BY <1>4 DEF EnvInv, Unopened, Locked, Env!Probe, Env!Job
  <2>1. PICK absent, pinned : absent = Env!Absent(env.files) /\ pinned = [f \in Env!Probed(env.files) |-> Env!Pinned(f)]
    OBVIOUS
  <2>2. PICK j : j = [env.jobs[t] EXCEPT !.pc = "draft", !.absent = absent, !.pinned = pinned]
    OBVIOUS
  <2>3. JobShaped(j) /\ j.pc = "draft" /\ j.absent = absent /\ j.pinned = pinned
    <3>1. PICK c : c = env.jobs[t] /\ JobShaped(c)
      BY <1>0 DEF EnvShaped
    <3>2. PICK a1, a2, a3, a4, a5 : c = [pc |-> a1, tries |-> a2, pinned |-> a3, absent |-> a4, shadow |-> a5]
      BY <3>1 DEF JobShaped
    <3>3. PICK k : k = [c EXCEPT !.pc = "draft"]
      OBVIOUS
    <3>4. PICK l : l = [k EXCEPT !.absent = absent]
      OBVIOUS
    <3>5. j = [l EXCEPT !.pinned = pinned]
      BY <2>2, <3>1, <3>3, <3>4, Zenon
    <3>6. k = [pc |-> "draft", tries |-> a2, pinned |-> a3, absent |-> a4, shadow |-> a5]
      BY <3>2, <3>3
    <3>7. l = [pc |-> "draft", tries |-> a2, pinned |-> a3, absent |-> absent, shadow |-> a5]
      BY <3>4, <3>6
    <3>8. j = [pc |-> "draft", tries |-> a2, pinned |-> pinned, absent |-> absent, shadow |-> a5]
      BY <3>5, <3>7
    <3> QED
      BY <3>8 DEF JobShaped
  <2>4. env' = [env EXCEPT !.jobs[t] = j]
    BY <1>4, <2>1, <2>2 DEF Env!Probe, Env!Update, Env!Job
  <2>5. EnvShaped(env)' /\ env'.jobs = [env.jobs EXCEPT ![t] = j]
        /\ UNCHANGED <<env.lock, env.profile, env.old, env.made, env.tools>>
    BY <1>0, <2>3, <2>4 DEF EnvShaped
  <2>6. \A u \in EnvTasks : env'.jobs[u] = IF u = t THEN j ELSE env.jobs[u]
    BY <1>0, <2>5 DEF EnvShaped
  <2>7. Unopened(env)' /\ Locked(env)'
    BY <2>0, <2>3, <2>5, <2>6 DEF EnvInv, Unopened, Locked
  <2>8. \A f \in DOMAIN pinned :
          /\ f.dir \in Env!Dirs /\ f.eco \in Env!Ecosystems /\ f = Env!Fact(f.dir, f.eco)
          /\ f.eco # "rust" /\ f \notin env.made => f \in absent
    <3>1. DOMAIN pinned = Env!Probed(env.files)
      BY <2>1
    <3>2. ASSUME NEW f \in Env!Probed(env.files)
          PROVE  f.dir \in Env!Dirs /\ f.eco \in Env!Ecosystems /\ f = Env!Fact(f.dir, f.eco)
      BY DEF Env!Probed, Env!Fact
    <3>3. ASSUME NEW f \in Env!Probed(env.files), f.eco # "rust", f \notin env.made
          PROVE  f \in absent
      BY <2>1, <3>2, <3>3 DEF Env!Absent, Env!Made
    <3> QED
      BY <3>1, <3>2, <3>3
  <2>9. Drafted(env)'
    BY <2>3, <2>5, <2>6, <2>8 DEF EnvInv, Drafted
  <2>10. Real(env'.profile, env'.made)
    BY <2>5 DEF EnvInv
  <2> QED
    BY <2>5, <2>7, <2>9, <2>10 DEF EnvInv
<1>5. ASSUME NEW t \in EnvTasks, Env!Synthesize(t) PROVE EnvInv'
  <2>1. env.jobs[t].pc = "draft"
    BY <1>5 DEF Env!Synthesize, Env!Job
  <2>2. PICK p : p = Env!Profile(Env!Synthesized(Env!Job(t).pinned), Env!Job(t).absent, Env!Facts(t) = {}) /\ Env!Writes(t, p)
    BY <1>5 DEF Env!Synthesize
  <2>3. p.entries = Env!Synthesized(env.jobs[t].pinned) /\ p.absent = env.jobs[t].absent
    BY <2>2 DEF Env!Profile, Env!Job
  <2>4. ASSUME NEW x \in p.entries
        PROVE  RealEntry(x, p.absent, env.made)
    <3>1. PICK f \in DOMAIN env.jobs[t].pinned :
            x = Env!Entry(f, env.jobs[t].pinned[f], IF f.eco = "rust" THEN "none" ELSE Env!Verified(f, f.dir), "probe")
      BY <2>3, <2>4 DEF Env!Synthesized
    <3>2. x.dir = f.dir /\ x.eco = f.eco /\ x.runner = (IF f.eco = "rust" THEN "none" ELSE Env!Verified(f, f.dir))
      BY <3>1 DEF Env!Entry
    <3>3. f.dir \in Env!Dirs /\ f = Env!Fact(f.dir, f.eco) /\ (f.eco # "rust" /\ f \notin env.made => f \in p.absent)
      BY <2>1, <2>3 DEF EnvInv, Drafted
    <3> QED
      BY <3>2, <3>3 DEF Env!Verified, RealEntry, Env!Dirs
  <2> QED
    BY <2>1, <2>2, <2>4, WritesKeep DEF Real
<1>6. ASSUME NEW t \in EnvTasks, Env!DraftFails(t) PROVE EnvInv'
  <2>0. env.jobs[t].pc = "draft" /\ env.tools # {}
    BY <1>6 DEF Env!DraftFails, Env!Ambiguous, Env!Job, EnvInv, Unopened
  <2>1. CASE Env!Writes(t, Env!Profile({}, Env!Job(t).absent, TRUE))
    BY <2>0, <2>1, EmptyIsReal, WritesKeep
  <2>2. CASE env' = Env!Update(t, [Env!Job(t) EXCEPT !.tries = 1])
    <3>1. PICK j : j = [env.jobs[t] EXCEPT !.tries = 1] /\ env' = [env EXCEPT !.jobs[t] = j]
      BY <2>2 DEF Env!Update, Env!Job
    <3>2. JobShaped(j) /\ j.pc = "draft" /\ j.pinned = env.jobs[t].pinned /\ j.absent = env.jobs[t].absent
      <4>1. PICK c : c = env.jobs[t] /\ JobShaped(c)
        BY <1>0 DEF EnvShaped
      <4> QED
        BY <2>0, <3>1, <4>1, JobTries
    <3>3. EnvShaped(env)' /\ env'.jobs = [env.jobs EXCEPT ![t] = j]
          /\ UNCHANGED <<env.lock, env.profile, env.old, env.made, env.tools>>
      BY <1>0, <3>1, <3>2 DEF EnvShaped
    <3>4. \A u \in EnvTasks : env'.jobs[u] = IF u = t THEN j ELSE env.jobs[u]
      BY <1>0, <3>3 DEF EnvShaped
    <3>5. Unopened(env)' /\ Locked(env)' /\ Drafted(env)' /\ Real(env'.profile, env'.made)
      BY <2>0, <3>2, <3>3, <3>4 DEF EnvInv, Unopened, Locked, Drafted
    <3> QED
      BY <3>3, <3>5 DEF EnvInv
  <2> QED
    BY <1>6, <2>1, <2>2 DEF Env!DraftFails
<1>7. ASSUME NEW t \in EnvTasks, Env!Cancel(t) PROVE EnvInv'
  <2>0. env.jobs[t].pc \in {"queued", "probe", "draft"} /\ env.tools # {}
    BY <1>7 DEF Env!Cancel, Env!Job, EnvInv, Unopened
  <2>1. PICK j : j = [Env!Idle EXCEPT !.pc = "gone"]
    OBVIOUS
  <2>2. JobShaped(j) /\ j.pc = "gone"
    BY <2>1, IdleIsShaped DEF Env!Idle
  <2>3. env' = [Env!Event([env EXCEPT !.jobs[t] = j]) EXCEPT !.lock = IF @ = t THEN "free" ELSE @]
    BY <1>7, <2>1 DEF Env!Cancel, Env!Update
  <2>4. EnvShaped(env)' /\ env'.jobs = [env.jobs EXCEPT ![t] = j]
        /\ env'.lock = (IF env.lock = t THEN "free" ELSE env.lock)
        /\ UNCHANGED <<env.profile, env.old, env.made, env.tools>>
    BY <1>0, <2>2, <2>3 DEF EnvShaped, Env!Event
  <2>5. \A u \in EnvTasks : env'.jobs[u] = IF u = t THEN j ELSE env.jobs[u]
    BY <1>0, <2>4 DEF EnvShaped
  <2>6. Unopened(env)' /\ Locked(env)' /\ Drafted(env)'
    BY <1>0, <2>0, <2>2, <2>4, <2>5, ServicesAssumption DEF EnvInv, EnvShaped, Unopened, Locked, Drafted
  <2>7. Real(env'.profile, env'.made)
    BY <2>4 DEF EnvInv
  <2> QED
    BY <2>4, <2>6, <2>7 DEF EnvInv
<1>8. ASSUME NEW t \in EnvTasks, Env!Promote(t) PROVE EnvInv'
  <2>0. env.jobs[t].pc = "ready" /\ env.tools # {}
    BY <1>8 DEF Env!Promote, Env!Job, EnvInv, Unopened
  <2>1. PICK j, files : /\ j = [Env!Idle EXCEPT !.pc = "gone"]
                        /\ env' = [env EXCEPT !.files = files, !.jobs[t] = j]
    BY <1>8 DEF Env!Promote
  <2>2. JobShaped(j) /\ j.pc = "gone"
    BY <2>1, IdleIsShaped DEF Env!Idle
  <2>3. EnvShaped(env)' /\ env'.jobs = [env.jobs EXCEPT ![t] = j]
        /\ UNCHANGED <<env.lock, env.profile, env.old, env.made, env.tools>>
    BY <1>0, <2>1, <2>2 DEF EnvShaped
  <2> QED
    BY <2>0, <2>2, <2>3, MovesKeep
<1>9. ASSUME NEW t \in EnvTasks, NEW listed \in SUBSET Env!Facts(t), NEW guess \in Env!Runners, Env!Draft(t, listed, guess) PROVE EnvInv'
  <2>0. env.jobs[t].pc = "draft"
    BY <1>9 DEF Env!Draft, Env!Ambiguous, Env!Job
  <2>1. CASE env' = Env!Leaves(t)
    <3>1. env' = [Env!Leaves(t) EXCEPT !.profile = env.profile, !.old = IF env.profile = env.profile THEN env.old ELSE FALSE]
      BY <1>0, <2>1 DEF EnvShaped, Env!Leaves, Env!Update
    <3>2. Env!Writes(t, env.profile)
      BY <1>0, <3>1 DEF Env!Writes, EnvShaped, Env!Leaves, Env!Update
    <3> QED
      BY <2>0, <3>2, WritesKeep DEF EnvInv
  <2>2. ASSUME NEW pips,
               Env!Writes(t, Env!Profile({Env!Entry(f, Env!Chosen(f, pips), Env!Verified(f, Env!Normalised(f, guess)), "model") : f \in listed},
                                  Env!Job(t).absent, FALSE))
        PROVE  EnvInv'
    <3>1. PICK p : /\ p = Env!Profile({Env!Entry(f, Env!Chosen(f, pips), Env!Verified(f, Env!Normalised(f, guess)), "model") : f \in listed},
                                  Env!Job(t).absent, FALSE)
                   /\ Env!Writes(t, p)
      BY <2>2
    <3>2. p.entries = {Env!Entry(f, Env!Chosen(f, pips), Env!Verified(f, Env!Normalised(f, guess)), "model") : f \in listed}
      BY <3>1 DEF Env!Profile
    <3>3. ASSUME NEW x \in p.entries
          PROVE  RealEntry(x, p.absent, env.made)
      <4>1. PICK f \in listed : x = Env!Entry(f, Env!Chosen(f, pips), Env!Verified(f, Env!Normalised(f, guess)), "model")
        BY <3>2, <3>3
      <4>2. x.dir = f.dir /\ x.eco = f.eco /\ x.runner = Env!Verified(f, Env!Normalised(f, guess)) /\ x.source = "model"
        BY <4>1 DEF Env!Entry
      <4>3. f.dir \in Env!Dirs
        BY <1>0, <2>0, <4>1 DEF EnvInv, Drafted, Env!Facts, Env!Job
      <4>4. x.runner \in Env!Dirs => Env!Fact(x.runner, x.eco) \in env.made /\ (x.runner = x.dir \/ x.dir = "")
        BY <4>2, <4>3 DEF Env!Verified, Env!Normalised, Env!Runners, Env!Dirs
      <4> QED
        BY <4>2, <4>4 DEF RealEntry
    <3> QED
      BY <2>0, <3>1, <3>3, WritesKeep DEF Real
  <2> QED
    BY <1>9, <2>1, <2>2 DEF Env!Draft
<1>10. ASSUME NEW t \in EnvTasks, NEW e \in env.profile.entries, Env!Install(t, e) PROVE EnvInv'
  <2>0. env.jobs[t].pc = "ready" /\ env.tools # {}
    BY <1>10 DEF Env!Install, Env!Job, EnvInv, Unopened
  <2>1. PICK made : env' = Env!Event([env EXCEPT !.made = made]) /\ env.made \subseteq made
    BY <1>0, <1>10, InstallGrows
  <2>2. EnvShaped(env)' /\ env'.made = made
        /\ UNCHANGED <<env.jobs, env.lock, env.profile, env.old, env.tools>>
    BY <1>0, <2>1 DEF EnvShaped, Env!Event
  <2> QED
    BY <2>0, <2>1, <2>2, AroundKeeps
<1>11. ASSUME NEW t \in EnvTasks, NEW eco \in Env!Ecosystems, Env!InitWorkspace(t, eco) PROVE EnvInv'
  <2>0. env.jobs[t].pc = "ready" /\ env.tools # {}
    BY <1>11 DEF Env!InitWorkspace, Env!Job, EnvInv, Unopened
  <2>1. PICK j, shadow : /\ j = [env.jobs[t] EXCEPT !.shadow = shadow]
                        /\ env' = [env EXCEPT !.jobs[t] = j]
    BY <1>0, <1>11 DEF Env!InitWorkspace, EnvShaped
  <2>2. JobShaped(j) /\ j.pc = "ready"
    <3>1. PICK c : c = env.jobs[t] /\ JobShaped(c)
      BY <1>0 DEF EnvShaped
    <3> QED
      BY <2>0, <2>1, <3>1, JobWrites
  <2>3. EnvShaped(env)' /\ env'.jobs = [env.jobs EXCEPT ![t] = j]
        /\ UNCHANGED <<env.lock, env.profile, env.old, env.made, env.tools>>
    BY <1>0, <2>1, <2>2 DEF EnvShaped
  <2> QED
    BY <2>0, <2>2, <2>3, MovesKeep
<1>12. ASSUME Env!GrowOld PROVE EnvInv'
  <2>0. env.tools # {}
    BY <1>12 DEF Env!GrowOld, EnvInv, Unopened
  <2>1. EnvShaped(env)' /\ env'.old = TRUE
        /\ UNCHANGED <<env.jobs, env.lock, env.profile, env.made, env.tools>>
    BY <1>0, <1>12 DEF Env!GrowOld, EnvShaped, Env!Event
  <2> QED
    BY <2>0, <2>1, AroundKeeps
<1>13. ASSUME NEW name, Env!Edit("sub", name) PROVE EnvInv'
  <2>0. env.tools # {}
    BY <1>13 DEF Env!Edit
  <2>1. PICK files : env' = Env!Event([env EXCEPT !.files = files])
    BY <1>13 DEF Env!Edit
  <2>2. EnvShaped(env)'
        /\ UNCHANGED <<env.jobs, env.lock, env.profile, env.old, env.made, env.tools>>
    BY <1>0, <2>1 DEF EnvShaped, Env!Event
  <2> QED
    BY <2>0, <2>2, AroundKeeps
<1>14. ASSUME Env!Crash PROVE EnvInv'
  <2>0. env.tools # {}
    BY <1>14 DEF Env!Crash, Env!Job, EnvInv, Unopened
  <2>1. EnvShaped(env)' /\ env'.jobs = [t \in EnvTasks |-> Env!Idle] /\ env'.lock = "free"
        /\ UNCHANGED <<env.profile, env.old, env.made, env.tools>>
    BY <1>0, <1>14, IdleIsShaped DEF Env!Crash, EnvShaped, Env!Event
  <2>2. \A t \in EnvTasks : env'.jobs[t].pc = "new"
    BY <2>1, IdleIsShaped
  <2>3. Unopened(env)' /\ Locked(env)' /\ Drafted(env)'
    BY <2>0, <2>1, <2>2 DEF Unopened, Locked, Drafted
  <2>4. Real(env'.profile, env'.made)
    BY <2>1 DEF EnvInv
  <2> QED
    BY <2>1, <2>3, <2>4 DEF EnvInv
<1> QED
  BY <1>1, <1>2, <1>3, <1>4, <1>5, <1>6, <1>7, <1>8, <1>9, <1>10, <1>11, <1>12, <1>13, <1>14 DEF Env!Next

\* The first state has it.
LEMMA EnvStart ==
    ASSUME Env!Init
    PROVE  EnvInv
<1>1. /\ env.jobs = [t \in EnvTasks |-> Env!Idle] /\ env.lock = "free" /\ env.profile = Env!NoProfile
      /\ env.old = FALSE
  BY DEF Env!Init
<1>2. EnvShaped(env)
  BY <1>1, IdleIsShaped DEF Env!Init, EnvShaped
<1>3. Unopened(env) /\ Locked(env) /\ Drafted(env)
  BY <1>1, IdleIsShaped DEF Unopened, Locked, Drafted
<1>4. Real(env.profile, env.made)
  BY <1>1, EmptyIsReal
<1> QED
  BY <1>2, <1>3, <1>4 DEF EnvInv

\* The property is the invariant's.
LEMMA EnvInvIsReal ==
    ASSUME EnvInv
    PROVE  Env!EnvironmentIsReal
<1>1. Env!BuiltOnce
  BY DEF EnvInv, EnvShaped, Locked, Env!BuiltOnce, Env!Job, Env!Stale
<1>2. Env!RunnersAreReal
  BY DEF EnvInv, Real, RealEntry, Env!RunnersAreReal
<1> QED
  BY <1>1, <1>2 DEF Env!EnvironmentIsReal

\* The environment is the workspace's real one, whatever the tasks and the edits.
LEMMA EnvironmentStaysReal == Env!Init /\ [][Env!Next]_env => []Env!EnvironmentIsReal
<1>1. EnvInv /\ [Env!Next]_env => EnvInv'
  <2>1. ASSUME EnvInv, UNCHANGED env PROVE EnvInv'
    BY <2>1 DEF EnvInv, EnvShaped, Unopened, Locked, Drafted
  <2> QED
    BY <2>1, EnvStep
<1> QED
  BY <1>1, EnvStart, EnvInvIsReal, PTL

\* For any tasks and workspaces: one task builds a profile, and the environments its runners
\* are named of are there: those a probe found their directory's, those the model named below
\* the root never the root's.
THEOREM ProfilesAreReal == Spec => []EnvironmentIsReal
<1>1. Init => Env!Init
  BY DEF Init
<1>2. [Next]_vars => [Env!Next]_env
  BY DEF Next, vars
<1>3. Env!EnvironmentIsReal => EnvironmentIsReal
  BY DEF EnvironmentIsReal
<1> QED
  BY <1>1, <1>2, <1>3, EnvironmentStaysReal, PTL DEF Spec

Statuses == {"EXECUTING", "VALIDATING", "AWAITING_VALIDATION_DECISION", "READY_FOR_REVIEW", "QUEUED", "PLANNED",
             "AWAITING_PLAN_APPROVAL", "CONTEXT_READY"} \cup Lin!Terminal
Runs ==
    [status : Statuses, parent : Nat, stage : Lin!Stages, via : {"route", "chat"}, done : Nat, base : SUBSET Nat,
     plan : BOOLEAN, snaps : Nat, path : BOOLEAN,
     pc : {"run", "step", "gate", "rest", "clone", "plan", "regen", "json"}, work : SUBSET Nat, torn : BOOLEAN,
     errs : SUBSET Nat, told : BOOLEAN, stream : {"none", "open"}, accepted : BOOLEAN, cancelled : BOOLEAN,
     unplanned : BOOLEAN, rerun : BOOLEAN]

\* A run has its shadow while it goes on, and what is in it is the work of its steps.
Working(r) ==
    /\ r.pc \in {"run", "step", "gate", "plan", "regen", "json"} => r.path
    /\ IF r.path THEN 0 \notin r.work ELSE r.work = Lin!NoShadow
    /\ r.path /\ ~r.torn => r.work = 1 .. (IF r.pc = "step" THEN r.done + 1 ELSE r.done)

\* A run that has not begun has no step done, or those of its parent.
Waiting(r) ==
    /\ r.status = "AWAITING_PLAN_APPROVAL" =>
         r.pc = "rest" /\ r.stage \in {"plan", "feedback"} /\ r.done = 0 /\ ~r.torn
    /\ r.pc \in {"plan", "regen", "json"} => r.stage \in {"plan", "feedback"} /\ r.done = 0 /\ ~r.torn
    /\ r.pc \in {"run", "step", "gate", "plan", "regen", "json"} =>
         r.status \notin Lin!Terminal \cup {"READY_FOR_REVIEW"}
    /\ r.pc = "clone" => ~r.path /\ r.status \in {"QUEUED", "PLANNED", "ABORTED"} /\ ~r.torn
    /\ r.pc = "clone" /\ r.stage = "plan" => r.done = 0
    /\ r.stage = "execute" => r.rerun
    /\ r.base # {} => r.rerun

\* A run up for review rests, its stream closed, with the errors that somebody knows of.
Reviewed(r) ==
    /\ r.status = "READY_FOR_REVIEW" => r.pc = "rest" /\ r.told
    /\ r.status = "READY_FOR_REVIEW" /\ ~r.accepted /\ ~r.rerun => r.errs = {}
    /\ r.told => r.stream = "none"
    /\ r.stream = "open" /\ r.pc \in {"rest", "clone"} /\ r.status \in Lin!Terminal => r.cancelled \/ r.unplanned

Sound(r) == Working(r) /\ Waiting(r) /\ Reviewed(r)

Ended(r) == r.pc = "rest" /\ r.status \in {"FAILED", "ABORTED"}

\* What a step of a run may do to it: it stays of its parent, it is not begun again, and it
\* rests once it has ended.
Moves(p, r) ==
    /\ r.parent = p.parent /\ r.stage = p.stage /\ r.via = p.via
    /\ r.pc = "plan" => p.pc = "clone" \/ p.pc = "plan"
    /\ r.stage \in {"execute", "validate"} /\ p.pc = "rest" => r.pc = "rest"
    /\ Ended(p) => Ended(r) /\ r.done = p.done
    /\ r.pc = "clone" => p.pc = "clone" /\ r.done = p.done

\* A run that is to take over another's shadow finds it as it was, or gone.
Follows(c) ==
    tasks[c].pc = "clone" /\ tasks[c].stage # "plan" =>
        /\ tasks[c].stage \in {"execute", "validate"}
        /\ Ended(tasks[tasks[c].parent]) /\ tasks[c].done = tasks[tasks[c].parent].done

Line ==
    /\ tasks \in Seq(Runs)
    /\ \A t \in DOMAIN tasks : Sound(tasks[t]) /\ Follows(t)
    /\ \A t \in DOMAIN tasks : IF t = 1 THEN tasks[t].parent = 0 /\ tasks[t].pc # "clone"
                                        ELSE tasks[t].parent \in DOMAIN tasks
    /\ \A c, d \in DOMAIN tasks : tasks[c].parent = tasks[d].parent /\ Lin!Holds(c) /\ Lin!Holds(d) => c = d

\* A step of one run keeps the line: it stays of its parent, and rests once it has ended.
LEMMA SetKeeps ==
    ASSUME Line, NEW t \in DOMAIN tasks, NEW r \in Runs, Lin!Set(t, r), Sound(r), Moves(tasks[t], r)
    PROVE  Line'
<1>1. tasks' \in Seq(Runs) /\ DOMAIN tasks' = DOMAIN tasks /\ tasks'[t] = r
      /\ \A u \in DOMAIN tasks : u # t => tasks'[u] = tasks[u]
  BY DEF Line, Lin!Set
<1>2. \A u \in DOMAIN tasks : tasks'[u].parent = tasks[u].parent /\ tasks'[u].stage = tasks[u].stage
                              /\ tasks'[u].via = tasks[u].via
  BY <1>1 DEF Moves
<1>3. \A u \in DOMAIN tasks : Sound(tasks'[u])
  BY <1>1 DEF Line
<1>4. ASSUME NEW c \in DOMAIN tasks PROVE Follows(c)'
  <2>1. SUFFICES ASSUME tasks'[c].pc = "clone", tasks'[c].stage # "plan"
        PROVE  /\ tasks'[c].stage \in {"execute", "validate"}
               /\ Ended(tasks'[tasks'[c].parent]) /\ tasks'[c].done = tasks'[tasks'[c].parent].done
    BY DEF Follows, Ended
  <2>2. tasks[c].pc = "clone" /\ tasks'[c].done = tasks[c].done
    BY <1>1, <2>1 DEF Moves
  <2>3. Follows(c)
    BY DEF Line
  <2>4. /\ tasks[c].stage \in {"execute", "validate"}
        /\ Ended(tasks[tasks[c].parent]) /\ tasks[c].done = tasks[tasks[c].parent].done
    BY <1>2, <2>1, <2>2, <2>3 DEF Follows
  <2>5. tasks[c].parent \in DOMAIN tasks
    BY <2>2 DEF Line
  <2>6. PICK p \in DOMAIN tasks : p = tasks[c].parent
    BY <2>5
  <2>7. Ended(tasks[p]) => Ended(tasks'[p]) /\ tasks'[p].done = tasks[p].done
    BY <1>1 DEF Moves
  <2> QED
    BY <1>2, <2>2, <2>4, <2>6, <2>7
<1>5. \A u \in DOMAIN tasks : IF u = 1 THEN tasks'[u].parent = 0 /\ tasks'[u].pc # "clone"
                              ELSE tasks'[u].parent \in DOMAIN tasks
  BY <1>1, <1>2 DEF Line, Moves
<1>6. ASSUME NEW u \in DOMAIN tasks, Lin!Holds(u)' PROVE Lin!Holds(u)
  BY <1>1, <1>2, <1>6 DEF Lin!Holds, Moves
<1>7. \A c, d \in DOMAIN tasks : tasks'[c].parent = tasks'[d].parent /\ Lin!Holds(c)' /\ Lin!Holds(d)' => c = d
  BY <1>2, <1>6 DEF Line
<1> QED
  BY <1>1, <1>3, <1>4, <1>5, <1>7 DEF Line

\* The set of steps done grows by the step that was begun.
LEMMA NextStep == \A n \in Nat : /\ 1 .. (n + 1) = (1 .. n) \cup {n + 1} /\ n + 1 \notin 1 .. n /\ n + 1 # 0
                               /\ 0 \notin 1 .. n /\ (1 .. n) \subseteq Nat
OBVIOUS

\* A run that ends is a run.
LEMMA DoneIsRun == ASSUME NEW q \in Runs, NEW st \in Statuses PROVE Lin!Done(q, st) \in Runs
  BY DEF Runs, Lin!Done

\* The next state of a run.
LEMMA RunSteps ==
    ASSUME Line, NEW t \in DOMAIN tasks,
           \/ Lin!StepBegins(t) \/ Lin!StepFails(t) \/ Lin!Abort(t) \/ Lin!Validate(t) \/ Lin!Discard(t) \/ Lin!Cancel(t)
           \/ Lin!Subscribe(t)
           \/ \E b \in BOOLEAN : Lin!StepVerified(t, b) \/ Lin!ValidationDecided(t, b) \/ Lin!PlanEnds(t, b) \/ Lin!Feedback(t, b)
           \/ \E o \in {"valid", "invalid", "raises"} : Lin!PlanApproved(t, o)
           \/ \E o \in {"promoted", "failed", "torn"} : Lin!Accept(t, o)
    PROVE  Line'
<1>1. PICK p \in Runs : p = tasks[t]
  BY DEF Line
<1>2. Sound(p) /\ p.done \in Nat
  BY <1>1 DEF Line, Runs
<1>3. \A r \in Runs : Lin!Set(t, r) /\ Sound(r) /\ Moves(p, r) => Line'
  BY <1>1, SetKeeps
<1>4. ASSUME Lin!StepBegins(t) PROVE Line'
  <2>1. PICK w : w = p.work \cup {p.done + 1}
    OBVIOUS
  <2>2. PICK r : r = [p EXCEPT !.pc = "step", !.work = w]
    OBVIOUS
  <2>3. Lin!Set(t, r) /\ p.pc = "run"
    BY <1>1, <1>4, <2>1, <2>2 DEF Lin!StepBegins
  <2>4. w \subseteq Nat /\ 0 \notin w /\ (~p.torn => w = 1 .. (p.done + 1))
    BY <1>2, <2>1, <2>3, NextStep DEF Sound, Working, Runs
  <2>5. r \in Runs
    BY <2>2, <2>4 DEF Runs
  <2>6. Sound(r) /\ Moves(p, r)
    BY <1>2, <2>2, <2>3, <2>4 DEF Runs, Sound, Working, Waiting, Reviewed, Moves, Ended, Lin!Terminal
  <2> QED
    BY <1>3, <2>3, <2>5, <2>6
<1>5. ASSUME NEW b \in BOOLEAN, Lin!StepVerified(t, b) PROVE Line'
  <2>1. PICK errs : errs = IF b THEN p.errs \cup {p.done + 1} ELSE p.errs
    OBVIOUS
  <2>2. PICK r : r = [p EXCEPT !.pc = "run", !.done = p.done + 1, !.errs = errs]
    OBVIOUS
  <2>3. Lin!Set(t, r) /\ p.pc = "step"
    BY <1>1, <1>5, <2>1, <2>2 DEF Lin!StepVerified
  <2>4. errs \subseteq Nat /\ p.done + 1 \in Nat
    BY <1>2, <2>1 DEF Runs
  <2>5. r \in Runs
    BY <1>2, <2>2, <2>4 DEF Runs
  <2>6. Working(r)
    BY <1>2, <2>2, <2>3 DEF Runs, Sound, Working
  <2>7. Waiting(r) /\ Reviewed(r) /\ Moves(p, r)
    BY <1>2, <2>2, <2>3, <2>4 DEF Runs, Sound, Waiting, Reviewed, Moves, Ended, Lin!Terminal
  <2> QED
    BY <1>3, <2>3, <2>5, <2>6, <2>7 DEF Sound
<1>6. ASSUME Lin!StepFails(t) PROVE Line'
  <2>1. PICK w : w = p.work \ {p.done + 1}
    OBVIOUS
  <2>2. PICK q : q = [p EXCEPT !.work = w]
    OBVIOUS
  <2>3. PICK r : r = Lin!Done(q, "FAILED")
    OBVIOUS
  <2>4. Lin!Set(t, r) /\ p.pc = "step"
    BY <1>1, <1>6, <2>1, <2>2, <2>3 DEF Lin!StepFails
  <2>5. w \subseteq Nat /\ 0 \notin w /\ (~p.torn => w = 1 .. p.done)
    BY <1>2, <2>1, <2>4, NextStep DEF Sound, Working, Runs
  <2>6. q \in Runs
    BY <2>2, <2>5 DEF Runs
  <2>7. r \in Runs
    BY <2>3, <2>6 DEF Runs, Lin!Done, Statuses, Lin!Terminal
  <2>8. Sound(r) /\ Moves(p, r)
    BY <1>2, <2>2, <2>3, <2>4, <2>5 DEF Runs, Sound, Working, Waiting, Reviewed, Moves, Ended, Lin!Done, Lin!Terminal
  <2> QED
    BY <1>3, <2>4, <2>7, <2>8
<1>7. PICK g \in Runs : g = Lin!Gone(p) /\ ~g.path /\ g.work = Lin!NoShadow /\ ~g.torn
                       /\ g.parent = p.parent /\ g.stage = p.stage /\ g.via = p.via /\ g.done = p.done
                       /\ g.status = p.status /\ g.pc = p.pc /\ g.base = p.base /\ g.errs = p.errs
                       /\ g.told = p.told /\ g.stream = p.stream /\ g.accepted = p.accepted
                       /\ g.cancelled = p.cancelled /\ g.rerun = p.rerun /\ g.unplanned = p.unplanned
  <2>1. PICK g : g = [p EXCEPT !.path = FALSE, !.work = IF p.path THEN Lin!NoShadow ELSE p.work, !.torn = FALSE]
    OBVIOUS
  <2>2. g = Lin!Gone(p)
    BY <2>1 DEF Lin!Gone
  <2>3. PICK w : w = IF p.path THEN Lin!NoShadow ELSE p.work
    OBVIOUS
  <2>4. w = Lin!NoShadow /\ w \subseteq Nat
    BY <1>2, <2>3 DEF Sound, Working, Lin!NoShadow
  <2>5. g \in Runs /\ ~g.path /\ g.work = Lin!NoShadow /\ ~g.torn
    BY <2>1, <2>3, <2>4 DEF Runs
  <2> QED
    BY <2>1, <2>2, <2>5 DEF Runs
<1>8. ASSUME Lin!Abort(t) PROVE Line'
  <2>1. PICK r : r = Lin!Done(g, "ABORTED")
    OBVIOUS
  <2>2. Lin!Set(t, r) /\ p.pc = "run" /\ p.status = "EXECUTING"
    BY <1>1, <1>7, <1>8, <2>1 DEF Lin!Abort
  <2>3. r \in Runs
    BY <2>1 DEF Runs, Lin!Done, Statuses, Lin!Terminal
  <2>4. Sound(r) /\ Moves(p, r)
    BY <1>2, <1>7, <2>1, <2>2 DEF Runs, Sound, Working, Waiting, Reviewed, Moves, Ended, Lin!Done, Lin!Terminal
  <2> QED
    BY <1>3, <2>2, <2>3, <2>4
<1>9. ASSUME Lin!Validate(t) PROVE Line'
  <2>1. p.pc = "run" /\ p.done = MaxSteps
    BY <1>1, <1>9 DEF Lin!Validate
  <2>2. CASE p.errs \subseteq p.base
    <3>1. PICK r : r = Lin!Done(p, "READY_FOR_REVIEW")
      OBVIOUS
    <3>2. Lin!Set(t, r)
      BY <1>1, <1>9, <2>2, <3>1 DEF Lin!Validate
    <3>3. r \in Runs
      BY <3>1 DEF Runs, Lin!Done, Statuses
    <3>4. Sound(r) /\ Moves(p, r)
      BY <1>2, <2>1, <2>2, <3>1 DEF Runs, Sound, Working, Waiting, Reviewed, Moves, Ended, Lin!Done, Lin!Terminal
    <3> QED
      BY <1>3, <3>2, <3>3, <3>4
  <2>3. CASE ~(p.errs \subseteq p.base)
    <3>1. PICK r : r = [p EXCEPT !.pc = "gate", !.status = "AWAITING_VALIDATION_DECISION"]
      OBVIOUS
    <3>2. Lin!Set(t, r)
      BY <1>1, <1>9, <2>3, <3>1 DEF Lin!Validate
    <3>3. r \in Runs
      BY <3>1 DEF Runs, Statuses
    <3>4. Sound(r) /\ Moves(p, r)
      BY <1>2, <2>1, <3>1 DEF Runs, Sound, Working, Waiting, Reviewed, Moves, Ended, Lin!Terminal
    <3> QED
      BY <1>3, <3>2, <3>3, <3>4
  <2> QED
    BY <2>2, <2>3
<1>10. ASSUME NEW b \in BOOLEAN, Lin!ValidationDecided(t, b) PROVE Line'
  <2>1. PICK q : q = [p EXCEPT !.accepted = IF b THEN TRUE ELSE p.accepted]
    OBVIOUS
  <2>2. PICK r : r = Lin!Done(q, IF b THEN "READY_FOR_REVIEW" ELSE "FAILED")
    OBVIOUS
  <2>3. q \in Runs /\ (~b => q = p)
    BY <2>1 DEF Runs
  <2>4. Lin!Set(t, r) /\ p.pc = "gate"
    <3>1. CASE b
      <4>1. q = [p EXCEPT !.accepted = TRUE]
        BY <2>1, <3>1
      <4> QED
        BY <1>1, <1>10, <2>2, <3>1, <4>1 DEF Lin!ValidationDecided
    <3>2. CASE ~b
      BY <1>1, <1>10, <2>2, <2>3, <3>2 DEF Lin!ValidationDecided
    <3> QED
      BY <3>1, <3>2
  <2>5. r \in Runs
    <3>1. "READY_FOR_REVIEW" \in Statuses /\ "FAILED" \in Statuses
      BY DEF Statuses, Lin!Terminal
    <3> QED
      BY <2>2, <2>3, <3>1, DoneIsRun
  <2>6. Sound(r) /\ Moves(p, r)
    BY <1>2, <2>1, <2>2, <2>3, <2>4 DEF Runs, Sound, Working, Waiting, Reviewed, Moves, Ended, Lin!Done, Lin!Terminal
  <2> QED
    BY <1>3, <2>4, <2>5, <2>6
<1>11. ASSUME NEW o \in {"promoted", "failed", "torn"}, Lin!Accept(t, o) PROVE Line'
  <2>1. p.status = "READY_FOR_REVIEW"
    BY <1>1, <1>11 DEF Lin!Accept
  <2>2. CASE o = "promoted"
    <3>1. PICK r : r = [g EXCEPT !.status = "SUCCEEDED"]
      OBVIOUS
    <3>2. Lin!Set(t, r)
      BY <1>1, <1>7, <1>11, <2>2, <3>1 DEF Lin!Accept
    <3>3. r \in Runs
      BY <3>1 DEF Runs, Statuses, Lin!Terminal
    <3>4. Sound(r) /\ Moves(p, r)
      BY <1>2, <1>7, <2>1, <3>1 DEF Runs, Sound, Working, Waiting, Reviewed, Moves, Ended, Lin!Terminal
    <3> QED
      BY <1>3, <3>2, <3>3, <3>4
  <2>3. CASE o = "failed"
    <3>1. PICK r : r = [p EXCEPT !.status = "FAILED"]
      OBVIOUS
    <3>2. Lin!Set(t, r)
      BY <1>1, <1>11, <2>3, <3>1 DEF Lin!Accept
    <3>3. r \in Runs
      BY <3>1 DEF Runs, Statuses, Lin!Terminal
    <3>4. Sound(r) /\ Moves(p, r)
      BY <1>2, <2>1, <3>1 DEF Runs, Sound, Working, Waiting, Reviewed, Moves, Ended, Lin!Terminal
    <3> QED
      BY <1>3, <3>2, <3>3, <3>4
  <2>4. CASE o = "torn"
    <3>1. PICK r : r = [p EXCEPT !.status = "FAILED", !.torn = TRUE]
      OBVIOUS
    <3>2. Lin!Set(t, r)
      BY <1>1, <1>11, <2>4, <3>1 DEF Lin!Accept
    <3>3. r \in Runs
      BY <3>1 DEF Runs, Statuses, Lin!Terminal
    <3>4. Sound(r) /\ Moves(p, r)
      BY <1>2, <2>1, <3>1 DEF Runs, Sound, Working, Waiting, Reviewed, Moves, Ended, Lin!Terminal
    <3> QED
      BY <1>3, <3>2, <3>3, <3>4
  <2> QED
    BY <2>2, <2>3, <2>4
<1>12. ASSUME Lin!Discard(t) PROVE Line'
  <2>1. PICK r : r = [g EXCEPT !.status = "ABORTED"]
    OBVIOUS
  <2>2. Lin!Set(t, r) /\ p.status = "READY_FOR_REVIEW"
    BY <1>1, <1>7, <1>12, <2>1 DEF Lin!Discard
  <2>3. r \in Runs
    BY <2>1 DEF Runs, Statuses, Lin!Terminal
  <2>4. Sound(r) /\ Moves(p, r)
    BY <1>2, <1>7, <2>1, <2>2 DEF Runs, Sound, Working, Waiting, Reviewed, Moves, Ended, Lin!Terminal
  <2> QED
    BY <1>3, <2>2, <2>3, <2>4
<1>13. ASSUME Lin!Cancel(t) PROVE Line'
  <2>1. PICK st \in Statuses, ca \in BOOLEAN :
          /\ st = IF p.status \in Lin!Terminal THEN p.status ELSE "ABORTED"
          /\ ca = (p.cancelled \/ p.status \notin Lin!Terminal)
    BY DEF Runs, Statuses, Lin!Terminal
  <2>2. PICK r : r = [g EXCEPT !.status = st, !.cancelled = ca]
    OBVIOUS
  <2>3. Lin!Set(t, r) /\ p.pc \in {"rest", "clone"}
    BY <1>1, <1>7, <1>13, <2>1, <2>2 DEF Lin!Cancel
  <2>4. r \in Runs
    BY <2>2 DEF Runs
  <2>5. /\ ~r.path /\ r.work = Lin!NoShadow /\ ~r.torn /\ r.status = st /\ r.cancelled = ca
        /\ r.pc = p.pc /\ r.done = p.done /\ r.stage = p.stage /\ r.parent = p.parent /\ r.via = p.via
        /\ r.rerun = p.rerun /\ r.base = p.base /\ r.errs = p.errs /\ r.told = p.told
        /\ r.stream = p.stream /\ r.accepted = p.accepted /\ r.unplanned = p.unplanned
    BY <1>7, <2>2 DEF Runs
  <2>6. Working(p) /\ Waiting(p) /\ Reviewed(p)
    BY <1>2 DEF Sound
  <2>7. Working(r)
    BY <2>3, <2>5 DEF Working
  <2>8. Waiting(r)
    BY <2>1, <2>3, <2>5, <2>6 DEF Waiting, Lin!Terminal
  <2>9. Reviewed(r)
    BY <2>1, <2>5, <2>6 DEF Reviewed, Lin!Terminal
  <2>10. Moves(p, r)
    BY <2>1, <2>3, <2>5 DEF Moves, Ended, Lin!Terminal
  <2> QED
    BY <1>3, <2>3, <2>4, <2>7, <2>8, <2>9, <2>10 DEF Sound
<1>14. ASSUME NEW b \in BOOLEAN, Lin!PlanEnds(t, b) PROVE Line'
  <2>1. p.pc \in {"plan", "regen"}
    BY <1>1, <1>14 DEF Lin!PlanEnds
  <2>2. CASE b
    <3>1. PICK r : r = [p EXCEPT !.pc = "rest", !.status = "AWAITING_PLAN_APPROVAL", !.snaps = p.snaps + 1]
      OBVIOUS
    <3>2. Lin!Set(t, r)
      BY <1>1, <1>14, <2>2, <3>1 DEF Lin!PlanEnds
    <3>3. r \in Runs
      <4>1. p.snaps + 1 \in Nat /\ "AWAITING_PLAN_APPROVAL" \in Statuses
        BY DEF Runs, Statuses
      <4> QED
        BY <3>1, <4>1 DEF Runs
    <3>4. Sound(r) /\ Moves(p, r)
      BY <1>2, <2>1, <3>1 DEF Runs, Sound, Working, Waiting, Reviewed, Moves, Ended, Lin!Terminal
    <3> QED
      BY <1>3, <3>2, <3>3, <3>4
  <2>3. CASE ~b
    <3>1. PICK r : r = Lin!Done(p, "FAILED")
      OBVIOUS
    <3>2. Lin!Set(t, r)
      BY <1>1, <1>14, <2>3, <3>1 DEF Lin!PlanEnds
    <3>3. r \in Runs
      BY <3>1 DEF Runs, Lin!Done, Statuses, Lin!Terminal
    <3>4. Sound(r) /\ Moves(p, r)
      BY <1>2, <2>1, <3>1 DEF Runs, Sound, Working, Waiting, Reviewed, Moves, Ended, Lin!Done, Lin!Terminal
    <3> QED
      BY <1>3, <3>2, <3>3, <3>4
  <2> QED
    BY <2>2, <2>3
<1>16. ASSUME NEW b \in BOOLEAN, Lin!Feedback(t, b) PROVE Line'
  <2>1. PICK q : q = Lin!Prepared(p)
    OBVIOUS
  <2>2. PICK pc, status : IF b THEN pc = "json" /\ status = "PLANNED" ELSE pc = "regen" /\ status = "CONTEXT_READY"
    OBVIOUS
  <2>3. PICK r : r = [q EXCEPT !.pc = pc, !.status = status]
    OBVIOUS
  <2>4. Lin!Set(t, r) /\ p.status = "AWAITING_PLAN_APPROVAL"
    BY <1>1, <1>16, <2>1, <2>2, <2>3 DEF Lin!Feedback
  <2>5. q \in Runs
    BY <2>1 DEF Runs, Lin!Prepared
  <2>6. r \in Runs
    BY <2>2, <2>3, <2>5 DEF Runs, Statuses
  <2>7. /\ r.path /\ r.work = {} /\ r.pc = pc /\ r.status = status /\ r.done = p.done /\ r.torn = p.torn
        /\ r.stage = p.stage /\ r.parent = p.parent /\ r.via = p.via /\ r.rerun = p.rerun /\ r.base = p.base
        /\ r.errs = p.errs /\ r.told = p.told /\ r.stream = p.stream /\ r.accepted = p.accepted
        /\ r.cancelled = p.cancelled /\ r.unplanned = p.unplanned
    BY <2>1, <2>3 DEF Runs, Lin!Prepared
  <2>8. p.pc = "rest" /\ p.stage \in {"plan", "feedback"} /\ p.done = 0 /\ ~p.torn
    BY <1>2, <2>4 DEF Sound, Waiting
  <2>9. Working(r)
    <3>1. 1 .. 0 = {} /\ 0 \notin {}
      OBVIOUS
    <3> QED
      BY <2>2, <2>7, <2>8, <3>1 DEF Working
  <2>10. Waiting(r)
    BY <1>2, <2>2, <2>7, <2>8 DEF Sound, Waiting, Lin!Terminal
  <2>11. Reviewed(r)
    BY <1>2, <2>2, <2>7 DEF Sound, Reviewed, Lin!Terminal
  <2>12. Moves(p, r)
    BY <2>2, <2>4, <2>7, <2>8 DEF Moves, Ended
  <2> QED
    BY <1>3, <2>4, <2>6, <2>9, <2>10, <2>11, <2>12 DEF Sound
<1>17. ASSUME NEW o \in {"valid", "invalid", "raises"}, Lin!PlanApproved(t, o) PROVE Line'
  <2>1. p.pc = "json"
    BY <1>1, <1>17 DEF Lin!PlanApproved
  <2>2. CASE o = "valid"
    <3>1. PICK r : r = [p EXCEPT !.pc = "run", !.status = "EXECUTING", !.plan = TRUE]
      OBVIOUS
    <3>2. Lin!Set(t, r)
      BY <1>1, <1>17, <2>2, <3>1 DEF Lin!PlanApproved
    <3>3. r \in Runs
      BY <3>1 DEF Runs, Statuses
    <3>4. Sound(r) /\ Moves(p, r)
      BY <1>2, <2>1, <3>1 DEF Runs, Sound, Working, Waiting, Reviewed, Moves, Ended, Lin!Terminal
    <3> QED
      BY <1>3, <3>2, <3>3, <3>4
  <2>3. CASE o = "invalid"
    <3>1. PICK r : r = [p EXCEPT !.pc = "rest", !.status = "FAILED", !.unplanned = TRUE]
      OBVIOUS
    <3>2. Lin!Set(t, r)
      BY <1>1, <1>17, <2>3, <3>1 DEF Lin!PlanApproved
    <3>3. r \in Runs
      BY <3>1 DEF Runs, Statuses, Lin!Terminal
    <3>4. Sound(r) /\ Moves(p, r)
      BY <1>2, <2>1, <3>1 DEF Runs, Sound, Working, Waiting, Reviewed, Moves, Ended, Lin!Terminal
    <3> QED
      BY <1>3, <3>2, <3>3, <3>4
  <2>4. CASE o = "raises"
    <3>1. PICK r : r = Lin!Done(p, "FAILED")
      OBVIOUS
    <3>2. Lin!Set(t, r)
      BY <1>1, <1>17, <2>4, <3>1 DEF Lin!PlanApproved
    <3>3. r \in Runs
      BY <3>1 DEF Runs, Lin!Done, Statuses, Lin!Terminal
    <3>4. Sound(r) /\ Moves(p, r)
      BY <1>2, <2>1, <3>1 DEF Runs, Sound, Working, Waiting, Reviewed, Moves, Ended, Lin!Done, Lin!Terminal
    <3> QED
      BY <1>3, <3>2, <3>3, <3>4
  <2> QED
    BY <2>2, <2>3, <2>4
<1>15. ASSUME Lin!Subscribe(t) PROVE Line'
  <2>1. PICK r : r = [p EXCEPT !.stream = "open"]
    OBVIOUS
  <2>2. Lin!Set(t, r) /\ ~p.told /\ ~(p.pc \in {"rest", "clone"} /\ p.status \in Lin!Terminal \cup {"READY_FOR_REVIEW"})
    BY <1>1, <1>15, <2>1 DEF Lin!Subscribe
  <2>3. r \in Runs
    BY <2>1 DEF Runs
  <2>4. Sound(r) /\ Moves(p, r)
    BY <1>2, <2>1, <2>2 DEF Runs, Sound, Working, Waiting, Reviewed, Moves, Ended, Lin!Terminal
  <2> QED
    BY <1>3, <2>2, <2>3, <2>4
<1> QED
  BY <1>4, <1>5, <1>6, <1>8, <1>9, <1>10, <1>11, <1>12, <1>13, <1>14, <1>15, <1>16, <1>17

\* A run that takes over the shadow of its parent has the parent's work, all of it.
LEMMA LaunchKeeps ==
    ASSUME Line, NEW c \in DOMAIN tasks, Lin!Launch(c)
    PROVE  Line'
<1>1. PICK r \in Runs : r = tasks[c]
  BY DEF Line
<1>2. Sound(r) /\ r.done \in Nat /\ r.pc = "clone"
  BY <1>1 DEF Line, Runs, Lin!Launch
<1>3. \A n \in Runs : Lin!Set(c, n) /\ Sound(n) /\ Moves(r, n) => Line'
  BY <1>1, SetKeeps
<1>4. r.parent \in DOMAIN tasks
  BY <1>1, <1>2 DEF Line
<1>5. PICK p \in Runs : p = tasks[r.parent]
  BY <1>4 DEF Line
<1>6. Sound(p)
  BY <1>4, <1>5 DEF Line
<1>7. Follows(c)
  BY DEF Line
<1>8. r.stage # "plan" => r.stage \in {"execute", "validate"} /\ Ended(p) /\ r.done = p.done
  BY <1>1, <1>2, <1>5, <1>7 DEF Follows
<1> DEFINE copy == [r EXCEPT !.path = TRUE, !.work = p.work, !.torn = p.torn]
<1>9. Lin!Set(c, IF r.stage = "plan"
             THEN IF r.status = "QUEUED" THEN [Lin!Prepared(r) EXCEPT !.pc = "plan", !.status = "CONTEXT_READY"]
                  ELSE Lin!Done(r, r.status)
             ELSE IF p.work = Lin!NoShadow THEN [r EXCEPT !.pc = "rest"]
             ELSE IF r.status = "ABORTED" THEN Lin!Done(copy, "ABORTED")
             ELSE IF r.stage = "execute" THEN [copy EXCEPT !.pc = "run", !.status = "EXECUTING", !.base = r.errs]
             ELSE [copy EXCEPT !.pc = "run", !.status = "VALIDATING"])
  BY <1>1, <1>5 DEF Lin!Launch
<1>10. CASE r.stage = "plan" /\ r.status = "QUEUED"
  <2>1. PICK q : q = Lin!Prepared(r)
    OBVIOUS
  <2>2. PICK n : n = [q EXCEPT !.pc = "plan", !.status = "CONTEXT_READY"]
    OBVIOUS
  <2>3. Lin!Set(c, n)
    BY <1>9, <1>10, <2>1, <2>2
  <2>4. q \in Runs
    BY <2>1 DEF Runs, Lin!Prepared
  <2>5. n \in Runs
    BY <2>2, <2>4 DEF Runs, Statuses
  <2>6. Sound(n) /\ Moves(r, n)
    BY <1>2, <1>10, <2>1, <2>2, <2>4 DEF Runs, Sound, Working, Waiting, Reviewed, Moves, Ended, Lin!Prepared, Lin!Terminal
  <2> QED
    BY <1>3, <2>3, <2>5, <2>6
<1>11. CASE r.stage = "plan" /\ r.status # "QUEUED"
  <2>1. PICK n : n = Lin!Done(r, r.status)
    OBVIOUS
  <2>2. Lin!Set(c, n)
    BY <1>9, <1>11, <2>1
  <2>3. n \in Runs
    BY <2>1 DEF Runs, Lin!Done
  <2>4. Sound(n) /\ Moves(r, n)
    BY <1>2, <1>11, <2>1 DEF Runs, Sound, Working, Waiting, Reviewed, Moves, Ended, Lin!Done, Lin!Terminal
  <2> QED
    BY <1>3, <2>2, <2>3, <2>4
<1>12. CASE r.stage # "plan" /\ p.work = Lin!NoShadow
  <2>1. PICK n : n = [r EXCEPT !.pc = "rest"]
    OBVIOUS
  <2>2. Lin!Set(c, n)
    BY <1>9, <1>12, <2>1
  <2>3. n \in Runs
    BY <2>1 DEF Runs
  <2>4. Sound(n) /\ Moves(r, n)
    BY <1>2, <1>12, <2>1 DEF Runs, Sound, Working, Waiting, Reviewed, Moves, Ended, Lin!Terminal
  <2> QED
    BY <1>3, <2>2, <2>3, <2>4
<1>13. CASE r.stage # "plan" /\ p.work # Lin!NoShadow
  <2>1. PICK k : k = copy
    OBVIOUS
  <2>2. k \in Runs /\ k.path /\ k.work = p.work /\ k.torn = p.torn /\ 0 \notin p.work
        /\ (~p.torn => p.work = 1 .. r.done)
    <3>1. p.pc = "rest" /\ p.path /\ 0 \notin p.work /\ (~p.torn => p.work = 1 .. r.done)
      BY <1>6, <1>8, <1>13 DEF Sound, Working, Ended
    <3>2. k \in Runs /\ k.path /\ k.work = p.work /\ k.torn = p.torn
      BY <2>1 DEF Runs
    <3> QED
      BY <3>1, <3>2
  <2>3. /\ k.status = r.status /\ k.parent = r.parent /\ k.stage = r.stage /\ k.via = r.via /\ k.done = r.done
        /\ k.base = r.base /\ k.pc = r.pc /\ k.errs = r.errs /\ k.told = r.told /\ k.stream = r.stream
        /\ k.accepted = r.accepted /\ k.cancelled = r.cancelled /\ k.rerun = r.rerun
        /\ k.unplanned = r.unplanned
    BY <2>1 DEF Runs
  <2>4. Lin!Set(c, IF r.status = "ABORTED" THEN Lin!Done(k, "ABORTED")
               ELSE IF r.stage = "execute" THEN [k EXCEPT !.pc = "run", !.status = "EXECUTING", !.base = r.errs]
               ELSE [k EXCEPT !.pc = "run", !.status = "VALIDATING"])
    BY <1>9, <1>13, <2>1
  <2> HIDE DEF copy
  <2>5. CASE r.status = "ABORTED"
    <3>1. PICK n : n = Lin!Done(k, "ABORTED")
      OBVIOUS
    <3>2. Lin!Set(c, n)
      BY <2>4, <2>5, <3>1
    <3>3. n \in Runs
      <4>1. "ABORTED" \in Statuses
        BY DEF Statuses, Lin!Terminal
      <4> QED
        BY <2>2, <3>1, <4>1, DoneIsRun
    <3>4. Sound(n) /\ Moves(r, n)
      BY <1>2, <2>2, <2>3, <2>5, <3>1 DEF Runs, Sound, Working, Waiting, Reviewed, Moves, Ended, Lin!Done, Lin!Terminal
    <3> QED
      BY <1>3, <3>2, <3>3, <3>4
  <2>6. CASE r.status # "ABORTED" /\ r.stage = "execute"
    <3>1. PICK n : n = [k EXCEPT !.pc = "run", !.status = "EXECUTING", !.base = r.errs]
      OBVIOUS
    <3>2. Lin!Set(c, n)
      BY <2>4, <2>6, <3>1
    <3>3. n \in Runs
      BY <2>2, <3>1 DEF Runs, Statuses
    <3>4. Sound(n) /\ Moves(r, n)
      BY <1>2, <2>2, <2>3, <2>6, <3>1 DEF Runs, Sound, Working, Waiting, Reviewed, Moves, Ended, Lin!Terminal
    <3> QED
      BY <1>3, <3>2, <3>3, <3>4
  <2>7. CASE r.status # "ABORTED" /\ r.stage # "execute"
    <3>1. PICK n : n = [k EXCEPT !.pc = "run", !.status = "VALIDATING"]
      OBVIOUS
    <3>2. Lin!Set(c, n)
      BY <2>4, <2>7, <3>1
    <3>3. n \in Runs
      BY <2>2, <3>1 DEF Runs, Statuses
    <3>4. Sound(n) /\ Moves(r, n)
      BY <1>2, <2>2, <2>3, <2>7, <3>1 DEF Runs, Sound, Working, Waiting, Reviewed, Moves, Ended, Lin!Terminal
    <3> QED
      BY <1>3, <3>2, <3>3, <3>4
  <2> QED
    BY <2>5, <2>6, <2>7
<1> QED
  BY <1>10, <1>11, <1>12, <1>13

\* A parent that may be resumed with its shadow has ended.
LEMMA ResumableHasEnded ==
    ASSUME Line, NEW p \in DOMAIN tasks, NEW stage, stage \in {"execute", "validate"}, Lin!Resumable(p, stage)
    PROVE  Ended(tasks[p])
<1>1. PICK r \in Runs : r = tasks[p]
  BY DEF Line
<1>2. r.path /\ r.status \in {"FAILED", "ABORTED"}
  BY <1>1 DEF Lin!Resumable, Lin!HasShadow
<1>3. Sound(r)
  BY <1>1 DEF Line
<1> QED
  BY <1>1, <1>2, <1>3 DEF Sound, Working, Waiting, Ended, Runs, Lin!Terminal

\* A child of a run keeps the line, if it is the only one that the route runs.
LEMMA AppendKeeps ==
    ASSUME Line, NEW r \in Runs, tasks' = Append(tasks, r), Sound(r), r.parent \in DOMAIN tasks,
           r.pc = "clone" /\ r.stage # "plan" =>
               /\ r.stage \in {"execute", "validate"}
               /\ Ended(tasks[r.parent]) /\ r.done = tasks[r.parent].done,
           r.via = "route" => ~Lin!InFlight(r.parent)
    PROVE  Line'
<1>1. PICK n \in Nat : n = Len(tasks) /\ DOMAIN tasks = 1 .. n
  BY DEF Line
<1>2. /\ tasks' \in Seq(Runs) /\ DOMAIN tasks' = 1 .. n + 1 /\ tasks'[n + 1] = r
      /\ \A u \in DOMAIN tasks : tasks'[u] = tasks[u]
  BY <1>1 DEF Line
<1>3. DOMAIN tasks' = DOMAIN tasks \cup {n + 1} /\ n + 1 \notin DOMAIN tasks /\ n + 1 # 1
  BY <1>1, <1>2
<1>4. ASSUME NEW c \in DOMAIN tasks PROVE Follows(c)'
  <2>1. SUFFICES ASSUME tasks'[c].pc = "clone", tasks'[c].stage # "plan"
        PROVE  /\ tasks'[c].stage \in {"execute", "validate"}
               /\ Ended(tasks'[tasks'[c].parent]) /\ tasks'[c].done = tasks'[tasks'[c].parent].done
    BY DEF Follows, Ended
  <2>2. tasks'[c] = tasks[c]
    BY <1>2
  <2>3. tasks[c].parent \in DOMAIN tasks
    BY <2>1, <2>2 DEF Line
  <2>4. Follows(c)
    BY DEF Line
  <2> QED
    BY <1>2, <2>1, <2>2, <2>3, <2>4 DEF Follows
<1>5. Follows(n + 1)'
  <2>1. tasks'[n + 1] = r /\ tasks'[r.parent] = tasks[r.parent]
    BY <1>2
  <2> QED
    BY <2>1 DEF Follows, Ended
<1>6. \A u \in DOMAIN tasks' : Sound(tasks'[u]) /\ Follows(u)'
  BY <1>2, <1>3, <1>4, <1>5 DEF Line
<1>7. \A u \in DOMAIN tasks' : IF u = 1 THEN tasks'[u].parent = 0 /\ tasks'[u].pc # "clone"
                                        ELSE tasks'[u].parent \in DOMAIN tasks'
  BY <1>2, <1>3 DEF Line
<1>8. \A u \in DOMAIN tasks : Lin!Holds(u)' <=> Lin!Holds(u)
  BY <1>2 DEF Lin!Holds
<1>9. ASSUME NEW u \in DOMAIN tasks, tasks'[u].parent = r.parent, Lin!Holds(u)', Lin!Holds(n + 1)' PROVE FALSE
  <2>1. Lin!Holds(u) /\ tasks[u].parent = r.parent
    BY <1>2, <1>8, <1>9
  <2>2. Lin!InFlight(r.parent)
    BY <2>1 DEF Lin!InFlight, Lin!Tasks
  <2>3. r.via = "route"
    BY <1>2, <1>9 DEF Lin!Holds
  <2> QED
    BY <2>2, <2>3
<1>10. ASSUME NEW u \in DOMAIN tasks', NEW v \in DOMAIN tasks', tasks'[u].parent = tasks'[v].parent,
              Lin!Holds(u)', Lin!Holds(v)'
       PROVE  u = v
  <2>1. CASE u \in DOMAIN tasks /\ v \in DOMAIN tasks
    BY <1>2, <1>8, <1>10, <2>1 DEF Line
  <2>2. CASE u = n + 1 /\ v \in DOMAIN tasks
    BY <1>2, <1>9, <1>10, <2>2
  <2>3. CASE v = n + 1 /\ u \in DOMAIN tasks
    BY <1>2, <1>9, <1>10, <2>3
  <2> QED
    BY <1>3, <2>1, <2>2, <2>3
<1> QED
  BY <1>2, <1>6, <1>7, <1>10 DEF Line

\* A child begins with no work, and with the baseline of what it only validates.
LEMMA ChildIsSound ==
    ASSUME Line, NEW p \in DOMAIN tasks, NEW stage \in Lin!Stages, NEW via \in {"route", "chat"},
           Lin!Resumable(p, stage)
    PROVE  \E r \in Runs :
             /\ r = Lin!Child(p, stage, via) /\ Sound(r) /\ r.parent = p /\ r.stage = stage /\ r.via = via
             /\ r.pc = "clone" /\ stage # "plan" =>
                    stage \in {"execute", "validate"} /\ r.done = tasks[p].done
<1>1. PICK q \in Runs : q = tasks[p]
  BY DEF Line
<1>2. Sound(q) /\ p \in Nat
  BY <1>1 DEF Line
<1>3. PICK rerun \in BOOLEAN : rerun = (stage = "execute" \/ (stage = "validate" /\ q.rerun))
  BY DEF Runs
<1>4. PICK new : new = [Lin!Root EXCEPT !.parent = p, !.stage = stage, !.via = via, !.pc = "clone",
                                   !.plan = FALSE, !.snaps = 0, !.path = FALSE, !.work = Lin!NoShadow, !.rerun = rerun]
  OBVIOUS
<1>5. new = [status |-> "EXECUTING", parent |-> p, stage |-> stage, via |-> via, done |-> 0,
             base |-> {}, plan |-> FALSE, snaps |-> 0, path |-> FALSE, pc |-> "clone", work |-> Lin!NoShadow, torn |-> FALSE, errs |-> {},
             told |-> FALSE, stream |-> "none", accepted |-> FALSE, cancelled |-> FALSE, unplanned |-> FALSE,
             rerun |-> rerun]
  BY <1>4 DEF Lin!Root
<1>6. new \in Runs
  BY <1>2, <1>5 DEF Runs, Statuses, Lin!NoShadow
<1>7. Lin!Child(p, stage, via) =
        CASE stage = "plan"     -> [new EXCEPT !.status = "QUEUED"]
          [] stage = "feedback" -> [new EXCEPT !.status = "AWAITING_PLAN_APPROVAL", !.pc = "rest",
                                               !.snaps = q.snaps - 1]
          [] OTHER -> [new EXCEPT !.status = "PLANNED", !.done = q.done, !.errs = q.errs,
                                  !.plan = TRUE, !.snaps = q.snaps, !.base = IF via = "route" THEN q.base ELSE {}]
  BY <1>1, <1>3, <1>4 DEF Lin!Child
<1>8. CASE stage = "plan"
  <2>1. PICK r : r = [new EXCEPT !.status = "QUEUED"]
    OBVIOUS
  <2>2. r \in Runs /\ r = Lin!Child(p, stage, via)
    BY <1>6, <1>7, <1>8, <2>1 DEF Runs, Statuses
  <2>3. Sound(r) /\ r.parent = p /\ r.stage = stage /\ r.via = via
    BY <1>5, <1>8, <2>1 DEF Sound, Working, Waiting, Reviewed, Lin!Terminal
  <2> QED
    BY <1>8, <2>2, <2>3
<1>9. CASE stage = "feedback"
  <2>4. PICK snaps \in Nat : snaps = q.snaps - 1
    <3>1. q.snaps > 0 /\ q.snaps \in Nat
      BY <1>1, <1>9 DEF Lin!Resumable, Runs
    <3> QED
      BY <3>1
  <2>1. PICK r : r = [new EXCEPT !.status = "AWAITING_PLAN_APPROVAL", !.pc = "rest", !.snaps = snaps]
    OBVIOUS
  <2>2. r \in Runs /\ r = Lin!Child(p, stage, via)
    BY <1>6, <1>7, <1>9, <2>1, <2>4 DEF Runs, Statuses
  <2>3. Sound(r) /\ r.parent = p /\ r.stage = stage /\ r.via = via /\ r.pc = "rest"
    BY <1>5, <1>9, <2>1 DEF Sound, Working, Waiting, Reviewed, Lin!Terminal
  <2> QED
    BY <2>2, <2>3
<1>10. CASE stage \in {"execute", "validate"}
  <2>1. PICK base \in SUBSET Nat : base = IF via = "route" THEN q.base ELSE {}
    BY DEF Runs
  <2>2. PICK r : r = [new EXCEPT !.status = "PLANNED", !.done = q.done, !.errs = q.errs,
                             !.plan = TRUE, !.snaps = q.snaps, !.base = base]
    OBVIOUS
  <2>3. r \in Runs
    BY <1>6, <2>2 DEF Runs, Statuses
  <2>4. r = Lin!Child(p, stage, via)
    BY <1>7, <1>10, <2>1, <2>2
  <2>5. base # {} /\ stage = "validate" => rerun
    BY <1>2, <1>3, <2>1 DEF Sound, Waiting
  <2>6. Sound(r) /\ r.parent = p /\ r.stage = stage /\ r.via = via /\ r.done = q.done
    BY <1>3, <1>5, <1>10, <2>2, <2>5 DEF Sound, Working, Waiting, Reviewed, Lin!Terminal
  <2> QED
    BY <1>1, <1>10, <2>3, <2>4, <2>6
<1> QED
  BY <1>8, <1>9, <1>10 DEF Lin!Stages

\* A resume adds a child of a run that has ended.
LEMMA ResumeKeeps ==
    ASSUME Line, NEW p \in DOMAIN tasks, NEW stage \in Lin!Stages,
           Lin!Resume(p, stage) \/ (stage = "execute" /\ Lin!ResumeFromChat(p))
    PROVE  Line'
<1>1. PICK via \in {"route", "chat"} :
        tasks' = Append(tasks, Lin!Child(p, stage, via)) /\ Lin!Resumable(p, stage) /\ (via = "route" => ~Lin!InFlight(p))
  BY DEF Lin!Resume, Lin!ResumeFromChat
<1>2. PICK r \in Runs :
        /\ r = Lin!Child(p, stage, via) /\ Sound(r) /\ r.parent = p /\ r.stage = stage /\ r.via = via
        /\ r.pc = "clone" /\ stage # "plan" => stage \in {"execute", "validate"} /\ r.done = tasks[p].done
  BY <1>1, ChildIsSound
<1>3. stage \in {"execute", "validate"} => Ended(tasks[p])
  BY <1>1, ResumableHasEnded
<1> QED
  BY <1>1, <1>2, <1>3, AppendKeeps

\* The first task is a run of its own.
LEMMA LineStart == ASSUME Lin!Init PROVE Line
<1>1. tasks = <<Lin!Root>> /\ DOMAIN tasks = {1} /\ tasks[1] = Lin!Root
  BY DEF Lin!Init
<1>2. Lin!Root \in Runs
  BY DEF Lin!Root, Runs, Statuses, Lin!Stages
<1>3. Sound(Lin!Root) /\ Lin!Root.pc # "clone" /\ Lin!Root.parent = 0
  <2>1. 1 .. 0 = {} /\ 0 \notin {}
    OBVIOUS
  <2> QED
    BY <2>1 DEF Lin!Root, Sound, Working, Waiting, Reviewed, Lin!Terminal
<1> QED
  BY <1>1, <1>2, <1>3 DEF Line, Follows

\* What a resumed run stands on follows.
LEMMA LineContinues == ASSUME Line PROVE Lin!ResumeContinues
<1>1. ASSUME NEW t \in Lin!Tasks
      PROVE  /\ tasks[t].pc = "run" /\ ~tasks[t].torn => tasks[t].work = 1 .. tasks[t].done
             /\ tasks[t].status = "READY_FOR_REVIEW" /\ ~tasks[t].accepted /\ ~tasks[t].rerun => tasks[t].errs = {}
             /\ tasks[t].stream = "open" /\ tasks[t].pc = "rest" /\ tasks[t].status \in Lin!Terminal
                  => tasks[t].cancelled \/ tasks[t].unplanned
  BY DEF Line, Sound, Working, Reviewed, Lin!Tasks
<1>2. \A c, d \in Lin!Tasks : tasks[c].parent = tasks[d].parent /\ Lin!Holds(c) /\ Lin!Holds(d) => c = d
  BY DEF Line, Lin!Tasks
<1> QED
  BY <1>1, <1>2 DEF Lin!ResumeContinues

\* A resumed run stands on the work of its completed steps, through any number of resumes.
LEMMA ResumesContinue == Lin!Init /\ [][Lin!Next]_tasks => []Lin!ResumeContinues
<1>1. Line /\ [Lin!Next]_tasks => Line'
  <2>1. ASSUME Line, UNCHANGED tasks PROVE Line'
    BY <2>1 DEF Line, Sound, Working, Waiting, Reviewed, Follows, Ended, Lin!Holds
  <2>2. ASSUME Line, NEW t \in DOMAIN tasks, NEW s \in Lin!Stages, Lin!Resume(t, s) PROVE Line'
    BY <2>2, ResumeKeeps
  <2>3. ASSUME Line, NEW t \in DOMAIN tasks, Lin!ResumeFromChat(t) PROVE Line'
    BY <2>3, ResumeKeeps DEF Lin!Stages
  <2> QED
    BY <2>1, <2>2, <2>3, RunSteps, LaunchKeeps DEF Lin!Next, Lin!Tasks
<1> QED
  BY <1>1, LineStart, LineContinues, PTL

\* For any number of runs: a run that goes on with its parent's shadow finds in it the work of
\* the steps it counts as done, it alone, and what was accepted was validated.
THEOREM ResumesStandOnTheirWork == Spec => []ResumeContinues
<1>1. Init => Lin!Init
  BY DEF Init
<1>2. [Next]_vars => [Lin!Next]_tasks
  BY DEF Next, vars
<1>3. Lin!ResumeContinues => ResumeContinues
  BY DEF ResumeContinues
<1> QED
  BY <1>1, <1>2, <1>3, ResumesContinue, PTL DEF Spec
===============================================================================

----------------------------- MODULE LoopProofs -------------------------------
(***************************************************************************)
(* What TLAPS proves about the loops that run a step, with the tool loop   *)
(* or from patch candidates, and the one that makes a plan, for any files, *)
(* manifests, tools, candidates and bounds.                                *)
(***************************************************************************)
EXTENDS Services, Sequences, TLAPS


LoopStates == {"EXPLORE", "MUST_READ", "CAN_RETRY", "BLOCKING", "CLEAN", "TEST_FAILED", "TEST_PASSED"}
LoopResults == {"none", "verified", "unverified", "handoff", "aborted", "raised"}

LoopType ==
    [pc : {"idle", "turn", "ended"}, commandOnly : BOOLEAN, skip : BOOLEAN, broken : SUBSET LoopFiles,
     state : LoopStates, retries : Nat, patched : BOOLEAN, explore : Nat, verify : Nat, turns : Nat,
     refused : BOOLEAN, pending : SUBSET LoopFiles, owed : SUBSET LoopFiles,
     touched : SUBSET (LoopFiles \cup {Loop!Lock}), drift : BOOLEAN, known : SUBSET LoopFiles,
     errs : SUBSET LoopFiles, ran : BOOLEAN, result : LoopResults]

(* The states from which verify_done can be reached without another patch have no error;   *)
(* the one that a command's success leads to remembers it; and what is owed is pending.    *)
Clean(l) == l.errs \cap l.touched = {}
Held(l) ==
    /\ l \in LoopType /\ l.owed \subseteq LoopManifests
    /\ \A m : LoopManifests = {m} => l.owed \subseteq l.pending
    /\ l.drift => Loop!Lock \in l.touched
Checked(l) ==
    /\ Held(l)
    /\ l.state \in {"CLEAN", "TEST_FAILED", "TEST_PASSED"} => Clean(l)
    /\ l.state = "TEST_PASSED" => l.ran

Verified(l) ==
    l.result = "verified" =>
        /\ ~l.skip => Clean(l) /\ (l.commandOnly => l.ran)
        /\ \A m : LoopManifests = {m} => l.owed = {}

LoopInv == Checked(loop) /\ Verified(loop) /\ (loop.pc # "ended" => loop.result = "none")

\* A turn that goes on, or the loop giving up after it.
LEMMA TurnEnds ==
    ASSUME NEW l, Checked(l), l.pc = "turn", l.result = "none", Loop!EndTurn(l)
    PROVE  LoopInv'
<1>1. CASE l.turns + 1 < Loop!Total
  <2>1. loop' = [l EXCEPT !.turns = @ + 1]
    BY <1>1 DEF Loop!EndTurn
  <2> QED
    BY <2>1 DEF Checked, Held, LoopType, Clean, LoopInv, Verified
<1>2. CASE ~(l.turns + 1 < Loop!Total)
  <2>1. PICK r \in {"handoff", "raised"} : loop' = [l EXCEPT !.pc = "ended", !.result = r]
    BY <1>2 DEF Loop!EndTurn, Loop!GiveUp, Loop!Return
  <2> QED
    BY <2>1 DEF Checked, Held, LoopType, Clean, LoopInv, Verified, LoopResults
<1> QED
  BY <1>1, <1>2

\* The loop returns without a verified step.
LEMMA ReturnsUnverified ==
    ASSUME NEW l, Checked(l), NEW r \in LoopResults \ {"verified"}, Loop!Return(l, r)
    PROVE  LoopInv'
BY DEF Loop!Return, Checked, Held, LoopType, Clean, LoopInv, Verified

\* The loop returns a verified step.
LEMMA ReturnsVerified ==
    ASSUME NEW l, Checked(l), l.skip \/ (Clean(l) /\ (l.commandOnly => l.ran)),
           l.pending = {}, Loop!Return(l, "verified")
    PROVE  LoopInv'
<1>1. loop' = [l EXCEPT !.pc = "ended", !.result = "verified"]
  BY DEF Loop!Return
<1>2. Checked(loop')
  BY <1>1 DEF Checked, Held, LoopType, Clean, LoopResults
<1>3. Verified(loop')
  BY <1>1 DEF Checked, Held, LoopType, Clean, Verified
<1>4. loop'.pc = "ended"
  BY <1>1 DEF Checked, Held, LoopType
<1> QED
  BY <1>2, <1>3, <1>4 DEF LoopInv

\* An install leaves nothing pending, and the lock file it writes has no error.
LEMMA InstallIsSound ==
    ASSUME Loop!Lock \notin LoopFiles, NEW l, Checked(l), NEW locks \in BOOLEAN
    PROVE  /\ Checked(Loop!Installed(l, locks)) /\ Loop!Installed(l, locks).pending = {}
           /\ Clean(l) => Clean(Loop!Installed(l, locks))
           /\ \A f \in {"pc", "result", "skip", "commandOnly", "ran", "state"} :
                Loop!Installed(l, locks)[f] = l[f]
<1> DEFINE i == Loop!Installed(l, locks)
<1>1. CASE l.pending = {}
  BY <1>1 DEF Loop!Installed
<1>2. CASE l.pending # {}
  <2>1. i = [l EXCEPT !.pending = {}, !.owed = @ \ l.pending, !.drift = @ \/ locks,
                      !.touched = IF locks THEN @ \cup {Loop!Lock} ELSE @]
    BY <1>2 DEF Loop!Installed
  <2> DEFINE t == IF locks THEN l.touched \cup {Loop!Lock} ELSE l.touched
             o == l.owed \ l.pending
             d == l.drift \/ locks
  <2>a. t \in SUBSET (LoopFiles \cup {Loop!Lock}) /\ o \in SUBSET LoopFiles /\ d \in BOOLEAN
    BY DEF Checked, Held, LoopType
  <2>b. i = [l EXCEPT !.pending = {}, !.owed = o, !.drift = d, !.touched = t]
    BY <2>1 DEF Checked, Held, LoopType
  <2>2. i \in LoopType
    <3> HIDE DEF t, o, d, i
    <3> QED
      BY <2>a, <2>b DEF Checked, Held, LoopType
  <2>3. i.pending = {} /\ i.owed = l.owed \ l.pending /\ i.errs = l.errs /\ i.drift = (l.drift \/ locks)
        /\ i.touched = (IF locks THEN l.touched \cup {Loop!Lock} ELSE l.touched)
        /\ i.state = l.state /\ i.ran = l.ran /\ i.pc = l.pc /\ i.result = l.result
        /\ i.skip = l.skip /\ i.commandOnly = l.commandOnly
    BY <2>1 DEF Checked, Held, LoopType
  <2>4. Loop!Lock \notin l.errs
    BY DEF Checked, Held, LoopType
  <2>5. Clean(l) => Clean(i)
    BY <2>3, <2>4 DEF Clean
  <2>6. Checked(i)
    BY <2>2, <2>3, <2>5 DEF Checked, Held
  <2> QED
    BY <2>3, <2>5, <2>6
<1> QED
  BY <1>1, <1>2

\* A transition is sound if the checks that its event stands for were passed.
LEMMA FireIsSound ==
    ASSUME NEW l, Held(l),
           NEW event \in {"failed", "read", "blocking", "clean", "passed", "unpassed"},
           event \in {"clean", "passed", "unpassed"} => Clean(l), event = "passed" => l.ran
    PROVE  /\ Checked(Loop!Fire(l, event))
           /\ \A f \in {"pc", "result", "skip", "commandOnly", "pending"} : Loop!Fire(l, event)[f] = l[f]
<1> DEFINE r == IF l.state \in Loop!Failing /\ Loop!StateAfter(event) \notin Loop!Failing THEN 0 ELSE l.retries
           n == Loop!Fire(l, event)
<1>1. Loop!StateAfter(event) \in LoopStates /\ r \in Nat
  BY DEF Loop!StateAfter, LoopStates, Held, LoopType
<1>2. n = [l EXCEPT !.state = Loop!StateAfter(event), !.retries = r]
  BY DEF Loop!Fire, Held, LoopType
<1>3. Loop!StateAfter(event) \in {"CLEAN", "TEST_FAILED", "TEST_PASSED"} => Clean(l)
  BY DEF Loop!StateAfter
<1>4. Loop!StateAfter(event) = "TEST_PASSED" => l.ran
  BY DEF Loop!StateAfter
<1> HIDE DEF r, n
<1>5. Checked(n)
  BY <1>1, <1>2, <1>3, <1>4 DEF Checked, Held, LoopType, Clean
<1>6. \A f \in {"pc", "result", "skip", "commandOnly", "pending"} : n[f] = l[f]
  BY <1>2 DEF Held, LoopType
<1> QED
  BY <1>5, <1>6 DEF n

\* What every turn starts from.
LEMMA TurnIsSound ==
    ASSUME LoopInv, loop.pc = "turn"
    PROVE  Checked(loop) /\ loop.result = "none"
BY DEF LoopInv

\* verify_done is offered in a state without errors, and after a successful command
\* only to a step that is nothing but its commands.
LEMMA VerifyDoneIsChecked ==
    ASSUME LoopInv, Loop!May("verify_done")
    PROVE  Clean(loop) /\ (loop.commandOnly => loop.ran)
<1>1. loop.state \in {"CLEAN", "TEST_PASSED"} /\ (loop.commandOnly => loop.state = "TEST_PASSED")
  <2>1. loop.state \in LoopStates
    BY DEF LoopInv, Checked, Held, LoopType
  <2> QED
    BY <2>1 DEF Loop!May, Loop!Allowed, Loop!Offered, LoopStates, Loop!Readers, Loop!Setups
<1> QED
  BY <1>1 DEF LoopInv, Checked

LEMMA VerifyDoneStep ==
    ASSUME Loop!Lock \notin LoopFiles, LoopInv, NEW verified \in BOOLEAN, NEW locks \in BOOLEAN,
           Loop!VerifyDone(verified, locks)
    PROVE  LoopInv'
<1>1. Checked(loop) /\ Loop!May("verify_done")
  BY TurnIsSound DEF Loop!VerifyDone, Loop!May
<1>2. Clean(loop) /\ (loop.commandOnly => loop.ran)
  BY <1>1, VerifyDoneIsChecked
<1> DEFINE i == Loop!Flushed(loop, locks)
<1>3. /\ Checked(i) /\ i.pending = {} /\ Clean(i)
      /\ i.commandOnly = loop.commandOnly /\ i.ran = loop.ran
  BY <1>1, <1>2, InstallIsSound DEF Loop!Flushed
<1>4. Loop!Return(i, IF verified THEN "verified" ELSE "unverified")
  BY DEF Loop!VerifyDone
<1> HIDE DEF i
<1>5. CASE verified
  BY <1>2, <1>3, <1>4, <1>5, ReturnsVerified
<1>6. CASE ~verified
  BY <1>3, <1>4, <1>6, ReturnsUnverified DEF LoopResults
<1> QED
  BY <1>5, <1>6

\* A patch that does not apply changes nothing but the state and the count of failures.
LEMMA PatchFailsStep ==
    ASSUME LoopInv, Loop!PatchFails
    PROVE  LoopInv'
<1>1. Checked(loop) /\ loop.pc = "turn" /\ loop.result = "none"
  BY TurnIsSound DEF Loop!PatchFails, Loop!May
<1> DEFINE n == Loop!Fire(loop, "failed")
           more == loop.retries + 1
<1>2. Checked(n) /\ n.pc = "turn" /\ n.result = "none"
  BY <1>1, FireIsSound DEF Checked
<1>3. CASE loop.state # "CAN_RETRY"
  BY <1>2, <1>3, TurnEnds DEF Loop!PatchFails
<1>4. CASE loop.state = "CAN_RETRY" /\ more >= MaxPatchRetries
  <2>1. Loop!Return([loop EXCEPT !.retries = @ + 1], "unverified")
    BY <1>4 DEF Loop!PatchFails
  <2>2. Checked([loop EXCEPT !.retries = @ + 1])
    BY <1>1 DEF Checked, Held, LoopType, Clean
  <2> QED
    BY <2>1, <2>2, ReturnsUnverified DEF LoopResults
<1>5. CASE loop.state = "CAN_RETRY" /\ ~(more >= MaxPatchRetries)
  <2>1. Loop!EndTurn([n EXCEPT !.retries = @ + 1])
    BY <1>5 DEF Loop!PatchFails
  <2> HIDE DEF n
  <2>2. Checked([n EXCEPT !.retries = @ + 1])
    BY <1>2 DEF Checked, Held, LoopType, Clean
  <2>3. [n EXCEPT !.retries = @ + 1].pc = "turn" /\ [n EXCEPT !.retries = @ + 1].result = "none"
    BY <1>2 DEF Checked, Held, LoopType
  <2> QED
    BY <2>1, <2>2, <2>3, TurnEnds
<1> QED
  BY <1>3, <1>4, <1>5

\* A patch that got through leaves what it writes known, and its manifest pending.
LEMMA PatchedIsHeld ==
    ASSUME LoopInv, loop.pc = "turn", NEW files \in SUBSET LoopFiles, NEW bad \in SUBSET files,
           NEW fixed \in SUBSET LoopFiles, NEW p \in Loop!Scheduled(files)
    PROVE  LET l == [Loop!Patched(files, bad, fixed) EXCEPT !.pending = p] IN
           /\ Held(l) /\ l.pc = "turn" /\ l.result = "none" /\ l.pending = p
           /\ l.skip = loop.skip
           /\ ~Loop!Blocked(Loop!Patched(files, bad, fixed)) => Clean(l)
<1> DEFINE k == IF loop.patched THEN loop.known ELSE loop.broken \cap files
           q == Loop!Patched(files, bad, fixed)
           l == [q EXCEPT !.pending = p]
<1>1. loop \in LoopType /\ loop.result = "none" /\ Held(loop)
  BY TurnIsSound DEF Checked, Held
<1>2. p \in SUBSET LoopFiles /\ k \in SUBSET LoopFiles
  BY <1>1 DEF Loop!Scheduled, LoopType
<1>3. q = [loop EXCEPT !.patched = TRUE, !.ran = FALSE, !.touched = loop.touched \cup files,
                       !.errs = (loop.errs \ files) \cup bad, !.known = k,
                       !.broken = loop.broken \ fixed,
                       !.owed = loop.owed \cup (files \cap LoopManifests)]
  BY <1>1 DEF Loop!Patched, LoopType
<1> HIDE DEF k, q
<1>4. l \in LoopType
  BY <1>1, <1>2, <1>3 DEF LoopType
<1>5. /\ l.pending = p /\ l.owed = loop.owed \cup (files \cap LoopManifests)
      /\ l.touched = loop.touched \cup files /\ l.drift = loop.drift
      /\ l.pc = loop.pc /\ l.result = loop.result /\ l.skip = loop.skip
      /\ l.errs = q.errs /\ l.touched = q.touched
  BY <1>1, <1>3 DEF LoopType
<1>6. ASSUME NEW m, LoopManifests = {m}  PROVE l.owed \subseteq p
  <2>1. CASE files \cap LoopManifests = {}
    BY <1>1, <1>5, <1>6, <2>1 DEF Loop!Scheduled, Held
  <2>2. CASE files \cap LoopManifests # {}
    <3>1. p = {m}
      BY <1>6, <2>2 DEF Loop!Scheduled
    <3>2. l.owed \subseteq LoopManifests
      BY <1>1, <1>5 DEF Held
    <3> QED
      BY <1>6, <3>1, <3>2
  <2> QED
    BY <2>1, <2>2
<1> HIDE DEF l
<1>7. Held(l)
  BY <1>1, <1>4, <1>5, <1>6 DEF Held
<1>8. ~Loop!Blocked(q) => Clean(l)
  BY <1>5 DEF Loop!Blocked, Clean
<1> QED
  BY <1>1, <1>5, <1>7, <1>8 DEF l, q

\* A patch that got through: the loop goes on from the state its checks say, or, when
\* checking is switched off, returns at once, its installs made.
LEMMA PatchAppliedStep ==
    ASSUME Loop!Lock \notin LoopFiles, LoopInv, NEW files \in SUBSET LoopFiles, NEW bad \in SUBSET files,
           NEW fixed \in SUBSET LoopFiles, NEW locks \in BOOLEAN,
           Loop!PatchApplied(files, bad, fixed, locks)
    PROVE  LoopInv'
<1> DEFINE q == Loop!Patched(files, bad, fixed)
           event == IF Loop!Blocked(q) THEN "blocking" ELSE "clean"
<1>1. PICK p \in Loop!Scheduled(files) :
        LET next == Loop!Fire([q EXCEPT !.pending = p], event)
        IN IF loop.skip THEN Loop!Return(Loop!Flushed(next, locks), "verified") ELSE Loop!EndTurn(next)
  BY Zenon DEF Loop!PatchApplied
<1> DEFINE l == [q EXCEPT !.pending = p]
           next == Loop!Fire(l, event)
           i == Loop!Flushed(next, locks)
<1>2. loop.pc = "turn"
  BY DEF Loop!PatchApplied, Loop!May
<1>3. /\ Held(l) /\ l.pc = "turn" /\ l.result = "none" /\ l.skip = loop.skip
      /\ ~Loop!Blocked(q) => Clean(l)
  BY <1>2, PatchedIsHeld
<1>4. /\ event \in {"failed", "read", "blocking", "clean", "passed", "unpassed"}
      /\ event # "passed" /\ event # "unpassed" /\ (event = "clean" => ~Loop!Blocked(q))
  OBVIOUS
<1>5. IF loop.skip THEN Loop!Return(i, "verified") ELSE Loop!EndTurn(next)
  BY <1>1, Zenon
<1> HIDE DEF l, event
<1>6. /\ Checked(next) /\ next.pc = "turn" /\ next.result = "none" /\ next.skip = loop.skip
  BY <1>3, <1>4, FireIsSound
<1> HIDE DEF next
<1>7. CASE loop.skip
  <2>1. Checked(i) /\ i.pending = {} /\ i.skip
    BY <1>6, <1>7, InstallIsSound DEF Loop!Flushed
  <2>2. Loop!Return(i, "verified")
    BY <1>5, <1>7
  <2> HIDE DEF i
  <2> QED
    BY <2>1, <2>2, ReturnsVerified
<1>8. CASE ~loop.skip
  BY <1>5, <1>6, <1>8, TurnEnds
<1> QED
  BY <1>7, <1>8

\* A call is offered where nothing it can lead to is unchecked: a command only in a
\* state without errors.
LEMMA CallStep ==
    ASSUME Loop!Lock \notin LoopFiles, LoopInv, NEW tool, NEW ok \in BOOLEAN, NEW locks \in BOOLEAN,
           Loop!Call(tool, ok, locks)
    PROVE  LoopInv'
<1>1. Checked(loop) /\ loop.pc = "turn" /\ loop.result = "none" /\ Loop!May(tool)
  BY TurnIsSound DEF Loop!Call, Loop!May
<1> DEFINE paid == IF Loop!Verifying THEN [loop EXCEPT !.verify = @ + 1]
                                ELSE [loop EXCEPT !.explore = @ + 1]
           l == IF tool = "run_command" THEN Loop!Installed(paid, locks) ELSE paid
<1>2. CASE Loop!Verifying /\ loop.verify >= MaxVerify
  <2>1. Loop!Return(loop, "unverified")
    BY <1>2 DEF Loop!Call
  <2> QED
    BY <1>1, <2>1, ReturnsUnverified DEF LoopResults
<1>3. CASE ~Loop!Verifying /\ loop.explore >= MaxExplore
  <2>1. PICK r \in {"handoff", "raised"} : Loop!Return(loop, r)
    BY <1>3 DEF Loop!Call, Loop!GiveUp
  <2> QED
    BY <1>1, <2>1, ReturnsUnverified DEF LoopResults
<1>4. CASE ~(Loop!Verifying /\ loop.verify >= MaxVerify) /\ ~(~Loop!Verifying /\ loop.explore >= MaxExplore)
  <2>1. Loop!EndTurn(Loop!Called(l, tool, ok))
    BY <1>4 DEF Loop!Call
  <2>2. Checked(paid) /\ paid.pc = "turn" /\ paid.result = "none" /\ paid.state = loop.state
    <3>1. \/ paid = [loop EXCEPT !.verify = loop.verify + 1]
          \/ paid = [loop EXCEPT !.explore = loop.explore + 1]
      OBVIOUS
    <3> HIDE DEF paid
    <3>2. PICK c \in LoopType : c = loop
      BY <1>1 DEF Checked, Held
    <3>3. ASSUME NEW v \in Nat, NEW d, d = [c EXCEPT !.verify = v] \/ d = [c EXCEPT !.explore = v]
          PROVE  Checked(d) /\ d.pc = "turn" /\ d.result = "none" /\ d.state = c.state
      BY <1>1, <3>2, <3>3 DEF Checked, Held, LoopType, Clean
    <3>4. loop.verify + 1 \in Nat /\ loop.explore + 1 \in Nat
      BY <3>2 DEF LoopType
    <3> QED
      BY <3>1, <3>2, <3>3, <3>4
  <2> HIDE DEF paid
  <2>3. Checked(l) /\ l.pc = "turn" /\ l.result = "none" /\ l.state = loop.state
    BY <2>2, InstallIsSound
  <2> HIDE DEF l
  <2>4. CASE tool = "run_command"
    <3>1. loop.state \in {"CLEAN", "TEST_FAILED"}
      <4>1. loop.state \in LoopStates
        BY <1>1 DEF Checked, Held, LoopType
      <4> QED
        BY <1>1, <2>4, <4>1 DEF Loop!May, Loop!Allowed, Loop!Offered, LoopStates, Loop!Readers, Loop!Setups
    <3> DEFINE m == [l EXCEPT !.ran = ok]
               event == IF ok THEN "passed" ELSE "unpassed"
    <3>2. Held(m) /\ Clean(m) /\ m.pc = "turn" /\ m.result = "none" /\ m.ran = ok
      BY <2>3, <3>1 DEF Checked, Held, LoopType, Clean
    <3>3. Loop!Called(l, tool, ok) = Loop!Fire(m, event)
      BY <2>4 DEF Loop!Called
    <3>4. event \in {"passed", "unpassed"} /\ (event = "passed" => m.ran)
      BY <3>2
    <3> HIDE DEF m, event
    <3>5. Checked(Loop!Fire(m, event)) /\ Loop!Fire(m, event).pc = "turn" /\ Loop!Fire(m, event).result = "none"
      BY <3>2, <3>4, FireIsSound
    <3> QED
      BY <2>1, <3>3, <3>5, TurnEnds
  <2>5. CASE tool # "run_command"
    <3>1. \/ Loop!Called(l, tool, ok) = Loop!Fire(l, "read")
          \/ Loop!Called(l, tool, ok) = l
      BY <2>5 DEF Loop!Called
    <3>2. Checked(Loop!Fire(l, "read")) /\ Loop!Fire(l, "read").pc = "turn" /\ Loop!Fire(l, "read").result = "none"
      BY <2>3, FireIsSound DEF Checked
    <3> QED
      BY <2>1, <2>3, <3>1, <3>2, TurnEnds
  <2> QED
    BY <2>4, <2>5
<1> QED
  BY <1>2, <1>3, <1>4

\* A step begins with nothing touched.
LEMMA LoopBegins ==
    ASSUME LoopInv, NEW c \in BOOLEAN, NEW s \in BOOLEAN, NEW b \in SUBSET LoopFiles, Loop!Begin(c, s, b)
    PROVE  LoopInv'
<1>1. loop' = [Loop!NoLoop EXCEPT !.pc = "turn", !.commandOnly = c, !.skip = s, !.broken = b,
                             !.state = IF c THEN "CLEAN" ELSE "EXPLORE"]
  BY DEF Loop!Begin
<1>2. loop' \in LoopType
  BY <1>1 DEF Loop!NoLoop, LoopType, LoopStates, LoopResults
<1>3. /\ loop'.errs = {} /\ loop'.owed = {} /\ ~loop'.drift /\ loop'.result = "none"
      /\ loop'.state # "TEST_PASSED"
  BY <1>1 DEF Loop!NoLoop
<1> QED
  BY <1>2, <1>3 DEF LoopInv, Checked, Held, Clean, Verified

\* Nothing has begun.
LEMMA LoopStarts == Loop!Init => LoopInv
<1> SUFFICES ASSUME Loop!Init  PROVE LoopInv
  OBVIOUS
<1>1. loop \in LoopType
  BY DEF Loop!Init, Loop!NoLoop, LoopType, LoopStates, LoopResults
<1>2. /\ loop.errs = {} /\ loop.owed = {} /\ ~loop.drift /\ loop.result = "none"
      /\ loop.state = "EXPLORE"
  BY DEF Loop!Init, Loop!NoLoop
<1> QED
  BY <1>1, <1>2 DEF LoopInv, Checked, Held, Clean, Verified

\* Every turn keeps the invariant.
LEMMA LoopSteps ==
    ASSUME Loop!Lock \notin LoopFiles, LoopInv, [Loop!Next]_loop
    PROVE  LoopInv'
<1>1. CASE UNCHANGED loop
  BY <1>1 DEF LoopInv, Checked, Held, Clean, Verified
<1>2. CASE \E c, s \in BOOLEAN, b \in SUBSET LoopFiles : Loop!Begin(c, s, b)
  BY <1>2, LoopBegins
<1>3. CASE Loop!AbortSeen \/ Loop!RevisionNeeded \/ Loop!EmitBad
  <2>1. loop.pc = "turn" /\ \E r \in {"aborted", "handoff", "raised"} : Loop!Return(loop, r)
    BY <1>3 DEF Loop!AbortSeen, Loop!RevisionNeeded, Loop!EmitBad, Loop!May
  <2> QED
    BY <2>1, TurnIsSound, ReturnsUnverified DEF LoopResults
<1>4. CASE Loop!WastedTurn
  BY <1>4, TurnIsSound, TurnEnds DEF Loop!WastedTurn
<1>5. CASE Loop!ScopeRefused
  <2>1. Checked(loop) /\ loop.pc = "turn" /\ loop.result = "none"
    BY <1>5, TurnIsSound DEF Loop!ScopeRefused, Loop!May
  <2> DEFINE l == [loop EXCEPT !.refused = TRUE]
  <2>2. Checked(l) /\ l.pc = "turn" /\ l.result = "none"
    BY <2>1 DEF Checked, Held, LoopType, Clean
  <2>3. Loop!EndTurn(l)
    BY <1>5 DEF Loop!ScopeRefused
  <2> HIDE DEF l
  <2> QED
    BY <2>2, <2>3, TurnEnds
<1>6. CASE Loop!PatchFails
  BY <1>6, PatchFailsStep
<1>7. CASE \E v, k \in BOOLEAN : Loop!VerifyDone(v, k)
  BY <1>7, VerifyDoneStep
<1>8. CASE \E f \in (SUBSET LoopFiles) \ {{}}, k \in BOOLEAN :
             \E b \in SUBSET f, x \in SUBSET (f \cap loop.broken) : Loop!PatchApplied(f, b, x, k)
  <2>1. PICK f \in (SUBSET LoopFiles) \ {{}}, k \in BOOLEAN :
               \E b \in SUBSET f, x \in SUBSET (f \cap loop.broken) : Loop!PatchApplied(f, b, x, k)
    BY <1>8
  <2>2. PICK b \in SUBSET f, x \in SUBSET (f \cap loop.broken) : Loop!PatchApplied(f, b, x, k)
    BY <2>1
  <2>3. x \in SUBSET LoopFiles /\ f \in SUBSET LoopFiles
    OBVIOUS
  <2> QED
    BY <2>2, <2>3, PatchAppliedStep
<1>9. CASE \E t \in Loop!Readers \cup Loop!Setups \cup {"run_command"}, ok, k \in BOOLEAN : Loop!Call(t, ok, k)
  BY <1>9, CallStep
<1> QED
  BY <1>1, <1>2, <1>3, <1>4, <1>5, <1>6, <1>7, <1>8, <1>9 DEF Loop!Next

\* The invariant says what the step promises.
LEMMA LoopPromises ==
    ASSUME LoopInv
    PROVE  Loop!VerifiedIsChecked /\ Loop!InstallsRun
<1>1. Loop!VerifiedIsChecked
  BY DEF LoopInv, Verified, Loop!VerifiedIsChecked, Clean
<1>2. ASSUME loop.result = "verified", \E m \in LoopManifests : LoopManifests = {m}  PROVE loop.owed = {}
  BY <1>2 DEF LoopInv, Verified
<1>3. loop.drift => Loop!Lock \in loop.touched
  BY DEF LoopInv, Checked, Held
<1> QED
  BY <1>1, <1>2, <1>3 DEF Loop!InstallsRun

\* For any files, manifests and budgets: a step reported as verified has no error that it
\* introduced in a file it touched, its commands ran and passed since its last patch when
\* they are all there is to it, and no install that a manifest asked for is lost.
LEMMA StepsAreChecked ==
    ASSUME Loop!Lock \notin LoopFiles
    PROVE  Loop!Init /\ [][Loop!Next]_loop => [](Loop!VerifiedIsChecked /\ Loop!InstallsRun)
<1>1. Loop!Init => LoopInv
  BY LoopStarts
<1>2. LoopInv /\ [Loop!Next]_loop => LoopInv'
  BY LoopSteps
<1>3. LoopInv => Loop!VerifiedIsChecked /\ Loop!InstallsRun
  BY LoopPromises
<1> QED
  BY <1>1, <1>2, <1>3, PTL

\* For any files, manifests and budgets: a step reported as verified has no error that it
\* introduced in a file it touched, its commands ran and passed since its last patch when
\* they are all there is to it, and no install that a manifest asked for is lost.
THEOREM StepsAreVerified == Spec => []VerifiedIsChecked
<1>1. Init => Loop!Init
  BY DEF Init
<1>2. [Next]_vars => [Loop!Next]_loop
  BY DEF Next, vars
<1>3. Loop!VerifiedIsChecked /\ Loop!InstallsRun => VerifiedIsChecked
  BY DEF VerifiedIsChecked
<1> QED
  BY <1>1, <1>2, <1>3, ServicesAssumption, StepsAreChecked, PTL DEF Spec

AsRecord ==
    val = [pc |-> val.pc, project |-> val.project, test |-> val.test, shadow |-> val.shadow,
           began |-> val.began, base |-> val.base, attempt |-> val.attempt, checkpoint |-> val.checkpoint,
           candidates |-> val.candidates, evals |-> val.evals, chosen |-> val.chosen]

\* Every attempt starts from the workspace as the run found it.
FromTheStart ==
    /\ val.pc \in {"attempt", "apply", "exhausted"} => val.shadow = val.began
    /\ val.pc \in {"evaluate", "apply", "completed", "passed", "repair"} => val.checkpoint = val.began
    /\ val.pc \in {"completed", "passed", "repair"} => val.shadow = Val!Applied(val.checkpoint, val.chosen.ops)

\* What the run is judged against are the complaints of that workspace, and no others.
Judged ==
    /\ val.pc # "new" => val.base \subseteq {d.message : d \in Val!Run(val.project, val.began)}
    /\ val.pc = "passed" => Val!Success(Val!Filtered(Val!Run(val.project, val.shadow), val.base))

ValInv == AsRecord /\ FromTheStart /\ Judged

\* Equal fingerprints are of the same command, and of the same files.
LEMMA SameFingerprint ==
    ASSUME NEW name, NEW other, NEW began, NEW shadow,
           Val!Normalized(name, shadow) = Val!Normalized(other, began)
    PROVE  /\ name = other
           /\ Val!Fingerprint(name, shadow) \subseteq Val!Fingerprint(name, began)
<1> DEFINE Named(s, n) == {<<f, s[f]>> : f \in Val!Fingerprint(n, s)}
<1>1. name = other
  BY DEF Val!Normalized
<1>2. Named(shadow, name) = Named(began, name)
  BY <1>1 DEF Val!Normalized
<1>3. ASSUME NEW f \in Val!Fingerprint(name, shadow) PROVE f \in Val!Fingerprint(name, began)
  <2>1. <<f, shadow[f]>> \in Named(began, name)
    BY <1>2, <1>3
  <2>2. PICK g \in Val!Fingerprint(name, began) : <<f, shadow[f]>> = <<g, began[g]>>
    BY <2>1
  <2> QED
    BY <2>2
<1> QED
  BY <1>1, <1>3

\* What passes the judgement fails nothing new.
LEMMA JudgedFailsNothingNew == ASSUME Judged PROVE Val!PassedFailsNothingNew
<1> SUFFICES ASSUME val.pc = "passed", NEW c \in Val!Commands(val.project), c.level = "error"
             PROVE  /\ Val!Fingerprint(c.name, val.shadow) \subseteq Val!Fingerprint(c.name, val.began)
                    /\ Val!Complaints(c.name, val.began) = {} => Val!Complaints(c.name, val.shadow) = {}
  BY DEF Val!PassedFailsNothingNew
<1>1. CASE Val!Complaints(c.name, val.shadow) = {}
  BY <1>1 DEF Val!Fingerprint, Val!FailedTests
<1>2. CASE Val!Complaints(c.name, val.shadow) # {}
  <2>1. PICK d : d = [level |-> c.level, message |-> Val!Normalized(c.name, val.shadow)]
    OBVIOUS
  <2>2. d \in Val!Run(val.project, val.shadow)
    BY <1>2, <2>1 DEF Val!Run
  <2>3. d.message \in val.base
    BY <2>1, <2>2 DEF Judged, Val!Success, Val!Filtered
  <2>4. PICK e \in Val!Run(val.project, val.began) : e.message = d.message
    BY <2>3 DEF Judged
  <2>5. PICK b \in Val!Commands(val.project) : /\ Val!Complaints(b.name, val.began) # {}
                                           /\ e.message = Val!Normalized(b.name, val.began)
    BY <2>4 DEF Val!Run
  <2>6. /\ c.name = b.name
        /\ Val!Fingerprint(c.name, val.shadow) \subseteq Val!Fingerprint(c.name, val.began)
    BY <2>1, <2>4, <2>5, SameFingerprint
  <2> QED
    BY <2>5, <2>6
<1> QED
  BY <1>1, <1>2

\* Before the run nothing is judged.
LEMMA ValStarts == ASSUME Val!Init PROVE ValInv
  BY DEF Val!Init, ValInv, AsRecord, FromTheStart, Judged

\* Every step of the run keeps what it is judged against.
LEMMA ValSteps == ASSUME ValInv, Val!Next PROVE ValInv'
<1> USE DEF ValInv
<1>1. CASE Val!Select
  <2>1. PICK c : c = Val!Best(val.evals)
    OBVIOUS
  <2>2. CASE val' = [val EXCEPT !.pc = "apply", !.shadow = val.checkpoint, !.chosen = c]
    BY <1>1, <2>2 DEF Val!Select, AsRecord, FromTheStart, Judged
  <2>3. CASE val' = Val!AttemptFails
    BY <1>1, <2>3 DEF Val!Select, Val!AttemptFails, Val!Restored, AsRecord, FromTheStart, Judged
  <2> QED
    BY <1>1, <2>1, <2>2, <2>3 DEF Val!Select, Val!Restored
<1>2. CASE Val!Validate
  <2>1. PICK ok \in BOOLEAN : ok = Val!Success(Val!Filtered(Val!Run(val.project, val.shadow), val.base))
    BY DEF Val!Success
  <2>2. val.pc = "completed" /\ val' = [val EXCEPT !.pc = IF ok THEN "passed" ELSE "repair"]
    BY <1>2, <2>1 DEF Val!Validate
  <2>3. /\ val'.shadow = val.shadow /\ val'.project = val.project /\ val'.base = val.base /\ val'.began = val.began
        /\ val'.pc = IF ok THEN "passed" ELSE "repair"
    BY <2>2 DEF AsRecord
  <2>4. AsRecord' /\ FromTheStart'
    BY <2>2 DEF AsRecord, FromTheStart
  <2>5. Judged'
    BY <2>1, <2>2, <2>3 DEF Judged
  <2> QED
    BY <2>4, <2>5
<1>3. ASSUME NEW project \in ValProjects, NEW shadow \in ValTrees, NEW test \in {"none", "pytest"},
             NEW raises \in BOOLEAN, Val!CollectBaseline(project, shadow, test, raises)
      PROVE  ValInv'
  <2>1. PICK base : base = IF raises THEN {} ELSE {d.message : d \in Val!Run(project, shadow)}
    OBVIOUS
  <2>2. val' = [val EXCEPT !.pc = "attempt", !.project = project, !.test = test, !.shadow = shadow,
                           !.began = shadow, !.base = base]
    BY <1>3, <2>1 DEF Val!CollectBaseline
  <2>3. /\ val'.pc = "attempt" /\ val'.project = project /\ val'.shadow = shadow /\ val'.began = shadow
        /\ val'.base = base
    BY <2>2 DEF AsRecord
  <2>4. AsRecord'
    BY <2>2 DEF AsRecord
  <2> QED
    BY <2>1, <2>3, <2>4 DEF FromTheStart, Judged
<1>4. ASSUME NEW raises \in BOOLEAN, Val!Install(raises) PROVE ValInv'
  <2>1. PICK shadow : shadow = Val!Applied(val.shadow, val.chosen.ops)
    OBVIOUS
  <2>2. val.pc = "apply"
    BY <1>4 DEF Val!Install
  <2>3. CASE val' = [val EXCEPT !.pc = "completed", !.shadow = shadow]
    BY <2>1, <2>2, <2>3 DEF AsRecord, FromTheStart, Judged
  <2>4. CASE val' = Val!AttemptFails
    BY <2>2, <2>4 DEF Val!AttemptFails, Val!Restored, AsRecord, FromTheStart, Judged
  <2> QED
    BY <1>4, <2>1, <2>3, <2>4 DEF Val!Install
<1>5. ASSUME NEW candidates, Val!Propose(candidates) PROVE ValInv'
  <2>1. PICK n : n = val.attempt + 1
    OBVIOUS
  <2>2. val' = [val EXCEPT !.pc = "evaluate", !.attempt = n, !.checkpoint = val.shadow,
                           !.candidates = candidates, !.evals = << >>]
    BY <1>5, <2>1 DEF Val!Propose, AsRecord
  <2> QED
    BY <1>5, <2>2 DEF Val!Propose, AsRecord, FromTheStart, Judged
<1>6. ASSUME NEW written, Val!Evaluate(written) PROVE ValInv'
  <2>1. PICK shadow, evals : val' = [val EXCEPT !.shadow = shadow, !.evals = evals]
    BY <1>6 DEF Val!Evaluate, AsRecord
  <2>2. val.pc = "evaluate"
    BY <1>6 DEF Val!Evaluate
  <2> QED
    BY <2>1, <2>2 DEF AsRecord, FromTheStart, Judged
<1> QED
  BY <1>1, <1>2, <1>3, <1>4, <1>5, <1>6 DEF Val!Next

\* Nothing else changes the run.
LEMMA ValidatedStaysNoWorse == Val!Init /\ [][Val!Next]_val => []Val!ValidatedIsNoWorse
<1>1. ValInv /\ UNCHANGED val => ValInv'
  BY DEF ValInv, AsRecord, FromTheStart, Judged
<1>2. ValInv => Val!ValidatedIsNoWorse
  BY JudgedFailsNothingNew DEF ValInv, FromTheStart, Val!ValidatedIsNoWorse, Val!StepLeavesChosen
<1> QED
  BY <1>1, <1>2, ValStarts, ValSteps, PTL

\* For any tools of a workspace, candidates and bounds: a step leaves exactly its chosen
\* candidate in the shadow, and a run that passes validation fails nothing that did not fail
\* before, what a complaint of pytest before it forgives excepted.
THEOREM ValidationIsNoWorse == Spec => []ValidatedIsNoWorse
<1>1. Init => Val!Init
  BY DEF Init
<1>2. [Next]_vars => [Val!Next]_val
  BY DEF Next, vars
<1>3. Val!ValidatedIsNoWorse => ValidatedIsNoWorse
  BY DEF ValidatedIsNoWorse
<1> QED
  BY <1>1, <1>2, <1>3, ValidatedStaysNoWorse, PTL DEF Spec

Texts == [rewrite : Nat, patches : Seq(Nat)]

PlanType ==
    [pc : {"idle", "turn", "done", "raised"}, mode : Plan!Modes, rounds : Nat, markdown : Texts,
     file : Texts, shown : Texts, turn : Nat, failures : Nat, malformed : Nat,
     corrected : BOOLEAN, result : {"none", "plan", "revision"}]

(* While a round runs, nobody touches the plan that the user was shown. *)
PlanInv == plan \in PlanType /\ (plan.pc = "turn" => plan.markdown = plan.shown) /\ Plan!RoundDelivers

\* A round that is not done has delivered nothing.
LEMMA NotDone ==
    ASSUME plan' \in PlanType, plan'.pc # "done", plan'.pc = "turn" => plan'.markdown = plan'.shown
    PROVE  PlanInv'
BY DEF PlanInv, Plan!RoundDelivers

\* The next turn of a round, or the end of its budget, leaves the plan alone.
LEMMA TurnGoesOn ==
    ASSUME NEW p \in PlanType, p.markdown = p.shown, p.pc = "turn", Plan!NextTurn(p)
    PROVE  PlanInv'
<1>1. CASE p.turn < MaxPlanCalls
  <2>1. plan' = [p EXCEPT !.turn = @ + 1, !.failures = 0]
    BY <1>1 DEF Plan!NextTurn
  <2>2. plan' \in PlanType
    <3> DEFINE n == p.turn + 1
    <3>1. n \in Nat /\ plan' = [p EXCEPT !.turn = n, !.failures = 0]
      BY <2>1 DEF PlanType
    <3> HIDE DEF n
    <3> QED
      BY <3>1 DEF PlanType
  <2>3. plan'.pc = "turn" /\ plan'.markdown = plan'.shown
    BY <2>1 DEF PlanType
  <2> QED
    BY <2>2, <2>3, NotDone
<1>2. CASE ~(p.turn < MaxPlanCalls)
  <2>1. plan' = [p EXCEPT !.pc = "raised"]
    BY <1>2 DEF Plan!NextTurn
  <2>2. plan' \in PlanType /\ plan'.pc = "raised"
    BY <2>1 DEF PlanType
  <2> QED
    BY <2>2, NotDone
<1> QED
  BY <1>1, <1>2

\* A round that raises delivers nothing.
LEMMA RaiseStep == ASSUME PlanInv, Plan!Raise  PROVE PlanInv'
<1>1. plan' \in PlanType /\ plan'.pc = "raised"
  BY DEF Plan!Raise, PlanInv, PlanType
<1> QED
  BY <1>1, NotDone

\* A correction starts the round again.
LEMMA MisfitStep ==
    ASSUME PlanInv, Plan!Turn, Plan!Misfit
    PROVE  PlanInv'
<1>1. CASE plan.mode = "revision" /\ ~plan.corrected
  <2>1. plan' = [plan EXCEPT !.corrected = TRUE, !.turn = 0, !.failures = 0, !.malformed = 0]
    BY <1>1 DEF Plan!Misfit
  <2>2. plan' \in PlanType /\ plan'.pc = "turn" /\ plan'.markdown = plan'.shown
    BY <2>1 DEF Plan!Turn, PlanInv, PlanType
  <2> QED
    BY <2>2, NotDone
<1>2. CASE ~(plan.mode = "revision" /\ ~plan.corrected)
  BY <1>2, RaiseStep DEF Plan!Misfit
<1> QED
  BY <1>1, <1>2

\* A round begins from the plan of the task.
LEMMA PlanBegins == ASSUME PlanInv, NEW m \in Plan!Modes, Plan!Begin(m)  PROVE PlanInv'
<1>1. plan' = [plan EXCEPT !.pc = "turn", !.mode = m, !.rounds = @ + 1, !.shown = plan.markdown,
                           !.turn = 0, !.failures = 0, !.malformed = 0, !.corrected = FALSE,
                           !.result = "none"]
  BY DEF Plan!Begin
<1>2. plan \in PlanType
  BY DEF PlanInv
<1>3. plan' \in PlanType
  <2> DEFINE n == plan.rounds + 1
             text == plan.markdown
  <2>1. /\ n \in Nat /\ text \in Texts
        /\ plan' = [plan EXCEPT !.pc = "turn", !.mode = m, !.rounds = n, !.shown = text,
                               !.turn = 0, !.failures = 0, !.malformed = 0,
                               !.corrected = FALSE, !.result = "none"]
    BY <1>1, <1>2 DEF PlanType
  <2> HIDE DEF n, text
  <2> QED
    BY <1>2, <2>1 DEF PlanType
<1>4. plan'.pc = "turn" /\ plan'.markdown = plan'.shown
  BY <1>1, <1>2 DEF PlanType
<1> QED
  BY <1>3, <1>4, NotDone

\* A failed call to the model, an answer that is no action, a tool call.
LEMMA TurnSteps ==
    ASSUME PlanInv, Plan!ModelFails \/ Plan!Malformed \/ \E b \in BOOLEAN : Plan!CallTool(b)
    PROVE  PlanInv'
<1>1. plan.pc = "turn" /\ plan \in PlanType /\ plan.markdown = plan.shown
  BY DEF Plan!ModelFails, Plan!Malformed, Plan!CallTool, Plan!Turn, PlanInv
<1>2. CASE Plan!Raise
  BY <1>2, RaiseStep
<1>3. CASE plan' = [plan EXCEPT !.failures = @ + 1]
  <2>1. plan' \in PlanType /\ plan'.pc = "turn" /\ plan'.markdown = plan'.shown
    BY <1>1, <1>3 DEF PlanType
  <2> QED
    BY <2>1, NotDone
<1>4. CASE Plan!NextTurn([plan EXCEPT !.malformed = @ + 1])
  <2> DEFINE p == [plan EXCEPT !.malformed = @ + 1]
  <2>1. p \in PlanType /\ p.markdown = p.shown /\ p.pc = "turn"
    BY <1>1 DEF PlanType
  <2> QED
    BY <1>4, <2>1, TurnGoesOn
<1>5. CASE Plan!NextTurn([plan EXCEPT !.malformed = 0])
  <2> DEFINE p == [plan EXCEPT !.malformed = 0]
  <2>1. p \in PlanType /\ p.markdown = p.shown /\ p.pc = "turn"
    BY <1>1 DEF PlanType
  <2> QED
    BY <1>5, <2>1, TurnGoesOn
<1> QED
  BY <1>2, <1>3, <1>4, <1>5 DEF Plan!ModelFails, Plan!Malformed, Plan!CallTool

\* A plan written anew, or a revision of the steps.
LEMMA EmitSteps ==
    ASSUME PlanInv, Plan!EmitPlan \/ \E b \in BOOLEAN : Plan!EmitRevision(b)
    PROVE  PlanInv'
<1>1. Plan!Turn /\ plan.pc = "turn" /\ plan \in PlanType /\ plan.markdown = plan.shown
  BY DEF Plan!EmitPlan, Plan!EmitRevision, Plan!Turn, PlanInv
<1>2. CASE Plan!Raise
  BY <1>2, RaiseStep
<1>3. CASE Plan!Misfit
  BY <1>1, <1>3, MisfitStep
<1>4. CASE plan.mode # "revision" /\ Plan!Deliver([rewrite |-> plan.rounds, patches |-> << >>])
  <2> DEFINE text == [rewrite |-> plan.rounds, patches |-> << >>]
  <2>1. text \in Texts
    <3>1. << >> \in Seq(Nat)
      OBVIOUS
    <3> QED
      BY <1>1, <3>1 DEF Texts, PlanType
  <2>2. plan' = [plan EXCEPT !.pc = "done", !.result = "plan", !.markdown = text]
    BY <1>4 DEF Plan!Deliver
  <2>3. plan' \in PlanType /\ plan'.pc = "done"
    BY <1>1, <2>1, <2>2 DEF PlanType
  <2>4. /\ plan'.mode = plan.mode /\ plan'.result = "plan" /\ plan'.markdown = text
        /\ plan'.rounds = plan.rounds
    BY <1>1, <2>2 DEF PlanType
  <2> QED
    BY <1>4, <2>3, <2>4 DEF PlanInv, Plan!RoundDelivers
<1>5. CASE plan.mode = "revision" /\ plan' = [plan EXCEPT !.pc = "done", !.result = "revision"]
  BY <1>1, <1>5 DEF PlanType, PlanInv, Plan!RoundDelivers
<1> QED
  BY <1>2, <1>3, <1>4, <1>5 DEF Plan!EmitPlan, Plan!EmitRevision

\* A patch of the plan is made to the plan the user was shown, or to nothing at all.
LEMMA EmitPlanPatchStep ==
    ASSUME PlanInv, NEW fits \in BOOLEAN, Plan!EmitPlanPatch(fits)
    PROVE  PlanInv'
<1> DEFINE text == Plan!PatchFile(plan.file, IF plan.mode = "feedback" THEN plan.shown ELSE Plan!NoText)
           new == [text EXCEPT !.patches = Append(@, plan.rounds)]
<1>1. /\ plan.pc = "turn" /\ plan \in PlanType /\ plan.markdown = plan.shown
      /\ plan.rounds \in Nat /\ plan.shown \in Texts
  BY DEF Plan!EmitPlanPatch, Plan!Turn, PlanInv, PlanType
<1>2. Plan!NoText \in Texts
  <2>1. << >> \in Seq(Nat)
    OBVIOUS
  <2> QED
    BY <2>1 DEF Plan!NoText, Texts
<1>3. text \in Texts /\ (plan.mode = "feedback" => text = plan.shown)
  BY <1>1, <1>2 DEF Plan!PatchFile
<1>4. CASE fits
  <2>1. plan.mode = "feedback"
    BY <1>4 DEF Plan!EmitPlanPatch
  <2>2. plan' = [plan EXCEPT !.pc = "done", !.result = "plan", !.markdown = new, !.file = new]
    BY <1>4 DEF Plan!EmitPlanPatch
  <2>3. new = [plan.shown EXCEPT !.patches = Append(@, plan.rounds)]
    BY <1>3, <2>1
  <2>4. new \in Texts
    <3>1. plan.shown.patches \in Seq(Nat)
      BY <1>1 DEF Texts
    <3>2. Append(plan.shown.patches, plan.rounds) \in Seq(Nat)
      BY <1>1, <3>1
    <3> QED
      BY <1>1, <2>3, <3>2 DEF Texts
  <2> HIDE DEF new, text
  <2>5. plan' \in PlanType /\ plan'.pc = "done"
    BY <1>1, <2>2, <2>4 DEF PlanType
  <2>6. /\ plan'.mode = plan.mode /\ plan'.result = "plan" /\ plan'.markdown = new
        /\ plan'.rounds = plan.rounds /\ plan'.shown = plan.shown
    BY <1>1, <2>2 DEF PlanType
  <2> QED
    BY <2>1, <2>3, <2>5, <2>6 DEF PlanInv, Plan!RoundDelivers
<1>5. CASE ~fits
  <2> DEFINE p == [plan EXCEPT !.file = text]
  <2>1. Plan!NextTurn(p)
    BY <1>5 DEF Plan!EmitPlanPatch
  <2> HIDE DEF text
  <2>2. p \in PlanType /\ p.markdown = p.shown /\ p.pc = "turn"
    BY <1>1, <1>3 DEF PlanType
  <2> QED
    BY <2>1, <2>2, TurnGoesOn
<1> QED
  BY <1>4, <1>5

\* For any budgets and any number of rounds, a planning round that is done did what was
\* asked of it: whatever earlier rounds and failed patches left in the scratch file.
LEMMA RoundsDeliver == Plan!Init /\ [][Plan!Next]_plan => []Plan!RoundDelivers
<1>1. Plan!Init => PlanInv
  <2>1. << >> \in Seq(Nat)
    OBVIOUS
  <2>2. Plan!NoText \in Texts
    BY <2>1 DEF Plan!NoText, Texts
  <2> QED
    BY <2>2 DEF Plan!Init, Plan!NoPlan, PlanInv, PlanType, Plan!RoundDelivers, Plan!Modes
<1>2. PlanInv /\ [Plan!Next]_plan => PlanInv'
  <2> SUFFICES ASSUME PlanInv, [Plan!Next]_plan  PROVE PlanInv'
    OBVIOUS
  <2>1. CASE UNCHANGED plan
    BY <2>1 DEF PlanInv, Plan!RoundDelivers
  <2>2. CASE \E m \in Plan!Modes : Plan!Begin(m)
    BY <2>2, PlanBegins
  <2>3. CASE Plan!ModelFails \/ Plan!Malformed \/ \E b \in BOOLEAN : Plan!CallTool(b)
    BY <2>3, TurnSteps
  <2>4. CASE Plan!EmitPlan \/ \E b \in BOOLEAN : Plan!EmitRevision(b)
    BY <2>4, EmitSteps
  <2>5. CASE \E b \in BOOLEAN : Plan!EmitPlanPatch(b)
    BY <2>5, EmitPlanPatchStep
  <2> QED
    BY <2>1, <2>2, <2>3, <2>4, <2>5 DEF Plan!Next
<1>3. PlanInv => Plan!RoundDelivers
  BY DEF PlanInv
<1> QED
  BY <1>1, <1>2, <1>3, PTL

\* For any budgets: a planning round that is done delivers the plan it was asked for, from
\* the plan the user saw, whatever earlier rounds left.
THEOREM RoundsAreDelivered == Spec => []RoundDelivers
<1>1. Init => Plan!Init
  BY DEF Init
<1>2. [Next]_vars => [Plan!Next]_plan
  BY DEF Next, vars
<1>3. Plan!RoundDelivers => RoundDelivers
  BY DEF RoundDelivers
<1> QED
  BY <1>1, <1>2, <1>3, RoundsDeliver, PTL DEF Spec
===============================================================================

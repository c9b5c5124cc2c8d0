----------------------------- MODULE EditProofs -------------------------------
(***************************************************************************)
(* What TLAPS proves about what is done to files and what is said of it: a *)
(* patch on the files of a shadow, a chat edit on those of the user, for   *)
(* any files, operations and edits; and the cards of the inline chat, which*)
(* never show a task, a change or a decision that was not made.            *)
(***************************************************************************)
EXTENDS Services, Sequences, WellFoundedInduction, TLAPS


\* The preflight has nothing to say of an operation on these sources.
Passes(op, sim) ==
    /\ op.file \in Scope /\ op.file \notin Escaping
    /\ op.kind = "create_file" => op.file \notin DOMAIN sim
    /\ op.kind # "create_file" => /\ op.file \in DOMAIN sim
                                  /\ op.kind = "delete_file" \/ Patch!SimulatedEdit(op, sim[op.file]) # {}

\* The sources before each of the first m operations, as the preflight simulates them.
Trace(h, m) ==
    \A k \in 1 .. m : /\ Passes(patch.ops[k], h[k])
                      /\ h[k + 1] = Patch!Simulated(patch.ops[k], h[k])

\* The files simulated by another code than applied, and those whose deletion is simulated only.
Loose == Patch!Deleted \cup Patch!NodeFiles

\* Files and simulation are the same but for those.
Alike(tree, sim) ==
    \A f : f \notin Loose =>
        /\ f \in DOMAIN tree <=> f \in DOMAIN sim
        /\ f \in DOMAIN tree => tree[f] = sim[f]

\* What the application checks and the preflight does not.
Unforeseen ==
    \/ Patch!Deleted # {}
    \/ patch.watched
    \/ \E k \in DOMAIN patch.ops :
         \/ Patch!IsNode(patch.ops[k])
         \/ patch.ops[k].kind \in {"create_file", "apply_diff"} /\ patch.ops[k].file \in Python

Targets == {patch.ops[k].file : k \in DOMAIN patch.ops}

\* Of the first m operations, one that checks its file and that none of them followed on
\* this file left it whole.
Truthful(m, tree) ==
    \A k \in 1 .. m :
      patch.ops[k].file \in Python /\ patch.ops[k].kind \in Patch!CheckedKinds
        /\ (\A j \in 1 .. m : j > k => patch.ops[j].file # patch.ops[k].file) =>
          patch.ops[k].file \in DOMAIN tree /\ Patch!Valid(tree[patch.ops[k].file])

\* The simulation left the files without a node operation whole.
Whole == \A f \in (Targets \ Patch!NodeFiles) \cap DOMAIN patch.sim \cap Python : Patch!Valid(patch.sim[f])

PatchShaped ==
    /\ patch = [pc |-> patch.pc, tree |-> patch.tree, ops |-> patch.ops, i |-> patch.i, sim |-> patch.sim,
                mutated |-> patch.mutated, issues |-> patch.issues, watched |-> patch.watched,
                errors |-> patch.errors, touched |-> patch.touched]
    /\ patch.pc \in {"idle", "refused", "preflight", "apply", "applied", "torn"}
    /\ patch.ops \in Seq(PatchSet) /\ patch.i \in 1 .. Len(patch.ops) + 1 /\ patch.errors \in BOOLEAN /\ patch.watched \in BOOLEAN

Simulating ==
    /\ \E h : h[1] = patch.tree /\ h[patch.i] = patch.sim /\ Trace(h, patch.i - 1)
    /\ \A k \in 1 .. patch.i - 1 : patch.ops[k].file \in patch.mutated

Applying ==
    /\ \E h : /\ Trace(h, Len(patch.ops)) /\ h[Len(patch.ops) + 1] = patch.sim
              /\ ~patch.errors => Alike(patch.tree, h[patch.i]) /\ Truthful(patch.i - 1, patch.tree)
    /\ patch.errors => Unforeseen
    /\ Whole

PatchInv ==
    /\ PatchShaped
    /\ patch.touched \subseteq Targets /\ patch.touched \subseteq DOMAIN patch.tree
    /\ patch.pc \in {"idle", "preflight"} => ~patch.errors /\ patch.touched = {}
    /\ patch.pc = "preflight" /\ patch.issues = {} => Simulating
    /\ patch.pc = "apply" => Applying
    /\ patch.pc = "applied" => Whole /\ Alike(patch.tree, patch.sim) /\ Truthful(Len(patch.ops), patch.tree)
    /\ patch.pc = "torn" => Unforeseen

\* The preflight names an issue of an operation exactly when there is one.
LEMMA IssueIsReal == ASSUME NEW op, NEW sim PROVE Patch!Issue(op, sim) = {} <=> Passes(op, sim)
<1>1. CASE op.file \notin Scope
  BY <1>1 DEF Patch!Issue, Passes
<1>2. CASE op.file \in Scope /\ op.file \in Escaping
  BY <1>2 DEF Patch!Issue, Passes
<1>3. CASE op.file \in Scope /\ op.file \notin Escaping
  <2>1. CASE op.kind = "create_file"
    BY <1>3, <2>1 DEF Patch!Issue, Passes
  <2>2. CASE op.kind # "create_file" /\ op.file \notin DOMAIN sim
    BY <1>3, <2>2 DEF Patch!Issue, Passes
  <2>3. CASE op.kind # "create_file" /\ op.file \in DOMAIN sim /\ (op.kind = "delete_file" \/ Patch!SimulatedEdit(op, sim[op.file]) # {})
    BY <1>3, <2>3 DEF Patch!Issue, Passes
  <2>4. CASE op.kind # "create_file" /\ op.file \in DOMAIN sim /\ ~(op.kind = "delete_file" \/ Patch!SimulatedEdit(op, sim[op.file]) # {})
    BY <1>3, <2>4 DEF Patch!Issue, Passes
  <2> QED
    BY <2>1, <2>2, <2>3, <2>4
<1> QED
  BY <1>1, <1>2, <1>3

\* An operation that is not on a node makes one text of a text, if any.
LEMMA EditIsOne ==
    ASSUME NEW op, NEW text, NEW a \in Patch!TextEdit(op, text), NEW b \in Patch!TextEdit(op, text)
    PROVE  a = b
<1>1. CASE op.kind = "replace_range"
  BY <1>1 DEF Patch!TextEdit, Patch!RangeEdit
<1>2. CASE op.kind = "search_replace"
  BY <1>2 DEF Patch!TextEdit, Patch!SearchEdit
<1>3. CASE op.kind = "apply_diff"
  BY <1>3 DEF Patch!TextEdit, Patch!DiffEdit
<1>4. CASE op.kind \notin {"replace_range", "search_replace", "apply_diff"}
  BY <1>4 DEF Patch!TextEdit
<1> QED
  BY <1>1, <1>2, <1>3, <1>4

\* An operation whose kind the application knows and that writes keeps the agreement.
LEMMA WritesAsSimulated ==
    ASSUME NEW op \in PatchSet, NEW tree, NEW sim, Alike(tree, sim), Passes(op, sim),
           op.kind = "delete_file" => op.file \in Patch!Deleted, Patch!IsNode(op) => op.file \in Patch!NodeFiles,
           Patch!Written(op, tree) # {}
    PROVE  Alike(Patch!Put(tree, op.file, CHOOSE t \in Patch!Written(op, tree) : TRUE), Patch!Simulated(op, sim))
<1>1. PICK t \in Patch!Written(op, tree) : t = CHOOSE u \in Patch!Written(op, tree) : TRUE
  OBVIOUS
<1>2. CASE op.kind = "create_file"
  <2>1. t = op.text
    BY <1>1, <1>2 DEF Patch!Written, Patch!Checked
  <2> QED
    BY <1>1, <1>2, <2>1 DEF Alike, Patch!Simulated, Patch!Put, Loose
<1>3. CASE op.kind = "delete_file"
  BY <1>1, <1>3 DEF Alike, Patch!Simulated, Patch!Put, Patch!Drop, Passes, Loose
<1>4. CASE op.file \in Loose /\ op.kind \notin {"create_file", "delete_file"}
  BY <1>1, <1>4 DEF Alike, Patch!Simulated, Patch!Put
<1>5. CASE op.file \notin Loose /\ op.kind \notin {"create_file", "delete_file"}
  <2>1. op.file \in DOMAIN tree /\ tree[op.file] = sim[op.file]
    BY <1>5 DEF Alike, Passes
  <2>0. ~Patch!IsNode(op)
    BY <1>5 DEF Loose
  <2>2. t \in Patch!TextEdit(op, sim[op.file])
    <3>1. op.kind \in {"replace_range", "search_replace", "apply_diff"}
      BY <1>5, <2>0, ServicesAssumption DEF Patch!Kinds, Patch!IsNode
    <3> QED
      BY <1>1, <1>5, <2>1, <3>1 DEF Patch!Written, Patch!Checked
  <2>3. t = CHOOSE u \in Patch!TextEdit(op, sim[op.file]) : TRUE
    BY <2>2, EditIsOne
  <2>4. Patch!Simulated(op, sim) = Patch!Put(sim, op.file, t)
    BY <1>5, <2>0, <2>3 DEF Patch!Simulated, Patch!SimulatedEdit
  <2> QED
    BY <1>1, <2>4 DEF Alike, Patch!Put
<1> QED
  BY <1>2, <1>3, <1>4, <1>5

\* An operation the preflight accepts writes, unless its application checks more.
LEMMA WritesUnlessUnforeseen ==
    ASSUME NEW k \in DOMAIN patch.ops, patch.ops[k] \in PatchSet, NEW tree, NEW sim, Alike(tree, sim),
           Passes(patch.ops[k], sim), Patch!Written(patch.ops[k], tree) = {}
    PROVE  Unforeseen
<1> SUFFICES ASSUME ~Unforeseen PROVE FALSE
  OBVIOUS
<1>0. PICK op \in PatchSet : op = patch.ops[k]
  OBVIOUS
<1>1. Loose = {} /\ Patch!Deleted = {} /\ ~Patch!IsNode(op) /\ (op.kind \in {"create_file", "apply_diff"} => op.file \notin Python)
  BY <1>0 DEF Unforeseen, Loose, Patch!NodeFiles
<1>2. op.kind # "delete_file"
  BY <1>0, <1>1 DEF Patch!Deleted
<1>3. op.kind \in {"create_file", "replace_range", "search_replace", "apply_diff"}
  BY <1>1, <1>2, ServicesAssumption DEF Patch!Kinds, Patch!IsNode
<1>4. op.file \in DOMAIN tree <=> op.file \in DOMAIN sim
  BY <1>1 DEF Alike
<1>5. op.kind = "create_file" => op.file \notin DOMAIN tree
  BY <1>0, <1>4 DEF Passes
<1>6. op.kind # "create_file" => op.file \in DOMAIN tree /\ Patch!TextEdit(op, tree[op.file]) # {}
  BY <1>0, <1>1, <1>2, <1>4 DEF Alike, Passes, Patch!SimulatedEdit
<1>7. CASE op.kind = "create_file"
  <2>1. Patch!Written(op, tree) = Patch!Checked(op, {op.text})
    BY <1>5, <1>7 DEF Patch!Written
  <2>2. op.text \in Patch!Checked(op, {op.text})
    BY <1>1, <1>7 DEF Patch!Checked
  <2> QED
    BY <1>0, <2>1, <2>2
<1>8. CASE op.kind \in {"replace_range", "search_replace"}
  BY <1>0, <1>6, <1>8 DEF Patch!Written
<1>9. CASE op.kind = "apply_diff"
  BY <1>0, <1>1, <1>6, <1>9 DEF Patch!Written, Patch!Checked
<1> QED
  BY <1>3, <1>7, <1>8, <1>9

\* An operation that checks what it writes to a Python file leaves it whole.
LEMMA WritesWhole ==
    ASSUME NEW op, op.file \in Python, op.kind \in Patch!CheckedKinds, NEW tree,
           NEW t \in Patch!Written(op, tree)
    PROVE  Patch!Valid(t)
<1>1. CASE op.kind = "create_file"
  BY <1>1 DEF Patch!Written, Patch!Checked
<1>2. CASE op.kind = "apply_diff"
  BY <1>2 DEF Patch!Written, Patch!Checked
<1>3. CASE op.kind \in Patch!NodeKinds
  BY <1>3 DEF Patch!Written, Patch!Checked, Patch!NodeKinds
<1> QED
  BY <1>1, <1>2, <1>3 DEF Patch!CheckedKinds

\* Before a patch nothing is checked or written.
LEMMA PatchStarts == ASSUME Patch!Init PROVE PatchInv
  BY DEF Patch!Init, Patch!NoPatch, PatchInv, PatchShaped, Targets

\* A patch is submitted whole.
LEMMA SubmitKeeps ==
    ASSUME NEW tree \in PatchTrees, NEW ops \in Patch!Patches, Patch!Submit(tree, ops)
    PROVE  PatchInv'
<1>1. ops \in Seq(PatchSet) /\ Len(ops) \in Nat
  BY DEF Patch!Patches
<1>2. \/ patch' = [Patch!NoPatch EXCEPT !.pc = "refused", !.tree = tree, !.ops = ops, !.issues = {"POLICY_VIOLATION"}]
      \/ patch' = [Patch!NoPatch EXCEPT !.pc = "preflight", !.tree = tree, !.ops = ops, !.sim = tree]
  BY DEF Patch!Submit
<1>3. /\ patch'.pc \in {"refused", "preflight"} /\ patch'.ops = ops /\ patch'.i = 1 /\ patch'.tree = tree
      /\ patch'.touched = {} /\ patch'.errors = FALSE /\ patch'.watched = FALSE /\ (patch'.pc = "preflight" => patch'.sim = tree)
  BY <1>2 DEF Patch!NoPatch
<1>4. PatchShaped'
  <2>1. patch' = [pc |-> patch'.pc, tree |-> tree, ops |-> ops, i |-> 1, sim |-> patch'.sim, mutated |-> {},
                  issues |-> patch'.issues, watched |-> FALSE, errors |-> FALSE, touched |-> {}]
    BY <1>2 DEF Patch!NoPatch
  <2>2. 1 \in 1 .. Len(ops) + 1
    BY <1>1
  <2>3. patch'.mutated = {}
    BY <2>1
  <2> QED
    BY <1>1, <1>3, <2>1, <2>2, <2>3 DEF PatchShaped
<1>5. patch'.pc = "preflight" => Simulating'
  <2>1. PICK h : h = [k \in {1} |-> tree]
    OBVIOUS
  <2>2. h[1] = tree /\ 1 .. patch'.i - 1 = {}
    BY <1>3, <2>1
  <2> QED
    BY <1>3, <2>2 DEF Simulating, Trace
<1> QED
  BY <1>3, <1>4, <1>5 DEF PatchInv, Targets

\* The preflight simulates an operation it has nothing to say of on what the others made.
LEMMA PreflightKeeps == ASSUME PatchInv, Patch!PreflightOp PROVE PatchInv'
<1>1. PICK n \in Nat : n = Len(patch.ops) /\ DOMAIN patch.ops = 1 .. n
  BY DEF PatchInv, PatchShaped
<1>2. PICK i \in 1 .. n : i = patch.i
  BY <1>1 DEF Patch!PreflightOp, PatchInv, PatchShaped
<1>3. PICK op \in PatchSet : op = patch.ops[i]
  BY <1>1, <1>2 DEF PatchInv, PatchShaped
<1>4. PICK issue : issue = Patch!Issue(op, patch.sim)
  OBVIOUS
<1>5. PICK sim, mutated, issues :
        /\ sim = IF issue = {} THEN Patch!Simulated(op, patch.sim) ELSE patch.sim
        /\ mutated = IF issue = {} THEN patch.mutated \cup {op.file} ELSE patch.mutated
        /\ issues = patch.issues \cup issue
  OBVIOUS
<1>6. patch' = [patch EXCEPT !.i = i + 1, !.issues = issues, !.sim = sim, !.mutated = mutated]
  BY <1>2, <1>3, <1>4, <1>5 DEF Patch!PreflightOp, Patch!Op, PatchInv, PatchShaped
<1>7. patch.pc = "preflight"
  BY DEF Patch!PreflightOp
<1>8. /\ patch'.i = i + 1 /\ patch'.issues = issues /\ patch'.sim = sim /\ patch'.mutated = mutated
      /\ patch'.pc = "preflight" /\ patch'.tree = patch.tree /\ patch'.ops = patch.ops
      /\ patch'.touched = patch.touched /\ patch'.errors = patch.errors /\ patch'.watched = patch.watched
  BY <1>6, <1>7 DEF PatchInv, PatchShaped
<1>9. PatchShaped'
  <2>1. i + 1 \in 1 .. n + 1
    BY <1>2
  <2> QED
    BY <1>1, <1>6, <1>8, <2>1 DEF PatchInv, PatchShaped
<1>10. ASSUME issues = {} PROVE Simulating'
  <2>1. issue = {} /\ patch.issues = {}
    BY <1>5, <1>10
  <2>2. Passes(op, patch.sim)
    BY <1>4, <2>1, IssueIsReal
  <2>3. PICK h : h[1] = patch.tree /\ h[i] = patch.sim /\ Trace(h, i - 1)
    BY <1>2, <1>7, <2>1 DEF PatchInv, Simulating
  <2>4. \A k \in 1 .. i - 1 : patch.ops[k].file \in patch.mutated
    BY <1>2, <1>7, <2>1 DEF PatchInv, Simulating
  <2>5. PICK g : g = [k \in 1 .. i + 1 |-> IF k = i + 1 THEN sim ELSE h[k]]
    OBVIOUS
  <2>6. g[1] = patch.tree /\ g[i] = patch.sim /\ g[i + 1] = sim /\ i \in Nat /\ i >= 1
    BY <1>2, <2>3, <2>5
  <2>7. ASSUME NEW k \in 1 .. i PROVE Passes(patch.ops[k], g[k]) /\ g[k + 1] = Patch!Simulated(patch.ops[k], g[k])
    <3>1. CASE k = i
      BY <1>3, <1>5, <2>1, <2>2, <2>6, <3>1
    <3>2. CASE k # i
      <4>1. k \in 1 .. i - 1 /\ g[k] = h[k] /\ g[k + 1] = h[k + 1]
        BY <2>5, <2>6, <3>2
      <4> QED
        BY <2>3, <4>1 DEF Trace
    <3> QED
      BY <3>1, <3>2
  <2>8. (i + 1) - 1 = i
    BY <2>6
  <2>9. \A k \in 1 .. i : patch.ops[k].file \in mutated
    <3>1. \A k \in 1 .. i : k = i \/ k \in 1 .. i - 1
      BY <2>6
    <3> QED
      BY <1>3, <1>5, <2>1, <2>4, <3>1
  <2> QED
    BY <1>8, <2>6, <2>7, <2>8, <2>9 DEF Simulating, Trace
<1> QED
  BY <1>7, <1>8, <1>9, <1>10 DEF PatchInv, Targets

\* What the preflight accepts it has simulated to the end, with the syntax whole.
LEMMA PreflightEndKeeps == ASSUME PatchInv, Patch!PreflightEnds PROVE PatchInv'
<1>1. PICK n \in Nat : n = Len(patch.ops) /\ DOMAIN patch.ops = 1 .. n
  BY DEF PatchInv, PatchShaped
<1>2. patch.i = n + 1 /\ patch.pc = "preflight"
  <2>1. patch.pc = "preflight" /\ patch.i > Len(patch.ops)
    BY DEF Patch!PreflightEnds
  <2> QED
    BY <1>1, <2>1 DEF PatchInv, PatchShaped
<1>3. PICK broken : broken = {f \in (patch.mutated \ Patch!NodeFiles) \cap DOMAIN patch.sim \cap Python : ~Patch!Valid(patch.sim[f])}
  OBVIOUS
<1>4. PICK issues : issues = patch.issues \cup (IF broken = {} THEN {} ELSE {"APPLY_ERROR"})
  OBVIOUS
<1>5. PICK pc : pc = IF issues = {} THEN "apply" ELSE "refused"
  OBVIOUS
<1>6. PICK i \in 1 .. n + 1, watched \in BOOLEAN :
        /\ patch' = [patch EXCEPT !.issues = issues, !.i = i, !.pc = pc, !.watched = watched]
        /\ pc = "apply" => i = 1
  <2>1. CASE issues = {}
    <3>1. PICK w \in BOOLEAN : patch' = [patch EXCEPT !.i = 1, !.pc = "apply", !.watched = w]
      BY <1>3, <1>4, <2>1 DEF Patch!PreflightEnds
    <3>2. patch.issues = issues /\ 1 \in 1 .. n + 1
      BY <1>1, <1>4, <2>1
    <3> QED
      BY <1>5, <2>1, <3>1, <3>2 DEF PatchInv, PatchShaped
  <2>2. CASE issues # {}
    <3>1. patch' = [patch EXCEPT !.issues = issues, !.pc = "refused"]
      BY <1>3, <1>4, <2>2 DEF Patch!PreflightEnds
    <3>2. n + 1 \in 1 .. n + 1
      BY <1>1
    <3>3. PICK watched \in BOOLEAN : watched = patch.watched
      BY DEF PatchInv, PatchShaped
    <3>4. patch' = [patch EXCEPT !.issues = issues, !.i = n + 1, !.pc = pc, !.watched = watched]
      BY <1>2, <1>5, <2>2, <3>1, <3>3 DEF PatchInv, PatchShaped
    <3> QED
      BY <1>5, <2>2, <3>2, <3>4
  <2> QED
    BY <2>1, <2>2
<1>7. /\ patch'.i = i /\ patch'.pc = pc /\ patch'.sim = patch.sim /\ patch'.tree = patch.tree
      /\ patch'.ops = patch.ops /\ patch'.touched = patch.touched /\ patch'.errors = patch.errors
      /\ patch'.issues = issues /\ patch'.mutated = patch.mutated /\ patch'.watched = watched
      /\ pc \in {"apply", "refused"}
  BY <1>5, <1>6 DEF PatchInv, PatchShaped
<1>8. PatchShaped'
  BY <1>1, <1>6, <1>7 DEF PatchInv, PatchShaped
<1>9. ASSUME pc = "apply" PROVE Applying'
  <2>1. broken = {} /\ patch.issues = {}
    BY <1>4, <1>5, <1>9
  <2>2. n + 1 - 1 = n /\ 1 \in 1 .. n + 1
    BY <1>1
  <2>3. PICK h : h[1] = patch.tree /\ h[n + 1] = patch.sim /\ Trace(h, n)
    BY <1>2, <2>1, <2>2 DEF PatchInv, Simulating
  <2>4. \A k \in 1 .. n : patch.ops[k].file \in patch.mutated
    BY <1>2, <2>1, <2>2 DEF PatchInv, Simulating
  <2>5. Targets \subseteq patch.mutated
    BY <1>1, <2>4 DEF Targets
  <2>6. Whole
    BY <1>3, <2>1, <2>5 DEF Whole
  <2>7. Whole'
    BY <1>7, <2>6 DEF Whole, Targets, Patch!NodeFiles
  <2>8. Trace(h, n)'
    BY <1>7, <2>3 DEF Trace
  <2>9. Alike(patch.tree, h[1])' /\ patch'.i = 1 /\ 1 .. 1 - 1 = {}
    BY <1>6, <1>7, <1>9, <2>3 DEF Alike
  <2>11. Truthful(1 - 1, patch.tree)'
    BY <2>9 DEF Truthful
  <2>10. ~patch'.errors
    BY <1>2, <1>7 DEF PatchInv
  <2> QED
    BY <1>1, <1>7, <2>3, <2>7, <2>8, <2>9, <2>10, <2>11 DEF Applying
<1> QED
  BY <1>2, <1>5, <1>7, <1>8, <1>9 DEF PatchInv, Targets

\* An operation that is applied is applied to what it was simulated on.
LEMMA ApplyKeeps == ASSUME PatchInv, Patch!ApplyOp PROVE PatchInv'
<1>1. PICK n \in Nat : n = Len(patch.ops) /\ DOMAIN patch.ops = 1 .. n
  BY DEF PatchInv, PatchShaped
<1>2. PICK i \in 1 .. n : i = patch.i
  <2>1. patch.i <= Len(patch.ops)
    BY DEF Patch!ApplyOp
  <2> QED
    BY <1>1, <2>1 DEF PatchInv, PatchShaped
<1>3. PICK op \in PatchSet : op = patch.ops[i]
  BY <1>1, <1>2 DEF PatchInv, PatchShaped
<1>4. patch.pc = "apply" /\ Applying /\ Patch!Op = op
  BY <1>2, <1>3 DEF Patch!ApplyOp, PatchInv, Patch!Op
<1>5. PICK h : /\ Trace(h, n) /\ h[n + 1] = patch.sim
               /\ ~patch.errors => Alike(patch.tree, h[i]) /\ Truthful(i - 1, patch.tree)
  BY <1>1, <1>2, <1>4 DEF Applying
<1>6. Passes(op, h[i]) /\ h[i + 1] = Patch!Simulated(op, h[i])
  BY <1>2, <1>3, <1>5 DEF Trace
<1>7. /\ op.file \in Targets /\ (op.kind = "delete_file" => op.file \in Patch!Deleted)
      /\ Patch!IsNode(op) => op.file \in Patch!NodeFiles
  BY <1>1, <1>2, <1>3 DEF Targets, Patch!Deleted, Patch!NodeFiles
<1>8. PICK new : new = Patch!Written(op, patch.tree)
  OBVIOUS
<1>9. PICK tree : tree = IF new = {} THEN patch.tree ELSE Patch!Put(patch.tree, op.file, CHOOSE t \in new : TRUE)
  OBVIOUS
<1>10. PICK touched : touched = IF new = {} THEN patch.touched ELSE patch.touched \cup {op.file}
  OBVIOUS
<1>11. PICK errors \in BOOLEAN :
         /\ patch' = [patch EXCEPT !.i = i + 1, !.errors = errors, !.touched = touched, !.tree = tree]
         /\ errors => patch.errors \/ new = {} \/ patch.watched
         /\ ~errors => ~patch.errors /\ new # {}
  <2>1. CASE new = {}
    <3>1. patch' = [patch EXCEPT !.i = i + 1, !.errors = TRUE]
      BY <1>2, <1>4, <1>8, <2>1 DEF Patch!ApplyOp
    <3> QED
      BY <1>9, <1>10, <2>1, <3>1 DEF PatchInv, PatchShaped
  <2>2. CASE new # {}
    <3>1. PICK faulty \in BOOLEAN :
            /\ faulty => patch.watched
            /\ patch' = [patch EXCEPT !.i = i + 1, !.touched = patch.touched \cup {op.file},
                                      !.tree = Patch!Put(patch.tree, op.file, CHOOSE t \in new : TRUE),
                                      !.errors = patch.errors \/ faulty]
      BY <1>2, <1>4, <1>8, <2>2 DEF Patch!ApplyOp
    <3>2. PICK errors \in BOOLEAN : errors = (patch.errors \/ faulty)
      BY DEF PatchInv, PatchShaped
    <3>3. patch' = [patch EXCEPT !.i = i + 1, !.errors = errors, !.touched = touched, !.tree = tree]
      BY <1>9, <1>10, <2>2, <3>1, <3>2
    <3> QED
      BY <2>2, <3>1, <3>2, <3>3
  <2> QED
    BY <2>1, <2>2
<1>13. /\ patch'.i = i + 1 /\ patch'.errors = errors /\ patch'.touched = touched /\ patch'.tree = tree
       /\ patch'.pc = "apply" /\ patch'.ops = patch.ops /\ patch'.sim = patch.sim
       /\ patch'.watched = patch.watched
  BY <1>4, <1>11 DEF PatchInv, PatchShaped
<1>14. PatchShaped'
  <2>1. i + 1 \in 1 .. n + 1
    BY <1>2
  <2> QED
    BY <1>1, <1>11, <1>13, <2>1 DEF PatchInv, PatchShaped
<1>15. touched \subseteq Targets /\ touched \subseteq DOMAIN tree
  BY <1>7, <1>9, <1>10 DEF PatchInv, Patch!Put
<1>16. Targets' = Targets /\ (Unforeseen' <=> Unforeseen) /\ (Whole' <=> Whole)
  BY <1>13 DEF Targets, Unforeseen, Patch!Deleted, Whole, Patch!NodeFiles
<1>17. errors => Unforeseen
  <2>1. CASE patch.errors
    BY <1>4, <2>1 DEF Applying
  <2>2. CASE ~patch.errors /\ new = {}
    BY <1>1, <1>2, <1>3, <1>5, <1>6, <1>8, <2>2, WritesUnlessUnforeseen
  <2> QED
    BY <1>11, <2>1, <2>2 DEF Unforeseen
<1>18. ~errors => Alike(tree, h[i + 1])
  BY <1>5, <1>6, <1>7, <1>8, <1>9, <1>11, WritesAsSimulated
<1>21. ASSUME ~errors PROVE Truthful(i, tree)
  <2>1. new # {} /\ Truthful(i - 1, patch.tree) /\ tree = Patch!Put(patch.tree, op.file, CHOOSE t \in new : TRUE)
    BY <1>5, <1>9, <1>11, <1>21
  <2>2. op.file \in DOMAIN tree /\ tree[op.file] \in Patch!Written(op, patch.tree)
    BY <1>8, <2>1 DEF Patch!Put
  <2> SUFFICES ASSUME NEW k \in 1 .. i, NEW file, file = patch.ops[k].file, file \in Python,
                      patch.ops[k].kind \in Patch!CheckedKinds,
                      \A j \in 1 .. i : j > k => patch.ops[j].file # file
               PROVE  file \in DOMAIN tree /\ Patch!Valid(tree[file])
    BY DEF Truthful
  <2>3. CASE k = i
    BY <1>3, <2>2, <2>3, WritesWhole
  <2>4. CASE k # i
    <3>1. k \in 1 .. i - 1 /\ i > k /\ i \in 1 .. i /\ \A j \in 1 .. i - 1 : j \in 1 .. i
      BY <1>2, <2>4
    <3>2. file # op.file
      BY <1>3, <3>1
    <3>3. file \in DOMAIN patch.tree /\ Patch!Valid(patch.tree[file])
      BY <2>1, <3>1 DEF Truthful
    <3> QED
      BY <2>1, <3>2, <3>3 DEF Patch!Put
  <2> QED
    BY <2>3, <2>4
<1>22. Truthful(i, tree)' <=> Truthful(i, tree)
  BY <1>13 DEF Truthful
<1>19. /\ Trace(h, n)'
       /\ ~patch'.errors => Alike(patch.tree, h[patch.i])' /\ Truthful(patch.i - 1, patch.tree)'
  <2>1. i + 1 - 1 = i
    BY <1>2
  <2>2. Trace(h, n)'
    BY <1>5, <1>13 DEF Trace
  <2>3. ~errors => Alike(patch.tree, h[patch.i])'
    BY <1>13, <1>18 DEF Alike, Loose, Patch!Deleted, Patch!NodeFiles
  <2>4. ~errors => Truthful(patch.i - 1, patch.tree)'
    BY <1>13, <1>21, <2>1 DEF Truthful
  <2> QED
    BY <1>13, <2>2, <2>3, <2>4
<1>20. Applying'
  BY <1>1, <1>4, <1>5, <1>13, <1>16, <1>17, <1>19 DEF Applying
<1> QED
  BY <1>13, <1>14, <1>15, <1>16, <1>20 DEF PatchInv

\* At the end an error that was noted is raised.
LEMMA ApplyEndKeeps == ASSUME PatchInv, Patch!ApplyEnds PROVE PatchInv'
<1>1. PICK n \in Nat : n = Len(patch.ops)
  BY DEF PatchInv, PatchShaped
<1>2. patch.i = n + 1 /\ patch.pc = "apply" /\ Applying
  BY <1>1 DEF Patch!ApplyEnds, PatchInv, PatchShaped
<1>3. PICK pc : pc = IF patch.errors THEN "torn" ELSE "applied"
  OBVIOUS
<1>4. patch' = [patch EXCEPT !.pc = pc]
  BY <1>3 DEF Patch!ApplyEnds
<1>5. /\ patch'.pc = pc /\ patch'.i = patch.i /\ patch'.errors = patch.errors /\ patch'.touched = patch.touched
      /\ patch'.tree = patch.tree /\ patch'.ops = patch.ops /\ patch'.sim = patch.sim
      /\ patch'.watched = patch.watched
  BY <1>4 DEF PatchInv, PatchShaped
<1>6. PatchShaped'
  BY <1>3, <1>4, <1>5 DEF PatchInv, PatchShaped
<1>7. Targets' = Targets /\ (Unforeseen' <=> Unforeseen) /\ (Whole' <=> Whole)
  BY <1>5 DEF Targets, Unforeseen, Patch!Deleted, Whole, Patch!NodeFiles
<1>8. ~patch.errors => Alike(patch.tree, patch.sim)
  BY <1>1, <1>2 DEF Applying
<1>9. Alike(patch.tree, patch.sim)' <=> Alike(patch.tree, patch.sim)
  BY <1>5 DEF Alike, Loose, Patch!Deleted, Patch!NodeFiles
<1>10. ~patch.errors => Truthful(Len(patch.ops), patch.tree)'
  <2>1. n + 1 - 1 = n
    BY <1>1
  <2>2. ~patch.errors => Truthful(n, patch.tree)
    BY <1>2, <2>1 DEF Applying
  <2> QED
    BY <1>1, <1>5, <2>2 DEF Truthful
<1> QED
  BY <1>2, <1>3, <1>5, <1>6, <1>7, <1>8, <1>9, <1>10 DEF PatchInv, PatchShaped, Applying

\* What lands follows.
LEMMA PatchLands == ASSUME PatchInv PROVE Patch!LandsAsChecked
<1>1. ASSUME patch.pc = "applied", NEW f \in patch.touched \ (Patch!Deleted \cup Patch!NodeFiles)
      PROVE  /\ f \in DOMAIN patch.sim /\ patch.tree[f] = patch.sim[f]
             /\ f \in Python => Patch!Valid(patch.tree[f])
  <2>1. f \in Targets /\ f \in DOMAIN patch.tree
    BY <1>1 DEF PatchInv
  <2>2. f \in DOMAIN patch.sim /\ patch.tree[f] = patch.sim[f]
    BY <1>1, <2>1 DEF PatchInv, Alike, Loose
  <2> QED
    BY <1>1, <2>1, <2>2 DEF PatchInv, Whole
<1>3. ASSUME patch.pc = "applied", NEW k \in DOMAIN patch.ops, patch.ops[k].file \in Python,
             patch.ops[k].kind \in Patch!CheckedKinds, Patch!IsLast(k)
      PROVE  Patch!Valid(patch.tree[patch.ops[k].file])
  <2>1. DOMAIN patch.ops = 1 .. Len(patch.ops) /\ Truthful(Len(patch.ops), patch.tree)
    BY <1>3 DEF PatchInv, PatchShaped
  <2> QED
    BY <1>3, <2>1 DEF Truthful, Patch!IsLast
<1>2. patch.pc = "torn" => Unforeseen
  BY DEF PatchInv
<1> QED
  BY <1>1, <1>2, <1>3 DEF Patch!LandsAsChecked, Unforeseen

\* For any sources and operations: what the preflight accepts is what lands.
LEMMA PatchesLandAsChecked == Patch!Init /\ [][Patch!Next]_patch => []Patch!LandsAsChecked
<1>1. PatchInv /\ Patch!Next => PatchInv'
  BY SubmitKeeps, PreflightKeeps, PreflightEndKeeps, ApplyKeeps, ApplyEndKeeps DEF Patch!Next
<1>2. PatchInv /\ UNCHANGED patch => PatchInv'
  <2> SUFFICES ASSUME PatchInv, UNCHANGED patch PROVE PatchInv'
    OBVIOUS
  <2>1. PatchShaped' /\ Targets' = Targets /\ (Unforeseen' <=> Unforeseen) /\ (Whole' <=> Whole)
    BY DEF PatchInv, PatchShaped, Targets, Unforeseen, Patch!Deleted, Whole, Patch!NodeFiles
  <2>2. \A h, m : Trace(h, m)' <=> Trace(h, m)
    BY DEF Trace
  <2>3. \A tree, sim : Alike(tree, sim)' <=> Alike(tree, sim)
    BY DEF Alike, Loose, Patch!Deleted, Patch!NodeFiles
  <2>6. \A m, tree : Truthful(m, tree)' <=> Truthful(m, tree)
    BY DEF Truthful
  <2>4. Simulating' <=> Simulating
    BY <2>2 DEF Simulating
  <2>5. Applying' <=> Applying
    BY <2>1, <2>2, <2>3, <2>6 DEF Applying
  <2> QED
    BY <2>1, <2>3, <2>4, <2>5, <2>6 DEF PatchInv
<1> QED
  BY <1>1, <1>2, PatchStarts, PatchLands, PTL

\* For any sources, operations and policies: what the preflight of a patch accepted is what
\* lands, and its application breaks off only for what the preflight cannot know.
THEOREM PatchesLand == Spec => []LandsAsChecked
<1>1. Init => Patch!Init
  BY DEF Init
<1>2. [Next]_vars => [Patch!Next]_patch
  BY DEF Next, vars
<1>3. Patch!LandsAsChecked => LandsAsChecked
  BY DEF LandsAsChecked
<1> QED
  BY <1>1, <1>2, <1>3, PatchesLandAsChecked, PTL DEF Spec

\* The numbers of edits and writes that a tree of files is made of.
Trees == UNION {[S -> SUBSET Nat] : S \in SUBSET EditNames}

EditType ==
    [pc : {"none", "ready", "held", "closed"}, real : Trees, open : BOOLEAN, shadow : Trees,
     ever : SUBSET EditNames, pending : SUBSET EditNames, shown : Trees, id : Nat, writes : Nat,
     torn : SUBSET Nat, rejected : SUBSET Nat, granted : SUBSET Nat, outside : SUBSET EditNames]

\* A tree is a function from some of the files to sets of numbers.
LEMMA TreeFacts ==
    ASSUME NEW t
    PROVE  t \in Trees <=> /\ t = [f \in DOMAIN t |-> t[f]] /\ DOMAIN t \subseteq EditNames
                           /\ \A f \in DOMAIN t : t[f] \subseteq Nat
<1>1. ASSUME t \in Trees
      PROVE  /\ t = [f \in DOMAIN t |-> t[f]] /\ DOMAIN t \subseteq EditNames
             /\ \A f \in DOMAIN t : t[f] \subseteq Nat
  <2>1. PICK S \in SUBSET EditNames : t \in [S -> SUBSET Nat]
    BY <1>1 DEF Trees
  <2> QED
    BY <2>1
<1>2. ASSUME /\ t = [f \in DOMAIN t |-> t[f]] /\ DOMAIN t \subseteq EditNames
             /\ \A f \in DOMAIN t : t[f] \subseteq Nat
      PROVE  t \in Trees
  <2>1. t \in [DOMAIN t -> SUBSET Nat]
    BY <1>2
  <2> QED
    BY <1>2, <2>1 DEF Trees
<1> QED
  BY <1>1, <1>2

\* The empty tree is a tree.
LEMMA EmptyTree == << >> \in Trees /\ DOMAIN << >> = {}
<1>1. DOMAIN << >> = {}
  OBVIOUS
<1>2. << >> = [f \in {} |-> << >>[f]]
  BY <1>1
<1> QED
  BY <1>1, <1>2, TreeFacts

\* Copying files from a tree into another makes a tree with the files of both.
LEMMA CopiedTree ==
    ASSUME NEW from \in Trees, NEW to \in Trees, NEW files \in SUBSET EditNames
    PROVE  /\ Edit!Copied(from, to, files) \in Trees
           /\ DOMAIN Edit!Copied(from, to, files) = DOMAIN to \cup (files \cap DOMAIN from)
           /\ \A f \in DOMAIN Edit!Copied(from, to, files) :
                Edit!Copied(from, to, files)[f] = IF f \in files \cap DOMAIN from THEN from[f] ELSE to[f]
<1> DEFINE c == Edit!Copied(from, to, files)
<1>1. /\ DOMAIN c = DOMAIN to \cup (files \cap DOMAIN from)
      /\ c = [f \in DOMAIN c |-> c[f]]
      /\ \A f \in DOMAIN c : c[f] = IF f \in files \cap DOMAIN from THEN from[f] ELSE to[f]
  BY DEF Edit!Copied
<1> HIDE DEF c
<1>2. DOMAIN c \subseteq EditNames /\ \A f \in DOMAIN c : c[f] \subseteq Nat
  BY <1>1, TreeFacts
<1>3. c \in Trees
  BY <1>1, <1>2, TreeFacts
<1> QED
  BY <1>1, <1>3 DEF c

\* Patching files of a tree makes a tree.
LEMMA PatchedTree ==
    ASSUME NEW tree \in Trees, NEW ops \in Edit!Patches, NEW files, NEW id \in Nat
    PROVE  Edit!Patched(tree, ops, files, id) \in Trees
<1> DEFINE p == Edit!Patched(tree, ops, files, id)
<1>1. /\ DOMAIN p = DOMAIN tree \cup (ops.create \cap files)
      /\ p = [f \in DOMAIN p |-> p[f]]
      /\ \A f \in DOMAIN p :
           p[f] = IF f \in ops.create \cap files THEN {id}
                  ELSE IF f \in ops.change \cap files THEN tree[f] \cup {id} ELSE tree[f]
  BY DEF Edit!Patched
<1>2. ops.create \subseteq EditNames
  BY DEF Edit!Patches
<1> HIDE DEF p
<1>3. DOMAIN p \subseteq EditNames
  BY <1>1, <1>2, TreeFacts
<1>4. ASSUME NEW f \in DOMAIN p PROVE p[f] \subseteq Nat
  <2>1. CASE f \in ops.create \cap files
    BY <1>1, <2>1
  <2>2. CASE f \notin ops.create \cap files
    <3>1. tree[f] \subseteq Nat
      BY <1>1, <2>2, TreeFacts
    <3> QED
      BY <1>1, <2>2, <3>1
  <2> QED
    BY <2>1, <2>2
<1>5. p \in Trees
  BY <1>1, <1>3, <1>4, TreeFacts
<1> QED
  BY <1>5 DEF p

\* Restoring files of the shadow makes a tree that has them as the real workspace does.
LEMMA RestoredTree ==
    ASSUME NEW shadow \in Trees, NEW real \in Trees, NEW files
    PROVE  LET r == Edit!Restored(shadow, real, files)
           IN  /\ r \in Trees /\ DOMAIN r = DOMAIN shadow \ (files \ DOMAIN real)
               /\ \A f \in DOMAIN r :
                    r[f] = IF f \in files \cap DOMAIN real THEN real[f] ELSE shadow[f]
<1> DEFINE r == Edit!Restored(shadow, real, files)
           D == DOMAIN shadow \ (files \ DOMAIN real)
<1>1. r = [f \in D |-> Edit!Copied(real, shadow, files)[f]]
  BY DEF Edit!Restored, Edit!Restrict
<1>2. \A f \in D : Edit!Copied(real, shadow, files)[f]
                      = IF f \in files \cap DOMAIN real THEN real[f] ELSE shadow[f]
  BY DEF Edit!Copied
<1>3. /\ DOMAIN r = D /\ r = [f \in D |-> r[f]]
      /\ \A f \in D : r[f] = IF f \in files \cap DOMAIN real THEN real[f] ELSE shadow[f]
  BY <1>1, <1>2
<1> HIDE DEF r
<1>4. D \subseteq EditNames
  BY TreeFacts
<1>5. \A f \in D : r[f] \subseteq Nat
  BY <1>3, TreeFacts
<1>6. r \in Trees
  BY <1>3, <1>4, <1>5, TreeFacts
<1> QED
  BY <1>3, <1>6 DEF r, D

-----------------------------------------------------------------------------
(* The invariant                                                            *)

\* The shadow and the real workspace have the same file f, leftovers aside.
Agree(e, f) ==
    IF f \in DOMAIN e.shadow
    THEN \/ e.shadow[f] \cap e.torn # {}
         \/ f \in DOMAIN e.real /\ e.real[f] = e.shadow[f]
    ELSE f \notin DOMAIN e.real

\* Every edit and write has a number of its own.
Numbered(e) ==
    /\ e.rejected \cup e.granted \subseteq 1 .. e.writes
    /\ \A f \in DOMAIN e.shadow : e.shadow[f] \subseteq 1 .. e.writes

\* The shadow carries nothing a rejected diff has shown, so that an accepted one does not.
Decided(e) ==
    /\ e.granted \cap e.rejected = {}
    /\ \A f \in DOMAIN e.real : e.real[f] \subseteq e.granted
    /\ \A f \in DOMAIN e.shadow : e.shadow[f] \cap e.rejected = {}

\* The shadow holds files it has had, and none before its first edit.
Opened(e) ==
    /\ DOMAIN e.shadow \subseteq e.ever
    /\ ~e.open => e.shadow = << >>
    /\ e.pc = "none" => e.ever = {}

\* Between two edits the trees agree; while one is held they do but for its files, which
\* are as they were shown, and its number is in no other.
Level(e) == e.pc = "ready" => \A f \in e.ever \ e.outside : Agree(e, f)
Pending(e) ==
    e.pc = "held" =>
        /\ e.pending \subseteq DOMAIN e.shadow
        /\ \A f \in e.pending : f \in DOMAIN e.shown /\ e.shown[f] = e.shadow[f]
        /\ e.id \in 1 .. e.writes /\ e.id \notin e.granted \cup e.rejected
        /\ \A f \in DOMAIN e.shadow \ e.pending : e.id \notin e.shadow[f]
        /\ \A f \in e.ever \ (e.outside \cup e.pending) : Agree(e, f)

Sound(e) == e \in EditType /\ Numbered(e) /\ Decided(e) /\ Opened(e) /\ Level(e) /\ Pending(e)

-----------------------------------------------------------------------------
(* The steps keep the invariant                                             *)

\* Before the first turn the invariant holds.
LEMMA SoundInit ==
    ASSUME Edit!Init
    PROVE  Sound(edit)
<1>1. edit = Edit!NoEdit /\ Edit!NoEdit \in EditType
  BY EmptyTree DEF Edit!Init, Edit!NoEdit, EditType
<1>2. Numbered(Edit!NoEdit) /\ Decided(Edit!NoEdit) /\ Opened(Edit!NoEdit) /\ Level(Edit!NoEdit) /\ Pending(Edit!NoEdit)
  BY EmptyTree DEF Edit!NoEdit, Numbered, Decided, Opened, Level, Pending
<1> QED
  BY <1>1, <1>2 DEF Sound

\* A turn begins.
LEMMA BeginStep ==
    ASSUME Sound(edit), NEW fs \in SUBSET EditNames, Edit!Begin(fs)
    PROVE  Sound(edit)'
<1>1. /\ edit' = [edit EXCEPT !.pc = "ready", !.real = [f \in fs |-> {}]]
      /\ edit \in EditType /\ edit.ever = {} /\ DOMAIN edit.shadow = {}
  BY DEF Edit!Begin, Sound, Opened
<1>2. [f \in fs |-> {}] \in Trees
  BY TreeFacts
<1>3. edit' \in EditType
  BY <1>1, <1>2 DEF EditType
<1>4. /\ edit'.pc = "ready" /\ edit'.ever = {} /\ edit'.real = [f \in fs |-> {}]
      /\ edit'.shadow = edit.shadow /\ edit'.open = edit.open /\ edit'.writes = edit.writes
      /\ edit'.rejected = edit.rejected /\ edit'.granted = edit.granted
  BY <1>1 DEF EditType
<1>5. Numbered(edit') /\ Decided(edit') /\ Opened(edit') /\ Level(edit') /\ Pending(edit')
  BY <1>1, <1>4 DEF Sound, Numbered, Decided, Opened, Level, Pending
<1> QED
  BY <1>3, <1>5 DEF Sound

\* What a patch may touch.
LEMMA TouchedNames ==
    ASSUME NEW ops \in Edit!Patches
    PROVE  /\ Edit!Touched(ops) \subseteq EditNames
           /\ Edit!Touched(ops) = ops.create \cup ops.change \cup ops.delete
           /\ ops.create \cap ops.change = {}
BY DEF Edit!Patches, Edit!Touched

\* Opening the shadow, or adding files to it, keeps the invariant.
LEMMA SeededSound ==
    ASSUME Sound(edit), edit.pc = "ready", NEW T \in SUBSET EditNames
    PROVE  LET e == Edit!Seeded(T)
           IN  /\ Sound(e) /\ e.pc = "ready" /\ e.open /\ T \subseteq e.ever
               /\ e.writes = edit.writes
<1> DEFINE new == T \ edit.ever
           s   == Edit!Copied(edit.real, edit.shadow, new)
           e   == Edit!Seeded(T)
<1>1. edit \in EditType /\ edit.real \in Trees /\ edit.shadow \in Trees
  BY DEF Sound, EditType
<1>2. e = [edit EXCEPT !.open = TRUE, !.ever = @ \cup T, !.shadow = s]
  BY <1>1 DEF Edit!Seeded, Sound, Opened
<1>3. /\ s \in Trees /\ DOMAIN s = DOMAIN edit.shadow \cup (new \cap DOMAIN edit.real)
      /\ \A f \in DOMAIN s :
           s[f] = IF f \in new \cap DOMAIN edit.real THEN edit.real[f] ELSE edit.shadow[f]
  <2>0. new \in SUBSET EditNames
    OBVIOUS
  <2> HIDE DEF new
  <2>1. s \in Trees
    BY <1>1, <2>0, CopiedTree
  <2>2. DOMAIN s = DOMAIN edit.shadow \cup (new \cap DOMAIN edit.real)
    BY DEF Edit!Copied
  <2>3. \A f \in DOMAIN s :
           s[f] = IF f \in new \cap DOMAIN edit.real THEN edit.real[f] ELSE edit.shadow[f]
    BY DEF Edit!Copied
  <2> QED
    BY <2>1, <2>2, <2>3
<1> HIDE DEF s, e
<1>4. /\ e.pc = "ready" /\ e.real = edit.real /\ e.open /\ e.shadow = s
      /\ e.ever = edit.ever \cup T /\ e.writes = edit.writes /\ e.torn = edit.torn
      /\ e.rejected = edit.rejected /\ e.granted = edit.granted /\ e.outside = edit.outside
  BY <1>1, <1>2 DEF EditType
<1>5. e \in EditType
  BY <1>1, <1>2, <1>3 DEF EditType
<1>6. Numbered(e)
  <2>1. ASSUME NEW f \in DOMAIN s PROVE s[f] \subseteq 1 .. edit.writes
    BY <1>3, <2>1 DEF Sound, Numbered, Decided
  <2> QED
    BY <1>4, <2>1 DEF Sound, Numbered
<1>7. Decided(e)
  <2>1. ASSUME NEW f \in DOMAIN s PROVE s[f] \cap edit.rejected = {}
    BY <1>3, <2>1 DEF Sound, Decided
  <2> QED
    BY <1>4, <2>1 DEF Sound, Decided
<1>8. Opened(e)
  BY <1>3, <1>4 DEF Sound, Opened
<1>9. Level(e)
  <2>1. ASSUME NEW f \in e.ever \ e.outside PROVE Agree(e, f)
    <3>1. CASE f \in edit.ever
      <4>1. Agree(edit, f)
        BY <1>4, <2>1, <3>1 DEF Sound, Level
      <4> QED
        BY <1>3, <1>4, <3>1, <4>1 DEF Agree
    <3>2. CASE f \notin edit.ever
      <4>1. f \in new /\ f \notin DOMAIN edit.shadow
        BY <1>4, <2>1, <3>2 DEF Sound, Opened
      <4> QED
        BY <1>3, <1>4, <4>1 DEF Agree
    <3> QED
      BY <3>1, <3>2
  <2> QED
    BY <2>1 DEF Level
<1>10. Pending(e)
  BY <1>4 DEF Pending
<1> QED
  BY <1>4, <1>5, <1>6, <1>7, <1>8, <1>9, <1>10 DEF Sound, e

\* The shadow new that a patch with the number id makes of that of e, writing some files.
PatchOf(new, e, ops, files, id) ==
    /\ DOMAIN new = DOMAIN e.shadow \cup (ops.create \cap files)
    /\ \A f \in DOMAIN new : new[f] \subseteq 1 .. id /\ new[f] \cap e.rejected = {}
    /\ \A f \in DOMAIN e.shadow : f \notin files => new[f] = e.shadow[f] /\ id \notin new[f]
    /\ \A f \in files \cap (ops.create \cup (ops.change \cap DOMAIN e.shadow)) : id \in new[f]

\* A patch of a sound state's shadow makes such a shadow.
LEMMA PatchKeeps ==
    ASSUME NEW e, Sound(e), e.pc = "ready", NEW ops \in Edit!Patches, NEW files \in SUBSET EditNames,
           NEW id, id = e.writes + 1, NEW new, new = Edit!Patched(e.shadow, ops, files, id)
    PROVE  id \in Nat /\ id \in 1 .. id /\ new \in Trees /\ PatchOf(new, e, ops, files, id)
<1>1. e \in EditType /\ e.shadow \in Trees /\ e.writes \in Nat /\ id \in Nat /\ id \in 1 .. id
  BY DEF Sound, EditType
<1>2. new \in Trees
  BY <1>1, PatchedTree
<1>3. /\ DOMAIN new = DOMAIN e.shadow \cup (ops.create \cap files)
      /\ \A f \in DOMAIN new :
           new[f] = IF f \in ops.create \cap files THEN {id}
                    ELSE IF f \in ops.change \cap files THEN e.shadow[f] \cup {id} ELSE e.shadow[f]
  BY DEF Edit!Patched
<1>4. id \notin e.rejected /\ \A f \in DOMAIN e.shadow : id \notin e.shadow[f]
  BY <1>1 DEF Sound, Numbered
<1>5. ASSUME NEW f \in DOMAIN new
      PROVE  new[f] \subseteq 1 .. id /\ new[f] \cap e.rejected = {}
  <2>1. CASE f \in ops.create \cap files
    <3>1. new[f] = {id}
      BY <1>3, <2>1
    <3> QED
      BY <1>1, <1>4, <3>1
  <2>2. CASE f \notin ops.create \cap files
    <3>1. f \in DOMAIN e.shadow /\ new[f] \subseteq e.shadow[f] \cup {id}
      BY <1>3, <2>2
    <3>2. e.shadow[f] \subseteq 1 .. e.writes /\ e.shadow[f] \cap e.rejected = {}
      BY <3>1 DEF Sound, Numbered, Decided
    <3> QED
      BY <1>1, <1>4, <3>1, <3>2
  <2> QED
    BY <2>1, <2>2
<1>6. \A f \in DOMAIN e.shadow : f \notin files => new[f] = e.shadow[f] /\ id \notin new[f]
  BY <1>3, <1>4
<1>7. \A f \in files \cap (ops.create \cup (ops.change \cap DOMAIN e.shadow)) : id \in new[f]
  BY <1>3
<1> QED
  BY <1>1, <1>2, <1>3, <1>5, <1>6, <1>7 DEF PatchOf

\* A patch that is applied is held with the diff of its files.
LEMMA AppliedStep ==
    ASSUME Sound(edit), NEW ops \in Edit!Patches, Edit!Applied(ops)
    PROVE  Sound(edit)'
<1> DEFINE T   == Edit!Touched(ops)
           e   == Edit!Seeded(T)
           id  == e.writes + 1
           new == Edit!Patched(e.shadow, ops, T, id)
           shown == [f \in T |-> new[f]]
<1>1. T \subseteq EditNames /\ T = ops.create \cup ops.change \cup ops.delete
  BY TouchedNames
<1>2. /\ edit.pc = "ready" /\ ops.change \cup ops.delete \subseteq DOMAIN e.shadow
      /\ edit' = [e EXCEPT !.pc = "held", !.writes = @ + 1, !.shadow = new, !.pending = T,
                           !.shown = shown, !.id = id]
  BY DEF Edit!Applied
<1>3. Sound(e) /\ e.pc = "ready" /\ e.open /\ T \subseteq e.ever
  BY <1>1, <1>2, SeededSound
<1>p. id = e.writes + 1 /\ new = Edit!Patched(e.shadow, ops, T, id)
  OBVIOUS
<1> HIDE DEF e, T, new, id
<1>q. id \in Nat /\ id \in 1 .. id /\ new \in Trees /\ PatchOf(new, e, ops, T, id)
  BY <1>1, <1>3, <1>p, PatchKeeps
<1>4. /\ DOMAIN new = DOMAIN e.shadow \cup (ops.create \cap T)
      /\ \A f \in DOMAIN new : new[f] \subseteq 1 .. id /\ new[f] \cap e.rejected = {}
      /\ \A f \in DOMAIN e.shadow : f \notin T => new[f] = e.shadow[f] /\ id \notin new[f]
  BY <1>q DEF PatchOf
<1>5. e \in EditType /\ e.writes \in Nat
  BY <1>3 DEF Sound, EditType
<1>6. T \subseteq DOMAIN new
  BY <1>1, <1>2, <1>4
<1>7. shown \in Trees /\ \A f \in T : f \in DOMAIN shown /\ shown[f] = new[f]
  <2>1. \A f \in T : new[f] \subseteq Nat
    BY <1>q, <1>6, TreeFacts
  <2> QED
    BY <1>1, <2>1, TreeFacts
<1> HIDE DEF shown
<1>8. /\ edit'.pc = "held" /\ edit'.real = e.real /\ edit'.open = e.open /\ edit'.shadow = new
      /\ edit'.ever = e.ever /\ edit'.pending = T /\ edit'.shown = shown /\ edit'.id = id
      /\ edit'.writes = id /\ edit'.torn = e.torn /\ edit'.rejected = e.rejected
      /\ edit'.granted = e.granted /\ edit'.outside = e.outside
  BY <1>2, <1>5, <1>p DEF EditType
<1>9. edit' \in EditType
  BY <1>1, <1>2, <1>5, <1>7, <1>p, <1>q DEF EditType
<1>10. Numbered(edit')
  BY <1>3, <1>4, <1>5, <1>8, <1>p DEF Sound, Numbered
<1>11. Decided(edit')
  BY <1>3, <1>4, <1>8 DEF Sound, Decided
<1>12. Opened(edit') /\ Level(edit')
  BY <1>3, <1>4, <1>8 DEF Sound, Opened, Level
<1>13. Pending(edit')
  <2>1. id \in 1 .. id /\ id \notin e.granted \cup e.rejected
    BY <1>3, <1>5, <1>p, <1>q DEF Sound, Numbered
  <2>2. \A f \in DOMAIN new \ T : id \notin new[f]
    BY <1>4
  <2>3. ASSUME NEW f \in e.ever \ (e.outside \cup T) PROVE Agree(edit', f)
    <3>1. Agree(e, f)
      BY <1>3, <2>3 DEF Sound, Level
    <3>2. f \in DOMAIN new <=> f \in DOMAIN e.shadow
      BY <1>4, <2>3
    <3>3. f \in DOMAIN e.shadow => new[f] = e.shadow[f]
      BY <1>4, <2>3
    <3> QED
      BY <1>8, <3>1, <3>2, <3>3 DEF Agree
  <2> QED
    BY <1>6, <1>7, <1>8, <2>1, <2>2, <2>3 DEF Pending
<1> QED
  BY <1>9, <1>10, <1>11, <1>12, <1>13 DEF Sound

\* A patch that fails halfway leaves its mark on the files it has written.
LEMMA TornStep ==
    ASSUME Sound(edit), NEW ops \in Edit!Patches, NEW fs \in SUBSET EditNames, Edit!Torn(ops, fs)
    PROVE  Sound(edit)'
<1> DEFINE T   == Edit!Touched(ops)
           e   == Edit!Seeded(T)
           id  == e.writes + 1
           new == Edit!Patched(e.shadow, ops, fs, id)
<1>1. T \subseteq EditNames /\ T = ops.create \cup ops.change \cup ops.delete
  BY TouchedNames
<1>2. /\ edit.pc = "ready" /\ ops.change \cup ops.delete \subseteq DOMAIN e.shadow
      /\ fs \subseteq ops.create \cup ops.change
      /\ edit' = [e EXCEPT !.writes = @ + 1, !.torn = @ \cup {id}, !.shadow = new]
  BY DEF Edit!Torn
<1>3. Sound(e) /\ e.pc = "ready" /\ e.open /\ T \subseteq e.ever
  BY <1>1, <1>2, SeededSound
<1>p. id = e.writes + 1 /\ new = Edit!Patched(e.shadow, ops, fs, id)
  OBVIOUS
<1> HIDE DEF e, T, new, id
<1>q. id \in Nat /\ id \in 1 .. id /\ new \in Trees /\ PatchOf(new, e, ops, fs, id)
  BY <1>3, <1>p, PatchKeeps
<1>4. /\ DOMAIN new = DOMAIN e.shadow \cup (ops.create \cap fs)
      /\ \A f \in DOMAIN new : new[f] \subseteq 1 .. id /\ new[f] \cap e.rejected = {}
      /\ \A f \in DOMAIN e.shadow : f \notin fs => new[f] = e.shadow[f]
      /\ \A f \in fs \cap (ops.create \cup (ops.change \cap DOMAIN e.shadow)) : id \in new[f]
  BY <1>q DEF PatchOf
<1>5. e \in EditType /\ e.writes \in Nat
  BY <1>3 DEF Sound, EditType
<1>8. /\ edit'.pc = "ready" /\ edit'.real = e.real /\ edit'.open = e.open /\ edit'.shadow = new
      /\ edit'.ever = e.ever /\ edit'.writes = id /\ edit'.torn = e.torn \cup {id}
      /\ edit'.rejected = e.rejected /\ edit'.granted = e.granted /\ edit'.outside = e.outside
  BY <1>2, <1>3, <1>5, <1>p DEF EditType
<1>9. edit' \in EditType
  BY <1>2, <1>5, <1>p, <1>q DEF EditType
<1>10. Numbered(edit') /\ Decided(edit')
  BY <1>3, <1>4, <1>5, <1>8, <1>p DEF Sound, Numbered, Decided
<1>11. Opened(edit') /\ Pending(edit')
  BY <1>1, <1>3, <1>4, <1>8 DEF Sound, Opened, Pending
<1>12. Level(edit')
  <2>1. ASSUME NEW f \in e.ever \ e.outside PROVE Agree(edit', f)
    <3>1. Agree(e, f)
      BY <1>3, <2>1 DEF Sound, Level
    <3>2. CASE f \in fs
      <4>1. f \in DOMAIN new /\ id \in new[f]
        BY <1>2, <1>4, <3>2
      <4> QED
        BY <1>8, <4>1 DEF Agree
    <3>3. CASE f \notin fs
      <4>1. f \in DOMAIN new <=> f \in DOMAIN e.shadow
        BY <1>4, <3>3
      <4>2. f \in DOMAIN e.shadow => new[f] = e.shadow[f]
        BY <1>4, <3>3
      <4> QED
        BY <1>8, <3>1, <4>1, <4>2 DEF Agree
    <3> QED
      BY <3>2, <3>3
  <2> QED
    BY <1>8, <2>1 DEF Level
<1> QED
  BY <1>9, <1>10, <1>11, <1>12 DEF Sound

\* The files of an accepted edit are promoted as they were shown.
LEMMA AcceptStep ==
    ASSUME Sound(edit), Edit!Accept
    PROVE  Sound(edit)'
<1> DEFINE real    == Edit!Copied(edit.shadow, edit.real, edit.pending)
           granted == edit.granted \cup UNION {edit.shown[f] : f \in edit.pending}
<1>1. /\ edit.pc = "held"
      /\ edit' = [edit EXCEPT !.pc = "ready", !.real = real, !.granted = granted, !.pending = {},
                              !.outside = @ \ edit.pending]
  BY DEF Edit!Accept
<1>2. edit \in EditType /\ edit.real \in Trees /\ edit.shadow \in Trees /\ edit.pending \in SUBSET EditNames
  BY DEF Sound, EditType
<1>3. \A f \in edit.pending :
        f \in DOMAIN edit.shadow /\ f \in DOMAIN edit.shown /\ edit.shown[f] = edit.shadow[f]
  BY <1>1 DEF Sound, Pending
<1>4. real \in Trees
  BY <1>2, CopiedTree
<1>5. /\ DOMAIN real = DOMAIN edit.real \cup (edit.pending \cap DOMAIN edit.shadow)
      /\ \A f \in DOMAIN real :
           real[f] = IF f \in edit.pending \cap DOMAIN edit.shadow THEN edit.shadow[f] ELSE edit.real[f]
  BY DEF Edit!Copied
<1> HIDE DEF real
<1>6. \A f \in edit.pending : /\ edit.shadow[f] \subseteq granted
                              /\ edit.shadow[f] \subseteq 1 .. edit.writes
                              /\ edit.shadow[f] \cap edit.rejected = {}
  BY <1>3 DEF Sound, Numbered, Decided
<1>7. edit.granted \subseteq granted /\ granted \subseteq 1 .. edit.writes /\ granted \cap edit.rejected = {}
  <2>1. ASSUME NEW n \in granted PROVE n \in 1 .. edit.writes /\ n \notin edit.rejected
    <3>1. CASE n \in edit.granted
      BY <3>1 DEF Sound, Numbered, Decided
    <3>2. CASE n \notin edit.granted
      <4>1. PICK f \in edit.pending : n \in edit.shown[f]
        BY <2>1, <3>2
      <4> QED
        BY <1>3, <1>6, <4>1
    <3> QED
      BY <3>1, <3>2
  <2> QED
    BY <2>1
<1> HIDE DEF granted
<1>8. /\ edit'.pc = "ready" /\ edit'.real = real /\ edit'.open = edit.open
      /\ edit'.shadow = edit.shadow /\ edit'.ever = edit.ever /\ edit'.writes = edit.writes
      /\ edit'.torn = edit.torn /\ edit'.rejected = edit.rejected /\ edit'.granted = granted
      /\ edit'.outside = edit.outside \ edit.pending
  BY <1>1, <1>2 DEF EditType
<1>9. edit' \in EditType
  <2>1. granted \subseteq Nat
    BY <1>2, <1>7 DEF EditType
  <2> QED
    BY <1>1, <1>2, <1>4, <2>1 DEF EditType
<1>10. Numbered(edit')
  BY <1>7, <1>8 DEF Sound, Numbered
<1>11. Decided(edit')
  <2>1. ASSUME NEW f \in DOMAIN real PROVE real[f] \subseteq granted
    <3>1. CASE f \in edit.pending
      BY <1>3, <1>5, <1>6, <3>1
    <3>2. CASE f \notin edit.pending
      <4>1. f \in DOMAIN edit.real /\ real[f] = edit.real[f]
        BY <1>5, <3>2
      <4> QED
        BY <1>7, <4>1 DEF Sound, Decided
    <3> QED
      BY <3>1, <3>2
  <2> QED
    BY <1>7, <1>8, <2>1 DEF Sound, Decided
<1>12. Opened(edit') /\ Pending(edit')
  BY <1>1, <1>8 DEF Sound, Opened, Pending
<1>13. Level(edit')
  <2>1. ASSUME NEW f \in edit.ever \ (edit.outside \ edit.pending) PROVE Agree(edit', f)
    <3>1. CASE f \in edit.pending
      <4>1. f \in DOMAIN edit.shadow /\ f \in DOMAIN real /\ real[f] = edit.shadow[f]
        BY <1>3, <1>5, <3>1
      <4> QED
        BY <1>8, <4>1 DEF Agree
    <3>2. CASE f \notin edit.pending
      <4>1. Agree(edit, f)
        BY <1>1, <2>1, <3>2 DEF Sound, Pending
      <4>2. f \in DOMAIN real <=> f \in DOMAIN edit.real
        BY <1>5, <3>2
      <4>3. f \in DOMAIN edit.real => real[f] = edit.real[f]
        BY <1>5, <3>2
      <4> QED
        BY <1>8, <4>1, <4>2, <4>3 DEF Agree
    <3> QED
      BY <3>1, <3>2
  <2> QED
    BY <1>8, <2>1 DEF Level
<1> QED
  BY <1>9, <1>10, <1>11, <1>12, <1>13 DEF Sound

\* The files of a rejected edit are restored, so that its number is in neither tree.
LEMMA RejectStep ==
    ASSUME Sound(edit), Edit!Reject
    PROVE  Sound(edit)'
<1> DEFINE s == Edit!Restored(edit.shadow, edit.real, edit.pending)
           D == DOMAIN edit.shadow \ (edit.pending \ DOMAIN edit.real)
<1>1. /\ edit.pc = "held"
      /\ edit' = [edit EXCEPT !.pc = "ready", !.shadow = s, !.rejected = @ \cup {edit.id},
                              !.pending = {}, !.outside = @ \ edit.pending]
  BY DEF Edit!Reject
<1>2. /\ edit \in EditType /\ edit.real \in Trees /\ edit.shadow \in Trees
      /\ edit.pending \in SUBSET EditNames
  BY DEF Sound, EditType
<1>3. /\ edit.id \in 1 .. edit.writes /\ edit.id \notin edit.granted
      /\ edit.pending \subseteq DOMAIN edit.shadow
      /\ \A f \in DOMAIN edit.shadow \ edit.pending : edit.id \notin edit.shadow[f]
  BY <1>1 DEF Sound, Pending
<1>4. s \in Trees
  BY <1>2, RestoredTree
<1>5. /\ DOMAIN s = D
      /\ \A f \in D : s[f] = IF f \in edit.pending \cap DOMAIN edit.real THEN edit.real[f]
                              ELSE edit.shadow[f]
  <2>1. s = [f \in D |-> Edit!Copied(edit.real, edit.shadow, edit.pending)[f]]
    BY DEF Edit!Restored, Edit!Restrict
  <2>2. \A f \in D : Edit!Copied(edit.real, edit.shadow, edit.pending)[f]
                        = IF f \in edit.pending \cap DOMAIN edit.real THEN edit.real[f]
                          ELSE edit.shadow[f]
    BY DEF Edit!Copied
  <2> HIDE DEF s
  <2> QED
    BY <2>1, <2>2
<1> HIDE DEF s
<1>8. /\ edit'.pc = "ready" /\ edit'.real = edit.real /\ edit'.open = edit.open
      /\ edit'.shadow = s /\ edit'.ever = edit.ever /\ edit'.writes = edit.writes
      /\ edit'.torn = edit.torn /\ edit'.rejected = edit.rejected \cup {edit.id}
      /\ edit'.granted = edit.granted /\ edit'.outside = edit.outside \ edit.pending
  BY <1>1, <1>2 DEF EditType
<1>9. edit' \in EditType
  BY <1>1, <1>2, <1>4 DEF EditType
<1>10. ASSUME NEW f \in D
       PROVE  /\ f \in DOMAIN edit.shadow /\ s[f] \subseteq 1 .. edit.writes
              /\ s[f] \cap (edit.rejected \cup {edit.id}) = {}
  <2>1. CASE f \in edit.pending
    <3>1. f \in DOMAIN edit.real /\ s[f] = edit.real[f]
      BY <1>5, <1>10, <2>1
    <3>2. edit.real[f] \subseteq edit.granted
      BY <3>1 DEF Sound, Decided
    <3> QED
      BY <1>3, <1>10, <3>1, <3>2 DEF Sound, Decided, Numbered
  <2>2. CASE f \notin edit.pending
    <3>1. f \in DOMAIN edit.shadow /\ s[f] = edit.shadow[f]
      BY <1>5, <1>10, <2>2
    <3> QED
      BY <1>3, <2>2, <3>1 DEF Sound, Decided, Numbered
  <2> QED
    BY <2>1, <2>2
<1> HIDE DEF D
<1>11. Numbered(edit') /\ Decided(edit')
  BY <1>3, <1>5, <1>8, <1>10 DEF Sound, Numbered, Decided
<1>12. Pending(edit')
  BY <1>8 DEF Pending
<1>13. Opened(edit')
  <2>1. D \subseteq edit.ever
    BY <1>10 DEF Sound, Opened
  <2>2. ASSUME ~edit.open PROVE s = << >>
    <3>1. DOMAIN edit.shadow = {}
      BY <2>2, EmptyTree DEF Sound, Opened
    <3>2. DOMAIN s = {}
      BY <1>5, <1>10, <3>1
    <3> QED
      BY <1>4, <3>2, EmptyTree, TreeFacts
  <2> QED
    BY <1>5, <1>8, <2>1, <2>2 DEF Opened
<1>14. Level(edit')
  <2>1. ASSUME NEW f \in edit.ever \ (edit.outside \ edit.pending) PROVE Agree(edit', f)
    <3>1. CASE f \in edit.pending
      <4>1. f \in D <=> f \in DOMAIN edit.real
        BY <1>3, <3>1 DEF D
      <4>2. f \in D => s[f] = edit.real[f]
        BY <1>5, <3>1, <4>1
      <4> QED
        BY <1>5, <1>8, <4>1, <4>2 DEF Agree
    <3>2. CASE f \notin edit.pending
      <4>1. Agree(edit, f)
        BY <1>1, <2>1, <3>2 DEF Sound, Pending
      <4>2. f \in D <=> f \in DOMAIN edit.shadow
        BY <3>2 DEF D
      <4>3. f \in D => s[f] = edit.shadow[f]
        BY <1>5, <3>2
      <4> QED
        BY <1>5, <1>8, <4>1, <4>2, <4>3 DEF Agree
    <3> QED
      BY <3>1, <3>2
  <2> QED
    BY <1>8, <2>1 DEF Level
<1> QED
  BY <1>9, <1>11, <1>12, <1>13, <1>14 DEF Sound

\* A write from outside is granted, and its file is known to differ from the shadow's.
LEMMA OutsideStep ==
    ASSUME Sound(edit), NEW g \in EditNames, Edit!Outside(g)
    PROVE  Sound(edit)'
<1> DEFINE id   == edit.writes + 1
           real == [f \in DOMAIN edit.real \cup {g} |-> IF f = g THEN {id} ELSE edit.real[f]]
<1>1. /\ edit.pc \in {"ready", "held"}
      /\ edit' = [edit EXCEPT !.writes = @ + 1, !.granted = @ \cup {id},
                              !.outside = @ \cup ({g} \cap edit.ever), !.real = real]
  BY DEF Edit!Outside
<1>2. edit \in EditType /\ edit.real \in Trees /\ edit.writes \in Nat /\ id \in Nat /\ id \in 1 .. id
  BY DEF Sound, EditType
<1>3. /\ real = [f \in DOMAIN real |-> real[f]] /\ DOMAIN real = {g} \cup DOMAIN edit.real
      /\ real[g] = {id} /\ \A f \in DOMAIN edit.real : f # g => real[f] = edit.real[f]
  OBVIOUS
<1> HIDE DEF real
<1>4. real \in Trees
  <2>1. DOMAIN real \subseteq EditNames
    BY <1>2, <1>3, TreeFacts
  <2>2. ASSUME NEW f \in DOMAIN real PROVE real[f] \subseteq Nat
    BY <1>2, <1>3, <2>2, TreeFacts
  <2> QED
    BY <1>3, <2>1, <2>2, TreeFacts
<1>8. /\ edit'.pc = edit.pc /\ edit'.real = real /\ edit'.open = edit.open
      /\ edit'.shadow = edit.shadow /\ edit'.ever = edit.ever /\ edit'.writes = id
      /\ edit'.torn = edit.torn /\ edit'.rejected = edit.rejected
      /\ edit'.granted = edit.granted \cup {id} /\ edit'.pending = edit.pending
      /\ edit'.shown = edit.shown /\ edit'.id = edit.id
      /\ edit'.outside = edit.outside \cup ({g} \cap edit.ever)
  BY <1>1, <1>2 DEF EditType
<1>9. edit' \in EditType
  BY <1>1, <1>2, <1>4 DEF EditType
<1>10. id \notin edit.rejected /\ 1 .. edit.writes \subseteq 1 .. id /\ id \notin 1 .. edit.writes
  BY <1>2 DEF Sound, Numbered
<1>11. Numbered(edit') /\ Decided(edit')
  BY <1>2, <1>3, <1>8, <1>10 DEF Sound, Numbered, Decided
<1>12. Opened(edit')
  BY <1>1, <1>8 DEF Sound, Opened
<1>13. ASSUME NEW f, f # g, Agree(edit, f) PROVE Agree(edit', f)
  BY <1>3, <1>8, <1>13 DEF Agree
<1>14. Level(edit')
  BY <1>8, <1>13 DEF Sound, Level
<1>15. Pending(edit')
  BY <1>8, <1>10, <1>13 DEF Sound, Pending
<1> QED
  BY <1>9, <1>11, <1>12, <1>14, <1>15 DEF Sound

\* A turn that ends leaves no shadow.
LEMMA CloseStep ==
    ASSUME Sound(edit), Edit!Close
    PROVE  Sound(edit)'
<1>1. edit' = [edit EXCEPT !.pc = "closed", !.open = FALSE, !.shadow = << >>] /\ edit \in EditType
  BY DEF Edit!Close, Sound
<1>2. edit' \in EditType
  BY <1>1, EmptyTree DEF EditType
<1>3. /\ edit'.pc = "closed" /\ ~edit'.open /\ edit'.shadow = << >> /\ edit'.real = edit.real
      /\ edit'.rejected = edit.rejected /\ edit'.granted = edit.granted /\ edit'.writes = edit.writes
  BY <1>1 DEF EditType
<1>4. Numbered(edit') /\ Decided(edit') /\ Opened(edit') /\ Level(edit') /\ Pending(edit')
  BY <1>3, EmptyTree DEF Sound, Numbered, Decided, Opened, Level, Pending
<1> QED
  BY <1>2, <1>4 DEF Sound

\* Every step keeps the invariant.
LEMMA SoundStep ==
    ASSUME Sound(edit), [Edit!Next]_edit
    PROVE  Sound(edit)'
<1>1. CASE UNCHANGED edit
  BY <1>1
<1>2. ASSUME NEW ops \in Edit!Patches, Edit!Refused(ops) PROVE Sound(edit)'
  <2>1. Edit!Touched(ops) \in SUBSET EditNames
    BY TouchedNames
  <2> QED
    BY <1>2, <2>1, SeededSound DEF Edit!Refused
<1>3. CASE \E fs \in SUBSET EditNames : Edit!Begin(fs)
  BY <1>3, BeginStep
<1>4. CASE \E ops \in Edit!Patches : Edit!Applied(ops) \/ \E fs \in SUBSET EditNames : Edit!Torn(ops, fs)
  BY <1>4, AppliedStep, TornStep
<1>5. CASE Edit!Accept \/ Edit!Reject \/ Edit!Close
  BY <1>5, AcceptStep, RejectStep, CloseStep
<1>6. CASE \E f \in EditNames : Edit!Outside(f)
  BY <1>6, OutsideStep
<1> QED
  BY <1>1, <1>2, <1>3, <1>4, <1>5, <1>6 DEF Edit!Next

-----------------------------------------------------------------------------

\* For any files and any number of edits: nothing is in the workspace that no accepted
\* diff has shown and nobody else has written, nothing of a rejected diff is, and between
\* two edits the shadow is the workspace on every file the turn has touched, writes from
\* outside and leftovers of failed edits aside.
LEMMA EditsLand == Edit!Init /\ [][Edit!Next]_edit => []Edit!EditsLandAsDecided
<1>1. Edit!Init => Sound(edit)
  BY SoundInit
<1>2. Sound(edit) /\ [Edit!Next]_edit => Sound(edit)'
  BY SoundStep
<1>3. Sound(edit) => Edit!EditsLandAsDecided
  BY DEF Sound, Decided, Level, Agree, Edit!EditsLandAsDecided
<1> QED
  BY <1>1, <1>2, <1>3, PTL

\* For any files and any number of edits: the workspace holds nothing of a rejected edit and
\* nothing that no accepted diff has shown.
THEOREM EditsAreDecided == Spec => []EditsLandAsDecided
<1>1. Init => Edit!Init
  BY DEF Init
<1>2. [Next]_vars => [Edit!Next]_edit
  BY DEF Next, vars
<1>3. Edit!EditsLandAsDecided => EditsLandAsDecided
  BY DEF EditsLandAsDecided
<1> QED
  BY <1>1, <1>2, <1>3, EditsLand, PTL DEF Spec

\* What a turn, a message, a change and a task are made of.
Texts == SUBSET (Nat \cup Inl!Absent)
Turns == [pc : {"rest", "explore", "loop", "planning"} \cup Inl!Intents, calls : Nat, read : SUBSET Inl!Files, before : Nat,
          recent : Nat, targets : SUBSET Inl!Files]
Says == [kind : {"user", "text", "pills", "diff_card", "task_card", "plan_card"}, ref : Nat, plan : Nat,
         decision : {"none", "applied", "discarded"}]
Changes == [kept : BOOLEAN, text : [Inl!Files -> Texts], entry : BOOLEAN, touched : SUBSET Inl!Files,
            manifest : SUBSET Inl!Files, seen : [Inl!Files -> Texts], shown : SUBSET (Inl!Files \X Texts),
            copied : SUBSET (Inl!Files \X Texts)]
Jobs == [status : {"PLANNED", "AWAITING_PLAN_APPROVAL", "EXECUTING", "READY_FOR_REVIEW", "SUCCEEDED",
                   "FAILED", "ABORTED", "STRANDED"}, 
         executable : BOOLEAN, rounds : Nat, plan : Nat, parent : Nat]

ChatType ==
    chat \in [turns : Nat, turn : Turns, stream : {"none", "open"}, messages : Seq(Says), real : [Inl!Files -> Texts],
              changes : Seq(Changes), tasks : Seq(Jobs), active : Nat]

ChatShape ==
    chat = [turns |-> chat.turns, turn |-> chat.turn, stream |-> chat.stream, messages |-> chat.messages,
            real |-> chat.real, changes |-> chat.changes, tasks |-> chat.tasks, active |-> chat.active]

\* What is known before this message, what is to be resumed and what is live exist.
Pointing ==
    /\ chat.turn.before <= Len(chat.messages)
    /\ chat.turn.recent <= Len(chat.tasks)
    /\ chat.active <= Len(chat.tasks)

\* A card is about something of the thread; one that says "applied" had all it shows copied.
Carded(m) ==
    /\ m.kind = "diff_card" => m.ref \in DOMAIN chat.changes
    /\ m.kind \in {"task_card", "plan_card"} => m.ref \in DOMAIN chat.tasks
    /\ m.kind = "diff_card" /\ m.decision = "applied" =>
          chat.changes[m.ref].copied = chat.changes[m.ref].shown
AllCarded == \A k \in DOMAIN chat.messages : Carded(chat.messages[k])

\* What is to be copied is what is shown, and has what was in the file before.
Faithful(c) ==
    /\ c.manifest = c.touched
    /\ c.shown = {<<f, c.text[f]>> : f \in c.touched}
    /\ c.copied \subseteq c.shown
    /\ \A f \in c.touched : Inl!Lines(c.seen[f]) \subseteq c.text[f]
AllFaithful == \A i \in DOMAIN chat.changes : Faithful(chat.changes[i])

\* The change being made is shown nowhere yet, and its targets have what was in the file.
Making ==
    chat.turn.pc = "loop" =>
        /\ Inl!Change > 0
        /\ chat.changes[Inl!Change].touched = {}
        /\ \A f \in chat.turn.targets :
              Inl!Lines(chat.changes[Inl!Change].seen[f]) \subseteq chat.changes[Inl!Change].text[f]
        /\ \A k \in DOMAIN chat.messages :
              chat.messages[k].kind = "diff_card" => chat.messages[k].ref # Inl!Change

\* A plan that awaits approval is the one on the task's last card.
IsPlanCard(k, t) == chat.messages[k].kind = "plan_card" /\ chat.messages[k].ref = t
OnLastCard(t, offer) ==
    \E k \in DOMAIN chat.messages :
        /\ IsPlanCard(k, t) /\ chat.messages[k].plan = offer
        /\ \A j \in DOMAIN chat.messages : IsPlanCard(j, t) => j <= k
PlansShown ==
    \A t \in DOMAIN chat.tasks :
        chat.tasks[t].status = "AWAITING_PLAN_APPROVAL" => OnLastCard(t, chat.tasks[t].plan)

Parented ==
    \A t \in DOMAIN chat.tasks : chat.tasks[t].parent > 0 =>
        /\ chat.tasks[t].parent \in DOMAIN chat.tasks
        /\ chat.tasks[chat.tasks[t].parent].status \in {"FAILED", "ABORTED"}

ChatInv ==
    ChatType /\ Pointing /\ AllCarded /\ AllFaithful /\ Making /\ PlansShown /\ Parented

\* Numbers up to a bound have a smallest and a largest among them.
LEMMA Extremes ==
    ASSUME NEW b \in Nat, NEW T \in SUBSET (0 .. b), T # {}
    PROVE  /\ Inl!Min(T) \in T /\ \A y \in T : Inl!Min(T) <= y
           /\ Inl!Max(T) \in T /\ \A y \in T : y <= Inl!Max(T)
<1>1. PICK L : L = OpToRel(<, Nat)
  OBVIOUS
<1>2. IsWellFoundedOn(L, Nat)
  BY <1>1, NatLessThanWellFounded
<1>3. \A x, y \in Nat : <<y, x>> \in L <=> y < x
  BY <1>1 DEF OpToRel
<1>4. ASSUME NEW S \in SUBSET Nat, S # {} PROVE \E d \in S : \A e \in S : d <= e
  <2>1. PICK d \in S : \A e \in S : ~(<<e, d>> \in L)
    BY <1>2, <1>4, WFMin
  <2>2. ASSUME NEW e \in S PROVE d <= e
    <3>1. d \in Nat /\ e \in Nat /\ ~(e < d)
      BY <1>3, <2>1
    <3> QED
      BY <3>1
  <2> QED
    BY <2>2
<1>5. T \in SUBSET Nat
  OBVIOUS
<1>6. \E d \in T : \A e \in T : d <= e
  BY <1>4, <1>5
<1>7. PICK D : D = {b - x : x \in T}
  OBVIOUS
<1>8. ASSUME NEW x \in T PROVE b - x \in D /\ b - x \in Nat
  <2>1. b - x \in Nat
    OBVIOUS
  <2>2. b - x \in D
    BY <1>7
  <2> QED
    BY <2>1, <2>2
<1>9. D \in SUBSET Nat /\ D # {}
  BY <1>7, <1>8
<1>10. PICK d \in D : \A e \in D : d <= e
  BY <1>4, <1>9
<1>11. PICK x \in T : d = b - x
  BY <1>7
<1>12. ASSUME NEW y \in T PROVE y <= x
  <2>1. d <= b - y
    BY <1>8, <1>10
  <2> QED
    BY <1>11, <2>1
<1>13. Inl!Min(T) \in T /\ \A y \in T : Inl!Min(T) <= y
  BY <1>6 DEF Inl!Min
<1>14. \E z \in T : \A y \in T : z >= y
  BY <1>12
<1>15. Inl!Max(T) \in T /\ \A y \in T : Inl!Max(T) >= y
  BY <1>14 DEF Inl!Max
<1>16. \A y \in T : y <= Inl!Max(T)
  BY <1>15
<1> QED
  BY <1>13, <1>15, <1>16

\* The card of a change is a message of the thread that shows it.
LEMMA CardIsOne ==
    ASSUME ChatType, NEW i, Inl!Card(i) > 0
    PROVE  /\ Inl!Card(i) \in DOMAIN chat.messages
           /\ chat.messages[Inl!Card(i)].kind = "diff_card"
           /\ chat.messages[Inl!Card(i)].ref = i
<1> DEFINE I == {k \in 1 .. Len(chat.messages) : chat.messages[k].kind = "diff_card" /\ chat.messages[k].ref = i}
<1>1. Inl!Card(i) = IF I # {} THEN Inl!Min(I) ELSE 0
  BY DEF Inl!Card, Inl!SelectInSeq
<1>2. Len(chat.messages) \in Nat /\ DOMAIN chat.messages = 1 .. Len(chat.messages)
  BY DEF ChatType
<1>3. I \in SUBSET (0 .. Len(chat.messages))
  BY <1>2
<1>4. I # {}
  BY <1>1
<1>5. Inl!Min(I) \in I
  BY <1>2, <1>3, <1>4, Extremes
<1> QED
  BY <1>1, <1>2, <1>4, <1>5

\* No card is made of a plan that is on the last one.
LEMMA SameCard ==
    ASSUME ChatType, NEW t, NEW offer
    PROVE  Inl!PlanCard(t, offer) = << >> <=> OnLastCard(t, offer)
<1> DEFINE last == {k \in DOMAIN chat.messages : chat.messages[k].kind = "plan_card" /\ chat.messages[k].ref = t}
<1>1. Inl!PlanCard(t, offer) = IF last # {} /\ chat.messages[Inl!Max(last)].plan = offer THEN << >>
                          ELSE <<[Inl!Message("plan_card", t) EXCEPT !.plan = offer]>>
  BY DEF Inl!PlanCard
<1>2. Len(chat.messages) \in Nat /\ DOMAIN chat.messages = 1 .. Len(chat.messages)
  BY DEF ChatType
<1>3. \A k : k \in last <=> k \in DOMAIN chat.messages /\ IsPlanCard(k, t)
  BY DEF IsPlanCard
<1>4. last \in SUBSET (0 .. Len(chat.messages))
  BY <1>2
<1>5. CASE last = {}
  BY <1>1, <1>3, <1>5 DEF OnLastCard
<1>6. CASE last # {}
  <2> HIDE DEF last
  <2>1. PICK m : m = Inl!Max(last)
    OBVIOUS
  <2>2. m \in last /\ \A y \in last : y <= m
    BY <1>2, <1>4, <1>6, <2>1, Extremes
  <2>3. ASSUME NEW k \in last, \A j \in last : j <= k PROVE k = m
    <3>1. k <= m /\ m <= k /\ k \in 0 .. Len(chat.messages) /\ m \in 0 .. Len(chat.messages)
      BY <1>4, <2>2, <2>3
    <3> QED
      BY <1>2, <3>1
  <2>4. OnLastCard(t, offer) <=> chat.messages[m].plan = offer
    BY <1>3, <2>2, <2>3 DEF OnLastCard
  <2> QED
    BY <1>1, <1>6, <2>1, <2>4
<1> QED
  BY <1>5, <1>6

\* A thread begins without a message.
LEMMA InlineStarts == Inl!Init => ChatInv
<1> SUFFICES ASSUME Inl!Init PROVE ChatInv
  OBVIOUS
<1>1. << >> \in Seq(Says) /\ << >> \in Seq(Changes) /\ << >> \in Seq(Jobs)
  <2>1. \A S : << >> \in Seq(S)
    OBVIOUS
  <2> QED
    BY <2>1
<1>2. Inl!NoTurn \in Turns /\ Inl!NoTurn.pc = "rest" /\ Inl!NoTurn.before = 0 /\ Inl!NoTurn.recent = 0
  <2>1. PICK none : none = {}
    OBVIOUS
  <2>2. none \in SUBSET Inl!Files
    BY <2>1
  <2>3. Inl!NoTurn = [pc |-> "rest", calls |-> 0, read |-> none, before |-> 0, recent |-> 0, targets |-> none]
    BY <2>1 DEF Inl!NoTurn
  <2>4. Inl!NoTurn \in Turns
    BY <2>2, <2>3 DEF Turns
  <2> QED
    BY <2>3, <2>4
<1>3. Inl!Base \in [Inl!Files -> Texts]
  <2>1. {} \in Texts /\ Inl!Absent \in Texts
    BY DEF Texts
  <2>2. PICK none : none = {} /\ none \in Texts
    BY <2>1
  <2>3. \A f \in Inl!Files : (IF f = "a" THEN none ELSE Inl!Absent) \in Texts
    BY <2>1, <2>2
  <2>4. Inl!Base = [f \in Inl!Files |-> IF f = "a" THEN none ELSE Inl!Absent]
    BY <2>2 DEF Inl!Base
  <2> QED
    BY <2>3, <2>4
<1>4. ChatType
  BY <1>1, <1>2, <1>3 DEF Inl!Init, ChatType
<1>5. Pointing /\ AllCarded /\ AllFaithful /\ Making /\ PlansShown /\ Parented
  BY <1>2 DEF Inl!Init, Pointing, AllCarded, AllFaithful, Making, PlansShown, Parented
<1> QED
  BY <1>4, <1>5 DEF ChatInv

\* Messages that are no cards do not change what is on a task's last card.
LEMMA TalkIsNoCard ==
    ASSUME ChatType, ChatType', NEW ms \in Seq(Says), chat'.messages = chat.messages \o ms,
           NEW t, NEW offer, OnLastCard(t, offer),
           \A k \in DOMAIN ms : ms[k].kind = "plan_card" => ms[k].ref # t
    PROVE  OnLastCard(t, offer)'
<1>1. PICK k \in DOMAIN chat.messages :
          /\ IsPlanCard(k, t) /\ chat.messages[k].plan = offer
          /\ \A j \in DOMAIN chat.messages : IsPlanCard(j, t) => j <= k
  BY DEF OnLastCard
<1>2. PICK old : old = chat.messages
  OBVIOUS
<1>3. old \in Seq(Says) /\ chat'.messages = old \o ms
  BY <1>2 DEF ChatType
<1>4. DOMAIN old = 1 .. Len(old) /\ DOMAIN ms = 1 .. Len(ms)
  BY <1>3
<1>5. k \in DOMAIN chat'.messages /\ chat'.messages[k] = old[k]
  BY <1>1, <1>2, <1>3, <1>4
<1>6. ASSUME NEW j \in DOMAIN chat'.messages, chat'.messages[j].kind = "plan_card", chat'.messages[j].ref = t
      PROVE  j <= k
  <2>1. CASE j \in DOMAIN old
    <3>1. chat'.messages[j] = old[j]
      BY <1>3, <1>4, <2>1
    <3> QED
      BY <1>1, <1>2, <1>6, <2>1, <3>1 DEF IsPlanCard
  <2>2. CASE j \notin DOMAIN old
    <3>1. PICK i : i = j - Len(old)
      OBVIOUS
    <3>2. i \in DOMAIN ms /\ chat'.messages[j] = ms[i]
      BY <1>3, <1>4, <2>2, <3>1
    <3> QED
      BY <1>6, <3>2
  <2> QED
    BY <2>1, <2>2
<1> QED
  BY <1>1, <1>2, <1>5, <1>6 DEF OnLastCard, IsPlanCard

PlainTalk == {m \in Says : m.kind \in {"user", "text", "pills"}}

\* What is said without a card changes nothing but the turn.
LEMMA TalkKeeps ==
    ASSUME ChatInv, NEW ms \in Seq(PlainTalk), NEW turn \in Turns, NEW n \in Nat, NEW stream \in {"none", "open"},
           turn.pc = "loop" => turn = chat.turn,
           turn.before <= Len(chat.messages), turn.recent <= Len(chat.tasks),
           chat' = [chat EXCEPT !.turns = n, !.stream = stream, !.turn = turn, !.messages = @ \o ms]
    PROVE  ChatInv'
<1> USE DEF ChatInv
<1>1. /\ chat'.turns = n /\ chat'.stream = stream /\ chat'.turn = turn /\ chat'.messages = chat.messages \o ms
      /\ chat'.real = chat.real /\ chat'.changes = chat.changes /\ chat'.tasks = chat.tasks
      /\ chat'.active = chat.active
  BY DEF ChatType
<1>2. ms \in Seq(Says) /\ \A k \in DOMAIN ms : ms[k].kind \in {"user", "text", "pills"}
  BY DEF PlainTalk
<1>3. chat.messages \in Seq(Says) /\ chat.messages \o ms \in Seq(Says)
  BY <1>2 DEF ChatType
<1>4. ChatType'
  BY <1>1, <1>3 DEF ChatType
<1>5. Len(chat'.messages) >= Len(chat.messages)
  <2>1. Len(chat.messages \o ms) = Len(chat.messages) + Len(ms)
    BY <1>2, <1>3
  <2>2. Len(ms) \in Nat /\ Len(chat.messages) \in Nat
    BY <1>2, <1>3
  <2> QED
    BY <1>1, <2>1, <2>2
<1>6. Pointing'
  <2>1. Len(chat'.messages) \in Nat /\ Len(chat.messages) \in Nat /\ turn.before \in Nat
    BY <1>1, <1>3 DEF Turns
  <2>2. chat'.turn.before <= Len(chat'.messages)
    BY <1>1, <1>5, <2>1
  <2> QED
    BY <1>1, <2>2 DEF Pointing
<1>7. ASSUME NEW k \in DOMAIN chat'.messages
      PROVE  \/ k \in DOMAIN chat.messages /\ chat'.messages[k] = chat.messages[k]
             \/ chat'.messages[k].kind \in {"user", "text", "pills"}
  <2>1. DOMAIN chat.messages = 1 .. Len(chat.messages) /\ DOMAIN ms = 1 .. Len(ms)
    BY <1>2, <1>3
  <2>2. PICK i : i = k - Len(chat.messages)
    OBVIOUS
  <2>3. k \notin DOMAIN chat.messages => i \in DOMAIN ms /\ chat'.messages[k] = ms[i]
    BY <1>1, <1>2, <1>3, <2>1, <2>2
  <2>4. k \in DOMAIN chat.messages => chat'.messages[k] = chat.messages[k]
    BY <1>1, <1>2, <1>3, <2>1
  <2> QED
    BY <1>2, <2>3, <2>4
<1>8. AllCarded'
  BY <1>1, <1>7 DEF AllCarded, Carded
<1>9. AllFaithful'
  BY <1>1 DEF AllFaithful, Faithful
<1>10. Making'
  BY <1>1, <1>7 DEF Making, Inl!Change
<1>11. PlansShown'
  <2> SUFFICES ASSUME NEW t \in DOMAIN chat.tasks, chat.tasks[t].status = "AWAITING_PLAN_APPROVAL"
               PROVE  OnLastCard(t, chat.tasks[t].plan)'
    BY <1>1 DEF PlansShown
  <2>1. OnLastCard(t, chat.tasks[t].plan)
    BY DEF PlansShown
  <2>2. PICK offer : offer = chat.tasks[t].plan
    OBVIOUS
  <2>3. OnLastCard(t, offer)'
    BY <1>1, <1>2, <1>4, <2>1, <2>2, TalkIsNoCard
  <2> QED
    BY <1>1, <2>2, <2>3 DEF OnLastCard
<1>12. Parented'
  BY <1>1 DEF Parented
<1> QED
  BY <1>4, <1>6, <1>8, <1>9, <1>10, <1>11, <1>12

\* What is to be resumed is a task of the thread.
LEMMA RecentIsOurs == ASSUME ChatInv PROVE Inl!RecentTask \in Nat /\ Inl!RecentTask <= Len(chat.tasks)
<1> DEFINE carded == {k \in 1 .. chat.turn.before :
            /\ chat.turn.before - k < Window
            /\ chat.messages[k].kind \in {"task_card", "plan_card"}
            /\ LET t == chat.tasks[chat.messages[k].ref]
               IN t.status \in {"FAILED", "ABORTED"} /\ t.executable}
<1>1. Inl!RecentTask = IF carded = {} THEN 0 ELSE chat.messages[Inl!Max(carded)].ref
  BY DEF Inl!RecentTask
<1>2. chat.turn.before \in Nat /\ Len(chat.messages) \in Nat /\ Len(chat.tasks) \in Nat
  BY DEF ChatInv, ChatType, Turns
<1>3. carded \in SUBSET (0 .. chat.turn.before)
  BY <1>2
<1>4. \A k \in carded : k \in 1 .. chat.turn.before /\ chat.messages[k].kind \in {"task_card", "plan_card"}
  OBVIOUS
<1> HIDE DEF carded
<1>5. CASE carded = {}
  BY <1>1, <1>2, <1>5
<1>6. CASE carded # {}
  <2>1. PICK k : k = Inl!Max(carded) /\ k \in carded
    BY <1>2, <1>3, <1>6, Extremes
  <2>2. k \in 1 .. chat.turn.before
    BY <1>4, <2>1
  <2>3. chat.messages \in Seq(Says) /\ chat.tasks \in Seq(Jobs)
    BY DEF ChatInv, ChatType
  <2>4. k \in DOMAIN chat.messages
    BY <1>2, <2>2, <2>3 DEF ChatInv, Pointing
  <2>5. chat.messages[k].ref \in DOMAIN chat.tasks
    BY <1>4, <2>1, <2>4 DEF ChatInv, AllCarded, Carded
  <2>6. DOMAIN chat.tasks = 1 .. Len(chat.tasks)
    BY <2>3
  <2> QED
    BY <1>1, <1>2, <1>6, <2>1, <2>5, <2>6
<1> QED
  BY <1>5, <1>6

\* The steps of a turn that touch no change and no task.
TurnStep ==
    \/ Inl!Send \/ Inl!Reply \/ Inl!LoopRaises \/ Inl!ResumeRefused \/ Inl!Disconnect
    \/ \E intent \in Inl!Intents : Inl!Explored(intent)
    \/ \E read \in {{}} \cup {{f} : f \in Inl!Files} : Inl!Explore(read)
    \/ \E timeout \in BOOLEAN : Inl!PlanAwaited(timeout)

\* A turn that rests.
LEMMA NoTurnIsOne ==
    Inl!NoTurn \in Turns /\ Inl!NoTurn.pc = "rest" /\ Inl!NoTurn.before = 0 /\ Inl!NoTurn.recent = 0
<1>1. PICK none : none = {}
  OBVIOUS
<1>2. none \in SUBSET Inl!Files
  BY <1>1
<1>3. Inl!NoTurn = [pc |-> "rest", calls |-> 0, read |-> none, before |-> 0, recent |-> 0, targets |-> none]
  BY <1>1 DEF Inl!NoTurn
<1>4. Inl!NoTurn \in Turns
  BY <1>2, <1>3 DEF Turns
<1> QED
  BY <1>3, <1>4

\* What a turn is has the parts of one.
LEMMA TurnParts ==
    ASSUME NEW turn \in Turns
    PROVE  /\ turn = [pc |-> turn.pc, calls |-> turn.calls, read |-> turn.read, before |-> turn.before,
                      recent |-> turn.recent, targets |-> turn.targets]
           /\ turn.pc \in {"rest", "explore", "loop", "planning"} \cup Inl!Intents
           /\ turn.calls \in Nat /\ turn.read \in SUBSET Inl!Files /\ turn.before \in Nat /\ turn.recent \in Nat
           /\ turn.targets \in SUBSET Inl!Files
  BY DEF Turns

\* Parts of a turn make one.
LEMMA TurnMade ==
    ASSUME NEW pc \in {"rest", "explore", "loop", "planning"} \cup Inl!Intents, NEW calls \in Nat,
           NEW read \in SUBSET Inl!Files, NEW before \in Nat, NEW recent \in Nat, NEW targets \in SUBSET Inl!Files
    PROVE  [pc |-> pc, calls |-> calls, read |-> read, before |-> before, recent |-> recent,
            targets |-> targets] \in Turns
  BY DEF Turns

\* The steps of a turn that change no file and no task: sending, exploring, answering, giving up.
LEMMA TurnStepKeeps == ASSUME ChatInv, TurnStep PROVE ChatInv'
<1>1. /\ chat = [turns |-> chat.turns, turn |-> chat.turn, stream |-> chat.stream, messages |-> chat.messages,
                 real |-> chat.real, changes |-> chat.changes, tasks |-> chat.tasks, active |-> chat.active]
      /\ chat.turns \in Nat /\ chat.turn \in Turns /\ chat.stream \in {"none", "open"}
      /\ chat.messages \in Seq(Says) /\ chat.tasks \in Seq(Jobs)
  BY DEF ChatInv, ChatType
<1>2. Len(chat.messages) \in Nat /\ Len(chat.tasks) \in Nat
  BY <1>1
<1>3. chat.messages \o << >> = chat.messages /\ << >> \in Seq(PlainTalk)
  <2>1. \A S : << >> \in Seq(S)
    OBVIOUS
  <2>2. \A S : \A s \in Seq(S) : s \o << >> = s
    OBVIOUS
  <2> QED
    BY <1>1, <2>1, <2>2
<1>4. Inl!Text \in PlainTalk /\ Inl!Message("user", 0) \in PlainTalk
  BY DEF PlainTalk, Says, Inl!Text, Inl!Message
<1>5. <<Inl!Text>> \in Seq(PlainTalk) /\ <<Inl!Message("user", 0)>> \in Seq(PlainTalk)
  BY <1>4
<1>6. chat.turn.before <= Len(chat.messages) /\ chat.turn.recent <= Len(chat.tasks)
  BY DEF ChatInv, Pointing
<1>a. Inl!NoTurn = [pc |-> Inl!NoTurn.pc, calls |-> Inl!NoTurn.calls, read |-> Inl!NoTurn.read, before |-> Inl!NoTurn.before,
                recent |-> Inl!NoTurn.recent, targets |-> Inl!NoTurn.targets]
      /\ Inl!NoTurn.calls \in Nat /\ Inl!NoTurn.read \in SUBSET Inl!Files /\ Inl!NoTurn.targets \in SUBSET Inl!Files
  BY NoTurnIsOne, TurnParts
<1>b. chat.turn = [pc |-> chat.turn.pc, calls |-> chat.turn.calls, read |-> chat.turn.read,
                   before |-> chat.turn.before, recent |-> chat.turn.recent, targets |-> chat.turn.targets]
      /\ chat.turn.pc \in {"rest", "explore", "loop", "planning"} \cup Inl!Intents
      /\ chat.turn.calls \in Nat /\ chat.turn.read \in SUBSET Inl!Files /\ chat.turn.before \in Nat
      /\ chat.turn.recent \in Nat /\ chat.turn.targets \in SUBSET Inl!Files
  BY <1>1, TurnParts
<1>7. CASE Inl!Reply \/ Inl!LoopRaises \/ Inl!ResumeRefused \/ Inl!Disconnect \/ \E timeout \in BOOLEAN : Inl!PlanAwaited(timeout)
  <2>1. PICK ms \in Seq(PlainTalk) :
           chat' = [chat EXCEPT !.turns = @, !.stream = "none", !.turn = Inl!NoTurn, !.messages = @ \o ms]
    <3>1. CASE Inl!Reply
      BY <1>1, <1>5, <3>1 DEF Inl!Reply, Inl!Say, Inl!Done, Inl!Rest
    <3>2. CASE ~Inl!Reply
      <4>1. chat' = Inl!Done
        BY <1>7, <3>2 DEF Inl!LoopRaises, Inl!ResumeRefused, Inl!Disconnect, Inl!PlanAwaited
      <4> QED
        BY <1>1, <1>3, <4>1 DEF Inl!Done, Inl!Rest
    <3> QED
      BY <3>1, <3>2
  <2>2. Inl!NoTurn \in Turns /\ Inl!NoTurn.pc # "loop" /\ Inl!NoTurn.before <= Len(chat.messages) /\ Inl!NoTurn.recent <= Len(chat.tasks)
    BY <1>2, NoTurnIsOne
  <2> QED
    BY <1>1, <2>1, <2>2, TalkKeeps
<1>8. CASE Inl!Send
  <2>1. PICK turn : turn = [Inl!NoTurn EXCEPT !.pc = "explore", !.before = Len(chat.messages)]
    OBVIOUS
  <2>2. turn \in Turns /\ turn.pc # "loop" /\ turn.before <= Len(chat.messages) /\ turn.recent <= Len(chat.tasks)
    <3>1. turn = [pc |-> "explore", calls |-> Inl!NoTurn.calls, read |-> Inl!NoTurn.read, before |-> Len(chat.messages),
                  recent |-> 0, targets |-> Inl!NoTurn.targets]
      BY <1>a, <2>1, NoTurnIsOne
    <3>2. turn \in Turns
      BY <1>2, <1>a, <3>1, TurnMade
    <3> QED
      BY <1>2, <3>1, <3>2
  <2>3. chat' = [chat EXCEPT !.turns = chat.turns + 1, !.stream = "open", !.turn = turn,
                             !.messages = @ \o <<Inl!Message("user", 0)>>]
    BY <1>1, <1>8, <2>1 DEF Inl!Send, Inl!Say
  <2>4. chat.turns + 1 \in Nat
    BY <1>1
  <2> QED
    BY <1>5, <2>2, <2>3, <2>4, TalkKeeps
<1>9. CASE \E read \in {{}} \cup {{f} : f \in Inl!Files} : Inl!Explore(read)
  <2>1. PICK read \in {{}} \cup {{f} : f \in Inl!Files} : Inl!Explore(read)
    BY <1>9
  <2>2. PICK turn : turn = [chat.turn EXCEPT !.calls = @ + 1, !.read = @ \cup read]
    OBVIOUS
  <2>3. read \in SUBSET Inl!Files
    BY <2>1
  <2>4. turn \in Turns /\ turn.pc = chat.turn.pc /\ turn.before = chat.turn.before /\ turn.recent = chat.turn.recent
    <3>1. turn = [pc |-> chat.turn.pc, calls |-> chat.turn.calls + 1, read |-> chat.turn.read \cup read,
                  before |-> chat.turn.before, recent |-> chat.turn.recent, targets |-> chat.turn.targets]
      BY <1>b, <2>2
    <3>2. chat.turn.calls + 1 \in Nat /\ chat.turn.read \cup read \in SUBSET Inl!Files
      BY <1>b, <2>3
    <3>3. turn \in Turns
      BY <1>b, <3>1, <3>2, TurnMade
    <3> QED
      BY <3>1, <3>3
  <2>5. chat' = [chat EXCEPT !.turns = chat.turns, !.stream = chat.stream, !.turn = turn, !.messages = @ \o << >>]
    BY <1>1, <1>3, <2>1, <2>2 DEF Inl!Explore
  <2>6. turn.pc # "loop"
    BY <2>1, <2>4 DEF Inl!Explore
  <2> QED
    BY <1>1, <1>3, <1>6, <2>4, <2>5, <2>6, TalkKeeps
<1>10. CASE \E intent \in Inl!Intents : Inl!Explored(intent)
  <2>1. PICK intent \in Inl!Intents : Inl!Explored(intent)
    BY <1>10
  <2>2. PICK turn : turn = [Inl!NoTurn EXCEPT !.pc = intent,
                                  !.calls = IF intent \in {"resume", "large_change"} THEN chat.turn.calls ELSE 0,
                                  !.read = IF intent = "small_change" THEN chat.turn.read ELSE {},
                                  !.recent = IF intent = "resume" THEN Inl!RecentTask ELSE 0]
    OBVIOUS
  <2>3. PICK calls \in Nat : calls = IF intent \in {"resume", "large_change"} THEN chat.turn.calls ELSE 0
    BY <1>1 DEF Turns
  <2>4. PICK read \in SUBSET Inl!Files : read = IF intent = "small_change" THEN chat.turn.read ELSE {}
    BY <1>1 DEF Turns
  <2>5. PICK recent \in Nat : recent = (IF intent = "resume" THEN Inl!RecentTask ELSE 0) /\ recent <= Len(chat.tasks)
    BY <1>2, RecentIsOurs
  <2>6. turn = [Inl!NoTurn EXCEPT !.pc = intent, !.calls = calls, !.read = read, !.recent = recent]
    BY <2>2, <2>3, <2>4, <2>5
  <2>7. /\ turn \in Turns /\ turn.pc = intent
        /\ turn.before <= Len(chat.messages) /\ turn.recent <= Len(chat.tasks)
    <3>1. turn = [pc |-> intent, calls |-> calls, read |-> read, before |-> 0, recent |-> recent,
                  targets |-> Inl!NoTurn.targets]
      BY <1>a, <2>6, NoTurnIsOne
    <3>2. turn \in Turns
      BY <1>a, <3>1, TurnMade
    <3> QED
      BY <1>2, <2>5, <3>1, <3>2
  <2>8. intent # "loop"
    BY DEF Inl!Intents
  <2>9. chat' = [chat EXCEPT !.turns = chat.turns, !.stream = chat.stream, !.turn = turn, !.messages = @ \o << >>]
    BY <1>1, <1>3, <2>1, <2>2 DEF Inl!Explored
  <2> QED
    BY <1>1, <1>3, <2>7, <2>8, <2>9, TalkKeeps
<1> QED
  BY <1>7, <1>8, <1>9, <1>10 DEF TurnStep

GrewBy(ms) ==
    /\ chat'.messages \in Seq(Says)
    /\ Len(chat'.messages) \in Nat /\ Len(chat'.messages) >= Len(chat.messages)
    /\ \A k \in DOMAIN chat'.messages :
          \/ k \in DOMAIN chat.messages /\ chat'.messages[k] = chat.messages[k]
          \/ \E i \in DOMAIN ms : chat'.messages[k] = ms[i]

\* What was said stays said.
LEMMA Grown ==
    ASSUME ChatInv, NEW ms \in Seq(Says), chat'.messages = chat.messages \o ms
    PROVE  GrewBy(ms)
<1>1. chat.messages \in Seq(Says)
  BY DEF ChatInv, ChatType
<1>2. Len(chat.messages \o ms) = Len(chat.messages) + Len(ms)
  BY <1>1
<1>3. Len(ms) \in Nat /\ Len(chat.messages) \in Nat /\ chat.messages \o ms \in Seq(Says)
  BY <1>1
<1>4. ASSUME NEW k \in DOMAIN chat'.messages
      PROVE  \/ k \in DOMAIN chat.messages /\ chat'.messages[k] = chat.messages[k]
             \/ \E i \in DOMAIN ms : chat'.messages[k] = ms[i]
  <2>1. DOMAIN chat.messages = 1 .. Len(chat.messages) /\ DOMAIN ms = 1 .. Len(ms)
    BY <1>1
  <2>2. PICK i : i = k - Len(chat.messages)
    OBVIOUS
  <2>3. k \notin DOMAIN chat.messages => i \in DOMAIN ms /\ chat'.messages[k] = ms[i]
    BY <1>1, <2>1, <2>2
  <2>4. k \in DOMAIN chat.messages => chat'.messages[k] = chat.messages[k]
    BY <1>1, <2>1
  <2> QED
    BY <2>3, <2>4
<1> QED
  BY <1>2, <1>3, <1>4 DEF GrewBy

TaskMoves(t, job, ms) ==
    /\ chat'.turns = chat.turns /\ chat'.stream \in {"none", "open"} /\ chat'.turn \in {chat.turn, Inl!NoTurn}
    /\ chat'.messages = chat.messages \o ms
    /\ chat'.real = chat.real /\ chat'.changes = chat.changes /\ chat'.active = chat.active
    /\ chat'.tasks = [chat.tasks EXCEPT ![t] = job]

\* A task that goes on, with what is said of it.
LEMMA TaskMoveKeeps ==
    ASSUME ChatInv, NEW t \in DOMAIN chat.tasks, NEW job \in Jobs, NEW ms \in Seq(Says),
           job.parent = chat.tasks[t].parent, chat.tasks[t].status \notin {"FAILED", "ABORTED"},
           job.status = "AWAITING_PLAN_APPROVAL" => OnLastCard(t, job.plan)',
           \A i \in DOMAIN ms : ms[i] \in PlainTalk \/ (ms[i].kind = "plan_card" /\ ms[i].ref = t),
           ChatShape', TaskMoves(t, job, ms)
    PROVE  ChatInv'
<1> USE DEF ChatInv
<1> DEFINE turn == chat'.turn
<1>1. /\ chat'.turns = chat.turns /\ chat'.stream \in {"none", "open"} /\ turn \in {chat.turn, Inl!NoTurn}
      /\ chat'.messages = chat.messages \o ms
      /\ chat'.real = chat.real /\ chat'.changes = chat.changes
      /\ chat'.tasks = [chat.tasks EXCEPT ![t] = job]
      /\ chat'.active = chat.active
  BY DEF TaskMoves
<1>2. /\ chat'.messages \in Seq(Says)
      /\ Len(chat'.messages) \in Nat /\ Len(chat'.messages) >= Len(chat.messages)
      /\ \A k \in DOMAIN chat'.messages :
            \/ k \in DOMAIN chat.messages /\ chat'.messages[k] = chat.messages[k]
            \/ \E i \in DOMAIN ms : chat'.messages[k] = ms[i]
  BY <1>1, Grown DEF GrewBy
<1>3. /\ chat.tasks \in Seq(Jobs) /\ chat'.tasks \in Seq(Jobs)
      /\ DOMAIN chat'.tasks = DOMAIN chat.tasks /\ Len(chat'.tasks) = Len(chat.tasks)
      /\ chat'.tasks[t] = job
      /\ \A u \in DOMAIN chat.tasks : u # t => chat'.tasks[u] = chat.tasks[u]
  BY <1>1 DEF ChatType
<1>4. turn \in Turns /\ (turn.pc = "loop" => turn = chat.turn)
  BY <1>1, NoTurnIsOne DEF ChatType
<1>5. ChatType'
  BY <1>1, <1>2, <1>3, <1>4 DEF ChatType, ChatShape
<1>6. Pointing'
  <2>1. Len(chat.tasks) \in Nat /\ Len(chat.messages) \in Nat /\ chat.turn \in Turns
    BY DEF ChatType
  <2>2. turn.before <= Len(chat.messages) /\ turn.recent <= Len(chat.tasks) /\ turn.before \in Nat
    BY <1>1, <2>1, NoTurnIsOne, TurnParts DEF Pointing
  <2>3. turn.before <= Len(chat'.messages)
    BY <1>2, <2>1, <2>2
  <2> QED
    BY <1>1, <1>3, <2>2, <2>3 DEF Pointing
<1>7. \A i \in DOMAIN ms : ms[i].kind \notin {"diff_card", "task_card"} /\ (ms[i].kind = "plan_card" => ms[i].ref = t)
  BY DEF PlainTalk
<1>8. AllCarded'
  <2> SUFFICES ASSUME NEW k \in DOMAIN chat'.messages PROVE Carded(chat.messages[k])'
    BY DEF AllCarded
  <2>1. CASE k \in DOMAIN chat.messages /\ chat'.messages[k] = chat.messages[k]
    BY <1>1, <1>3, <2>1 DEF AllCarded, Carded
  <2>2. CASE \E i \in DOMAIN ms : chat'.messages[k] = ms[i]
    BY <1>3, <1>7, <2>2 DEF Carded
  <2> QED
    BY <1>2, <2>1, <2>2
<1>9. AllFaithful'
  BY <1>1 DEF AllFaithful, Faithful
<1>10. Making'
  BY <1>1, <1>2, <1>4, <1>7 DEF Making, Inl!Change
<1>11. PlansShown'
  <2> SUFFICES ASSUME NEW u \in DOMAIN chat.tasks, chat'.tasks[u].status = "AWAITING_PLAN_APPROVAL"
               PROVE  OnLastCard(u, chat.tasks[u].plan)' 
    BY <1>3 DEF PlansShown
  <2>1. CASE u = t
    <3>1. PICK offer : offer = job.plan
      OBVIOUS
    <3>2. OnLastCard(t, offer)'
      BY <1>3, <2>1, <3>1
    <3> QED
      BY <1>3, <2>1, <3>1, <3>2 DEF OnLastCard
  <2>2. CASE u # t
    <3>1. PICK offer : offer = chat.tasks[u].plan
      OBVIOUS
    <3>2. OnLastCard(u, offer)
      BY <1>3, <2>2, <3>1 DEF PlansShown
    <3>3. \A i \in DOMAIN ms : ms[i].kind = "plan_card" => ms[i].ref # u
      BY <1>7, <2>2
    <3>4. OnLastCard(u, offer)'
      BY <1>1, <1>5, <3>2, <3>3, TalkIsNoCard
    <3> QED
      BY <1>3, <2>2, <3>1, <3>4 DEF OnLastCard
  <2> QED
    BY <2>1, <2>2
<1>12. Parented'
  <2> SUFFICES ASSUME NEW u \in DOMAIN chat.tasks, chat'.tasks[u].parent > 0
               PROVE  /\ chat'.tasks[u].parent \in DOMAIN chat.tasks
                      /\ chat'.tasks[chat'.tasks[u].parent].status \in {"FAILED", "ABORTED"}
    BY <1>3 DEF Parented
  <2>1. chat'.tasks[u].parent = chat.tasks[u].parent
    BY <1>3
  <2> QED
    BY <1>3, <2>1 DEF Parented
<1> QED
  BY <1>5, <1>6, <1>8, <1>9, <1>10, <1>11, <1>12

\* An update that is made again is the second one.
LEMMA Again ==
    ASSUME NEW f, NEW t \in DOMAIN f, NEW a, NEW b
    PROVE  [[f EXCEPT ![t] = a] EXCEPT ![t] = b] = [f EXCEPT ![t] = b]
  OBVIOUS

\* What a task is has the parts of one.
LEMMA JobParts ==
    ASSUME NEW job \in Jobs
    PROVE  /\ job = [status |-> job.status, executable |-> job.executable, rounds |-> job.rounds,
                     plan |-> job.plan, parent |-> job.parent]
           /\ job.executable \in BOOLEAN /\ job.rounds \in Nat /\ job.plan \in Nat /\ job.parent \in Nat
  BY DEF Jobs

\* The steps of a task after its plan, and of a plan that fails.
TaskStep ==
    \E t \in DOMAIN chat.tasks :
        \/ Inl!PlanFails(t) \/ Inl!Feedback(t) \/ Inl!Approve(t)
        \/ \E status \in {"READY_FOR_REVIEW", "FAILED"} : Inl!RunEnds(t, status)
        \/ \E status \in {"SUCCEEDED", "ABORTED"} : Inl!Reviewed(t, status)

\* Each step of a task changes its status, and a plan that fails or is sent back has no card.
LEMMA TaskStepKeeps == ASSUME ChatInv, TaskStep PROVE ChatInv'
<1>1. /\ ChatShape /\ chat.stream \in {"none", "open"} /\ chat.messages \in Seq(Says) /\ chat.tasks \in Seq(Jobs)
  BY DEF ChatInv, ChatType, ChatShape
<1>2. chat.messages \o << >> = chat.messages /\ << >> \in Seq(PlainTalk)
  <2>1. \A S : << >> \in Seq(S)
    OBVIOUS
  <2>2. \A S : \A s \in Seq(S) : s \o << >> = s
    OBVIOUS
  <2> QED
    BY <1>1, <2>1, <2>2
<1>3. <<Inl!Text>> \in Seq(PlainTalk)
  <2>1. Inl!Text \in PlainTalk
    BY DEF PlainTalk, Says, Inl!Text, Inl!Message
  <2> QED
    BY <2>1
<1>4. PICK t \in DOMAIN chat.tasks :
        \/ Inl!PlanFails(t) \/ Inl!Feedback(t) \/ Inl!Approve(t)
        \/ \E status \in {"READY_FOR_REVIEW", "FAILED"} : Inl!RunEnds(t, status)
        \/ \E status \in {"SUCCEEDED", "ABORTED"} : Inl!Reviewed(t, status)
  BY DEF TaskStep
<1>5. PICK was : was = chat.tasks[t] /\ was \in Jobs
  BY <1>1
<1>6. was.status \notin {"FAILED", "ABORTED"}
  BY <1>4, <1>5 DEF Inl!PlanFails, Inl!Feedback, Inl!Approve, Inl!RunEnds, Inl!Reviewed
<1> DEFINE Now(status, executable) ==
      [status |-> status, executable |-> executable, rounds |-> was.rounds, plan |-> was.plan, parent |-> was.parent]
<1>7. ASSUME NEW status \in {"PLANNED", "EXECUTING", "READY_FOR_REVIEW", "SUCCEEDED", "FAILED", "ABORTED"},
             NEW executable \in BOOLEAN, NEW ms \in Seq(PlainTalk), ChatShape',
             TaskMoves(t, Now(status, executable), ms)
      PROVE  ChatInv'
  <2>1. PICK job : job = Now(status, executable)
    OBVIOUS
  <2>2. job \in Jobs /\ job.parent = chat.tasks[t].parent /\ job.status # "AWAITING_PLAN_APPROVAL"
    BY <1>5, <2>1, JobParts DEF Jobs
  <2> HIDE DEF Now
  <2>3. ms \in Seq(Says) /\ \A i \in DOMAIN ms : ms[i] \in PlainTalk
    BY DEF PlainTalk
  <2> QED
    BY <1>5, <1>6, <1>7, <2>1, <2>2, <2>3, TaskMoveKeeps
<1>8. /\ was = [status |-> was.status, executable |-> was.executable, rounds |-> was.rounds, plan |-> was.plan,
                parent |-> was.parent]
      /\ was.executable \in BOOLEAN
  BY <1>5, JobParts
<1>9. ASSUME NEW status PROVE [was EXCEPT !.status = status] = Now(status, was.executable)
  BY <1>8
<1>10. CASE Inl!PlanFails(t)
  <2>1. chat' = [chat EXCEPT !.tasks = [chat.tasks EXCEPT ![t] = Now("FAILED", was.executable)]]
    BY <1>5, <1>9, <1>10 DEF Inl!PlanFails
  <2> QED
    BY <1>1, <1>2, <1>7, <1>8, <2>1 DEF ChatShape, TaskMoves
<1>11. CASE Inl!Feedback(t)
  <2>1. chat' = [chat EXCEPT !.tasks = [chat.tasks EXCEPT ![t] = Now("PLANNED", was.executable)]]
    BY <1>5, <1>9, <1>11 DEF Inl!Feedback
  <2> QED
    BY <1>1, <1>2, <1>7, <1>8, <2>1 DEF ChatShape, TaskMoves
<1>12. CASE Inl!Approve(t)
  <2>1. chat'.tasks = [chat.tasks EXCEPT ![t] = Now("EXECUTING", TRUE)]
    <3>1. PICK once : once = [was EXCEPT !.status = "EXECUTING"]
      OBVIOUS
    <3>2. PICK now : now = [once EXCEPT !.executable = TRUE]
      OBVIOUS
    <3>3. now = Now("EXECUTING", TRUE)
      BY <1>8, <3>1, <3>2
    <3>4. PICK first : first = [chat.tasks EXCEPT ![t] = once]
      OBVIOUS
    <3>5. first[t] = once
      BY <3>4
    <3>6. chat'.tasks = [first EXCEPT ![t] = now]
      BY <1>1, <1>5, <1>12, <3>1, <3>2, <3>4, <3>5 DEF Inl!Approve, Inl!Say, ChatShape
    <3> QED
      BY <3>3, <3>4, <3>6, Again
  <2>2. /\ chat'.turns = chat.turns /\ chat'.stream = chat.stream /\ chat'.turn = chat.turn
        /\ chat'.messages = chat.messages \o <<Inl!Text>>
        /\ chat'.real = chat.real /\ chat'.changes = chat.changes /\ chat'.active = chat.active /\ ChatShape'
    BY <1>1, <1>12 DEF Inl!Approve, Inl!Say, ChatShape
  <2> QED
    BY <1>1, <1>3, <1>7, <1>8, <2>1, <2>2 DEF TaskMoves
<1>13. ASSUME NEW status \in {"READY_FOR_REVIEW", "FAILED", "SUCCEEDED", "ABORTED"}, NEW ms \in Seq(PlainTalk),
              NEW stream \in {"none", "open"}, NEW turn \in {chat.turn, Inl!NoTurn},
              chat' = [chat EXCEPT !.stream = stream, !.turn = turn, !.messages = @ \o ms, !.tasks[t].status = status]
       PROVE  ChatInv'
  <2>1. /\ chat'.turns = chat.turns /\ chat'.stream = stream /\ chat'.turn = turn
        /\ chat'.messages = chat.messages \o ms /\ chat'.tasks = [chat.tasks EXCEPT ![t] = Now(status, was.executable)]
        /\ chat'.real = chat.real /\ chat'.changes = chat.changes /\ chat'.active = chat.active /\ ChatShape'
    BY <1>1, <1>5, <1>9, <1>13 DEF ChatShape
  <2> QED
    BY <1>7, <1>8, <2>1 DEF TaskMoves
<1>14. CASE \E status \in {"READY_FOR_REVIEW", "FAILED"} : Inl!RunEnds(t, status)
  <2>1. PICK status \in {"READY_FOR_REVIEW", "FAILED"} : Inl!RunEnds(t, status)
    BY <1>14
  <2>2. CASE was.parent = 0
    <3>1. chat' = [chat EXCEPT !.stream = chat.stream, !.turn = chat.turn, !.messages = @ \o <<Inl!Text>>,
                               !.tasks[t].status = status]
      BY <1>1, <1>5, <2>1, <2>2 DEF Inl!RunEnds, Inl!Say, ChatShape
    <3> QED
      BY <1>1, <1>3, <1>13, <3>1
  <2>3. CASE was.parent # 0
    <3>1. chat' = [chat EXCEPT !.stream = "none", !.turn = Inl!NoTurn, !.messages = @ \o << >>, !.tasks[t].status = status]
      BY <1>1, <1>2, <1>5, <2>1, <2>3 DEF Inl!RunEnds, ChatShape
    <3> QED
      BY <1>2, <1>13, <3>1
  <2> QED
    BY <2>2, <2>3
<1>15. CASE \E status \in {"SUCCEEDED", "ABORTED"} : Inl!Reviewed(t, status)
  <2>1. PICK status \in {"SUCCEEDED", "ABORTED"} : Inl!Reviewed(t, status)
    BY <1>15
  <2>2. CASE was.parent = 0
    <3>1. chat' = [chat EXCEPT !.stream = chat.stream, !.turn = chat.turn, !.messages = @ \o <<Inl!Text>>,
                               !.tasks[t].status = status]
      BY <1>1, <1>5, <2>1, <2>2 DEF Inl!Reviewed, Inl!Say, ChatShape
    <3> QED
      BY <1>1, <1>3, <1>13, <3>1
  <2>3. CASE was.parent # 0
    <3>1. chat' = [chat EXCEPT !.stream = chat.stream, !.turn = chat.turn, !.messages = @ \o << >>,
                               !.tasks[t].status = status]
      BY <1>1, <1>2, <1>5, <2>1, <2>3 DEF Inl!Reviewed, ChatShape
    <3> QED
      BY <1>1, <1>2, <1>13, <3>1
  <2> QED
    BY <2>2, <2>3
<1> QED
  BY <1>4, <1>10, <1>11, <1>12, <1>14, <1>15

\* A plan is put on a card unless it is on the last one.
LEMMA PlanMadeKeeps ==
    ASSUME ChatInv, NEW t \in DOMAIN chat.tasks, NEW offer \in 1 .. MaxPlans, Inl!PlanMade(t, offer)
    PROVE  ChatInv'
<1>1. /\ ChatShape /\ chat.stream \in {"none", "open"} /\ chat.messages \in Seq(Says) /\ chat.tasks \in Seq(Jobs)
      /\ DOMAIN chat.messages = 1 .. Len(chat.messages) /\ Len(chat.messages) \in Nat
  BY DEF ChatInv, ChatType, ChatShape
<1>2. offer \in Nat
  BY DEF Inl!PlanMade
<1>3. PICK was : was = chat.tasks[t] /\ was \in Jobs
  BY <1>1
<1>4. PICK job : job = [status |-> "AWAITING_PLAN_APPROVAL", executable |-> was.executable, rounds |-> was.rounds + 1,
                        plan |-> offer, parent |-> was.parent]
  OBVIOUS
<1>a. job \in Jobs /\ job.parent = chat.tasks[t].parent /\ job.plan = offer
  BY <1>2, <1>3, <1>4, JobParts DEF Jobs
<1>5. PICK said : said = (IF chat.tasks[t].plan > 0 THEN <<Inl!Text>> ELSE << >>)
  OBVIOUS
<1>6. said \in Seq(PlainTalk) /\ said \in Seq(Says)
  <2>1. Inl!Text \in PlainTalk /\ Inl!Text \in Says
    BY DEF PlainTalk, Says, Inl!Text, Inl!Message
  <2>2. \A S : << >> \in Seq(S)
    OBVIOUS
  <2> QED
    BY <1>5, <2>1, <2>2
<1>7. PICK card : card = [Inl!Message("plan_card", t) EXCEPT !.plan = offer]
  OBVIOUS
<1>8. card \in Says /\ card.kind = "plan_card" /\ card.ref = t /\ card.plan = offer
  BY <1>1, <1>2, <1>7 DEF Says, Inl!Message
<1>9. PICK ms : ms = said \o Inl!PlanCard(t, offer)
  OBVIOUS
<1>10. ChatShape' /\ TaskMoves(t, job, ms)
  <2>1. PICK a : a = [was EXCEPT !.status = "AWAITING_PLAN_APPROVAL"]
    OBVIOUS
  <2>2. PICK b : b = [a EXCEPT !.plan = offer]
    OBVIOUS
  <2>3. a = [status |-> "AWAITING_PLAN_APPROVAL", executable |-> was.executable, rounds |-> was.rounds,
             plan |-> was.plan, parent |-> was.parent]
    BY <1>3, <2>1, JobParts
  <2>4. b = [status |-> "AWAITING_PLAN_APPROVAL", executable |-> was.executable, rounds |-> was.rounds,
             plan |-> offer, parent |-> was.parent]
    BY <2>2, <2>3
  <2>5. job = [b EXCEPT !.rounds = @ + 1]
    BY <1>4, <2>4
  <2>6. PICK once : once = [chat.tasks EXCEPT ![t] = a]
    OBVIOUS
  <2>7. once[t] = a /\ t \in DOMAIN once
    BY <2>6
  <2>8. PICK twice : twice = [once EXCEPT ![t] = b]
    OBVIOUS
  <2>9. twice[t] = b /\ twice = [chat.tasks EXCEPT ![t] = b]
    BY <2>6, <2>7, <2>8, Again
  <2>10. chat'.tasks = [twice EXCEPT ![t] = [twice[t] EXCEPT !.rounds = @ + 1]]
    <3>1. once = [chat.tasks EXCEPT ![t] = [chat.tasks[t] EXCEPT !.status = "AWAITING_PLAN_APPROVAL"]]
      BY <1>3, <2>1, <2>6
    <3>2. twice = [once EXCEPT ![t] = [once[t] EXCEPT !.plan = offer]]
      BY <2>2, <2>7, <2>8
    <3> QED
      BY <1>1, <3>1, <3>2 DEF Inl!PlanMade, Inl!Say, ChatShape
  <2>11. [twice EXCEPT ![t] = job] = [chat.tasks EXCEPT ![t] = job]
    BY <2>9, Again
  <2>12. chat'.tasks = [chat.tasks EXCEPT ![t] = job]
    BY <2>5, <2>9, <2>10, <2>11
  <2>13. /\ chat'.turns = chat.turns /\ chat'.stream = chat.stream /\ chat'.turn = chat.turn
         /\ chat'.messages = chat.messages \o ms
         /\ chat'.real = chat.real /\ chat'.changes = chat.changes /\ chat'.active = chat.active /\ ChatShape'
    BY <1>1, <1>5, <1>9 DEF Inl!PlanMade, Inl!Say, ChatShape
  <2> QED
    BY <1>1, <2>12, <2>13 DEF TaskMoves
<1>11. chat'.messages = chat.messages \o ms
  BY <1>10 DEF TaskMoves
<1>12. chat.tasks[t].status \notin {"FAILED", "ABORTED"}
  BY DEF Inl!PlanMade
<1>13. CASE Inl!PlanCard(t, offer) = << >>
  <2>1. ms = said
    BY <1>6, <1>9, <1>13
  <2>2. OnLastCard(t, offer)
    BY <1>13, SameCard DEF ChatInv
  <2>3. PICK k \in DOMAIN chat.messages :
          /\ IsPlanCard(k, t) /\ chat.messages[k].plan = offer
          /\ \A j \in DOMAIN chat.messages : IsPlanCard(j, t) => j <= k
    BY <2>2 DEF OnLastCard
  <2>4. \A i \in DOMAIN ms : ms[i] \in PlainTalk /\ ms[i].kind # "plan_card"
    BY <1>6, <2>1 DEF PlainTalk
  <2>5. /\ \A j \in DOMAIN chat'.messages :
              \/ j \in DOMAIN chat.messages /\ chat'.messages[j] = chat.messages[j]
              \/ \E i \in DOMAIN ms : chat'.messages[j] = ms[i]
        /\ k \in DOMAIN chat'.messages /\ chat'.messages[k] = chat.messages[k]
    <3>1. ms \in Seq(Says)
      BY <1>6, <2>1
    <3>2. k \in DOMAIN chat'.messages /\ chat'.messages[k] = chat.messages[k]
      BY <1>1, <1>11, <3>1
    <3> QED
      BY <1>11, <3>1, <3>2, Grown
  <2>6. OnLastCard(t, job.plan)'
    BY <1>a, <2>3, <2>4, <2>5 DEF OnLastCard, IsPlanCard
  <2> QED
    BY <1>1, <1>a, <1>6, <1>10, <1>12, <2>1, <2>4, <2>6, TaskMoveKeeps
<1>14. CASE Inl!PlanCard(t, offer) # << >>
  <2>1. ms = Append(said, card) /\ ms \in Seq(Says)
    <3>1. Inl!PlanCard(t, offer) = <<card>>
      BY <1>7, <1>14 DEF Inl!PlanCard
    <3> QED
      BY <1>6, <1>8, <1>9, <3>1
  <2>2. /\ Len(ms) = Len(said) + 1 /\ Len(said) \in Nat /\ ms[Len(ms)] = card
        /\ DOMAIN ms = 1 .. Len(ms) /\ DOMAIN said = 1 .. Len(said)
        /\ \A i \in DOMAIN said : ms[i] = said[i]
    BY <1>6, <1>8, <2>1
  <2>3. \A i \in DOMAIN ms : ms[i] \in PlainTalk \/ (ms[i].kind = "plan_card" /\ ms[i].ref = t)
    BY <1>6, <1>8, <2>2
  <2>4. PICK k : k = Len(chat.messages) + Len(ms)
    OBVIOUS
  <2>5. k \in DOMAIN chat'.messages /\ chat'.messages[k] = card /\ \A j \in DOMAIN chat'.messages : j <= k
    <3>1. PICK old : old = chat.messages
      OBVIOUS
    <3>2. old \in Seq(Says) /\ chat'.messages = old \o ms /\ k = Len(old) + Len(ms)
      BY <1>1, <1>11, <2>4, <3>1
    <3>3. Len(old \o ms) = k /\ old \o ms \in Seq(Says) /\ k \in Nat /\ k > 0
      BY <2>1, <2>2, <3>2
    <3>4. (old \o ms)[k] = ms[Len(ms)]
      BY <2>1, <2>2, <3>2, <3>3
    <3> QED
      BY <2>2, <3>2, <3>3, <3>4
  <2>6. OnLastCard(t, job.plan)'
    BY <1>a, <1>8, <2>5 DEF OnLastCard, IsPlanCard
  <2> QED
    BY <1>a, <1>10, <1>12, <2>1, <2>3, <2>6, TaskMoveKeeps
<1> QED
  BY <1>13, <1>14

\* Plans stay on the last cards when no plan's card comes or goes.
LEMMA PlansStay ==
    ASSUME PlansShown, chat'.tasks = chat.tasks, DOMAIN chat.messages \subseteq DOMAIN chat'.messages,
           \A k \in DOMAIN chat.messages :
               /\ chat'.messages[k].kind = chat.messages[k].kind /\ chat'.messages[k].ref = chat.messages[k].ref
               /\ chat'.messages[k].plan = chat.messages[k].plan,
           \A k \in DOMAIN chat'.messages : chat'.messages[k].kind = "plan_card" => k \in DOMAIN chat.messages
    PROVE  PlansShown'
<1> SUFFICES ASSUME NEW t \in DOMAIN chat.tasks, chat.tasks[t].status = "AWAITING_PLAN_APPROVAL"
             PROVE  OnLastCard(t, chat.tasks[t].plan)'
  BY DEF PlansShown
<1>1. PICK k \in DOMAIN chat.messages :
          /\ IsPlanCard(k, t) /\ chat.messages[k].plan = chat.tasks[t].plan
          /\ \A j \in DOMAIN chat.messages : IsPlanCard(j, t) => j <= k
  BY DEF PlansShown, OnLastCard
<1> QED
  BY <1>1 DEF OnLastCard, IsPlanCard

\* What is said and shown when change i goes on as c.
ChangeMoves(i, c) ==
    /\ chat'.turns = chat.turns /\ chat'.stream \in {"none", "open"} /\ chat'.turn \in {chat.turn, Inl!NoTurn}
    /\ chat'.tasks = chat.tasks /\ chat'.active = chat.active /\ chat'.real \in [Inl!Files -> Texts]
    /\ chat'.changes = [chat.changes EXCEPT ![i] = c]
    /\ chat'.messages \in Seq(Says) /\ Len(chat.messages) <= Len(chat'.messages)
    /\ \A k \in DOMAIN chat.messages :
          /\ chat'.messages[k].kind = chat.messages[k].kind /\ chat'.messages[k].ref = chat.messages[k].ref
          /\ chat'.messages[k].plan = chat.messages[k].plan
          /\ chat'.messages[k].decision = chat.messages[k].decision \/ chat.messages[k].ref = i
    /\ \A k \in DOMAIN chat'.messages :
          k \notin DOMAIN chat.messages =>
              chat'.messages[k].kind = "diff_card" /\ chat'.messages[k].ref = i /\ chat'.turn = Inl!NoTurn
    /\ \A k \in DOMAIN chat'.messages :
          chat'.messages[k].kind = "diff_card" /\ chat'.messages[k].ref = i
             /\ chat'.messages[k].decision = "applied" => c.copied = c.shown
    /\ chat'.turn.pc = "loop" /\ i = Inl!Change =>
          c.touched = {} /\ \A f \in chat.turn.targets : Inl!Lines(c.seen[f]) \subseteq c.text[f]

\* A change that goes on as faithful as it was, with nothing said of it but its own card.
LEMMA ChangeMoveKeeps ==
    ASSUME ChatInv, ChatShape', NEW i \in DOMAIN chat.changes, NEW c \in Changes, Faithful(c), ChangeMoves(i, c)
    PROVE  ChatInv'
<1> USE DEF ChatInv
<1>1. /\ chat.changes \in Seq(Changes) /\ chat'.changes \in Seq(Changes)
      /\ DOMAIN chat'.changes = DOMAIN chat.changes /\ Len(chat'.changes) = Len(chat.changes)
      /\ chat'.changes[i] = c
      /\ \A j \in DOMAIN chat.changes : j # i => chat'.changes[j] = chat.changes[j]
  BY DEF ChatType, ChangeMoves
<1>2. /\ chat.messages \in Seq(Says) /\ chat'.messages \in Seq(Says)
      /\ Len(chat.messages) \in Nat /\ Len(chat'.messages) \in Nat /\ Len(chat.messages) <= Len(chat'.messages)
  BY DEF ChatType, ChangeMoves
<1>3. DOMAIN chat.messages = 1 .. Len(chat.messages) /\ DOMAIN chat'.messages = 1 .. Len(chat'.messages)
  BY <1>2
<1>4. DOMAIN chat.messages \subseteq DOMAIN chat'.messages
  BY <1>2, <1>3
<1>5. chat'.turn \in Turns /\ (chat'.turn.pc = "loop" => chat'.turn = chat.turn /\ chat'.turn # Inl!NoTurn)
  BY NoTurnIsOne DEF ChatType, ChangeMoves
<1>6. ChatType'
  BY <1>1, <1>2, <1>5 DEF ChatType, ChangeMoves, ChatShape
<1>7. Pointing'
  <2>1. Len(chat.tasks) \in Nat /\ chat.turn \in Turns
    BY DEF ChatType
  <2>2. /\ chat'.turn.before <= Len(chat.messages) /\ chat'.turn.recent <= Len(chat.tasks)
        /\ chat'.turn.before \in Nat
    BY <1>2, <2>1, NoTurnIsOne, TurnParts DEF Pointing, ChangeMoves
  <2>3. chat'.turn.before <= Len(chat'.messages)
    BY <1>2, <2>2
  <2> QED
    BY <2>2, <2>3 DEF Pointing, ChangeMoves
<1>8. AllCarded'
  <2> SUFFICES ASSUME NEW k \in DOMAIN chat'.messages PROVE Carded(chat.messages[k])'
    BY DEF AllCarded
  <2>1. CASE k \in DOMAIN chat.messages
    <3>1. Carded(chat.messages[k])
      BY <2>1 DEF AllCarded
    <3>2. PICK old, new : old = chat.messages[k] /\ new = chat'.messages[k]
      OBVIOUS
    <3>3. new.kind = old.kind /\ new.ref = old.ref /\ (new.decision = old.decision \/ old.ref = i)
      BY <2>1, <3>2 DEF ChangeMoves
    <3>4. new.kind = "diff_card" /\ new.ref = i /\ new.decision = "applied" => c.copied = c.shown
      BY <2>1, <3>2 DEF ChangeMoves
    <3>5. new.kind = "diff_card" /\ new.decision = "applied" =>
             chat'.changes[new.ref].copied = chat'.changes[new.ref].shown
      BY <1>1, <3>1, <3>2, <3>3, <3>4 DEF Carded
    <3> QED
      BY <1>1, <3>1, <3>2, <3>3, <3>5 DEF Carded, ChangeMoves
  <2>2. CASE k \notin DOMAIN chat.messages
    BY <1>1, <2>2 DEF Carded, ChangeMoves
  <2> QED
    BY <2>1, <2>2
<1>9. AllFaithful'
  BY <1>1 DEF AllFaithful, Faithful
<1>10. Making'
  <2> SUFFICES ASSUME chat'.turn.pc = "loop" PROVE Making'
    BY DEF Making
  <2>1. chat'.turn = chat.turn /\ chat.turn.pc = "loop" /\ DOMAIN chat'.messages \subseteq DOMAIN chat.messages
    BY <1>5 DEF ChangeMoves
  <2>2. \A k \in DOMAIN chat'.messages : chat'.messages[k].kind = "diff_card" => chat'.messages[k].ref # Inl!Change
    BY <2>1 DEF Making, ChangeMoves
  <2>3. CASE i = Inl!Change
    BY <1>1, <2>1, <2>2, <2>3 DEF Making, ChangeMoves, Inl!Change
  <2>4. CASE i # Inl!Change
    <3>1. Inl!Change \in DOMAIN chat.changes
      BY <1>1, <2>1 DEF Making, Inl!Change
    <3> QED
      BY <1>1, <2>1, <2>2, <2>4, <3>1 DEF Making, Inl!Change
  <2> QED
    BY <2>3, <2>4
<1>11. PlansShown'
  BY <1>4, PlansStay DEF ChangeMoves
<1>12. Parented'
  BY DEF Parented, ChangeMoves
<1> QED
  BY <1>6, <1>7, <1>8, <1>9, <1>10, <1>11, <1>12

\* What a change is has the parts of one.
LEMMA ChangeParts ==
    ASSUME NEW c \in Changes
    PROVE  /\ c = [kept |-> c.kept, text |-> c.text, entry |-> c.entry, touched |-> c.touched, manifest |-> c.manifest,
                   seen |-> c.seen, shown |-> c.shown, copied |-> c.copied]
           /\ c.kept \in BOOLEAN /\ c.text \in [Inl!Files -> Texts] /\ c.entry \in BOOLEAN /\ c.touched \in SUBSET Inl!Files
           /\ c.manifest \in SUBSET Inl!Files /\ c.seen \in [Inl!Files -> Texts] /\ c.shown \in SUBSET (Inl!Files \X Texts)
           /\ c.copied \in SUBSET (Inl!Files \X Texts)
  BY DEF Changes

\* A file that is written has more in it, and exists.
LEMMA TextGrows ==
    ASSUME NEW text \in Texts, NEW n \in Nat
    PROVE  Inl!Lines(text) \cup {n} \in Texts
  BY DEF Texts, Inl!Lines

\* A patch that fails leaves what was in the file.
LEMMA PatchFailsKeeps == ASSUME ChatInv, NEW f \in Inl!Files, Inl!PatchFails(f) PROVE ChatInv'
<1>1. /\ ChatShape /\ chat.stream \in {"none", "open"} /\ chat.messages \in Seq(Says) /\ chat.changes \in Seq(Changes)
      /\ chat.real \in [Inl!Files -> Texts] /\ DOMAIN chat.changes = 1 .. Len(chat.changes)
      /\ Inl!Change \in Nat /\ Len(chat.messages) \in Nat
  BY DEF ChatInv, ChatType, ChatShape, Inl!Change
<1>2. chat.turn.pc = "loop" /\ f \in chat.turn.targets
  BY DEF Inl!PatchFails
<1>3. Inl!Change \in DOMAIN chat.changes
  BY <1>1, <1>2 DEF ChatInv, Making, Inl!Change
<1>4. PICK was : was = chat.changes[Inl!Change] /\ was \in Changes /\ Faithful(was)
  BY <1>1, <1>3 DEF ChatInv, AllFaithful
<1>5. /\ was.touched = {} /\ \A g \in chat.turn.targets : Inl!Lines(was.seen[g]) \subseteq was.text[g]
      /\ \A k \in DOMAIN chat.messages : chat.messages[k].kind = "diff_card" => chat.messages[k].ref # Inl!Change
  BY <1>2, <1>4 DEF ChatInv, Making
<1>6. PICK text : text = [was.text EXCEPT ![f] = Inl!Lines(@) \cup {Inl!Change}]
  OBVIOUS
<1>7. text \in [Inl!Files -> Texts] /\ \A g \in Inl!Files : was.text[g] \subseteq text[g] \cup Inl!Absent
  <2>1. was.text \in [Inl!Files -> Texts] /\ was.text[f] \in Texts
    BY <1>4, ChangeParts
  <2>2. Inl!Lines(was.text[f]) \cup {Inl!Change} \in Texts
    BY <1>1, <2>1, TextGrows
  <2>3. was.text[f] \subseteq (Inl!Lines(was.text[f]) \cup {Inl!Change}) \cup Inl!Absent
    BY DEF Inl!Lines
  <2> QED
    BY <1>6, <2>1, <2>2, <2>3
<1>8. PICK c : c = [kept |-> was.kept, text |-> text, entry |-> was.entry, touched |-> was.touched,
                    manifest |-> was.manifest, seen |-> was.seen, shown |-> was.shown, copied |-> was.copied]
  OBVIOUS
<1>9. c \in Changes
  BY <1>4, <1>7, <1>8 DEF Changes
<1>10. c = [was EXCEPT !.text = text]
  BY <1>4, <1>8, ChangeParts
<1>11. Faithful(c)
  BY <1>4, <1>5, <1>8 DEF Faithful
<1>12. \A g \in chat.turn.targets : Inl!Lines(c.seen[g]) \subseteq c.text[g]
  <2> SUFFICES ASSUME NEW g \in chat.turn.targets PROVE Inl!Lines(was.seen[g]) \subseteq text[g]
    BY <1>8
  <2>1. g \in Inl!Files /\ Inl!Lines(was.seen[g]) \subseteq was.text[g]
    BY <1>5, TurnParts DEF ChatInv, ChatType
  <2> QED
    BY <1>7, <2>1 DEF Inl!Lines
<1>13. chat' = [chat EXCEPT !.changes = [chat.changes EXCEPT ![Inl!Change] = c]]
  BY <1>4, <1>6, <1>10 DEF Inl!PatchFails
<1>14. /\ chat'.turns = chat.turns /\ chat'.stream = chat.stream /\ chat'.turn = chat.turn
       /\ chat'.messages = chat.messages /\ chat'.tasks = chat.tasks
       /\ chat'.real = chat.real /\ chat'.changes = [chat.changes EXCEPT ![Inl!Change] = c]
       /\ chat'.active = chat.active /\ ChatShape'
  BY <1>1, <1>13 DEF ChatShape
<1>15. ChangeMoves(Inl!Change, c)
  BY <1>1, <1>5, <1>8, <1>12, <1>14 DEF ChangeMoves
<1> QED
  BY <1>3, <1>9, <1>11, <1>14, <1>15, ChangeMoveKeeps

\* A card is put of the change as it was patched.
LEMMA ChangedKeeps == ASSUME ChatInv, NEW files \in SUBSET Inl!Files, Inl!Changed(files) PROVE ChatInv'
<1>1. /\ ChatShape /\ chat.stream \in {"none", "open"} /\ chat.messages \in Seq(Says) /\ chat.changes \in Seq(Changes)
      /\ chat.real \in [Inl!Files -> Texts] /\ DOMAIN chat.changes = 1 .. Len(chat.changes)
      /\ Inl!Change \in Nat /\ Len(chat.messages) \in Nat /\ DOMAIN chat.messages = 1 .. Len(chat.messages)
  BY DEF ChatInv, ChatType, ChatShape, Inl!Change
<1>2. chat.turn.pc = "loop" /\ files \subseteq chat.turn.targets
  BY DEF Inl!Changed
<1>3. Inl!Change \in DOMAIN chat.changes
  BY <1>1, <1>2 DEF ChatInv, Making, Inl!Change
<1>4. PICK was : was = chat.changes[Inl!Change] /\ was \in Changes /\ Faithful(was)
  BY <1>1, <1>3 DEF ChatInv, AllFaithful
<1>5. /\ was.touched = {} /\ \A g \in chat.turn.targets : Inl!Lines(was.seen[g]) \subseteq was.text[g]
      /\ \A k \in DOMAIN chat.messages : chat.messages[k].kind = "diff_card" => chat.messages[k].ref # Inl!Change
  BY <1>2, <1>4 DEF ChatInv, Making
<1>6. PICK text : text = Inl!Patched(files)
  OBVIOUS
<1>7. /\ text \in [Inl!Files -> Texts]
      /\ \A g \in files : Inl!Lines(was.text[g]) \subseteq text[g]
  <2>1. was.text \in [Inl!Files -> Texts] /\ \A g \in Inl!Files : was.text[g] \in Texts
    BY <1>4, ChangeParts
  <2>2. \A g \in Inl!Files : Inl!Lines(was.text[g]) \cup {Inl!Change} \in Texts
    BY <1>1, <2>1, TextGrows
  <2>3. text = [g \in Inl!Files |-> IF g \in files THEN Inl!Lines(was.text[g]) \cup {Inl!Change} ELSE was.text[g]]
    BY <1>4, <1>6 DEF Inl!Patched
  <2>4. \A g \in Inl!Files : (IF g \in files THEN Inl!Lines(was.text[g]) \cup {Inl!Change} ELSE was.text[g]) \in Texts
    BY <2>1, <2>2
  <2> QED
    BY <2>3, <2>4
<1>8. PICK shown : shown = {<<g, text[g]>> : g \in files}
  OBVIOUS
<1>9. shown \in SUBSET (Inl!Files \X Texts)
  BY <1>7, <1>8
<1>10. PICK c : c = [kept |-> was.kept, text |-> text, entry |-> was.entry, touched |-> files,
                     manifest |-> files, seen |-> was.seen, shown |-> shown, copied |-> was.copied]
  OBVIOUS
<1>11. c \in Changes
  BY <1>4, <1>7, <1>9, <1>10 DEF Changes
<1>12. PICK first : first = [was EXCEPT !.touched = files]
  OBVIOUS
<1>13. PICK listed : listed = [first EXCEPT !.manifest = files]
  OBVIOUS
<1>14. PICK patched : patched = [listed EXCEPT !.text = text]
  OBVIOUS
<1>15. c = [patched EXCEPT !.shown = shown]
  <2>1. first = [kept |-> was.kept, text |-> was.text, entry |-> was.entry, touched |-> files,
                 manifest |-> was.manifest, seen |-> was.seen, shown |-> was.shown, copied |-> was.copied]
    BY <1>4, <1>12, ChangeParts
  <2>2. listed = [kept |-> was.kept, text |-> was.text, entry |-> was.entry, touched |-> files,
                  manifest |-> files, seen |-> was.seen, shown |-> was.shown, copied |-> was.copied]
    BY <1>13, <2>1
  <2>3. patched = [kept |-> was.kept, text |-> text, entry |-> was.entry, touched |-> files,
                   manifest |-> files, seen |-> was.seen, shown |-> was.shown, copied |-> was.copied]
    BY <1>14, <2>2
  <2> QED
    BY <1>10, <2>3
<1>16. was.copied = {}
  BY <1>4, <1>5 DEF Faithful
<1>17. Faithful(c)
  <2> SUFFICES ASSUME NEW g \in files PROVE Inl!Lines(was.seen[g]) \subseteq text[g]
    BY <1>8, <1>10, <1>16 DEF Faithful
  <2> QED
    BY <1>2, <1>5, <1>7 DEF Inl!Lines
<1>18. PICK card : card = Inl!Message("diff_card", Inl!Change)
  OBVIOUS
<1>19. card \in Says /\ card.kind = "diff_card" /\ card.ref = Inl!Change /\ card.decision = "none"
  BY <1>1, <1>18 DEF Says, Inl!Message
<1>20. /\ chat'.turns = chat.turns /\ chat'.stream = "none" /\ chat'.turn = Inl!NoTurn
       /\ chat'.messages = chat.messages \o <<card>> /\ chat'.tasks = chat.tasks
       /\ chat'.real = chat.real
       /\ chat'.active = chat.active /\ ChatShape'
  BY <1>1, <1>18 DEF Inl!Changed, Inl!Say, Inl!Done, Inl!Rest, ChatShape
<1>21. chat'.changes = [chat.changes EXCEPT ![Inl!Change] = c]
  <2>1. Inl!Listed(was, files) = listed
    BY <1>12, <1>13 DEF Inl!Listed
  <2>2. [Inl!Listed(was, files) EXCEPT !.text = Inl!Patched(files), !.shown = {<<g, Inl!Patched(files)[g]>> : g \in files}] =
        [patched EXCEPT !.shown = shown]
    BY <1>6, <1>8, <1>14, <2>1
  <2>3. chat'.changes = [chat.changes EXCEPT ![Inl!Change] =
           [Inl!Listed(was, files) EXCEPT !.text = Inl!Patched(files), !.shown = {<<g, Inl!Patched(files)[g]>> : g \in files}]]
    BY <1>1, <1>4 DEF Inl!Changed, Inl!Say, Inl!Done, Inl!Rest, ChatShape
  <2> QED
    BY <1>15, <2>2, <2>3
<1>22. /\ chat'.messages \in Seq(Says) /\ Len(chat'.messages) = Len(chat.messages) + 1
       /\ DOMAIN chat'.messages = 1 .. Len(chat'.messages)
       /\ \A k \in DOMAIN chat.messages : chat'.messages[k] = chat.messages[k]
       /\ chat'.messages[Len(chat.messages) + 1] = card
  BY <1>1, <1>19, <1>20
<1>23. \A k \in DOMAIN chat'.messages : k \notin DOMAIN chat.messages => chat'.messages[k] = card
  BY <1>1, <1>22
<1>24. ChangeMoves(Inl!Change, c)
  BY <1>1, <1>5, <1>19, <1>20, <1>21, <1>22, <1>23, NoTurnIsOne DEF ChangeMoves
<1> QED
  BY <1>3, <1>11, <1>17, <1>20, <1>24, ChangeMoveKeeps

\* What is put in place of an element of a sequence.
LEMMA Updated ==
    ASSUME NEW S, NEW s \in Seq(S), NEW k \in DOMAIN s, NEW x \in S, NEW r, r = [s EXCEPT ![k] = x]
    PROVE  /\ r \in Seq(S) /\ Len(r) = Len(s) /\ DOMAIN r = DOMAIN s /\ r[k] = x
           /\ \A j \in DOMAIN s : j # k => r[j] = s[j]
  OBVIOUS

DecidedOn(i, res) == [chat.messages EXCEPT ![Inl!Card(i)] = [@ EXCEPT !.decision = res]]

\* These messages are those of the thread but for what is said of change i.
OnlyOf(ms, i, res) ==
    /\ ms \in Seq(Says) /\ Len(ms) = Len(chat.messages) /\ DOMAIN ms = DOMAIN chat.messages
    /\ \A k \in DOMAIN chat.messages :
          /\ ms[k].kind = chat.messages[k].kind /\ ms[k].ref = chat.messages[k].ref
          /\ ms[k].plan = chat.messages[k].plan
          /\ \/ ms[k].decision = chat.messages[k].decision
             \/ chat.messages[k].ref = i /\ ms[k].decision = res

\* A decision is written on a card of the change it is about.
LEMMA CardDecided ==
    ASSUME ChatInv, NEW i, Inl!Card(i) > 0, NEW res \in {"applied", "discarded"}
    PROVE  /\ OnlyOf(DecidedOn(i, res), i, res)
           /\ i \in DOMAIN chat.changes
           /\ chat.turn.pc = "loop" => i # Inl!Change
<1> DEFINE ms == DecidedOn(i, res)
<1>1. PICK k : k = Inl!Card(i)
  OBVIOUS
<1>2. k \in DOMAIN chat.messages /\ chat.messages[k].kind = "diff_card" /\ chat.messages[k].ref = i
  BY <1>1, CardIsOne DEF ChatInv
<1>3. chat.messages \in Seq(Says)
  BY DEF ChatInv, ChatType
<1>4. PICK was : was = chat.messages[k] /\ was \in Says
  BY <1>2, <1>3
<1>5. PICK now : now = [was EXCEPT !.decision = res]
  OBVIOUS
<1>6. now \in Says /\ now.kind = was.kind /\ now.ref = was.ref /\ now.plan = was.plan /\ now.decision = res
  BY <1>4, <1>5 DEF Says
<1>7. ms = [chat.messages EXCEPT ![k] = now]
  BY <1>1, <1>4, <1>5 DEF DecidedOn
<1> HIDE DEF ms
<1>8. /\ ms \in Seq(Says) /\ Len(ms) = Len(chat.messages) /\ DOMAIN ms = DOMAIN chat.messages /\ ms[k] = now
      /\ \A j \in DOMAIN chat.messages : j # k => ms[j] = chat.messages[j]
  <2>1. PICK old : old = chat.messages
    OBVIOUS
  <2>2. old \in Seq(Says) /\ k \in DOMAIN old /\ ms = [old EXCEPT ![k] = now] /\ now \in Says
    BY <1>2, <1>3, <1>6, <1>7, <2>1
  <2>3. ms \in Seq(Says) /\ Len(ms) = Len(old) /\ DOMAIN ms = DOMAIN old
    BY <2>2, Updated
  <2>4. ms[k] = now /\ \A j \in DOMAIN old : j # k => ms[j] = old[j]
    BY <2>2
  <2> QED
    BY <2>1, <2>3, <2>4
<1>9. i \in DOMAIN chat.changes /\ (chat.turn.pc = "loop" => i # Inl!Change)
  BY <1>2 DEF ChatInv, AllCarded, Carded, Making
<1>10. OnlyOf(ms, i, res)
  BY <1>2, <1>4, <1>6, <1>8 DEF OnlyOf
<1> QED
  BY <1>9, <1>10 DEF ms

\* Both decisions: only the marks and what is copied change in what was proposed.
LEMMA DecisionKeeps ==
    ASSUME ChatInv, ChatShape', NEW i \in DOMAIN chat.changes, NEW was, was = chat.changes[i], NEW c \in Changes,
           c.text = was.text, c.touched = was.touched, c.manifest = was.manifest, c.seen = was.seen,
           c.shown = was.shown, was.copied \subseteq c.copied, c.copied \subseteq c.shown,
           NEW decided \in {"none", "applied", "discarded"},
           chat.turn.pc = "loop" => i # Inl!Change,
           decided = "applied" => c.copied = c.shown,
           chat'.turns = chat.turns, chat'.stream = chat.stream, chat'.turn = chat.turn, chat'.tasks = chat.tasks,
           chat'.active = chat.active, chat'.real \in [Inl!Files -> Texts],
           chat'.changes = [chat.changes EXCEPT ![i] = c],
           OnlyOf(chat'.messages, i, decided)
    PROVE  ChatInv'
<1> USE DEF OnlyOf
<1>1. Faithful(was) /\ chat.stream \in {"none", "open"} /\ Len(chat.messages) \in Nat
  BY DEF ChatInv, ChatType, AllFaithful
<1>2. Faithful(c)
  BY <1>1 DEF Faithful
<1>3. ASSUME NEW k \in DOMAIN chat.messages, chat'.messages[k].kind = "diff_card", chat'.messages[k].ref = i,
             chat'.messages[k].decision = "applied"
      PROVE  c.copied = c.shown
  <2>1. CASE chat.messages[k].decision = "applied"
    <3>1. Carded(chat.messages[k]) /\ chat.messages[k].kind = "diff_card" /\ chat.messages[k].ref = i
      BY <1>3 DEF ChatInv, AllCarded
    <3>2. was.copied = was.shown
      BY <2>1, <3>1 DEF Carded
    <3> QED
      BY <3>2
  <2>2. CASE chat.messages[k].decision # "applied"
    BY <1>3, <2>2
  <2> QED
    BY <2>1, <2>2
<1>4. ChangeMoves(i, c)
  BY <1>1, <1>3 DEF ChangeMoves
<1> QED
  BY <1>2, <1>4, ChangeMoveKeeps

\* A change that is discarded copies nothing.
LEMMA DiscardKeeps == ASSUME ChatInv, NEW i \in DOMAIN chat.changes, Inl!Discard(i) PROVE ChatInv'
<1>1. ChatShape /\ chat.changes \in Seq(Changes) /\ chat.real \in [Inl!Files -> Texts] /\ chat.messages \in Seq(Says)
  BY DEF ChatInv, ChatType, ChatShape
<1>2. PICK was : was = chat.changes[i] /\ was \in Changes /\ Faithful(was)
  BY <1>1 DEF ChatInv, AllFaithful
<1>3. PICK first : first = [was EXCEPT !.entry = FALSE]
  OBVIOUS
<1>4. PICK c : c = [first EXCEPT !.kept = FALSE]
  OBVIOUS
<1>5. first \in Changes
  BY <1>2, <1>3 DEF Changes
<1>6. c \in Changes
  BY <1>4, <1>5 DEF Changes
<1>7. /\ c.text = was.text /\ c.touched = was.touched /\ c.manifest = was.manifest /\ c.seen = was.seen
      /\ c.shown = was.shown /\ c.copied = was.copied
  BY <1>2, <1>3, <1>4, ChangeParts
<1>8. PICK ms : ms = DecidedOn(i, "discarded")
  OBVIOUS
<1>9. /\ ChatShape' /\ chat'.turns = chat.turns /\ chat'.stream = chat.stream /\ chat'.turn = chat.turn
      /\ chat'.tasks = chat.tasks /\ chat'.active = chat.active /\ chat'.real = chat.real /\ chat'.messages = ms
  BY <1>1, <1>8 DEF Inl!Discard, Inl!ResolveCard, ChatShape, DecidedOn
<1>10. chat'.changes = [chat.changes EXCEPT ![i] = c]
  <2>1. PICK once : once = [chat.changes EXCEPT ![i] = first]
    OBVIOUS
  <2>2. once[i] = first
    BY <2>1
  <2>3. once = [chat.changes EXCEPT ![i] = [chat.changes[i] EXCEPT !.entry = FALSE]]
    BY <1>2, <1>3, <2>1
  <2>4. chat'.changes = [once EXCEPT ![i] = [once[i] EXCEPT !.kept = FALSE]]
    BY <1>1, <2>3 DEF Inl!Discard, Inl!ResolveCard, ChatShape
  <2>5. chat'.changes = [once EXCEPT ![i] = c]
    BY <1>4, <2>2, <2>4
  <2> QED
    BY <2>1, <2>5, Again
<1>11. Inl!Card(i) > 0
  BY DEF Inl!Discard
<1>12. OnlyOf(ms, i, "discarded") /\ (chat.turn.pc = "loop" => i # Inl!Change)
  BY <1>8, <1>11, CardDecided
<1>13. was.copied \subseteq c.copied /\ c.copied \subseteq c.shown
  BY <1>2, <1>7 DEF Faithful
<1>14. PICK decided : decided = "discarded"
  OBVIOUS
<1> QED
  BY <1>1, <1>2, <1>6, <1>7, <1>9, <1>10, <1>12, <1>13, <1>14, DecisionKeeps

\* What is copied is shown, and a card says "applied" only when all of it is.
LEMMA PromoteKeeps ==
    ASSUME ChatInv, NEW i \in DOMAIN chat.changes, NEW files \in SUBSET Inl!Files, Inl!Promote(i, files)
    PROVE  ChatInv'
<1>1. ChatShape /\ chat.changes \in Seq(Changes) /\ chat.real \in [Inl!Files -> Texts] /\ chat.messages \in Seq(Says)
  BY DEF ChatInv, ChatType, ChatShape
<1>2. PICK was : was = chat.changes[i] /\ was \in Changes /\ Faithful(was)
  BY <1>1 DEF ChatInv, AllFaithful
<1>3. Inl!Card(i) > 0 /\ files \subseteq Inl!Copies(i) /\ Inl!Copies(i) = was.touched
  BY <1>2 DEF Inl!Promote, Inl!Copies, Faithful
<1>4. PICK done : done = was.copied \cup {<<f, was.text[f]>> : f \in files}
  OBVIOUS
<1>5. done \subseteq was.shown /\ was.copied \subseteq done /\ (files = Inl!Copies(i) => done = was.shown)
  BY <1>2, <1>3, <1>4 DEF Faithful
<1>6. PICK first : first = [was EXCEPT !.copied = done]
  OBVIOUS
<1>7. PICK real : real = [f \in Inl!Files |-> IF f \in files THEN was.text[f] ELSE chat.real[f]]
  OBVIOUS
<1>8. real \in [Inl!Files -> Texts]
  <2>1. was.text \in [Inl!Files -> Texts]
    BY <1>2, ChangeParts
  <2> QED
    BY <1>1, <1>7, <2>1
<1>9. done \in SUBSET (Inl!Files \X Texts)
  BY <1>2, <1>5, ChangeParts
<1>10. first \in Changes
  BY <1>2, <1>6, <1>9 DEF Changes
<1>11. /\ first.text = was.text /\ first.touched = was.touched /\ first.manifest = was.manifest
       /\ first.seen = was.seen /\ first.shown = was.shown /\ first.copied = done
  BY <1>2, <1>6, ChangeParts
<1>12. PICK once : once = [chat.changes EXCEPT ![i] = first]
  OBVIOUS
<1>13. once[i] = first
  BY <1>12
<1>14. OnlyOf(DecidedOn(i, "applied"), i, "applied") /\ (chat.turn.pc = "loop" => i # Inl!Change)
  BY <1>3, CardDecided
<1> DEFINE copied == [chat EXCEPT
               !.real = [f \in Inl!Files |-> IF f \in files THEN chat.changes[i].text[f] ELSE @[f]],
               !.changes[i].copied = @ \cup {<<f, chat.changes[i].text[f]>> : f \in files}]
<1>15. PICK held : held = copied
  OBVIOUS
<1>a. held = [turns |-> chat.turns, turn |-> chat.turn, stream |-> chat.stream, messages |-> chat.messages,
              real |-> real, changes |-> once, tasks |-> chat.tasks, active |-> chat.active]
  <2>1. PICK there, added, mark, tried :
           /\ there = [f \in Inl!Files |-> IF f \in files THEN chat.changes[i].text[f] ELSE chat.real[f]]
           /\ added = {<<f, chat.changes[i].text[f]>> : f \in files}
           /\ mark = [chat.changes[i] EXCEPT !.copied = @ \cup added]
           /\ tried = [chat.changes EXCEPT ![i] = mark]
    OBVIOUS
  <2>2. there = real
    BY <1>2, <1>7, <2>1
  <2>3. done = was.copied \cup added
    BY <1>2, <1>4, <2>1
  <2>4. tried = once
    <3>1. mark = first
      BY <1>2, <1>6, <2>1, <2>3
    <3> QED
      BY <1>12, <2>1, <3>1
  <2>5. held = [chat EXCEPT !.real = there, !.changes = tried]
    BY <1>15, <2>1
  <2> HIDE DEF copied
  <2> QED
    BY <1>1, <2>2, <2>4, <2>5 DEF ChatShape
<1> HIDE DEF copied
<1>16. CASE files # Inl!Copies(i)
  <2>1. chat' = held
    BY <1>15, <1>16 DEF Inl!Promote, copied
  <2>2. /\ ChatShape' /\ chat'.turns = chat.turns /\ chat'.stream = chat.stream /\ chat'.turn = chat.turn
        /\ chat'.tasks = chat.tasks /\ chat'.active = chat.active /\ chat'.real = real /\ chat'.messages = chat.messages
        /\ chat'.changes = once
    BY <1>a, <2>1 DEF ChatShape
  <2>3. OnlyOf(chat.messages, i, "none")
    BY <1>1 DEF OnlyOf
  <2>4. PICK decided : decided = "none"
    OBVIOUS
  <2> QED
    BY <1>2, <1>5, <1>8, <1>10, <1>11, <1>12, <1>14, <2>2, <2>3, <2>4, DecisionKeeps
<1>17. CASE files = Inl!Copies(i)
  <2>1. PICK c : c = [first EXCEPT !.entry = FALSE]
    OBVIOUS
  <2>2. c \in Changes
    BY <1>10, <2>1 DEF Changes
  <2>3. /\ c.text = was.text /\ c.touched = was.touched /\ c.manifest = was.manifest
        /\ c.seen = was.seen /\ c.shown = was.shown /\ c.copied = done
    BY <1>10, <1>11, <2>1, ChangeParts
  <2>4. chat' = [Inl!ResolveCard(held, i, "applied") EXCEPT !.changes[i].entry = FALSE]
    BY <1>15, <1>17 DEF Inl!Promote, copied
  <2>6. held.messages = chat.messages /\ held.changes = once
    BY <1>a
  <2>7. PICK marked : marked = Inl!ResolveCard(held, i, "applied")
    OBVIOUS
  <2>8. marked = [turns |-> chat.turns, turn |-> chat.turn, stream |-> chat.stream,
                  messages |-> DecidedOn(i, "applied"),
                  real |-> real, changes |-> once, tasks |-> chat.tasks, active |-> chat.active]
    <3>1. marked = [held EXCEPT !.messages = DecidedOn(i, "applied")]
      BY <1>a, <2>6, <2>7 DEF Inl!ResolveCard, DecidedOn
    <3> QED
      BY <1>a, <3>1
  <2>9. /\ ChatShape' /\ chat'.turns = chat.turns /\ chat'.stream = chat.stream /\ chat'.turn = chat.turn
        /\ chat'.tasks = chat.tasks /\ chat'.active = chat.active /\ chat'.real = real
        /\ chat'.messages = DecidedOn(i, "applied")
        /\ chat'.changes = [once EXCEPT ![i] = c]
    <3>1. chat' = [marked EXCEPT !.changes = [once EXCEPT ![i] = c]]
      <4>1. marked.changes = once
        BY <2>8
      <4>2. chat' = [marked EXCEPT !.changes = [marked.changes EXCEPT ![i] = [marked.changes[i] EXCEPT !.entry = FALSE]]]
        BY <2>4, <2>7
      <4> QED
        BY <1>13, <2>1, <4>1, <4>2
    <3> QED
      BY <2>8, <3>1 DEF ChatShape
  <2>10. chat'.changes = [chat.changes EXCEPT ![i] = c]
    BY <1>12, <2>9, Again
  <2>11. PICK decided : decided = "applied"
    OBVIOUS
  <2> QED
    BY <1>2, <1>5, <1>8, <1>14, <1>17, <2>2, <2>3, <2>9, <2>10, <2>11, DecisionKeeps
<1> QED
  BY <1>16, <1>17

\* What the user writes meanwhile is on no card.
LEMMA UserEditsKeeps == ASSUME ChatInv, NEW f \in Inl!Files, Inl!UserEdits(f) PROVE ChatInv'
<1> USE DEF ChatInv
<1>1. ChatShape /\ chat.real \in [Inl!Files -> Texts] /\ chat.real[f] \in Texts
  BY DEF ChatType, ChatShape
<1>2. PICK real : real = [chat.real EXCEPT ![f] = Inl!Lines(@) \cup {0}]
  OBVIOUS
<1>3. real \in [Inl!Files -> Texts]
  BY <1>1, <1>2, TextGrows
<1>4. /\ ChatShape' /\ chat'.turns = chat.turns /\ chat'.stream = chat.stream /\ chat'.turn = chat.turn
      /\ chat'.messages = chat.messages /\ chat'.tasks = chat.tasks /\ chat'.active = chat.active
      /\ chat'.changes = chat.changes /\ chat'.real = real
  BY <1>1, <1>2 DEF Inl!UserEdits, ChatShape
<1>5. ChatType'
  BY <1>3, <1>4 DEF ChatType, ChatShape
<1>6. Pointing' /\ AllFaithful' /\ Parented'
  BY <1>4 DEF Pointing, AllFaithful, Faithful, Parented
<1>7. AllCarded'
  BY <1>4 DEF AllCarded, Carded
<1>8. Making'
  BY <1>4 DEF Making, Inl!Change
<1>9. PlansShown'
  BY <1>4, PlansStay
<1> QED
  BY <1>5, <1>6, <1>7, <1>8, <1>9

\* A restart forgets what is in memory: the lists of what is to be copied are on disk too.
LEMMA RestartKeeps == ASSUME ChatInv, Inl!Restart PROVE ChatInv'
<1> USE DEF ChatInv
<1>1. /\ ChatShape /\ chat.changes \in Seq(Changes) /\ chat.tasks \in Seq(Jobs) /\ chat.messages \in Seq(Says)
      /\ DOMAIN chat.changes = 1 .. Len(chat.changes) /\ DOMAIN chat.tasks = 1 .. Len(chat.tasks)
      /\ Len(chat.changes) \in Nat /\ Len(chat.tasks) \in Nat /\ Len(chat.messages) \in Nat
  BY DEF ChatType, ChatShape
<1>2. PICK changes, jobs :
        /\ changes = [i \in DOMAIN chat.changes |-> [chat.changes[i] EXCEPT !.entry = FALSE]]
        /\ jobs = [t \in DOMAIN chat.tasks |->
               IF chat.tasks[t].status \in {"PLANNED", "EXECUTING"} THEN [chat.tasks[t] EXCEPT !.status = "STRANDED"]
               ELSE chat.tasks[t]]
  OBVIOUS
<1>3. /\ ChatShape' /\ chat'.turns = chat.turns /\ chat'.stream = "none" /\ chat'.turn = Inl!NoTurn
      /\ chat'.messages = chat.messages /\ chat'.active = chat.active /\ chat'.real = chat.real
      /\ chat'.changes = changes /\ chat'.tasks = jobs
  BY <1>1, <1>2 DEF Inl!Restart, Inl!Done, Inl!Rest, ChatShape
<1>4. ASSUME NEW i \in DOMAIN chat.changes
      PROVE  /\ changes[i] \in Changes
             /\ changes[i].text = chat.changes[i].text /\ changes[i].touched = chat.changes[i].touched
             /\ changes[i].manifest = chat.changes[i].manifest /\ changes[i].seen = chat.changes[i].seen
             /\ changes[i].shown = chat.changes[i].shown /\ changes[i].copied = chat.changes[i].copied
  <2>1. PICK was, now : /\ was = chat.changes[i] /\ now = [was EXCEPT !.entry = FALSE]
    OBVIOUS
  <2>2. was \in Changes /\ changes[i] = now
    BY <1>1, <1>2, <2>1
  <2>3. now \in Changes
    BY <2>1, <2>2 DEF Changes
  <2> QED
    BY <2>1, <2>2, <2>3, ChangeParts
<1>5. ASSUME NEW t \in DOMAIN chat.tasks
      PROVE  /\ jobs[t] \in Jobs /\ jobs[t].parent = chat.tasks[t].parent /\ jobs[t].plan = chat.tasks[t].plan
             /\ jobs[t].status = "AWAITING_PLAN_APPROVAL" => chat.tasks[t].status = "AWAITING_PLAN_APPROVAL"
             /\ chat.tasks[t].status \in {"FAILED", "ABORTED"} => jobs[t].status = chat.tasks[t].status
  <2>1. PICK was, now : /\ was = chat.tasks[t] /\ now = [was EXCEPT !.status = "STRANDED"]
    OBVIOUS
  <2>2. was \in Jobs /\ jobs[t] = IF was.status \in {"PLANNED", "EXECUTING"} THEN now ELSE was
    BY <1>1, <1>2, <2>1
  <2>3. now \in Jobs /\ now.parent = was.parent /\ now.plan = was.plan /\ now.status = "STRANDED"
    BY <2>1, <2>2 DEF Jobs
  <2> QED
    BY <2>1, <2>2, <2>3
<1>6. /\ changes \in Seq(Changes) /\ DOMAIN changes = DOMAIN chat.changes
      /\ jobs \in Seq(Jobs) /\ DOMAIN jobs = DOMAIN chat.tasks /\ Len(jobs) = Len(chat.tasks)
  <2>1. changes = [i \in 1 .. Len(chat.changes) |-> changes[i]] /\ \A i \in 1 .. Len(chat.changes) : changes[i] \in Changes
    BY <1>1, <1>2, <1>4
  <2>2. jobs = [t \in 1 .. Len(chat.tasks) |-> jobs[t]] /\ \A t \in 1 .. Len(chat.tasks) : jobs[t] \in Jobs
    BY <1>1, <1>2, <1>5
  <2>3. \A S, s, n : n \in Nat /\ s = [i \in 1 .. n |-> s[i]] /\ (\A i \in 1 .. n : s[i] \in S) => s \in Seq(S) /\ Len(s) = n
    OBVIOUS
  <2>4. changes \in Seq(Changes)
    BY <1>1, <2>1, <2>3
  <2>5. jobs \in Seq(Jobs) /\ Len(jobs) = Len(chat.tasks)
    BY <1>1, <2>2, <2>3
  <2>6. DOMAIN changes = DOMAIN chat.changes /\ DOMAIN jobs = DOMAIN chat.tasks
    BY <1>2
  <2> QED
    BY <2>4, <2>5, <2>6
<1>7. ChatType'
  BY <1>3, <1>6, NoTurnIsOne DEF ChatType, ChatShape
<1>8. Pointing'
  BY <1>1, <1>3, <1>6, NoTurnIsOne DEF Pointing
<1>9. AllFaithful'
  BY <1>3, <1>4, <1>6 DEF AllFaithful, Faithful
<1>10. AllCarded'
  BY <1>3, <1>4, <1>6 DEF AllCarded, Carded
<1>11. Making'
  BY <1>3, NoTurnIsOne DEF Making
<1>12. PlansShown'
  <2> SUFFICES ASSUME NEW t \in DOMAIN chat.tasks, chat.tasks[t].status = "AWAITING_PLAN_APPROVAL"
               PROVE  OnLastCard(t, chat.tasks[t].plan)'
    BY <1>3, <1>5, <1>6 DEF PlansShown
  <2>1. OnLastCard(t, chat.tasks[t].plan)
    BY DEF PlansShown
  <2> QED
    BY <1>3, <1>5, <2>1 DEF OnLastCard, IsPlanCard
<1>13. Parented'
  BY <1>3, <1>5, <1>6 DEF Parented
<1> QED
  BY <1>7, <1>8, <1>9, <1>10, <1>11, <1>12, <1>13

\* What is added at the end of a sequence.
LEMMA Added ==
    ASSUME NEW S, NEW s \in Seq(S), NEW x \in S, NEW r, r = Append(s, x)
    PROVE  /\ r \in Seq(S) /\ Len(r) = Len(s) + 1 /\ Len(s) \in Nat /\ r[Len(s) + 1] = x
           /\ DOMAIN s = 1 .. Len(s) /\ DOMAIN r = 1 .. Len(s) + 1
           /\ \A j \in DOMAIN s : r[j] = s[j]
  OBVIOUS

\* A change begins with the files as they are.
LEMMA PrepareKeeps == ASSUME ChatInv, NEW likely \in SUBSET Inl!Files, Inl!Prepare(likely) PROVE ChatInv'
<1> USE DEF ChatInv
<1>1. /\ ChatShape /\ chat.changes \in Seq(Changes) /\ chat.tasks \in Seq(Jobs) /\ chat.messages \in Seq(Says)
      /\ chat.real \in [Inl!Files -> Texts] /\ Len(chat.messages) \in Nat /\ Len(chat.tasks) \in Nat
  BY DEF ChatType, ChatShape
<1>2. PICK seeds, targets, turn :
        /\ seeds = Inl!Seeds(likely) /\ targets = seeds \cup {f \in likely : chat.real[f] = Inl!Absent}
        /\ turn = [Inl!NoTurn EXCEPT !.pc = "loop", !.targets = targets]
  OBVIOUS
<1>3. seeds \in SUBSET Inl!Files /\ \A f \in seeds : chat.real[f] # Inl!Absent
  <2>1. chat.turn.read \in SUBSET Inl!Files
    BY TurnParts DEF ChatType
  <2> QED
    BY <1>2, <2>1 DEF Inl!Seeds
<1>4. turn \in Turns /\ turn.before = 0 /\ turn.recent = 0 /\ turn.targets = targets /\ targets \in SUBSET Inl!Files
  <2>1. targets \in SUBSET Inl!Files
    BY <1>2, <1>3
  <2>2. turn = [pc |-> "loop", calls |-> Inl!NoTurn.calls, read |-> Inl!NoTurn.read, before |-> Inl!NoTurn.before,
                recent |-> Inl!NoTurn.recent, targets |-> targets]
    <3>1. Inl!NoTurn = [pc |-> Inl!NoTurn.pc, calls |-> Inl!NoTurn.calls, read |-> Inl!NoTurn.read, before |-> Inl!NoTurn.before,
                    recent |-> Inl!NoTurn.recent, targets |-> Inl!NoTurn.targets]
      BY NoTurnIsOne, TurnParts
    <3> QED
      BY <1>2, <3>1
  <2>3. turn \in Turns
    BY <2>1, <2>2, NoTurnIsOne, TurnParts, TurnMade
  <2> QED
    BY <2>1, <2>2, <2>3, NoTurnIsOne
<1>5. PICK text : text = Inl!Seeded(seeds)
  OBVIOUS
<1>6. text \in [Inl!Files -> Texts] /\ \A f \in targets : Inl!Lines(chat.real[f]) \subseteq text[f]
  <2>1. Inl!Absent \in Texts
    BY DEF Texts
  <2>2. text = [f \in Inl!Files |-> IF f \in seeds THEN chat.real[f] ELSE Inl!Absent]
    BY <1>5 DEF Inl!Seeded
  <2>3. \A f \in Inl!Files : (IF f \in seeds THEN chat.real[f] ELSE Inl!Absent) \in Texts
    BY <1>1, <2>1
  <2>4. ASSUME NEW f \in targets PROVE Inl!Lines(chat.real[f]) \subseteq text[f]
    <3>1. f \in Inl!Files /\ (f \in seeds \/ chat.real[f] = Inl!Absent)
      BY <1>2, <1>4
    <3> QED
      BY <2>2, <3>1 DEF Inl!Lines
  <2> QED
    BY <2>2, <2>3, <2>4
<1>7. PICK none : none = {}
  OBVIOUS
<1>8. PICK c : c = [kept |-> TRUE, text |-> text, entry |-> TRUE, touched |-> none, manifest |-> none,
                    seen |-> chat.real, shown |-> none, copied |-> none]
  OBVIOUS
<1>9. c \in Changes
  <2>1. none \in SUBSET Inl!Files /\ none \in SUBSET (Inl!Files \X Texts)
    BY <1>7
  <2> QED
    BY <1>1, <1>6, <1>8, <2>1 DEF Changes
<1>10. /\ ChatShape' /\ chat'.turns = chat.turns /\ chat'.stream = chat.stream /\ chat'.turn = turn
       /\ chat'.messages = chat.messages /\ chat'.tasks = chat.tasks /\ chat'.active = chat.active
       /\ chat'.real = chat.real /\ chat'.changes = Append(chat.changes, c)
  BY <1>1, <1>2, <1>5, <1>7, <1>8 DEF Inl!Prepare, ChatShape
<1>11. PICK n \in Nat :
         /\ n = Len(chat.changes) /\ chat'.changes \in Seq(Changes) /\ Len(chat'.changes) = n + 1
         /\ DOMAIN chat.changes = 1 .. n /\ DOMAIN chat'.changes = 1 .. n + 1 /\ chat'.changes[n + 1] = c
         /\ \A j \in DOMAIN chat.changes : chat'.changes[j] = chat.changes[j]
  BY <1>1, <1>9, <1>10, Added
<1>12. \A j \in DOMAIN chat'.changes : j \in DOMAIN chat.changes \/ j = n + 1
  BY <1>11
<1>13. DOMAIN chat.changes \subseteq DOMAIN chat'.changes /\ n + 1 \notin DOMAIN chat.changes
  BY <1>11
<1>14. ChatType'
  BY <1>4, <1>10, <1>11 DEF ChatType, ChatShape
<1>15. Pointing'
  BY <1>1, <1>4, <1>10 DEF Pointing
<1>16. Faithful(c)
  BY <1>7, <1>8 DEF Faithful
<1>17. AllFaithful'
  BY <1>11, <1>12, <1>16 DEF AllFaithful, Faithful
<1>18. AllCarded'
  BY <1>10, <1>11, <1>13 DEF AllCarded, Carded
<1>19. Making'
  <2>1. Inl!Change' = n + 1 /\ n + 1 > 0
    BY <1>11 DEF Inl!Change
  <2>2. chat'.changes[Inl!Change'].touched = {}
    BY <1>7, <1>8, <1>11, <2>1
  <2>3. \A f \in chat'.turn.targets : Inl!Lines(chat'.changes[Inl!Change'].seen[f]) \subseteq chat'.changes[Inl!Change'].text[f]
    BY <1>4, <1>6, <1>8, <1>10, <1>11, <2>1
  <2>4. \A k \in DOMAIN chat'.messages :
           chat'.messages[k].kind = "diff_card" => chat'.messages[k].ref # Inl!Change'
    BY <1>10, <1>13, <2>1 DEF AllCarded, Carded
  <2> QED
    BY <2>1, <2>2, <2>3, <2>4 DEF Making
<1>20. PlansShown'
  BY <1>10, PlansStay
<1>21. Parented'
  BY <1>10 DEF Parented
<1> QED
  BY <1>14, <1>15, <1>17, <1>18, <1>19, <1>20, <1>21

\* A task made of a request, or of the work of an ended one.
LEMMA NewTaskKeeps ==
    ASSUME ChatInv, NEW parent \in Nat,
           parent > 0 => parent \in DOMAIN chat.tasks /\ chat.tasks[parent].status \in {"FAILED", "ABORTED"},
           NEW turn \in Turns, turn.pc # "loop", turn.before = 0, turn.recent = 0,
           chat' = [Inl!WithTask(chat, parent) EXCEPT !.turn = turn]
    PROVE  ChatInv'
<1> USE DEF ChatInv
<1>1. /\ ChatShape /\ chat.changes \in Seq(Changes) /\ chat.tasks \in Seq(Jobs) /\ chat.messages \in Seq(Says)
      /\ Len(chat.messages) \in Nat /\ Len(chat.tasks) \in Nat
  BY DEF ChatType, ChatShape
<1>2. PICK job : job = Inl!NewTask(parent)
  OBVIOUS
<1>3. job \in Jobs /\ job.parent = parent /\ job.status # "AWAITING_PLAN_APPROVAL"
  <2>1. CASE parent = 0
    BY <1>2, <2>1 DEF Inl!NewTask, Jobs
  <2>2. CASE parent # 0
    <3>1. chat.tasks[parent] \in Jobs
      BY <1>1, <2>2
    <3>2. chat.tasks[parent].plan \in Nat
      BY <3>1, JobParts
    <3> QED
      BY <1>2, <2>2, <3>2 DEF Inl!NewTask, Jobs
  <2> QED
    BY <2>1, <2>2
<1>4. PICK ms : ms = Inl!Pills \o <<Inl!Message("task_card", Len(chat.tasks) + 1)>>
  OBVIOUS
<1>5. /\ ms \in Seq(Says)
      /\ \A i \in DOMAIN ms : ms[i].kind \in {"pills", "task_card"} /\ (ms[i].kind = "task_card" => ms[i].ref = Len(chat.tasks) + 1)
  <2>1. PICK ref \in Nat : ref = Len(chat.tasks) + 1
    BY <1>1
  <2>2. PICK card : card = Inl!Message("task_card", ref)
    OBVIOUS
  <2>3. PICK pill : pill = Inl!Message("pills", 0)
    OBVIOUS
  <2>4. card \in Says /\ card.kind = "task_card" /\ card.ref = ref
    BY <2>1, <2>2 DEF Says, Inl!Message
  <2>5. pill \in Says /\ pill.kind = "pills"
    BY <2>3 DEF Says, Inl!Message
  <2>6. CASE chat.turn.calls > 0
    <3>1. ms = <<pill>> \o <<card>>
      BY <1>4, <2>1, <2>2, <2>3, <2>6 DEF Inl!Pills
    <3>2. ms \in Seq(Says) /\ DOMAIN ms = 1 .. 2 /\ ms[1] = pill /\ ms[2] = card
      BY <2>4, <2>5, <3>1
    <3>3. \A i \in DOMAIN ms : ms[i] = pill \/ ms[i] = card
      BY <3>2
    <3> QED
      BY <2>1, <2>4, <2>5, <3>2, <3>3
  <2>7. CASE ~(chat.turn.calls > 0)
    <3>1. ms = << >> \o <<card>>
      BY <1>4, <2>1, <2>2, <2>7 DEF Inl!Pills
    <3>2. ms = <<card>>
      BY <3>1
    <3> QED
      BY <2>1, <2>4, <3>2
  <2> QED
    BY <2>6, <2>7
<1>6. /\ ChatShape' /\ chat'.turns = chat.turns /\ chat'.stream = chat.stream /\ chat'.turn = turn
      /\ chat'.messages = chat.messages \o ms /\ chat'.tasks = Append(chat.tasks, job)
      /\ chat'.active = Len(chat.tasks) + 1
      /\ chat'.real = chat.real /\ chat'.changes = chat.changes
  BY <1>1, <1>2, <1>4 DEF Inl!WithTask, Inl!Say, ChatShape
<1>7. PICK n \in Nat :
         /\ n = Len(chat.tasks) /\ chat'.tasks \in Seq(Jobs) /\ Len(chat'.tasks) = n + 1
         /\ DOMAIN chat.tasks = 1 .. n /\ DOMAIN chat'.tasks = 1 .. n + 1 /\ chat'.tasks[n + 1] = job
         /\ \A j \in DOMAIN chat.tasks : chat'.tasks[j] = chat.tasks[j]
  <2>1. PICK old, new : old = chat.tasks /\ new = chat'.tasks
    OBVIOUS
  <2>2. old \in Seq(Jobs) /\ new = Append(old, job) /\ job \in Jobs
    BY <1>1, <1>3, <1>6, <2>1
  <2>3. /\ new \in Seq(Jobs) /\ Len(new) = Len(old) + 1 /\ Len(old) \in Nat /\ new[Len(old) + 1] = job
        /\ DOMAIN old = 1 .. Len(old) /\ DOMAIN new = 1 .. Len(old) + 1
        /\ \A j \in DOMAIN old : new[j] = old[j]
    BY <2>2, Added
  <2> QED
    BY <2>1, <2>3
<1>8. \A j \in DOMAIN chat'.tasks : j \in DOMAIN chat.tasks \/ j = n + 1
  BY <1>7
<1>9. DOMAIN chat.tasks \subseteq DOMAIN chat'.tasks /\ n + 1 \in DOMAIN chat'.tasks
  BY <1>7
<1>10. /\ chat'.messages \in Seq(Says)
       /\ Len(chat'.messages) \in Nat /\ Len(chat'.messages) >= Len(chat.messages)
       /\ \A k \in DOMAIN chat'.messages :
             \/ k \in DOMAIN chat.messages /\ chat'.messages[k] = chat.messages[k]
             \/ \E i \in DOMAIN ms : chat'.messages[k] = ms[i]
  <2>1. ms \in Seq(Says) /\ chat'.messages = chat.messages \o ms
    BY <1>5, <1>6
  <2>2. GrewBy(ms)
    BY <2>1, Grown
  <2> QED
    BY <2>2 DEF GrewBy
<1>11. ChatType'
  <2>1. chat'.active \in Nat /\ chat'.tasks \in Seq(Jobs) /\ chat'.messages \in Seq(Says)
    BY <1>1, <1>6, <1>7, <1>10
  <2> QED
    BY <1>6, <2>1 DEF ChatType, ChatShape
<1>12. Pointing'
  BY <1>6, <1>7, <1>10 DEF Pointing
<1>13. AllFaithful'
  BY <1>6 DEF AllFaithful, Faithful
<1>14. AllCarded'
  <2> SUFFICES ASSUME NEW k \in DOMAIN chat'.messages PROVE Carded(chat.messages[k])'
    BY DEF AllCarded
  <2>1. CASE k \in DOMAIN chat.messages /\ chat'.messages[k] = chat.messages[k]
    BY <1>6, <1>9, <2>1 DEF AllCarded, Carded
  <2>2. CASE \E i \in DOMAIN ms : chat'.messages[k] = ms[i]
    BY <1>5, <1>7, <1>9, <2>2 DEF Carded
  <2> QED
    BY <1>10, <2>1, <2>2
<1>15. Making'
  BY <1>6 DEF Making
<1>16. PlansShown'
  <2> SUFFICES ASSUME NEW t \in DOMAIN chat.tasks, chat.tasks[t].status = "AWAITING_PLAN_APPROVAL"
               PROVE  OnLastCard(t, chat.tasks[t].plan)'
    BY <1>3, <1>7, <1>8 DEF PlansShown
  <2>1. PICK offer : offer = chat.tasks[t].plan /\ OnLastCard(t, offer)
    BY DEF PlansShown
  <2>2. \A i \in DOMAIN ms : ms[i].kind = "plan_card" => ms[i].ref # t
    BY <1>5
  <2>3. OnLastCard(t, offer)'
    BY <1>5, <1>6, <1>11, <2>1, <2>2, TalkIsNoCard
  <2> QED
    BY <1>7, <2>1, <2>3 DEF OnLastCard
<1>17. Parented'
  <2> SUFFICES ASSUME NEW t \in DOMAIN chat'.tasks, chat'.tasks[t].parent > 0
               PROVE  /\ chat'.tasks[t].parent \in DOMAIN chat.tasks
                      /\ chat.tasks[chat'.tasks[t].parent].status \in {"FAILED", "ABORTED"}
    BY <1>7, <1>9 DEF Parented
  <2>1. CASE t \in DOMAIN chat.tasks
    BY <1>7, <2>1 DEF Parented
  <2>2. CASE t = n + 1
    BY <1>3, <1>7, <2>2
  <2> QED
    BY <1>8, <2>1, <2>2
<1> QED
  BY <1>11, <1>12, <1>13, <1>14, <1>15, <1>16, <1>17

\* A large change becomes a task.
LEMMA CreateTaskKeeps == ASSUME ChatInv, Inl!CreateTask PROVE ChatInv'
<1>1. PICK turn : turn = [Inl!NoTurn EXCEPT !.pc = "planning"]
  OBVIOUS
<1>2. turn \in Turns /\ turn.pc = "planning" /\ turn.before = 0 /\ turn.recent = 0
  <2>1. Inl!NoTurn = [pc |-> Inl!NoTurn.pc, calls |-> Inl!NoTurn.calls, read |-> Inl!NoTurn.read, before |-> Inl!NoTurn.before,
                  recent |-> Inl!NoTurn.recent, targets |-> Inl!NoTurn.targets]
    BY NoTurnIsOne, TurnParts
  <2>2. turn = [pc |-> "planning", calls |-> Inl!NoTurn.calls, read |-> Inl!NoTurn.read, before |-> Inl!NoTurn.before,
                recent |-> Inl!NoTurn.recent, targets |-> Inl!NoTurn.targets]
    BY <1>1, <2>1
  <2>3. turn \in Turns
    BY <2>2, NoTurnIsOne, TurnParts, TurnMade
  <2> QED
    BY <2>2, <2>3, NoTurnIsOne
<1>3. PICK parent \in Nat : parent = 0
  OBVIOUS
<1>4. chat' = [Inl!WithTask(chat, parent) EXCEPT !.turn = turn]
  BY <1>1, <1>3 DEF Inl!CreateTask
<1> QED
  BY <1>2, <1>3, <1>4, NewTaskKeeps

\* A failed task is resumed by a child.
LEMMA ResumeKeeps == ASSUME ChatInv, Inl!Resume PROVE ChatInv'
<1>1. PICK parent \in Nat : parent = chat.turn.recent
  BY TurnParts DEF ChatInv, ChatType
<1>2. parent \in DOMAIN chat.tasks /\ chat.tasks[parent].status \in {"FAILED", "ABORTED"}
  <2>1. chat.tasks \in Seq(Jobs) /\ parent <= Len(chat.tasks) /\ parent > 0
    BY <1>1 DEF ChatInv, ChatType, Pointing, Inl!Resume
  <2> QED
    BY <1>1, <2>1 DEF Inl!Resume
<1>3. chat' = [Inl!WithTask(chat, parent) EXCEPT !.turn = Inl!NoTurn]
  BY <1>1 DEF Inl!Resume
<1> QED
  BY <1>2, <1>3, NoTurnIsOne, NewTaskKeeps

\* What the cards say follows.
LEMMA ChatIsAsShown == ASSUME ChatInv PROVE Inl!InlineAsShown
<1>1. Inl!AppliedIsShown
  <2> SUFFICES ASSUME NEW i \in DOMAIN chat.changes, Inl!Card(i) > 0, chat.messages[Inl!Card(i)].decision = "applied"
               PROVE  chat.changes[i].copied = chat.changes[i].shown
    BY DEF Inl!AppliedIsShown
  <2>1. PICK k : k = Inl!Card(i)
    OBVIOUS
  <2>2. k \in DOMAIN chat.messages /\ chat.messages[k].kind = "diff_card" /\ chat.messages[k].ref = i
    BY <2>1, CardIsOne DEF ChatInv
  <2> QED
    BY <2>1, <2>2 DEF ChatInv, AllCarded, Carded
<1>2. Inl!PromotionKeepsSeen
  BY DEF ChatInv, AllFaithful, Faithful, Inl!PromotionKeepsSeen
<1>3. Inl!LivePlanIsLastCard
  <2> SUFFICES ASSUME Inl!Live.plan > 0 PROVE Inl!PlanCard(Inl!Live.task, Inl!Live.plan) = << >>
    BY DEF Inl!LivePlanIsLastCard
  <2>1. PICK t : t = chat.active
    OBVIOUS
  <2>2. /\ t > 0 /\ chat.tasks[t].status = "AWAITING_PLAN_APPROVAL"
        /\ Inl!Live.task = t /\ Inl!Live.plan = chat.tasks[t].plan
    BY <2>1 DEF Inl!Live
  <2>3. t \in DOMAIN chat.tasks
    BY <2>1, <2>2 DEF ChatInv, ChatType, Pointing
  <2>4. OnLastCard(t, chat.tasks[t].plan)
    BY <2>2, <2>3 DEF ChatInv, PlansShown
  <2> QED
    BY <2>2, <2>4, SameCard DEF ChatInv
<1>4. Inl!ResumedHadEnded
  BY DEF ChatInv, Parented, Inl!ResumedHadEnded
<1> QED
  BY <1>1, <1>2, <1>3, <1>4 DEF Inl!InlineAsShown

\* For any messages, files and plans of a thread, its cards say what was done.
LEMMA ChatStaysAsShown == Inl!Init /\ [][Inl!Next]_chat => []Inl!InlineAsShown
<1>1. ChatInv /\ Inl!Next => ChatInv'
  <2> SUFFICES ASSUME ChatInv, Inl!Next PROVE ChatInv'
    OBVIOUS
  <2>1. CASE TurnStep
    BY <2>1, TurnStepKeeps
  <2>2. CASE TaskStep
    BY <2>2, TaskStepKeeps
  <2>3. CASE Inl!CreateTask \/ Inl!Resume \/ Inl!Restart
    BY <2>3, CreateTaskKeeps, ResumeKeeps, RestartKeeps
  <2>4. CASE \E likely \in SUBSET Inl!Files : Inl!Prepare(likely)
    BY <2>4, PrepareKeeps
  <2>5. CASE \E f \in Inl!Files : Inl!PatchFails(f) \/ Inl!UserEdits(f)
    BY <2>5, PatchFailsKeeps, UserEditsKeeps
  <2>6. CASE \E files \in SUBSET Inl!Files : Inl!Changed(files)
    BY <2>6, ChangedKeeps
  <2>7. CASE \E i \in DOMAIN chat.changes : Inl!Discard(i) \/ (\E files \in SUBSET Inl!Files : Inl!Promote(i, files))
    BY <2>7, DiscardKeeps, PromoteKeeps
  <2>8. CASE \E t \in DOMAIN chat.tasks : \E offer \in 1 .. MaxPlans : Inl!PlanMade(t, offer)
    BY <2>8, PlanMadeKeeps
  <2> QED
    BY <2>1, <2>2, <2>3, <2>4, <2>5, <2>6, <2>7, <2>8 DEF Inl!Next, TurnStep, TaskStep
<1>2. ChatInv /\ UNCHANGED chat => ChatInv'
  <2> SUFFICES ASSUME ChatInv, UNCHANGED chat PROVE ChatInv'
    OBVIOUS
  <2> QED
    BY DEF ChatInv, ChatType, Pointing, AllCarded, Carded, AllFaithful, Faithful, Making, Inl!Change, PlansShown,
           OnLastCard, IsPlanCard, Parented
<1> QED
  BY <1>1, <1>2, InlineStarts, ChatIsAsShown, PTL

\* For any number of messages, calls, tasks and plans: a card of the chat that says "applied"
\* had what it showed copied, whole, through discards, failed promotions and restarts; the edits
\* that were in a file when the change began are kept (later ones may not be); and the plan that awaits approval is the last one shown.
THEOREM CardsSayWhatWasDone == Spec => []InlineAsShown
<1>1. Init => Inl!Init
  BY DEF Init
<1>2. [Next]_vars => [Inl!Next]_chat
  BY DEF Next, vars
<1>3. Inl!InlineAsShown => InlineAsShown
  BY DEF InlineAsShown
<1> QED
  BY <1>1, <1>2, <1>3, ChatStaysAsShown, PTL DEF Spec
===============================================================================

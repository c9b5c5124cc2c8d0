------------------------------- MODULE PatchOps -------------------------------
(***************************************************************************)
(* A patch candidate, operation by operation: the preflight simulates every*)
(* operation on a copy of the sources, and only when it has no issue are   *)
(* the operations applied to the files, one after the other, by code of    *)
(* their own.  The two must agree, or a patch the preflight accepts tears. *)
(*                                                                         *)
(* A file is a sequence of lines; a line is a declaration, named, one of   *)
(* the two halves "try" and "except" of a statement that parses only whole,*)
(* "" or "junk", a line that parses nowhere.  A diff has one hunk.         *)
(*                                                                         *)
(* Node operations are those on Python.  The preflight splices their       *)
(* content as it stands between the offsets of the node, the application   *)
(* edits the parsed module, so that such an operation has its content      *)
(* twice: "raw", the lines that the splice leaves where the node was, with *)
(* whatever the offsets leave out (the decorators) or glue on (an insertion*)
(* begins right behind the node, without a line break), and "text", the    *)
(* statements it parses to, as the module writes them.                     *)
(***************************************************************************)
EXTENDS Naturals, Sequences, FiniteSets

CONSTANTS
    Trees,        \* the sources a patch may meet: functions of some files to their lines
    Ops,          \* the operations
    MaxOps,       \* the length of a patch
    Python,       \* the files whose syntax is checked
    Scope,        \* allowed_files
    Forbidden,    \* the files of ForbiddenPathPolicy
    Escaping      \* those that resolve outside the base directory

VARIABLE patch

Halves == {"try", "except"}

\* compile(): every try has an except after it and every except a try before it.
Valid(text) ==
    /\ "junk" \notin {text[i] : i \in DOMAIN text}
    /\ \A i \in DOMAIN text : text[i] = "try" =>
         \E j \in i + 1 .. Len(text) : text[j] = "except"
    /\ \A i \in DOMAIN text : text[i] = "except" => \E j \in 1 .. i - 1 : text[j] = "try"

Occurrences(text, part) ==
    {i \in 1 .. Len(text) + 1 - Len(part) : SubSeq(text, i, i + Len(part) - 1) = part}

First(places) == CHOOSE i \in places : \A j \in places : i <= j

\* The lines from..to of a text replaced.
Splice(text, from, to, new) == SubSeq(text, 1, from - 1) \o new \o SubSeq(text, to + 1, Len(text))

Put(tree, file, text) == [f \in DOMAIN tree \cup {file} |-> IF f = file THEN text ELSE tree[f]]
Drop(tree, file) == [f \in DOMAIN tree \ {file} |-> tree[f]]

-----------------------------------------------------------------------------
(* What an operation makes of a text: the set of its result, empty when it   *)
(* cannot be applied                                                         *)

\* replace_range: an end beyond the file is taken back to the last line.
RangeEdit(op, text) ==
    LET to == IF op.from \in DOMAIN text /\ op.to > Len(text) THEN Len(text) ELSE op.to IN
    IF op.from >= 1 /\ op.from <= to /\ to <= Len(text)
    THEN {Splice(text, op.from, to, op.text)} ELSE {}

\* search_replace: the search text must occur exactly once.
SearchEdit(op, text) ==
    LET places == Occurrences(text, op.search) IN
    IF Cardinality(places) = 1
    THEN {Splice(text, First(places), First(places) + Len(op.search) - 1, op.text)} ELSE {}

\* A hunk with the last u lines of its leading context and the first v of its trailing one.
Before(op, u, v) == SubSeq(op.pre, Len(op.pre) - u + 1, Len(op.pre)) \o op.removed \o SubSeq(op.post, 1, v)
After(op, u, v) == SubSeq(op.pre, Len(op.pre) - u + 1, Len(op.pre)) \o op.text \o SubSeq(op.post, 1, v)

\* The shrunk hunks that may be tried: one that only inserts between two contexts
\* drops all of a side only if that side is still in the file.
Shrunk(op, text) ==
    {c \in (0 .. Len(op.pre)) \X (0 .. Len(op.post)) :
       /\ Before(op, c[1], c[2]) # << >>
       /\ Occurrences(text, Before(op, c[1], c[2])) # {}
       /\ op.removed = << >> /\ op.pre # << >> /\ op.post # << >> =>
            /\ c[1] = 0 => Occurrences(text, op.pre) # {}
            /\ c[2] = 0 => Occurrences(text, op.post) # {}}

\* apply_hunk_to_text: with the most context that fits, the leading one preferred, at
\* the first place where it fits.
DiffEdit(op, text) ==
    IF Shrunk(op, text) = {} THEN {}
    ELSE LET c == CHOOSE x \in Shrunk(op, text) : \A y \in Shrunk(op, text) :
                    \/ x[1] + x[2] > y[1] + y[2]
                    \/ x[1] + x[2] = y[1] + y[2] /\ x[1] >= y[1]
             at == First(Occurrences(text, Before(op, c[1], c[2])))
         IN {Splice(text, at, at + Len(Before(op, c[1], c[2])) - 1, After(op, c[1], c[2]))}

\* Where replace_node and insert_after_node find their node: the text must parse and the
\* name be declared once.
NodePlaces(op, text) ==
    IF Valid(text) /\ Cardinality(Occurrences(text, <<op.name>>)) = 1
    THEN Occurrences(text, <<op.name>>) ELSE {}

\* In the preflight, between its offsets.
NodeSplice(op, text) == {Splice(text, at, at, op.raw) : at \in NodePlaces(op, text)}

\* In the application, in the parsed module.
NodeEdit(op, text) ==
    {IF op.kind = "replace_node" THEN Splice(text, at, at, op.text)
                                 ELSE Splice(text, at + 1, at, op.text) : at \in NodePlaces(op, text)}

\* The operations that are one code in both.
TextEdit(op, text) ==
    CASE op.kind = "replace_range"  -> RangeEdit(op, text)
      [] op.kind = "search_replace" -> SearchEdit(op, text)
      [] op.kind = "apply_diff"     -> DiffEdit(op, text)
      [] OTHER                      -> {}

NodeKinds == {"replace_node", "insert_after_node"}
Kinds == NodeKinds \cup {"create_file", "delete_file", "replace_range", "search_replace", "apply_diff"}
IsNode(op) == op.kind \in NodeKinds

SimulatedEdit(op, text) == IF IsNode(op) THEN NodeSplice(op, text) ELSE TextEdit(op, text)

\* _python_parse_statements: what replace_node and insert_after_node put in.
Statements(op) ==
    /\ Valid(op.text) /\ op.text # << >>
    /\ op.kind = "replace_node" => Len(op.text) = 1 /\ op.text[1] \notin Halves

-----------------------------------------------------------------------------
(* The preflight                                                            *)

NoPatch == [pc |-> "idle", tree |-> << >>, ops |-> << >>, i |-> 1, sim |-> << >>,
            mutated |-> {}, issues |-> {}, watched |-> FALSE, errors |-> FALSE, touched |-> {}]

Op == patch.ops[patch.i]

\* preflight_patch_candidate, on a patch not seen yet: the policy judges the whole patch before anything else.
Submit(tree, ops) ==
    /\ patch' = IF \E k \in DOMAIN ops : ops[k].file \in Forbidden
                THEN [NoPatch EXCEPT !.pc = "refused", !.tree = tree, !.ops = ops,
                                     !.issues = {"POLICY_VIOLATION"}]
                ELSE [NoPatch EXCEPT !.pc = "preflight", !.tree = tree, !.ops = ops, !.sim = tree]

\* Why an operation cannot be simulated on the sources as the operations before it left
\* them, or nothing.
Issue(op, sim) ==
    CASE op.file \notin Scope -> {"SCOPE_VIOLATION"}
      [] op.file \in Scope /\ op.file \in Escaping -> {"PATH_ESCAPE"}
      [] OTHER ->
           IF op.kind = "create_file" THEN (IF op.file \in DOMAIN sim THEN {"FILE_EXISTS"} ELSE {})
           ELSE IF op.file \notin DOMAIN sim THEN {"FILE_MISSING"}
           ELSE IF op.kind = "delete_file" \/ SimulatedEdit(op, sim[op.file]) # {} THEN {}
           ELSE IF op.kind = "replace_range" THEN {"RANGE_INVALID"}
           ELSE IF IsNode(op) /\ ~Valid(sim[op.file]) THEN {"APPLY_ERROR"}
           ELSE IF \/ op.kind = "search_replace" /\ Occurrences(sim[op.file], op.search) # {}
                   \/ IsNode(op) /\ Occurrences(sim[op.file], <<op.name>>) # {}
                THEN {"ANCHOR_AMBIGUOUS"}
           ELSE IF op.file \in patch.mutated /\ ~IsNode(op) THEN {"ORDER_CONFLICT"}
           ELSE {"ANCHOR_MISSING"}

Simulated(op, sim) ==
    CASE op.kind = "create_file" -> Put(sim, op.file, op.text)
      [] op.kind = "delete_file" -> Drop(sim, op.file)
      [] OTHER -> Put(sim, op.file, CHOOSE t \in SimulatedEdit(op, sim[op.file]) : TRUE)

\* Mutant: every operation is checked on the file as it was.
PreflightOpOnFile ==
    /\ patch.pc = "preflight" /\ patch.i <= Len(patch.ops)
    /\ LET issue == Issue(Op, patch.tree) IN
       patch' = [patch EXCEPT !.i = @ + 1, !.issues = @ \cup issue,
                              !.sim = IF issue = {} THEN Simulated(Op, patch.tree) ELSE @,
                              !.mutated = IF issue = {} THEN @ \cup {Op.file} ELSE @]

\* An operation with an issue is left out of the simulation, which goes on.
PreflightOp ==
    /\ patch.pc = "preflight" /\ patch.i <= Len(patch.ops)
    /\ LET issue == Issue(Op, patch.sim) IN
       patch' = [patch EXCEPT !.i = @ + 1, !.issues = @ \cup issue,
                              !.sim = IF issue = {} THEN Simulated(Op, @) ELSE @,
                              !.mutated = IF issue = {} THEN @ \cup {Op.file} ELSE @]

NodeFiles == {patch.ops[k].file : k \in {n \in DOMAIN patch.ops : IsNode(patch.ops[n])}}

\* The syntax of the files is judged once, after all the operations, but for the files
\* of a node operation, which is left to its application.
PreflightEnds ==
    /\ patch.pc = "preflight" /\ patch.i > Len(patch.ops)
    /\ LET broken == {f \in (patch.mutated \ NodeFiles) \cap DOMAIN patch.sim \cap Python :
                        ~Valid(patch.sim[f])}
           issues == patch.issues \cup (IF broken = {} THEN {} ELSE {"APPLY_ERROR"})
       IN IF issues = {} THEN \E w \in BOOLEAN : patch' = [patch EXCEPT !.i = 1, !.pc = "apply", !.watched = w]
          ELSE patch' = [patch EXCEPT !.issues = issues, !.pc = "refused"]

-----------------------------------------------------------------------------
(* The application                                                          *)

\* The texts that may be written: what was made of the file, if its syntax passes where
\* the operation is one that checks it.
Checked(op, texts) == {t \in texts : op.file \in Python => Valid(t)}

\* What an operation writes to its file.  Range and search operations leave the syntax to
\* the preflight; delete_file removes directories, and leaves a regular file where it is.
Written(op, tree) ==
    IF op.kind = "create_file"
    THEN IF op.file \in DOMAIN tree THEN {} ELSE Checked(op, {op.text})
    ELSE IF op.file \notin DOMAIN tree THEN {}
    ELSE CASE op.kind = "delete_file" -> {tree[op.file]}
           [] op.kind \in {"replace_range", "search_replace"} -> TextEdit(op, tree[op.file])
           [] op.kind = "apply_diff" -> Checked(op, TextEdit(op, tree[op.file]))
           [] OTHER -> IF Statements(op) THEN Checked(op, NodeEdit(op, tree[op.file])) ELSE {}

\* An operation that fails is noted, and the ones after it are applied all the same.  A
\* validator given for the application (watched) may find errors in what was just written,
\* and those are noted too.
ApplyOp ==
    /\ patch.pc = "apply" /\ patch.i <= Len(patch.ops)
    /\ LET new == Written(Op, patch.tree) IN
       IF new = {} THEN patch' = [patch EXCEPT !.i = @ + 1, !.errors = TRUE]
       ELSE \E faulty \in BOOLEAN :
              /\ faulty => patch.watched /\ Op.kind # "delete_file"
              /\ patch' = [patch EXCEPT !.i = @ + 1, !.touched = @ \cup {Op.file},
                                        !.tree = Put(@, Op.file, CHOOSE t \in new : TRUE),
                                        !.errors = @ \/ faulty]

\* An error is raised at the end, with what was written left written.
ApplyEnds ==
    /\ patch.pc = "apply" /\ patch.i > Len(patch.ops)
    /\ patch' = [patch EXCEPT !.pc = IF patch.errors THEN "torn" ELSE "applied"]

-----------------------------------------------------------------------------

Init == patch = NoPatch

Patches == UNION {[1 .. n -> Ops] : n \in 1 .. MaxOps}

Next ==
    \/ patch.pc = "idle" /\ \E t \in Trees, ops \in Patches : Submit(t, ops)
    \/ PreflightOp \/ PreflightEnds \/ ApplyOp \/ ApplyEnds

Deleted == {patch.ops[k].file : k \in {n \in DOMAIN patch.ops : patch.ops[n].kind = "delete_file"}}

\* The operations whose application checks the syntax of what it writes.
CheckedKinds == NodeKinds \cup {"create_file", "apply_diff"}

IsLast(k) == \A j \in DOMAIN patch.ops : j > k => patch.ops[j].file # patch.ops[k].file

\* What the preflight accepted is what lands.  A patch that was applied left every file as
\* the simulation left it and with its syntax whole, but for those it deletes and for those
\* of a node operation, which is simulated by one code and applied by another: of these the
\* syntax is whole when the last operation on the file checks it, and not else.  A patch
\* that tore had an operation whose application checks more than the preflight does, a
\* deletion, which the application does not carry out, or a validator that looked on.
LandsAsChecked ==
    /\ patch.pc = "applied" =>
         /\ \A f \in patch.touched \ (Deleted \cup NodeFiles) :
              /\ f \in DOMAIN patch.sim /\ patch.tree[f] = patch.sim[f]
              /\ f \in Python => Valid(patch.tree[f])
         /\ \A k \in DOMAIN patch.ops :
              patch.ops[k].file \in Python /\ patch.ops[k].kind \in CheckedKinds /\ IsLast(k) =>
                Valid(patch.tree[patch.ops[k].file])
    /\ patch.pc = "torn" =>
         \/ Deleted # {}
         \/ patch.watched
         \/ \E k \in DOMAIN patch.ops :
              \/ IsNode(patch.ops[k])
              \/ patch.ops[k].kind \in {"create_file", "apply_diff"} /\ patch.ops[k].file \in Python
=============================================================================

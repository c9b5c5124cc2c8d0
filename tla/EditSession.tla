------------------------------ MODULE EditSession ------------------------------
(***************************************************************************)
(* The edits of one chat turn: a shadow that holds the files the turn has  *)
(* touched, patched by one edit at a time; the files of an edit are then   *)
(* promoted to the real workspace, or restored in the shadow from there.   *)
(*                                                                         *)
(* The text of a file is known by the edits in it; a file that is not in   *)
(* the domain of a tree does not exist.                                    *)
(***************************************************************************)
EXTENDS Naturals, Functions

CONSTANTS
    Names,       \* the files of the workspace
    MaxWrites    \* bound: the edits and the writes from outside

VARIABLE edit

\* The trees, the files the shadow has held, those of the edit that is held for a
\* decision, the diff shown of it and its number; of the history, the edits that failed halfway, those
\* of a rejected diff, those of an accepted one or from outside, and the files written from
\* outside since the shadow had them.
NoEdit ==
    [pc |-> "none", real |-> << >>, open |-> FALSE, shadow |-> << >>, ever |-> {}, pending |-> {},
     shown |-> << >>, id |-> 0, writes |-> 0, torn |-> {}, rejected |-> {}, granted |-> {},
     outside |-> {}]

Copied(from, to, files) ==
    [f \in DOMAIN to \cup (files \cap DOMAIN from) |-> IF f \in files \cap DOMAIN from THEN from[f] ELSE to[f]]

-----------------------------------------------------------------------------

\* A turn begins with the workspace as it is, and no shadow.
Begin(files) ==
    /\ edit.pc = "none"
    /\ edit' = [edit EXCEPT !.pc = "ready", !.real = [f \in files |-> {}]]

\* The shadow of the turn is made of the files of its first edit; a file a later edit is
\* the first to touch is copied from the real workspace then.
Seeded(touched) ==
    [edit EXCEPT !.open = TRUE, !.ever = @ \cup touched,
                 !.shadow = Copied(edit.real, IF edit.open THEN @ ELSE << >>, touched \ edit.ever)]

\* What the patch engine makes of the files it writes.  delete_file writes nothing.
Patched(tree, ops, files, id) ==
    [f \in DOMAIN tree \cup (ops.create \cap files) |->
        IF f \in ops.create \cap files THEN {id}
        ELSE IF f \in ops.change \cap files THEN tree[f] \cup {id} ELSE tree[f]]

Touched(ops) == ops.create \cup ops.change \cup ops.delete

\* Operations without a file, or with one that is no path of the workspace, touch nothing:
\* the agent is told, and the session is as it was.  Any other opens the shadow first.
\* The preflight may refuse the patch, and so it does when a file is, or is not, there.
Refused(ops) ==
    /\ edit.pc = "ready"
    /\ edit' = Seeded(Touched(ops))

\* The patch is applied: it is pending, and its diff is made against the real workspace.
Applied(ops) ==
    /\ edit.pc = "ready"
    /\ LET e == Seeded(Touched(ops))
           new == Patched(e.shadow, ops, Touched(ops), e.writes + 1)
       IN /\ ops.create \cap DOMAIN e.shadow = {} /\ ops.change \cup ops.delete \subseteq DOMAIN e.shadow
          /\ edit' = [e EXCEPT !.pc = "held", !.writes = @ + 1, !.shadow = new, !.pending = Touched(ops),
                               !.shown = [f \in Touched(ops) |-> new[f]], !.id = e.writes + 1]

\* Operations fail after the preflight, others are written: the session raises with the
\* files of the edit neither pending nor restored.
Torn(ops, files) ==
    /\ edit.pc = "ready" /\ files # {} /\ files \subseteq ops.create \cup ops.change
    /\ LET e == Seeded(Touched(ops)) IN
       /\ ops.create \cap DOMAIN e.shadow = {} /\ ops.change \cup ops.delete \subseteq DOMAIN e.shadow
       /\ edit' = [e EXCEPT !.writes = @ + 1, !.torn = @ \cup {e.writes + 1},
                            !.shadow = Patched(@, ops, files, e.writes + 1)]

\* The edit is accepted, at once or by the user: its files are copied, and the ones the
\* shadow lacks are left as they are.
Accept ==
    /\ edit.pc = "held"
    /\ edit' = [edit EXCEPT !.pc = "ready", !.real = Copied(edit.shadow, @, edit.pending),
                            !.granted = @ \cup UNION {edit.shown[f] : f \in edit.pending},
                            !.pending = {}, !.outside = @ \ edit.pending]

\* Mutant: what the real workspace does not have is left in the shadow.
RestoredKeepingNew(shadow, real, files) == Copied(real, shadow, files)

\* Files are restored from the real workspace; those it does not have are dropped.
Restored(shadow, real, files) ==
    Restrict(Copied(real, shadow, files), DOMAIN shadow \ (files \ DOMAIN real))

Reject ==
    /\ edit.pc = "held"
    /\ edit' = [edit EXCEPT !.pc = "ready", !.shadow = Restored(@, edit.real, edit.pending),
                            !.rejected = @ \cup {edit.id}, !.pending = {}, !.outside = @ \ edit.pending]

\* The user, or a command of the turn, writes a file of the real workspace.
Outside(f) ==
    /\ edit.pc \in {"ready", "held"} /\ edit.writes < MaxWrites
    /\ edit' = [edit EXCEPT !.writes = @ + 1, !.granted = @ \cup {edit.writes + 1},
                            !.outside = @ \cup ({f} \cap edit.ever),
                            !.real = [g \in DOMAIN @ \cup {f} |-> IF g = f THEN {edit.writes + 1} ELSE @[g]]]

\* The turn ends, an edit still held included: the shadow is removed.
Close ==
    /\ edit.pc \in {"ready", "held"}
    /\ edit' = [edit EXCEPT !.pc = "closed", !.open = FALSE, !.shadow = << >>]

-----------------------------------------------------------------------------

Init == edit = NoEdit

Patches == {ops \in [create : SUBSET Names, change : SUBSET Names, delete : SUBSET Names] :
              /\ Touched(ops) # {}
              /\ ops.create \cap ops.change = {} /\ ops.delete \cap (ops.create \cup ops.change) = {}}

Next ==
    \/ \E fs \in SUBSET Names : Begin(fs)
    \/ edit.pc = "ready" /\ edit.writes < MaxWrites
       /\ \E ops \in Patches : \/ Refused(ops) \/ Applied(ops)
                               \/ \E fs \in SUBSET Names : Torn(ops, fs)
    \/ Accept \/ Reject \/ Close
    \/ \E f \in Names : Outside(f)

\* What the edits do to the real workspace.  Nothing is in it that no accepted diff has
\* shown and nobody else has written; in particular what a rejected diff has shown is not,
\* whatever edits follow on the same files.  And between two edits the shadow is the real
\* workspace on every file the turn has touched, but for what was written from outside
\* and for files with the leftovers of an edit that failed halfway.
EditsLandAsDecided ==
    /\ \A f \in DOMAIN edit.real :
         edit.real[f] \subseteq edit.granted /\ edit.real[f] \cap edit.rejected = {}
    /\ edit.pc = "ready" =>
         \A f \in edit.ever \ edit.outside :
            IF f \in DOMAIN edit.shadow
            THEN \/ edit.shadow[f] \cap edit.torn # {}
                 \/ f \in DOMAIN edit.real /\ edit.real[f] = edit.shadow[f]
            ELSE f \notin DOMAIN edit.real
=============================================================================

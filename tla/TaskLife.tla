------------------------------ MODULE TaskLife ------------------------------
(***************************************************************************)
(* What a client may rely on when it polls a task: whose turn it is, and   *)
(* that a task that is closed stays closed.  TaskStatus!PhaseOf gives the  *)
(* phase of a status.                                                      *)
(***************************************************************************)
VARIABLE phase

Init == phase = "preparing"

\* A plan is submitted for approval; feedback sends it back.
Submit == phase = "preparing" /\ phase' = "approval"
Revise == phase = "approval" /\ phase' = "preparing"
\* Approved, the run works, stopping to ask as often as it needs to.
Approve == phase = "approval" /\ phase' = "working"
Ask == phase = "working" /\ phase' = "asking"
Answer == phase = "asking" /\ phase' = "working"
\* Its result is up for review only after work, or an answer about its validation.
Finish == phase \in {"working", "asking"} /\ phase' = "review"
\* Any open phase may close; no closed one reopens.
Close == phase # "closed" /\ phase' = "closed"

Next == Submit \/ Revise \/ Approve \/ Ask \/ Answer \/ Finish \/ Close

Spec == Init /\ [][Next]_phase
=============================================================================

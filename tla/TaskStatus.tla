----------------------------- MODULE TaskStatus -----------------------------
(***************************************************************************)
(* The status of a task, the table of the transitions the domain layer     *)
(* accepts, and the classes of status the engine, the routes and the       *)
(* clients branch on.                                                      *)
(***************************************************************************)
EXTENDS FiniteSets

\* The rows of the transition table: what each status may become.
Transitions ==
    [ QUEUED                       |-> {"CONTEXT_READY", "FAILED", "ABORTED"},
      CONTEXT_READY                |-> {"AWAITING_PLAN_APPROVAL", "FAILED", "ABORTED"},
      AWAITING_PLAN_APPROVAL       |-> {"PLANNED", "CONTEXT_READY", "FAILED", "ABORTED"},
      PLANNED                      |-> {"EXECUTING", "FAILED", "ABORTED"},
      EXECUTING                    |-> {"VALIDATING", "AWAITING_SCOPE_DECISION",
                                        "AWAITING_STEP_REVIEW", "AWAITING_COMMAND_DECISION",
                                        "FAILED", "ABORTED"},
      AWAITING_SCOPE_DECISION      |-> {"EXECUTING", "FAILED", "ABORTED"},
      AWAITING_COMMAND_DECISION    |-> {"EXECUTING", "FAILED", "ABORTED"},
      AWAITING_STEP_REVIEW         |-> {"EXECUTING", "FAILED", "ABORTED"},
      VALIDATING                   |-> {"VALIDATED", "REPAIRING",
                                        "AWAITING_VALIDATION_DECISION", "FAILED", "ABORTED"},
      REPAIRING                    |-> {"EXECUTING", "VALIDATING", "FAILED", "ABORTED"},
      AWAITING_VALIDATION_DECISION |-> {"VALIDATED", "FAILED", "ABORTED"},
      VALIDATED                    |-> {"READY_FOR_REVIEW", "FAILED", "ABORTED"},
      READY_FOR_REVIEW             |-> {"PROMOTING", "ABORTED", "FAILED"},
      PROMOTING                    |-> {"SUCCEEDED", "FAILED", "ABORTED"},
      SUCCEEDED                    |-> {},
      FAILED                       |-> {},
      ABORTED                      |-> {} ]

Status == DOMAIN Transitions

CanTransition(from, to) == to \in Transitions[from]

\* The statuses the cancel route, the narrative and the baseline cleanup call terminal.
Terminal == {"SUCCEEDED", "FAILED", "ABORTED"}

\* The four places a run stops to ask the user, and the status each one shows.
Gates == {"scope", "command", "review", "validation"}

GateStatus ==
    [ scope      |-> "AWAITING_SCOPE_DECISION",
      command    |-> "AWAITING_COMMAND_DECISION",
      review     |-> "AWAITING_STEP_REVIEW",
      validation |-> "AWAITING_VALIDATION_DECISION" ]

\* The phase a status belongs to: how TaskRun is seen as a TaskLife.
PhaseOf(s) ==
    CASE s \in {"QUEUED", "CONTEXT_READY"}             -> "preparing"
      [] s = "AWAITING_PLAN_APPROVAL"                  -> "approval"
      [] s \in {GateStatus[g] : g \in Gates}           -> "asking"
      [] s = "READY_FOR_REVIEW"                        -> "review"
      [] s \in Terminal                                -> "closed"
      [] OTHER                                         -> "working"
=============================================================================

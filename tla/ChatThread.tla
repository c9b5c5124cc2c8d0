------------------------------ MODULE ChatThread ------------------------------
(***************************************************************************)
(* One chat thread of the controller.  A message or the decision of a gate *)
(* starts a turn, detached from the request that launched it; the request  *)
(* relays the events of the turn until it hears chat_done.  The turn loops *)
(* over replies of the model, runs tools, promotes edits, and may hold an  *)
(* edit or a command until the user decides.  The user may decide twice or *)
(* too late, stop the turn, and the process may be restarted.              *)
(***************************************************************************)
EXTENDS Naturals, FiniteSets

CONSTANTS
    MaxTurns,       \* bound: the turns of the thread
    MaxEdits,       \* bound: the edits of the thread
    MaxIters,       \* AI_EDITOR_CONTROLLER_MAX_ITERS
    MaxMalformed,   \* _MAX_MALFORMED
    Requests        \* what may happen beyond messages and decisions

\* "stop": a turn is stopped, one that has not begun with "stopearly" only;
\* "timeout": gates have a timeout;  "restart": the process restarts.
ASSUME ChatThreadAssumption ==
    /\ MaxTurns \in Nat /\ MaxEdits \in Nat /\ MaxIters \in Nat /\ MaxMalformed \in Nat
    /\ Requests \subseteq {"stop", "stopearly", "timeout", "restart"}

VARIABLES
    thread,     \* the stored thread
    turn,       \* the coroutine of the turn
    turns,      \* how many turns were launched: the last one's id
    edits,      \* how many edits were proposed: the last one's id
    real,       \* the edits that are in the real workspace
    active,     \* the thread is in _active_turns
    future,     \* the decision future of the gate the turn waits at
    stop,       \* the stop request under way
    toggle,     \* _step_review_by_thread
    ruled,      \* the command is among the workspace's rules
    tasksOn,    \* AI_EDITOR_TASK_SUBSYSTEM, read when the process starts
    relays,     \* the turns whose request still relays
    wanted,     \* history: the last message asked to review each edit
    lost,       \* history: edits of turns that raised or died with the process
    silent,     \* history: turns that ended without chat_done
    orphaned    \* history: the gate was left by a turn that died

memory == <<active, future, stop, toggle, relays>>
ghosts == <<wanted, lost, silent, orphaned>>
vars == <<thread, turn, turns, edits, real, ruled, tasksOn, memory, ghosts>>

Turns == 1 .. MaxTurns
Edits == 1 .. MaxEdits
GateKinds == {"mode", "clarify", "edit", "command"}
Modes == {"edit", "explain", "create_task", "resume"}
Phases == {"DECIDE", "EDIT", "EXPLAIN"}

\* A todo ledger: none, one with pending or in_progress items, or one without.
Ledgers == {"none", "open", "settled"}

\* The action types a phase allows.
Allows(phase) ==
    CASE phase = "DECIDE"  -> {"tool_call", "answer", "clarify", "propose_mode"}
      [] phase = "EDIT"    -> {"tool_call", "edit", "clarify", "submit_changes"}
      [] phase = "EXPLAIN" -> {"tool_call", "answer", "clarify"}

\* The modes a proposal may offer.
AllowedModes == IF tasksOn THEN Modes ELSE {"edit", "explain"}

\* What the routes launch.
MessageCalls == [kind : {"message"}, review : BOOLEAN]
ModeCalls == [kind : {"mode"}, mode : Modes]
ClarifyCalls == [kind : {"clarify"}, blank : BOOLEAN]
Calls == MessageCalls \cup ModeCalls \cup ClarifyCalls
NoCall == [kind |-> "none"]

NoTurn == [pc |-> "none", call |-> NoCall, phase |-> "DECIDE", review |-> FALSE, iters |-> 0,
           bad |-> 0, live |-> {}, ledger |-> "none", called |-> FALSE]

Runnable(pc) == turn.pc = pc /\ stop # "requested"

\* No turn can run: there is none, or its task was cancelled before it began.
NoneRuns == turn.pc \in {"none", "lost"}

-----------------------------------------------------------------------------
(* The end of a turn                                                        *)

\* Mutant: the registry entry of an ended turn stays.
EndedBusy == turn' = NoTurn /\ UNCHANGED active

\* _run_turn, its finally.
Ended == turn' = NoTurn /\ active' = FALSE

\* Mutant: no chat_done is sent.
SayNoDone == UNCHANGED <<relays, silent>>

\* chat_done: every relay that is subscribed ends.
SayDone == relays' = {} /\ UNCHANGED silent

\* The turn ends and nobody is told.
SayNothing == UNCHANGED relays /\ silent' = silent \cup {turns}

\* The gate the thread shows, set by this turn.
Show(t, kind, resume) == [t EXCEPT !.gate = kind, !.resume = resume]
\* Mutant: a gate is not cleared.
ClearedNot(t) == t

Cleared(t) == Show(t, "none", "DECIDE")

\* The history and the ledger the turn leaves to the next one.
Kept(t, live, ledger) == [t EXCEPT !.history = live, !.todos = ledger]

\* A turn that answers or submits: its list of todos is done with.
Answered ==
    /\ thread' = Kept(thread, turn.live, "none")
    /\ Ended /\ SayDone
    /\ UNCHANGED orphaned

\* A turn that asks: the gate is stored, and the list is for the next turn.
Asked(kind, resume) ==
    /\ thread' = Show(Kept(thread, turn.live, turn.ledger), kind, resume)
    /\ orphaned' = FALSE
    /\ Ended /\ SayDone

\* An exception: _run_turn logs it and says chat_done; what the loop had in
\* memory is gone.
Raised ==
    /\ Ended /\ SayDone
    /\ lost' = lost \cup (turn.live \ thread.history)
    /\ UNCHANGED <<thread, orphaned, wanted>>

Outside == UNCHANGED <<turns, edits, real, ruled, tasksOn, future, stop, toggle>>

-----------------------------------------------------------------------------
(* Launching a turn                                                         *)

\* A route found no turn in flight: it clears the replay, creates the task and
\* subscribes, without a suspension point.
Launch(call) ==
    /\ ~active /\ turns < MaxTurns
    /\ turns' = turns + 1
    /\ turn' = [NoTurn EXCEPT !.pc = "spawned", !.call = call]
    /\ active' = TRUE
    /\ relays' = relays \cup {turns + 1}
    /\ UNCHANGED <<thread, edits, real, ruled, tasksOn, future, stop, toggle, ghosts>>

\* _run_loop: a phase, the ledger of the request and the history of the thread.
RunLoop(phase, review) ==
    turn' = [turn EXCEPT !.pc = "model", !.phase = phase, !.review = review,
                         !.live = thread.history, !.ledger = thread.todos]

\* handle_message: a gate that is still there is superseded.
BeginMessage ==
    /\ Runnable("spawned") /\ turn.call.kind = "message"
    /\ thread' = Cleared(thread)
    /\ toggle' = turn.call.review /\ wanted' = turn.call.review
    /\ orphaned' = FALSE
    /\ RunLoop("DECIDE", turn.call.review)
    /\ UNCHANGED <<turns, edits, real, ruled, tasksOn, active, future, stop, relays, lost, silent>>

\* resolve_mode or resolve_clarify finds no gate of its kind, or a blank answer:
\* it returns at once.
BeginUnasked ==
    /\ Runnable("spawned") /\ turn.call.kind # "message"
    /\ thread.gate # turn.call.kind \/ (turn.call.kind = "clarify" /\ turn.call.blank)
    /\ Ended /\ SayNothing
    /\ UNCHANGED <<thread, wanted, lost, orphaned>> /\ Outside

\* resolve_mode refuses a mode of the task subsystem before it clears the gate.
BeginRefused ==
    /\ Runnable("spawned") /\ turn.call.kind = "mode" /\ thread.gate = "mode"
    /\ turn.call.mode \in {"create_task", "resume"} /\ ~tasksOn
    /\ Raised /\ Outside

BeginMode ==
    /\ Runnable("spawned") /\ turn.call.kind = "mode" /\ thread.gate = "mode"
    /\ turn.call.mode \in AllowedModes
    /\ thread' = Cleared(thread)
    /\ CASE turn.call.mode = "edit" -> RunLoop("EDIT", toggle) /\ UNCHANGED <<active, relays>>
         [] turn.call.mode = "explain" -> RunLoop("EXPLAIN", toggle) /\ UNCHANGED <<active, relays>>
         [] turn.call.mode = "create_task" ->
              turn' = [turn EXCEPT !.pc = "plan"] /\ UNCHANGED <<active, relays>>
         [] turn.call.mode = "resume" -> Ended /\ relays' = {}
    /\ UNCHANGED ghosts /\ Outside

BeginClarify ==
    /\ Runnable("spawned") /\ turn.call.kind = "clarify" /\ thread.gate = "clarify" /\ ~turn.call.blank
    /\ thread' = Cleared(thread)
    /\ RunLoop(thread.resume, toggle)
    /\ UNCHANGED <<active, relays, ghosts>> /\ Outside

\* The orchestrator has planned the task of the thread, or raised.
PlanReady ==
    /\ Runnable("plan")
    /\ Ended /\ SayDone
    /\ UNCHANGED <<thread, wanted, lost, orphaned>> /\ Outside

-----------------------------------------------------------------------------
(* The loop                                                                 *)

\* Mutant: an iteration is not counted.
ContinueFree(t, now) ==
    /\ turn' = [t EXCEPT !.pc = "model"]
    /\ thread' = now
    /\ UNCHANGED <<active, relays, orphaned, silent>>

\* Mutant: there is no last iteration.
ContinueEndless(t, now) ==
    /\ turn' = [t EXCEPT !.pc = "model", !.iters = @ + 1]
    /\ thread' = now
    /\ UNCHANGED <<active, relays, orphaned, silent>>

\* The next iteration, if there is one; otherwise the loop ends with an answer.
\* The caller has already changed the thread to now.
Continue(t, now) ==
    IF t.iters < MaxIters
    THEN /\ turn' = [t EXCEPT !.pc = "model", !.iters = @ + 1]
         /\ thread' = now
         /\ UNCHANGED <<active, relays, orphaned, silent>>
    ELSE /\ thread' = Kept(now, t.live, "none")
         /\ Ended /\ SayDone
         /\ UNCHANGED orphaned

\* The model replies with an action of the given type, which the phase allows.
Reply(type) == Runnable("model") /\ type \in Allows(turn.phase)

Calm == [turn EXCEPT !.bad = 0]

\* Why a reply is refused before it is dispatched: a type the phase does not
\* allow, an empty required field, an unknown mode, run_command in DECIDE.
Corrections(phase) ==
    {"type", "empty"} \cup (IF phase = "DECIDE" THEN {"mode", "command"} ELSE {})

Malformed ==
    /\ Runnable("model") /\ Corrections(turn.phase) # {}
    /\ IF turn.bad < MaxMalformed
       THEN Continue([turn EXCEPT !.bad = @ + 1], thread) /\ UNCHANGED <<wanted, lost>>
       ELSE Raised
    /\ Outside

\* A reply that changes nothing but the conversation: a call made before, an
\* edit without operations or whose patch fails, changes submitted too early.
Redirected ==
    /\ \/ Reply("tool_call") /\ turn.called /\ turn.iters < MaxIters
       \/ Reply("edit")
       \/ Reply("submit_changes") /\ turn.ledger = "open"
    /\ Continue(Calm, thread)
    /\ UNCHANGED <<wanted, lost>> /\ Outside

\* The call to the model raises.
ModelRaises == Runnable("model") /\ Raised /\ Outside

Answer ==
    /\ Reply("answer") \/ (Reply("tool_call") /\ turn.iters >= MaxIters)
    /\ Answered
    /\ UNCHANGED <<wanted, lost>> /\ Outside

Submit ==
    /\ Reply("submit_changes") /\ turn.ledger # "open"
    /\ Answered
    /\ UNCHANGED <<wanted, lost>> /\ Outside

Clarify ==
    /\ Reply("clarify")
    /\ Asked("clarify", IF turn.phase = "EDIT" THEN "EDIT" ELSE "DECIDE")
    /\ UNCHANGED <<wanted, lost>> /\ Outside

ProposeMode ==
    /\ Reply("propose_mode")
    /\ Asked("mode", "DECIDE")
    /\ UNCHANGED <<wanted, lost>> /\ Outside

\* A tool starts.
CallTool ==
    /\ Reply("tool_call") /\ turn.iters < MaxIters
    /\ turn' = [Calm EXCEPT !.pc = "tool"]
    /\ UNCHANGED <<thread, active, relays, ghosts>> /\ Outside

\* Its result is part of the conversation.
ToolReturns ==
    /\ Runnable("tool")
    /\ Continue([turn EXCEPT !.called = TRUE], thread)
    /\ UNCHANGED <<wanted, lost>> /\ Outside

TodosStored(t, ledger) == [t EXCEPT !.todos = ledger]

\* write_todos replaces the ledger, and stores it at once.
WriteTodos(ledger) ==
    /\ Reply("tool_call") /\ turn.iters < MaxIters
    /\ Continue([Calm EXCEPT !.ledger = ledger, !.called = TRUE], TodosStored(thread, ledger))
    /\ UNCHANGED <<wanted, lost>> /\ Outside

-----------------------------------------------------------------------------
(* Gates inside a turn                                                      *)

\* The thread shows the gate, and the turn waits for its future.
Hold(kind) ==
    /\ turn' = [Calm EXCEPT !.pc = kind]
    /\ thread' = Show(thread, kind, "DECIDE")
    /\ orphaned' = FALSE
    /\ future' = "open"
    /\ UNCHANGED <<turns, real, ruled, tasksOn, active, stop, toggle, relays, wanted, lost, silent>>

\* run_command with no rule for it.
AskCommand ==
    /\ Reply("tool_call") /\ turn.phase # "DECIDE" /\ turn.iters < MaxIters /\ ~ruled
    /\ Hold("command")
    /\ UNCHANGED edits

\* The command is run, or its rejection is the result of the call.
CommandDecided(remember) ==
    /\ Runnable("command") /\ future # "open"
    /\ future' = "none"
    /\ ruled' = (ruled \/ (future = "yes" /\ remember)) /\ UNCHANGED tasksOn
    /\ IF future = "yes"
       THEN /\ turn' = [turn EXCEPT !.pc = "tool"]
            /\ thread' = Cleared(thread)
            /\ UNCHANGED <<active, relays, orphaned, silent>>
       ELSE Continue([turn EXCEPT !.called = TRUE], Cleared(thread))
    /\ UNCHANGED <<turns, edits, real, stop, toggle, wanted, lost>>

\* The edit e is in the real workspace, in the conversation and in the transcript.
Promoted(t, e) == [t EXCEPT !.live = @ \cup {e}]

\* Mutant: the diff card is written before the decision is known.
CardBeforeDecision(t, e, accepted) == [t EXCEPT !.applied = @ \cup {e}]

\* _edit_record_cb
Recorded(t, e, accepted) ==
    IF accepted THEN [t EXCEPT !.applied = @ \cup {e}]
                ELSE [t EXCEPT !.discarded = @ \cup {e}]

\* A patch is applied to the turn's shadow and promoted without review.
EditAutoAccepted ==
    /\ Reply("edit") /\ edits < MaxEdits /\ ~turn.review
    /\ edits' = edits + 1
    /\ real' = real \cup {edits'}
    /\ Continue(Promoted(Calm, edits'), Recorded(thread, edits', TRUE))
    /\ UNCHANGED <<turns, ruled, tasksOn, future, stop, toggle, wanted, lost>>

\* A patch is applied to the turn's shadow and held for a decision.
AskEdit ==
    /\ Reply("edit") /\ edits < MaxEdits /\ turn.review
    /\ edits' = edits + 1
    /\ Hold("edit")

EditDecided ==
    /\ Runnable("edit") /\ future # "open"
    /\ future' = "none"
    /\ LET accepted == future = "yes"
           now == Recorded(Cleared(thread), edits, accepted)
       IN  /\ real' = IF accepted THEN real \cup {edits} ELSE real
           /\ Continue(IF accepted THEN Promoted(turn, edits) ELSE turn, now)
    /\ UNCHANGED <<turns, edits, ruled, tasksOn, stop, toggle, wanted, lost>>

\* resolve_edit, resolve_command.  Without an open future a gate of the kind is
\* taken for the orphan of a restart, and cleared.
Decide(kind, answer) ==
    /\ IF turn.pc = kind /\ future = "open"
       THEN future' = answer /\ UNCHANGED <<thread, orphaned>>
       ELSE /\ thread.gate = kind
            /\ thread' = Cleared(thread) /\ orphaned' = FALSE
            /\ UNCHANGED future
    /\ UNCHANGED <<turn, turns, edits, real, ruled, tasksOn, active, stop, toggle, relays, wanted, lost, silent>>

\* The gate's timeout: the same as a rejection.
TimedOut ==
    /\ "timeout" \in Requests /\ turn.pc \in {"edit", "command"} /\ future = "open"
    /\ future' = "no"
    /\ UNCHANGED <<thread, turn, turns, edits, real, ruled, tasksOn, active, stop, toggle, relays, ghosts>>

-----------------------------------------------------------------------------
(* Stop and restart                                                         *)

\* stop_turn cancels the task and waits for it.
Stop ==
    /\ "stop" \in Requests /\ stop = "no"
    /\ active /\ ~NoneRuns
    /\ turn.pc = "spawned" => "stopearly" \in Requests
    /\ stop' = "requested"
    /\ UNCHANGED <<thread, turn, turns, edits, real, ruled, tasksOn, active, future, toggle, relays, ghosts>>

\* Mutant: a stopped turn leaves the thread's history as it was.
StopForgets == thread' = IF turn.pc \in {"edit", "command"} THEN Cleared(thread) ELSE thread

\* The handlers the cancellation passes through: the gate is cleared, and what
\* the loop accumulated is stored.
StopStores ==
    thread' = LET shown == IF turn.pc \in {"edit", "command"} THEN Cleared(thread) ELSE thread
              IN  IF turn.pc = "plan" THEN shown ELSE Kept(shown, turn.live, turn.ledger)

\* The cancellation reaches the turn.
Unwind ==
    /\ stop = "requested" /\ turn.pc # "spawned"
    /\ StopStores
    /\ Ended
    /\ future' = "none" /\ stop' = "unwound"
    /\ UNCHANGED <<turns, edits, real, ruled, tasksOn, toggle, relays, ghosts>>

\* A task cancelled before its first step never enters its coroutine: nobody
\* takes the thread out of _active_turns.
UnwindUnstarted ==
    /\ stop = "requested" /\ turn.pc = "spawned"
    /\ turn' = [NoTurn EXCEPT !.pc = "lost"] /\ stop' = "unwound"
    /\ UNCHANGED <<thread, turns, edits, real, ruled, tasksOn, active, future, toggle, relays, ghosts>>

\* stop_turn goes on: it says chat_done, whatever was launched in the meantime.
StopReturns ==
    /\ stop = "unwound"
    /\ stop' = "no" /\ relays' = {}
    /\ UNCHANGED <<thread, turn, turns, edits, real, ruled, tasksOn, active, future, toggle, ghosts>>

\* The process dies and starts again, with other settings perhaps: what is stored stays.
Restart ==
    /\ "restart" \in Requests /\ turns > 0
    /\ turn' = NoTurn /\ active' = FALSE /\ future' = "none" /\ stop' = "no"
    /\ toggle' = FALSE /\ relays' = {} /\ tasksOn' \in BOOLEAN
    /\ lost' = lost \cup (turn.live \ thread.history)
    /\ orphaned' = (orphaned \/ turn.pc \in {"edit", "command"})
    /\ UNCHANGED <<thread, turns, edits, real, ruled, wanted, silent>>

-----------------------------------------------------------------------------

Init ==
    /\ thread = [gate |-> "none", resume |-> "DECIDE", history |-> {}, todos |-> "none",
                 applied |-> {}, discarded |-> {}]
    /\ turn = NoTurn /\ turns = 0 /\ edits = 0 /\ real = {}
    /\ active = FALSE /\ future = "none" /\ stop = "no" /\ toggle = FALSE
    /\ ruled = FALSE /\ tasksOn \in BOOLEAN /\ relays = {}
    /\ wanted = FALSE /\ lost = {} /\ silent = {} /\ orphaned = FALSE

\* The coroutine of the turn.
Step ==
    \/ BeginMessage \/ BeginUnasked \/ BeginRefused \/ BeginMode \/ BeginClarify \/ PlanReady
    \/ Malformed \/ Redirected \/ ModelRaises \/ Answer \/ Submit \/ Clarify \/ ProposeMode
    \/ CallTool \/ ToolReturns \/ \E ledger \in {"open", "settled"} : WriteTodos(ledger)
    \/ AskCommand \/ \E remember \in BOOLEAN : CommandDecided(remember)
    \/ EditAutoAccepted \/ AskEdit \/ EditDecided
    \/ Unwind \/ UnwindUnstarted

Decision == \E kind \in {"edit", "command"}, answer \in {"yes", "no"} : Decide(kind, answer)

\* Nothing is left to do: the thread waits for the user.
Rest == (turns = MaxTurns \/ turn.pc = "lost") /\ NoneRuns /\ stop = "no" /\ UNCHANGED vars

Next ==
    \/ \E call \in Calls : Launch(call)
    \/ Step \/ Decision \/ TimedOut
    \/ Stop \/ StopReturns \/ Restart \/ Rest

Spec == Init /\ [][Next]_vars

\* The event loop runs what is ready, and a user answers a gate that waits.
FairSpec ==
    Spec /\ WF_vars(Step) /\ WF_vars(StopReturns)
         /\ WF_vars(future = "open" /\ Decision)

-----------------------------------------------------------------------------
(* Properties                                                               *)

TypeOK ==
    /\ thread \in [gate : GateKinds \cup {"none"}, resume : {"DECIDE", "EDIT"},
                   history : SUBSET Edits, todos : Ledgers, applied : SUBSET Edits,
                   discarded : SUBSET Edits]
    /\ turn \in [pc : {"none", "lost", "spawned", "model", "tool", "edit", "command", "plan"},
                 call : Calls \cup {NoCall}, phase : Phases, review : BOOLEAN, iters : 0 .. MaxIters,
                 bad : 0 .. MaxMalformed, live : SUBSET Edits, ledger : Ledgers, called : BOOLEAN]
    /\ turns \in 0 .. MaxTurns /\ edits \in 0 .. MaxEdits /\ real \subseteq Edits
    /\ active \in BOOLEAN /\ future \in {"none", "open", "yes", "no"}
    /\ stop \in {"no", "requested", "unwound"} /\ toggle \in BOOLEAN
    /\ ruled \in BOOLEAN /\ tasksOn \in BOOLEAN /\ relays \subseteq Turns
    /\ wanted \in BOOLEAN /\ lost \subseteq Edits /\ silent \subseteq Turns /\ orphaned \in BOOLEAN

\* The thread answers 409 exactly while a turn of it can still run, however a turn
\* ends (_run_turn, its finally); but when a turn was stopped before it began, it
\* does until the process restarts.
ActiveIsLive == active <=> turn.pc # "none"

\* A turn that waits for a decision shows its gate until the decision is made,
\* and an edit or command gate that is shown has a turn behind it, or was left
\* by a restart.  A mode or clarify gate is shown while no loop runs.
GateHasOwner ==
    /\ future = "open" => thread.gate = turn.pc
    /\ thread.gate \in {"edit", "command"} => turn.pc = thread.gate \/ orphaned
    /\ thread.gate \in {"mode", "clarify"} => NoneRuns \/ turn.pc = "spawned"

\* Every edit of the real workspace has its diff card in the transcript, and no
\* card of a discarded edit is one of them.
EditsAreOnRecord == real = thread.applied /\ real \cap thread.discarded = {}

\* Between two turns the model's replayed history mentions every promoted edit:
\* a stopped turn stores what it did before it unwinds.  Only the edits of a
\* turn that raised, or that died with the process, are forgotten.
PromotedIsRemembered == NoneRuns \/ turn.pc = "spawned" => real \ lost \subseteq thread.history

\* When no turn runs and no stop is under way, no request relays any more, save
\* those of turns that found nothing to resolve.
RelaysEnd == NoneRuns /\ stop = "no" => relays \subseteq silent

\* A turn ends: replies, corrections and redirects are bounded, and a gate is
\* answered.
TurnSettles == ~NoneRuns ~> NoneRuns

\* When the message that led to an edit asked to review each edit, the edit is
\* promoted only by an accept ("Honor the Review each edit toggle").
ReviewIsHonoured ==
    [][real' # real /\ wanted => turn.pc = "edit" /\ future = "yes"]_vars
=============================================================================

--------------------------- MODULE ChatThreadProofs ---------------------------
(***************************************************************************)
(* What TLAPS proves about ChatThread, for any budgets, any number of      *)
(* turns and edits, and any Requests: every invariant that TLC checks.     *)
(***************************************************************************)
EXTENDS ChatThread, TLAPS

ThreadType ==
    [gate : GateKinds \cup {"none"}, resume : {"DECIDE", "EDIT"}, history : SUBSET Edits,
     todos : Ledgers, applied : SUBSET Edits, discarded : SUBSET Edits]

TurnType ==
    [pc : {"none", "lost", "spawned", "model", "tool", "edit", "command", "plan"},
     call : Calls \cup {NoCall}, phase : Phases, review : BOOLEAN, iters : 0 .. MaxIters,
     bad : 0 .. MaxMalformed, live : SUBSET Edits, ledger : Ledgers, called : BOOLEAN]

Looping == turn.pc \in {"model", "tool", "edit", "command"}

(* What a thread shows of a gate: a loop has none of its own but the one it waits at. *)
GateIsOrphan(t) == t.gate \in {"none", "edit", "command"} /\ (t.gate # "none" => orphaned)

(* A future belongs to a turn at a gate; a stop that is requested has a turn to reach;   *)
(* the edit that waits has no card yet; the stored ledger is the loop's own; what is     *)
(* promoted is in the conversation of the loop, or was stored; and only the requests of  *)
(* this turn and of silent ones relay.                                                   *)
FutureHasTurn == future # "none" => turn.pc \in {"edit", "command"}
StopHasTurn == stop = "requested" => ~NoneRuns
EditIsNew ==
    /\ thread.applied \cup thread.discarded \subseteq 1 .. edits
    /\ turn.pc = "edit" => edits \in Edits /\ edits \notin thread.applied \cup thread.discarded
LedgerIsShown ==
    turn.pc \in {"model", "tool", "edit", "command"} => thread.todos = turn.ledger
HistoryKnows == real \ lost \subseteq (IF Looping THEN turn.live ELSE thread.history)
RelaysKnown ==
    /\ turn.pc # "none" => turns # 0
    /\ stop = "no" => relays \subseteq silent \cup (IF NoneRuns THEN {} ELSE {turns})

Inv ==
    /\ TypeOK /\ ActiveIsLive /\ GateHasOwner /\ EditsAreOnRecord /\ LedgerIsShown
    /\ FutureHasTurn /\ StopHasTurn /\ EditIsNew /\ HistoryKnows /\ RelaysKnown

\* The invariant, with the names of its parts that the lemmas expand.
Parts ==
    /\ thread \in ThreadType /\ turn \in TurnType
    /\ turns \in 0 .. MaxTurns /\ edits \in 0 .. MaxEdits /\ real \subseteq Edits
    /\ active \in BOOLEAN /\ future \in {"none", "open", "yes", "no"}
    /\ stop \in {"no", "requested", "unwound"} /\ toggle \in BOOLEAN
    /\ ruled \in BOOLEAN /\ tasksOn \in BOOLEAN /\ relays \subseteq Turns
    /\ wanted \in BOOLEAN /\ lost \subseteq Edits /\ silent \subseteq Turns /\ orphaned \in BOOLEAN

LEMMA TypeIsParts == TypeOK <=> Parts
BY DEF TypeOK, Parts, ThreadType, TurnType

\* No turn is a turn.
LEMMA NoTurnType ==
    /\ NoTurn \in TurnType /\ NoTurn.pc = "none" /\ NoTurn.live = {} /\ NoTurn.ledger = "none"
<1>1. NoCall \in Calls \cup {NoCall} /\ 0 \in 0 .. MaxIters /\ 0 \in 0 .. MaxMalformed
  BY ChatThreadAssumption
<1> QED
  BY <1>1 DEF NoTurn, TurnType, Phases, Ledgers

\* A turn ends and says so.
LEMMA Ends ==
    ASSUME Inv, turn.pc \notin {"none", "lost"}, stop # "requested", Ended, SayDone,
           thread' \in ThreadType, edits' \in edits .. MaxEdits, real' \subseteq Edits,
           future' = "none", UNCHANGED <<turns, tasksOn, stop, toggle>>, ruled' \in BOOLEAN,
           wanted' \in BOOLEAN, lost' \in SUBSET Edits, orphaned' \in BOOLEAN,
           thread'.gate \in {"edit", "command"} => orphaned',
           real' = thread'.applied, real' \cap thread'.discarded = {},
           thread'.applied \cup thread'.discarded \subseteq 1 .. edits',
           real' \ lost' \subseteq thread'.history
    PROVE  Inv'
<1>1. turn' = NoTurn /\ active' = FALSE /\ relays' = {} /\ silent' = silent
  BY DEF Ended, SayDone
<1>2. turn'.pc = "none" /\ turn' \in TurnType
  BY <1>1, NoTurnType
<1>3. Parts
  BY TypeIsParts DEF Inv
<1>4. TypeOK'
  <2>1. edits' \in 0 .. MaxEdits
    BY <1>3, ChatThreadAssumption DEF Parts
  <2>2. active' \in BOOLEAN
    BY <1>1
  <2>3. relays' \subseteq Turns
    BY <1>1
  <2>4. Parts'
    BY <1>1, <1>2, <1>3, <2>1, <2>2, <2>3 DEF Parts
  <2> QED
    BY <2>4 DEF TypeOK, Parts, ThreadType, TurnType
<1>5. ActiveIsLive' /\ GateHasOwner' /\ EditsAreOnRecord' /\ LedgerIsShown'
  BY <1>1, <1>2 DEF ActiveIsLive, GateHasOwner, EditsAreOnRecord, LedgerIsShown, NoneRuns
<1>6. FutureHasTurn' /\ EditIsNew' /\ HistoryKnows' /\ RelaysKnown'
  BY <1>1, <1>2 DEF FutureHasTurn, EditIsNew, HistoryKnows, Looping, RelaysKnown, NoneRuns
<1>7. StopHasTurn'
  BY DEF StopHasTurn
<1> QED
  BY <1>4, <1>5, <1>6, <1>7 DEF Inv

\* What a loop that runs knows.
LEMMA LoopKnows ==
    ASSUME Inv, Runnable("model") \/ Runnable("tool") \/ Runnable("edit") \/ Runnable("command")
    PROVE  /\ stop # "requested" /\ turn.pc \notin {"none", "lost"} /\ active
           /\ turn \in TurnType /\ thread \in ThreadType /\ Parts
           /\ turn.pc \in {"model", "tool"} => future = "none" /\ GateIsOrphan(thread)
           /\ turn.pc \in {"model", "tool"} \/ future # "open" \/ thread.gate = turn.pc
           /\ real = thread.applied /\ real \cap thread.discarded = {}
           /\ thread.applied \cup thread.discarded \subseteq 1 .. edits
           /\ real \ lost \subseteq turn.live /\ thread.todos = turn.ledger
<1>1. Parts
  BY TypeIsParts DEF Inv
<1>2. turn.pc \in {"model", "tool", "edit", "command"} /\ stop # "requested"
  BY DEF Runnable
<1>3. turn.pc \in {"model", "tool"} => future = "none" /\ GateIsOrphan(thread)
  BY <1>1, <1>2 DEF Inv, FutureHasTurn, GateHasOwner, GateIsOrphan, Parts, ThreadType, GateKinds,
     NoneRuns
<1> QED
  BY <1>1, <1>2, <1>3 DEF Inv, Parts, ActiveIsLive, GateHasOwner, EditsAreOnRecord, EditIsNew,
     HistoryKnows, Looping, LedgerIsShown

\* An iteration goes on with the thread changed, or ends the loop with an answer.
LEMMA Continues ==
    ASSUME Inv, turn.pc \notin {"none", "lost"}, stop # "requested", active,
           NEW t \in TurnType, NEW now \in ThreadType, Continue(t, now),
           edits' \in edits .. MaxEdits, real' \subseteq Edits, future' = "none",
           UNCHANGED <<turns, tasksOn, stop, toggle, wanted, lost>>, ruled' \in BOOLEAN,
           GateIsOrphan(now), now.todos = t.ledger,
           real' = now.applied, real' \cap now.discarded = {},
           now.applied \cup now.discarded \subseteq 1 .. edits', real' \ lost \subseteq t.live
    PROVE  Inv'
<1>0. Parts
  BY TypeIsParts DEF Inv
<1>1. CASE t.iters < MaxIters
  <2>1. /\ turn' = [t EXCEPT !.pc = "model", !.iters = @ + 1] /\ thread' = now
        /\ UNCHANGED <<active, relays, orphaned, silent>>
    BY <1>1 DEF Continue
  <2>2. turn' \in TurnType
    <3> DEFINE n == t.iters + 1
    <3>1. n \in 0 .. MaxIters /\ turn' = [t EXCEPT !.pc = "model", !.iters = n]
      BY <1>1, <2>1, ChatThreadAssumption DEF TurnType
    <3> HIDE DEF n
    <3> QED
      BY <3>1 DEF TurnType
  <2>3. turn'.pc = "model" /\ turn'.ledger = t.ledger /\ turn'.live = t.live
    BY <2>1 DEF TurnType
  <2>4. TypeOK'
    <3>1. Parts'
      BY <1>0, <2>1, <2>2 DEF Parts
    <3> QED
      BY <3>1 DEF TypeOK, Parts, ThreadType, TurnType
  <2>5. ActiveIsLive' /\ GateHasOwner' /\ EditsAreOnRecord' /\ LedgerIsShown'
    BY <2>1, <2>3 DEF ActiveIsLive, GateHasOwner, EditsAreOnRecord, LedgerIsShown, GateIsOrphan
  <2>6. FutureHasTurn' /\ EditIsNew' /\ HistoryKnows' /\ StopHasTurn'
    BY <2>1, <2>3 DEF FutureHasTurn, EditIsNew, HistoryKnows, Looping, StopHasTurn
  <2>7. RelaysKnown'
    BY <2>1, <2>3 DEF Inv, RelaysKnown, NoneRuns
  <2> QED
    BY <2>4, <2>5, <2>6, <2>7 DEF Inv
<1>2. CASE ~(t.iters < MaxIters)
  <2>1. thread' = Kept(now, t.live, "none") /\ Ended /\ SayDone /\ UNCHANGED orphaned
    BY <1>2 DEF Continue
  <2>2. thread' \in ThreadType
    BY <2>1 DEF Kept, ThreadType, TurnType, Ledgers
  <2>3. /\ thread'.gate = now.gate /\ thread'.applied = now.applied
        /\ thread'.discarded = now.discarded /\ thread'.history = t.live
    BY <2>1 DEF Kept, ThreadType
  <2>4. orphaned' \in BOOLEAN /\ wanted' \in BOOLEAN /\ lost' \in SUBSET Edits /\ lost' = lost
    BY <1>0, <2>1 DEF Parts
  <2> QED
    BY <2>1, <2>2, <2>3, <2>4, Ends DEF GateIsOrphan
<1> QED
  BY <1>1, <1>2

\* A turn that raises leaves the stored thread alone.
LEMMA Raises ==
    ASSUME Inv, Runnable("model") \/ Runnable("spawned"), Raised, Outside,
           Runnable("spawned") => thread.gate = "mode"
    PROVE  Inv'
<1>1. Parts /\ real = thread.applied /\ real \cap thread.discarded = {}
  BY TypeIsParts DEF Inv, EditsAreOnRecord
<1>2. /\ Ended /\ SayDone /\ thread' = thread /\ orphaned' = orphaned /\ wanted' = wanted
      /\ lost' = lost \cup (turn.live \ thread.history)
  BY DEF Raised
<1>3. lost' \subseteq Edits
  BY <1>1, <1>2 DEF Parts, TurnType
<1>4. real \ lost' \subseteq thread.history
  BY <1>2 DEF Inv, HistoryKnows, Looping, Runnable
<1>5. future = "none" /\ turn.pc \notin {"none", "lost"} /\ stop # "requested"
  BY DEF Inv, FutureHasTurn, Runnable
<1>6. thread.gate \in {"edit", "command"} => orphaned
  BY DEF Inv, GateHasOwner, Runnable
<1>7. thread.applied \cup thread.discarded \subseteq 1 .. edits
  BY DEF Inv, EditIsNew
<1>8. /\ UNCHANGED <<turns, edits, real, ruled, tasksOn, future, stop, toggle>>
      /\ edits' \in edits .. MaxEdits
  BY <1>1 DEF Outside, Parts
<1> QED
  BY <1>1, <1>2, <1>3, <1>4, <1>5, <1>6, <1>7, <1>8, Ends DEF Parts

\* The route launches a turn only when no other runs, or is about to.
LEMMA LaunchStep ==
    ASSUME Inv, NEW call \in Calls, Launch(call)
    PROVE  Inv'
<1>1. Parts
  BY TypeIsParts DEF Inv
<1>2. /\ turns < MaxTurns /\ turns' = turns + 1 /\ active' = TRUE /\ relays' = relays \cup {turns + 1}
      /\ turn' = [NoTurn EXCEPT !.pc = "spawned", !.call = call]
      /\ UNCHANGED <<thread, edits, real, ruled, tasksOn, future, stop, toggle, ghosts>>
  BY DEF Launch
<1>3. turn.pc = "none" /\ future = "none" /\ stop # "requested"
  BY DEF Launch, Inv, ActiveIsLive, FutureHasTurn, StopHasTurn, NoneRuns
<1>4. turn' \in TurnType /\ turn'.pc = "spawned"
  BY <1>2, NoTurnType DEF TurnType
<1>5. TypeOK'
  <2>1. turns' \in 0 .. MaxTurns /\ turns + 1 \in Turns
    BY <1>1, <1>2, ChatThreadAssumption DEF Parts, Turns
  <2>2. relays' \subseteq Turns
    BY <1>1, <1>2, <2>1 DEF Parts
  <2>3. active' \in BOOLEAN
    BY <1>2
  <2>4. Parts'
    BY <1>1, <1>2, <1>4, <2>1, <2>2, <2>3 DEF Parts, ghosts
  <2> QED
    BY <2>4 DEF TypeOK, Parts, ThreadType, TurnType
<1>6. ActiveIsLive' /\ GateHasOwner' /\ EditsAreOnRecord' /\ LedgerIsShown'
  BY <1>2, <1>3, <1>4 DEF ActiveIsLive, GateHasOwner, EditsAreOnRecord, LedgerIsShown, Inv, ghosts
<1>7. FutureHasTurn' /\ StopHasTurn' /\ EditIsNew' /\ HistoryKnows'
  BY <1>2, <1>3, <1>4 DEF FutureHasTurn, StopHasTurn, EditIsNew, HistoryKnows, Looping, Inv, ghosts
<1>8. RelaysKnown'
  <2>1. turns' # 0
    BY <1>1, <1>2 DEF Parts
  <2> QED
    BY <1>2, <1>3, <1>4, <2>1 DEF RelaysKnown, NoneRuns, Inv, ghosts
<1> QED
  BY <1>5, <1>6, <1>7, <1>8 DEF Inv

\* What is true of a turn that has been launched and not begun.
LEMMA SpawnedKnows ==
    ASSUME Inv, Runnable("spawned") \/ Runnable("plan")
    PROVE  /\ Parts /\ future = "none" /\ turn.pc \in {"spawned", "plan"} /\ active
           /\ stop # "requested" /\ (thread.gate \in {"edit", "command"} => orphaned)
           /\ real = thread.applied /\ real \cap thread.discarded = {}
           /\ thread.applied \cup thread.discarded \subseteq 1 .. edits
           /\ real \ lost \subseteq thread.history /\ edits \in edits .. MaxEdits
           /\ Cleared(thread) \in ThreadType /\ Cleared(thread).gate = "none"
           /\ Cleared(thread).applied = thread.applied
           /\ Cleared(thread).discarded = thread.discarded
           /\ Cleared(thread).history = thread.history /\ Cleared(thread).todos = thread.todos
<1>1. Parts
  BY TypeIsParts DEF Inv
<1>2. turn.pc \in {"spawned", "plan"} /\ stop # "requested"
  BY DEF Runnable
<1>3. future = "none" /\ active /\ (thread.gate \in {"edit", "command"} => orphaned)
  BY <1>2 DEF Inv, FutureHasTurn, ActiveIsLive, GateHasOwner
<1>4. real \ lost \subseteq thread.history
  BY <1>2 DEF Inv, HistoryKnows, Looping
<1>5. edits \in edits .. MaxEdits
  BY <1>1 DEF Parts
<1>6. /\ Cleared(thread) \in ThreadType /\ Cleared(thread).gate = "none"
      /\ Cleared(thread).applied = thread.applied /\ Cleared(thread).discarded = thread.discarded
      /\ Cleared(thread).history = thread.history /\ Cleared(thread).todos = thread.todos
  BY <1>1 DEF Parts, Cleared, Show, ThreadType, GateKinds
<1> QED
  BY <1>1, <1>2, <1>3, <1>4, <1>5, <1>6 DEF Inv, EditsAreOnRecord, EditIsNew

\* A loop begins with the history and the ledger of the thread, and clears its gate.
LEMMA LoopBegins ==
    ASSUME Inv, Runnable("spawned"), NEW phase \in Phases, NEW review \in BOOLEAN,
           RunLoop(phase, review), thread' = Cleared(thread), toggle' \in BOOLEAN,
           wanted' \in BOOLEAN, orphaned' \in BOOLEAN,
           UNCHANGED <<turns, edits, real, ruled, tasksOn, active, future, stop, relays, lost, silent>>
    PROVE  Inv'
<1>1. /\ Parts /\ future = "none" /\ active /\ turn.pc = "spawned"
      /\ thread' \in ThreadType /\ thread'.gate = "none" /\ thread'.applied = thread.applied
      /\ thread'.discarded = thread.discarded /\ thread'.todos = thread.todos
      /\ real = thread.applied /\ real \cap thread.discarded = {}
      /\ thread.applied \cup thread.discarded \subseteq 1 .. edits
      /\ real \ lost \subseteq thread.history
  BY SpawnedKnows DEF Runnable
<1>2. turn' = [turn EXCEPT !.pc = "model", !.phase = phase, !.review = review,
                           !.live = thread.history, !.ledger = thread.todos]
  BY DEF RunLoop
<1>3. turn' \in TurnType /\ turn'.pc = "model" /\ turn'.live = thread.history /\ turn'.ledger = thread.todos
  BY <1>1, <1>2 DEF Parts, TurnType, ThreadType
<1>4. TypeOK'
  <2>1. Parts'
    BY <1>1, <1>3 DEF Parts
  <2> QED
    BY <2>1 DEF TypeOK, Parts, ThreadType, TurnType
<1>5. ActiveIsLive' /\ GateHasOwner' /\ EditsAreOnRecord' /\ LedgerIsShown'
  BY <1>1, <1>3 DEF ActiveIsLive, GateHasOwner, EditsAreOnRecord, LedgerIsShown
<1>6. FutureHasTurn' /\ StopHasTurn' /\ EditIsNew' /\ HistoryKnows'
  BY <1>1, <1>3 DEF FutureHasTurn, StopHasTurn, EditIsNew, HistoryKnows, Looping, NoneRuns
<1>7. RelaysKnown'
  BY <1>1, <1>3 DEF Inv, RelaysKnown, NoneRuns
<1> QED
  BY <1>4, <1>5, <1>6, <1>7 DEF Inv

\* The turn that begins with a message or an answered question.
LEMMA BeginLoopSteps ==
    ASSUME Inv, BeginMessage \/ BeginClarify
    PROVE  Inv'
<1>1. Parts
  BY TypeIsParts DEF Inv
<1>2. CASE BeginMessage
  <2>1. turn.call.review \in BOOLEAN
    BY <1>1, <1>2 DEF BeginMessage, Parts, TurnType, Calls, MessageCalls, ModeCalls, ClarifyCalls, NoCall
  <2>2. Runnable("spawned") /\ RunLoop("DECIDE", turn.call.review) /\ thread' = Cleared(thread)
        /\ toggle' = turn.call.review /\ wanted' = turn.call.review /\ orphaned' = FALSE
        /\ UNCHANGED <<turns, edits, real, ruled, tasksOn, active, future, stop, relays, lost, silent>>
    BY <1>2 DEF BeginMessage
  <2>3. toggle' \in BOOLEAN /\ wanted' \in BOOLEAN
    BY <2>1, <2>2
  <2>4. orphaned' \in BOOLEAN
    BY <2>2
  <2>5. "DECIDE" \in Phases
    BY DEF Phases
  <2> QED
    BY <2>1, <2>2, <2>3, <2>4, <2>5, LoopBegins
<1>3. CASE BeginClarify
  <2>1. thread.resume \in Phases /\ toggle \in BOOLEAN
    BY <1>1 DEF Parts, ThreadType, Phases
  <2>2. Runnable("spawned") /\ RunLoop(thread.resume, toggle) /\ thread' = Cleared(thread)
        /\ UNCHANGED <<active, relays, ghosts>> /\ Outside
    BY <1>3 DEF BeginClarify
  <2> QED
    BY <1>1, <2>1, <2>2, LoopBegins DEF Parts, Outside, ghosts
<1> QED
  BY <1>2, <1>3

\* The turn that begins with a mode: a loop, a plan, or nothing more to do.
LEMMA BeginModeStep ==
    ASSUME Inv, BeginMode
    PROVE  Inv'
<1>1. /\ Runnable("spawned") /\ thread' = Cleared(thread) /\ UNCHANGED ghosts /\ Outside
      /\ turn.call.mode \in Modes
  BY DEF BeginMode, AllowedModes, Modes
<1>2. Parts /\ turn.pc = "spawned" /\ turn \in TurnType
  BY <1>1, TypeIsParts DEF Inv, Runnable, Parts
<1>3. CASE turn.call.mode \in {"edit", "explain"}
  <2>1. PICK phase \in Phases : RunLoop(phase, toggle) /\ UNCHANGED <<active, relays>>
    BY <1>3 DEF BeginMode, Phases
  <2> QED
    BY <1>1, <1>2, <2>1, LoopBegins DEF Parts, Outside, ghosts
<1>4. CASE turn.call.mode = "create_task"
  <2>1. turn' = [turn EXCEPT !.pc = "plan"] /\ UNCHANGED <<active, relays>>
    BY <1>4 DEF BeginMode
  <2>2. turn' \in TurnType /\ turn'.pc = "plan"
    BY <1>2, <2>1 DEF TurnType
  <2>3. TypeOK'
    <3>1. Parts'
      BY <1>1, <1>2, <2>1, <2>2, SpawnedKnows DEF Parts, Outside, ghosts
    <3> QED
      BY <3>1 DEF TypeOK, Parts, ThreadType, TurnType
  <2>4. ActiveIsLive' /\ GateHasOwner' /\ EditsAreOnRecord' /\ LedgerIsShown'
    BY <1>1, <2>1, <2>2, SpawnedKnows
    DEF ActiveIsLive, GateHasOwner, EditsAreOnRecord, LedgerIsShown, Outside, ghosts
  <2>5. FutureHasTurn' /\ StopHasTurn' /\ EditIsNew' /\ HistoryKnows'
    BY <1>1, <2>1, <2>2, SpawnedKnows
    DEF FutureHasTurn, StopHasTurn, EditIsNew, HistoryKnows, Looping, NoneRuns, Outside, ghosts
  <2>6. RelaysKnown'
    BY <1>1, <1>2, <2>1, <2>2 DEF Inv, RelaysKnown, NoneRuns, Outside, ghosts
  <2> QED
    BY <2>3, <2>4, <2>5, <2>6 DEF Inv
<1>5. CASE turn.call.mode = "resume"
  <2>1. Ended /\ SayDone
    BY <1>1, <1>5 DEF BeginMode, SayDone, ghosts
  <2>2. UNCHANGED <<turns, edits, real, ruled, tasksOn, future, stop, toggle, wanted, lost, orphaned>>
    BY <1>1 DEF Outside, ghosts
  <2> QED
    BY <1>1, <1>2, <2>1, <2>2, SpawnedKnows, Ends DEF Parts
<1> QED
  BY <1>1, <1>3, <1>4, <1>5 DEF Modes

\* A decision without a gate ends its turn, and nobody is told; a plan that is ready, or a
\* mode that is refused, ends it too.
LEMMA BeginOtherSteps ==
    ASSUME Inv, BeginUnasked \/ PlanReady \/ BeginRefused
    PROVE  Inv'
<1>1. CASE PlanReady
  <2>1. Runnable("plan") /\ Ended /\ SayDone /\ UNCHANGED <<thread, wanted, lost, orphaned>> /\ Outside
    BY <1>1 DEF PlanReady
  <2>2. UNCHANGED <<turns, edits, real, ruled, tasksOn, future, stop, toggle>>
    BY <2>1 DEF Outside
  <2> QED
    BY <2>1, <2>2, SpawnedKnows, Ends DEF Parts
<1>2. CASE BeginRefused
  BY <1>2, Raises DEF BeginRefused
<1>3. CASE BeginUnasked
  <2>1. /\ turn' = NoTurn /\ active' = FALSE /\ relays' = relays /\ silent' = silent \cup {turns}
        /\ UNCHANGED <<thread, wanted, lost, orphaned>>
        /\ UNCHANGED <<turns, edits, real, ruled, tasksOn, future, stop, toggle>>
    BY <1>3 DEF BeginUnasked, Ended, SayNothing, Outside
  <2>2. Runnable("spawned") /\ turn.pc = "spawned"
    BY <1>3 DEF BeginUnasked, Runnable
  <2>3. turn' \in TurnType /\ turn'.pc = "none"
    BY <2>1, NoTurnType
  <2>4. Parts /\ turns \in Turns
    <3>1. Parts
      BY TypeIsParts DEF Inv
    <3>2. turns # 0
      BY <2>2 DEF Inv, RelaysKnown
    <3> QED
      BY <3>1, <3>2, ChatThreadAssumption DEF Parts, Turns
  <2>5. TypeOK'
    <3>1. silent' \subseteq Turns
      BY <2>1, <2>4 DEF Parts
    <3>2. active' \in BOOLEAN
      BY <2>1
    <3>3. Parts'
      BY <2>1, <2>3, <2>4, <3>1, <3>2 DEF Parts
    <3> QED
      BY <3>3 DEF TypeOK, Parts, ThreadType, TurnType
  <2>6. ActiveIsLive' /\ GateHasOwner' /\ EditsAreOnRecord' /\ LedgerIsShown'
    BY <2>1, <2>2, <2>3, SpawnedKnows
    DEF ActiveIsLive, GateHasOwner, EditsAreOnRecord, LedgerIsShown, NoneRuns
  <2>7. FutureHasTurn' /\ StopHasTurn' /\ EditIsNew' /\ HistoryKnows'
    BY <2>1, <2>2, <2>3, SpawnedKnows
    DEF FutureHasTurn, StopHasTurn, EditIsNew, HistoryKnows, Looping, NoneRuns
  <2>8. RelaysKnown'
    BY <2>1, <2>2, <2>3 DEF Inv, RelaysKnown, NoneRuns
  <2> QED
    BY <2>5, <2>6, <2>7, <2>8 DEF Inv
<1> QED
  BY <1>1, <1>2, <1>3

\* A reply without malformed ones before it.
LEMMA CalmIsTurn ==
    ASSUME turn \in TurnType
    PROVE  /\ Calm \in TurnType /\ Calm.pc = turn.pc /\ Calm.live = turn.live
           /\ Calm.ledger = turn.ledger
<1>1. 0 \in 0 .. MaxMalformed
  BY ChatThreadAssumption
<1> QED
  BY <1>1 DEF Calm, TurnType

\* A reply that changes the conversation or the ledger, and no gate and no edit.
LEMMA LoopContinues ==
    ASSUME Inv, Runnable("model") \/ Runnable("tool"), NEW t \in TurnType, NEW now \in ThreadType,
           Continue(t, now), UNCHANGED <<wanted, lost>>, Outside, t.live = turn.live,
           now.todos = t.ledger, now.gate = thread.gate, now.applied = thread.applied,
           now.discarded = thread.discarded
    PROVE  Inv'
<1>1. turn.pc \in {"model", "tool"}
  BY DEF Runnable
<1>2. /\ stop # "requested" /\ turn.pc \notin {"none", "lost"} /\ active /\ Parts
      /\ future = "none" /\ GateIsOrphan(thread)
      /\ real = thread.applied /\ real \cap thread.discarded = {}
      /\ thread.applied \cup thread.discarded \subseteq 1 .. edits
      /\ real \ lost \subseteq turn.live
  BY <1>1, LoopKnows
<1>3. UNCHANGED <<turns, edits, real, ruled, tasksOn, future, stop, toggle>>
  BY DEF Outside
<1>4. edits' \in edits .. MaxEdits
  BY <1>2, <1>3 DEF Parts
<1>5. GateIsOrphan(now)
  BY <1>2 DEF GateIsOrphan
<1> QED
  BY <1>2, <1>3, <1>4, <1>5, Continues DEF Parts

\* A reply that is refused, redirected, or a tool that is called and returns.
LEMMA ReplySteps ==
    ASSUME Inv, Malformed \/ Redirected \/ ToolReturns \/ \E l \in {"open", "settled"} : WriteTodos(l)
    PROVE  Inv'
<1>1. (Runnable("model") \/ Runnable("tool")) /\ Outside
  BY DEF Malformed, Redirected, ToolReturns, WriteTodos, Reply
<1>2. thread \in ThreadType /\ turn \in TurnType /\ thread.todos = turn.ledger
  BY <1>1, LoopKnows
<1>3. CASE Malformed /\ turn.bad < MaxMalformed
  <2> DEFINE t == [turn EXCEPT !.bad = @ + 1]
  <2>1. Continue(t, thread) /\ UNCHANGED <<wanted, lost>>
    BY <1>3 DEF Malformed
  <2>2. t \in TurnType /\ t.live = turn.live /\ t.ledger = turn.ledger
    <3> DEFINE n == turn.bad + 1
    <3>1. n \in 0 .. MaxMalformed /\ t = [turn EXCEPT !.bad = n]
      BY <1>2, <1>3, ChatThreadAssumption DEF TurnType
    <3> HIDE DEF n
    <3> QED
      BY <1>2, <3>1 DEF TurnType
  <2> HIDE DEF t
  <2> QED
    BY <1>1, <1>2, <2>1, <2>2, LoopContinues
<1>4. CASE Malformed /\ ~(turn.bad < MaxMalformed)
  <2>1. Runnable("model") /\ Raised
    BY <1>4 DEF Malformed
  <2>2. ~Runnable("spawned")
    BY <2>1 DEF Runnable
  <2> QED
    BY <1>1, <2>1, <2>2, Raises
<1>5. CASE Redirected
  <2>1. Continue(Calm, thread) /\ UNCHANGED <<wanted, lost>>
    BY <1>5 DEF Redirected
  <2> QED
    BY <1>1, <1>2, <2>1, CalmIsTurn, LoopContinues
<1>6. CASE ToolReturns
  <2> DEFINE t == [turn EXCEPT !.called = TRUE]
  <2>1. Continue(t, thread) /\ UNCHANGED <<wanted, lost>>
    BY <1>6 DEF ToolReturns
  <2>2. t \in TurnType /\ t.live = turn.live /\ t.ledger = turn.ledger
    BY <1>2 DEF TurnType
  <2> HIDE DEF t
  <2> QED
    BY <1>1, <1>2, <2>1, <2>2, LoopContinues
<1>7. ASSUME NEW l \in {"open", "settled"}, WriteTodos(l)  PROVE Inv'
  <2> DEFINE t == [Calm EXCEPT !.ledger = l, !.called = TRUE]
             now == TodosStored(thread, l)
  <2>1. Continue(t, now) /\ UNCHANGED <<wanted, lost>>
    BY <1>7 DEF WriteTodos
  <2>2. t \in TurnType /\ t.live = turn.live /\ t.ledger = l
    BY <1>2, CalmIsTurn DEF TurnType, Ledgers
  <2>3. /\ now \in ThreadType /\ now.todos = l /\ now.gate = thread.gate
        /\ now.applied = thread.applied /\ now.discarded = thread.discarded
    BY <1>2 DEF TodosStored, ThreadType, Ledgers
  <2> HIDE DEF t, now
  <2> QED
    BY <1>1, <2>1, <2>2, <2>3, LoopContinues
<1> QED
  BY <1>3, <1>4, <1>5, <1>6, <1>7

\* A turn that answers or asks.
LEMMA EndingSteps ==
    ASSUME Inv, Answer \/ Submit \/ Clarify \/ ProposeMode
    PROVE  Inv'
<1>1. /\ Runnable("model") /\ turn.pc = "model" /\ Ended /\ SayDone
      /\ UNCHANGED <<wanted, lost>> /\ Outside
  BY DEF Answer, Submit, Clarify, ProposeMode, Reply, Answered, Asked, Runnable
<1>2. /\ stop # "requested" /\ Parts /\ turn \in TurnType /\ thread \in ThreadType
      /\ future = "none" /\ GateIsOrphan(thread)
      /\ real = thread.applied /\ real \cap thread.discarded = {}
      /\ thread.applied \cup thread.discarded \subseteq 1 .. edits
      /\ real \ lost \subseteq turn.live
  BY <1>1, LoopKnows
<1>3. UNCHANGED <<turns, edits, real, ruled, tasksOn, future, stop, toggle>>
  BY <1>1 DEF Outside
<1>4. edits' \in edits .. MaxEdits
  BY <1>2, <1>3 DEF Parts
<1>5. CASE Answer \/ Submit
  <2>1. thread' = Kept(thread, turn.live, "none") /\ orphaned' = orphaned
    BY <1>5 DEF Answer, Submit, Answered
  <2>2. /\ thread' \in ThreadType /\ thread'.gate = thread.gate /\ thread'.history = turn.live
        /\ thread'.applied = thread.applied /\ thread'.discarded = thread.discarded
    BY <1>2, <2>1 DEF Kept, ThreadType, TurnType, Ledgers
  <2>3. thread'.gate \in {"edit", "command"} => orphaned'
    BY <1>2, <2>1, <2>2 DEF GateIsOrphan
  <2> QED
    BY <1>1, <1>2, <1>3, <1>4, <2>1, <2>2, <2>3, Ends DEF Parts
<1>6. CASE Clarify \/ ProposeMode
  <2>1. PICK kind \in {"mode", "clarify"}, resume \in {"DECIDE", "EDIT"} :
          thread' = Show(Kept(thread, turn.live, turn.ledger), kind, resume)
    BY <1>6 DEF Clarify, ProposeMode, Asked
  <2>2. orphaned' = FALSE
    BY <1>6 DEF Clarify, ProposeMode, Asked
  <2>3. orphaned' \in BOOLEAN
    BY <2>2
  <2>4. /\ thread' \in ThreadType /\ thread'.gate = kind /\ thread'.history = turn.live
        /\ thread'.applied = thread.applied /\ thread'.discarded = thread.discarded
    BY <1>2, <2>1 DEF Show, Kept, ThreadType, TurnType, GateKinds
  <2>5. thread'.gate \notin {"edit", "command"}
    BY <2>4
  <2> QED
    BY <1>1, <1>2, <1>3, <1>4, <2>3, <2>4, <2>5, Ends DEF Parts
<1> QED
  BY <1>5, <1>6

\* The model's call raises.
LEMMA ModelRaisesStep == ASSUME Inv, ModelRaises  PROVE Inv'
<1>1. Runnable("model") /\ ~Runnable("spawned") /\ Raised /\ Outside
  BY DEF ModelRaises, Runnable
<1> QED
  BY <1>1, Raises

\* A tool starts: a step of the loop, or a command that was accepted.
LEMMA ToolStarts ==
    ASSUME Inv, turn.pc \notin {"none", "lost"}, stop # "requested", active,
           NEW t \in TurnType, turn' = [t EXCEPT !.pc = "tool"], t.live = turn.live,
           t.ledger = turn.ledger, Looping, thread' \in ThreadType, GateIsOrphan(thread'),
           thread'.applied = thread.applied, thread'.discarded = thread.discarded,
           thread'.todos = thread.todos, future' = "none", ruled' \in BOOLEAN,
           UNCHANGED <<turns, edits, real, tasksOn, active, stop, toggle, relays, ghosts>>
    PROVE  Inv'
<1>1. Parts
  BY TypeIsParts DEF Inv
<1>2. turn' \in TurnType /\ turn'.pc = "tool" /\ turn'.live = turn.live /\ turn'.ledger = turn.ledger
  BY DEF TurnType
<1>3. TypeOK'
  <2>1. Parts'
    BY <1>1, <1>2 DEF Parts, ghosts
  <2> QED
    BY <2>1 DEF TypeOK, Parts, ThreadType, TurnType
<1>4. ActiveIsLive' /\ GateHasOwner' /\ EditsAreOnRecord' /\ LedgerIsShown'
  BY <1>2 DEF Inv, ActiveIsLive, GateHasOwner, EditsAreOnRecord, LedgerIsShown, GateIsOrphan, ghosts,
     Looping
<1>5. FutureHasTurn' /\ StopHasTurn' /\ EditIsNew' /\ HistoryKnows'
  BY <1>2 DEF Inv, FutureHasTurn, StopHasTurn, EditIsNew, HistoryKnows, Looping, NoneRuns, ghosts
<1>6. RelaysKnown'
  BY <1>2 DEF Inv, RelaysKnown, NoneRuns, ghosts
<1> QED
  BY <1>3, <1>4, <1>5, <1>6 DEF Inv

\* A tool is called.
LEMMA CallToolStep ==
    ASSUME Inv, CallTool
    PROVE  Inv'
<1>1. /\ Runnable("model") /\ turn.pc = "model" /\ turn' = [Calm EXCEPT !.pc = "tool"]
      /\ UNCHANGED <<thread, active, relays, ghosts>> /\ Outside
  BY DEF CallTool, Reply, Runnable
<1>2. /\ stop # "requested" /\ active /\ Parts /\ turn \in TurnType /\ thread \in ThreadType
      /\ future = "none" /\ GateIsOrphan(thread)
  BY <1>1, LoopKnows
<1>3. UNCHANGED <<turns, edits, real, ruled, tasksOn, future, stop, toggle>>
  BY <1>1 DEF Outside
<1>4. GateIsOrphan(thread')
  BY <1>1, <1>2
<1>5. Looping
  BY <1>1 DEF Looping
<1> QED
  BY <1>1, <1>2, <1>3, <1>4, <1>5, CalmIsTurn, ToolStarts DEF Parts

\* The thread shows the gate that the turn waits at.
LEMMA Holds ==
    ASSUME Inv, Runnable("model"), NEW kind \in {"edit", "command"}, Hold(kind),
           edits' \in edits .. MaxEdits, kind = "edit" => edits' = edits + 1
    PROVE  Inv'
<1>1. /\ turn.pc = "model" /\ active /\ Parts /\ turn \in TurnType /\ thread \in ThreadType
      /\ stop # "requested" /\ real = thread.applied /\ real \cap thread.discarded = {}
      /\ thread.applied \cup thread.discarded \subseteq 1 .. edits
      /\ real \ lost \subseteq turn.live /\ thread.todos = turn.ledger
  BY LoopKnows DEF Runnable
<1>2. /\ turn' = [Calm EXCEPT !.pc = kind] /\ thread' = Show(thread, kind, "DECIDE")
      /\ orphaned' = FALSE /\ future' = "open"
      /\ UNCHANGED <<turns, real, ruled, tasksOn, active, stop, toggle, relays, wanted, lost, silent>>
  BY DEF Hold
<1>3. turn' \in TurnType /\ turn'.pc = kind /\ turn'.live = turn.live /\ turn'.ledger = turn.ledger
  BY <1>1, <1>2, CalmIsTurn DEF TurnType
<1>4. /\ thread' \in ThreadType /\ thread'.gate = kind /\ thread'.applied = thread.applied
      /\ thread'.discarded = thread.discarded /\ thread'.todos = thread.todos
  BY <1>1, <1>2 DEF Show, ThreadType, GateKinds
<1>5. orphaned' \in BOOLEAN
  BY <1>2
<1>6. edits' \in 0 .. MaxEdits /\ (kind = "edit" => edits' \in Edits)
  BY <1>1, ChatThreadAssumption DEF Parts, Edits
<1>7. thread.applied \cup thread.discarded \subseteq 1 .. edits'
  BY <1>1, <1>6 DEF Parts
<1>8. kind = "edit" => edits' \notin thread.applied \cup thread.discarded
  BY <1>1 DEF Parts
<1>9. TypeOK'
  <2>1. Parts'
    BY <1>1, <1>2, <1>3, <1>4, <1>5, <1>6 DEF Parts
  <2> QED
    BY <2>1 DEF TypeOK, Parts, ThreadType, TurnType
<1>10. ActiveIsLive' /\ GateHasOwner' /\ EditsAreOnRecord' /\ LedgerIsShown'
  BY <1>1, <1>2, <1>3, <1>4 DEF ActiveIsLive, GateHasOwner, EditsAreOnRecord, LedgerIsShown
<1>11. FutureHasTurn' /\ StopHasTurn' /\ EditIsNew' /\ HistoryKnows'
  BY <1>1, <1>2, <1>3, <1>4, <1>6, <1>7, <1>8
  DEF FutureHasTurn, StopHasTurn, EditIsNew, HistoryKnows, Looping, NoneRuns
<1>12. RelaysKnown'
  BY <1>1, <1>2, <1>3 DEF Inv, RelaysKnown, NoneRuns
<1> QED
  BY <1>9, <1>10, <1>11, <1>12 DEF Inv

\* A turn asks before it runs a command, or keeps an edit.
LEMMA AskSteps ==
    ASSUME Inv, AskCommand \/ AskEdit
    PROVE  Inv'
<1>1. Runnable("model")
  BY DEF AskCommand, AskEdit, Reply
<1>2. Parts
  BY <1>1, LoopKnows
<1>3. CASE AskCommand
  <2>1. Hold("command") /\ edits' = edits
    BY <1>3 DEF AskCommand
  <2>2. edits' \in edits .. MaxEdits
    BY <1>2, <2>1 DEF Parts
  <2> QED
    BY <1>1, <2>1, <2>2, Holds
<1>4. CASE AskEdit
  <2>1. Hold("edit") /\ edits' = edits + 1 /\ edits < MaxEdits
    BY <1>4 DEF AskEdit
  <2>2. edits' \in edits .. MaxEdits
    BY <1>2, <2>1, ChatThreadAssumption DEF Parts
  <2> QED
    BY <1>1, <2>1, <2>2, Holds
<1> QED
  BY <1>3, <1>4

\* The card of an edit that was accepted, and of one that was not.
LEMMA CardIsTrue ==
    ASSUME NEW t \in ThreadType, NEW e \in Edits
    PROVE  LET yes == Recorded(t, e, TRUE)
               no == Recorded(t, e, FALSE)
           IN /\ yes \in ThreadType /\ yes.gate = t.gate /\ yes.todos = t.todos
              /\ yes.applied = t.applied \cup {e} /\ yes.discarded = t.discarded
              /\ no \in ThreadType /\ no.gate = t.gate /\ no.todos = t.todos
              /\ no.applied = t.applied /\ no.discarded = t.discarded \cup {e}
<1>1. /\ Recorded(t, e, TRUE) = [t EXCEPT !.applied = t.applied \cup {e}]
      /\ Recorded(t, e, FALSE) = [t EXCEPT !.discarded = t.discarded \cup {e}]
  BY DEF Recorded, ThreadType
<1>2. t.applied \cup {e} \in SUBSET Edits /\ t.discarded \cup {e} \in SUBSET Edits
  BY DEF ThreadType
<1> QED
  BY <1>1, <1>2 DEF ThreadType

\* The place of a promoted edit in the conversation.
LEMMA PromotedIsTold ==
    ASSUME NEW u \in TurnType, NEW e \in Edits
    PROVE  /\ Promoted(u, e) \in TurnType /\ Promoted(u, e).live = u.live \cup {e}
           /\ Promoted(u, e).ledger = u.ledger
<1>1. Promoted(u, e) = [u EXCEPT !.live = u.live \cup {e}]
  BY DEF Promoted, TurnType
<1>2. u.live \cup {e} \in SUBSET Edits
  BY DEF TurnType
<1> QED
  BY <1>1, <1>2 DEF TurnType

\* An edit that needs no decision goes to the workspace, the card and the conversation at once.
LEMMA EditAutoAcceptedStep ==
    ASSUME Inv, EditAutoAccepted
    PROVE  Inv'
<1>1. Runnable("model") /\ turn.pc = "model"
  BY DEF EditAutoAccepted, Reply, Runnable
<1>2. /\ stop # "requested" /\ active /\ Parts /\ turn \in TurnType /\ thread \in ThreadType
      /\ future = "none" /\ GateIsOrphan(thread)
      /\ real = thread.applied /\ real \cap thread.discarded = {}
      /\ thread.applied \cup thread.discarded \subseteq 1 .. edits
      /\ real \ lost \subseteq turn.live /\ thread.todos = turn.ledger
  BY <1>1, LoopKnows
<1> DEFINE e == edits + 1
           t == Promoted(Calm, e)
           now == Recorded(thread, e, TRUE)
<1>3. /\ edits' = e /\ edits < MaxEdits /\ real' = real \cup {e} /\ Continue(t, now)
      /\ UNCHANGED <<turns, ruled, tasksOn, future, stop, toggle, wanted, lost>>
  BY DEF EditAutoAccepted
<1>4. e \in Edits /\ e \in edits .. MaxEdits /\ e \notin 1 .. edits /\ 1 .. edits \subseteq 1 .. e
      /\ e \in 1 .. e
  BY <1>2, <1>3, ChatThreadAssumption DEF Parts, Edits
<1>5. /\ now \in ThreadType /\ now.gate = thread.gate /\ now.todos = thread.todos
      /\ now.applied = thread.applied \cup {e} /\ now.discarded = thread.discarded
  <2> HIDE DEF e
  <2> QED
    BY <1>2, <1>4, CardIsTrue
<1>6. t \in TurnType /\ t.live = turn.live \cup {e} /\ t.ledger = turn.ledger
  <2>1. Calm \in TurnType /\ Calm.live = turn.live /\ Calm.ledger = turn.ledger
    BY <1>2, CalmIsTurn
  <2> HIDE DEF e
  <2> QED
    BY <1>4, <2>1, PromotedIsTold
<1> HIDE DEF e, t, now
<1>7. GateIsOrphan(now)
  BY <1>2, <1>5 DEF GateIsOrphan
<1>8. real' = now.applied /\ real' \cap now.discarded = {} /\ real' \subseteq Edits
  BY <1>2, <1>3, <1>4, <1>5 DEF Parts
<1>9. now.applied \cup now.discarded \subseteq 1 .. edits' /\ real' \ lost \subseteq t.live
  BY <1>2, <1>3, <1>4, <1>5, <1>6
<1> QED
  BY <1>1, <1>2, <1>3, <1>4, <1>5, <1>6, <1>7, <1>8, <1>9, Continues DEF Parts

\* The decision of an edit: its card is written, and, when it was accepted, the workspace and
\* the conversation have it.
LEMMA EditDecidedStep ==
    ASSUME Inv, EditDecided
    PROVE  Inv'
<1>1. Runnable("edit") /\ turn.pc = "edit"
  BY DEF EditDecided, Runnable
<1>2. /\ stop # "requested" /\ active /\ Parts /\ turn \in TurnType /\ thread \in ThreadType
      /\ real = thread.applied /\ real \cap thread.discarded = {}
      /\ thread.applied \cup thread.discarded \subseteq 1 .. edits
      /\ real \ lost \subseteq turn.live /\ thread.todos = turn.ledger
  BY <1>1, LoopKnows
<1> DEFINE accepted == future = "yes"
           t == IF accepted THEN Promoted(turn, edits) ELSE turn
           now == Recorded(Cleared(thread), edits, accepted)
<1>3. /\ future' = "none" /\ real' = (IF accepted THEN real \cup {edits} ELSE real)
      /\ Continue(t, now)
      /\ UNCHANGED <<turns, edits, ruled, tasksOn, stop, toggle, wanted, lost>>
  BY DEF EditDecided
<1>4. edits \in Edits /\ edits \notin thread.applied \cup thread.discarded
  BY <1>1 DEF Inv, EditIsNew
<1>5. edits \in 1 .. edits /\ edits' \in edits .. MaxEdits
  BY <1>2, <1>3, <1>4 DEF Parts, Edits
<1>6. /\ Cleared(thread) \in ThreadType /\ Cleared(thread).gate = "none"
      /\ Cleared(thread).applied = thread.applied /\ Cleared(thread).discarded = thread.discarded
      /\ Cleared(thread).todos = thread.todos
  BY <1>2 DEF Cleared, Show, ThreadType, GateKinds
<1>7. /\ now \in ThreadType /\ now.gate = "none" /\ now.todos = thread.todos
      /\ now.applied = (IF accepted THEN thread.applied \cup {edits} ELSE thread.applied)
      /\ now.discarded = (IF accepted THEN thread.discarded ELSE thread.discarded \cup {edits})
  <2>1. CASE accepted
    <3>1. now = Recorded(Cleared(thread), edits, TRUE)
      BY <2>1
    <3> HIDE DEF now, accepted
    <3>2. /\ now \in ThreadType /\ now.gate = "none" /\ now.todos = thread.todos
          /\ now.applied = thread.applied \cup {edits} /\ now.discarded = thread.discarded
      BY <1>4, <1>6, <3>1, CardIsTrue
    <3> QED
      BY <2>1, <3>2
  <2>2. CASE ~accepted
    <3>1. now = Recorded(Cleared(thread), edits, FALSE)
      BY <2>2
    <3> HIDE DEF now, accepted
    <3>2. /\ now \in ThreadType /\ now.gate = "none" /\ now.todos = thread.todos
          /\ now.applied = thread.applied /\ now.discarded = thread.discarded \cup {edits}
      BY <1>4, <1>6, <3>1, CardIsTrue
    <3> QED
      BY <2>2, <3>2
  <2> QED
    BY <2>1, <2>2
<1>8. /\ t \in TurnType /\ t.ledger = turn.ledger
      /\ t.live = (IF accepted THEN turn.live \cup {edits} ELSE turn.live)
  BY <1>2, <1>4, PromotedIsTold
<1> HIDE DEF t, now, accepted
<1>9. real' = now.applied /\ real' \cap now.discarded = {} /\ real' \subseteq Edits
  BY <1>2, <1>3, <1>4, <1>7 DEF Parts
<1>10. now.applied \cup now.discarded \subseteq 1 .. edits' /\ real' \ lost \subseteq t.live
  BY <1>2, <1>3, <1>5, <1>7, <1>8
<1>11. GateIsOrphan(now)
  BY <1>7 DEF GateIsOrphan
<1> QED
  BY <1>1, <1>2, <1>3, <1>5, <1>7, <1>8, <1>9, <1>10, <1>11, Continues DEF Parts

\* The decision of a command: it runs, or its rejection is the result.
LEMMA CommandDecidedStep ==
    ASSUME Inv, NEW remember \in BOOLEAN, CommandDecided(remember)
    PROVE  Inv'
<1>1. Runnable("command") /\ turn.pc = "command"
  BY DEF CommandDecided, Runnable
<1>2. /\ stop # "requested" /\ active /\ Parts /\ turn \in TurnType /\ thread \in ThreadType
      /\ real = thread.applied /\ real \cap thread.discarded = {}
      /\ thread.applied \cup thread.discarded \subseteq 1 .. edits
      /\ real \ lost \subseteq turn.live /\ thread.todos = turn.ledger
  BY <1>1, LoopKnows
<1>3. /\ future' = "none" /\ ruled' = (ruled \/ (future = "yes" /\ remember))
      /\ UNCHANGED <<tasksOn, turns, edits, real, stop, toggle, wanted, lost>>
  BY DEF CommandDecided
<1>4. ruled' \in BOOLEAN /\ edits' \in edits .. MaxEdits
  <2>1. ruled' \in BOOLEAN
    BY <1>3
  <2>2. edits' \in edits .. MaxEdits
    BY <1>2, <1>3 DEF Parts
  <2> QED
    BY <2>1, <2>2
<1> DEFINE now == Cleared(thread)
<1>5. /\ now \in ThreadType /\ now.gate = "none" /\ now.applied = thread.applied
      /\ now.discarded = thread.discarded /\ now.todos = thread.todos
  BY <1>2 DEF Cleared, Show, ThreadType, GateKinds
<1>6. GateIsOrphan(now)
  BY <1>5 DEF GateIsOrphan
<1>7. CASE future = "yes"
  <2>1. /\ turn' = [turn EXCEPT !.pc = "tool"] /\ thread' = now
        /\ UNCHANGED <<active, relays, orphaned, silent>>
    BY <1>7 DEF CommandDecided
  <2>2. Looping
    BY <1>1 DEF Looping
  <2> HIDE DEF now
  <2> QED
    BY <1>1, <1>2, <1>3, <1>4, <1>5, <1>6, <2>1, <2>2, ToolStarts DEF ghosts
<1>8. CASE future # "yes"
  <2> DEFINE t == [turn EXCEPT !.called = TRUE]
  <2>1. Continue(t, now)
    BY <1>8 DEF CommandDecided
  <2>2. t \in TurnType /\ t.live = turn.live /\ t.ledger = turn.ledger
    BY <1>2 DEF TurnType
  <2>3. real' \subseteq Edits
    BY <1>2, <1>3 DEF Parts
  <2> HIDE DEF t, now
  <2> QED
    BY <1>1, <1>2, <1>3, <1>4, <1>5, <1>6, <2>1, <2>2, <2>3, Continues
<1> QED
  BY <1>7, <1>8

\* A decision that comes while a gate waits answers it; any other clears a gate that nobody
\* waits at.  A gate's timeout is an answer too.
LEMMA DecisionSteps ==
    ASSUME Inv, Decision \/ TimedOut
    PROVE  Inv'
<1>1. Parts /\ thread \in ThreadType
  BY TypeIsParts DEF Inv, Parts
<1>2. CASE turn.pc \in {"edit", "command"} /\ future = "open" /\ future' \in {"yes", "no"}
             /\ UNCHANGED <<thread, turn, turns, edits, real, ruled, tasksOn, active, stop, toggle,
                            relays, ghosts>>
  <2>1. TypeOK'
    <3>1. Parts'
      BY <1>1, <1>2 DEF Parts, ghosts
    <3> QED
      BY <3>1 DEF TypeOK, Parts, ThreadType, TurnType
  <2>2. ActiveIsLive' /\ GateHasOwner' /\ EditsAreOnRecord' /\ LedgerIsShown'
    BY <1>2 DEF Inv, ActiveIsLive, GateHasOwner, EditsAreOnRecord, LedgerIsShown, NoneRuns, ghosts
  <2>3. FutureHasTurn' /\ StopHasTurn' /\ EditIsNew' /\ HistoryKnows' /\ RelaysKnown'
    BY <1>2
    DEF Inv, FutureHasTurn, StopHasTurn, EditIsNew, HistoryKnows, RelaysKnown, Looping, NoneRuns, ghosts
  <2> QED
    BY <2>1, <2>2, <2>3 DEF Inv
<1>3. ASSUME NEW kind \in {"edit", "command"}, NEW answer \in {"yes", "no"}, Decide(kind, answer),
             ~(turn.pc = kind /\ future = "open")
      PROVE  Inv'
  <2>1. /\ thread.gate = kind /\ thread' = Cleared(thread) /\ orphaned' = FALSE
        /\ UNCHANGED <<future, turn, turns, edits, real, ruled, tasksOn, active, stop, toggle, relays,
                       wanted, lost, silent>>
    BY <1>3 DEF Decide
  <2>2. /\ thread' \in ThreadType /\ thread'.gate = "none" /\ thread'.applied = thread.applied
        /\ thread'.discarded = thread.discarded /\ thread'.todos = thread.todos
        /\ thread'.history = thread.history
    BY <1>1, <2>1 DEF Cleared, Show, ThreadType, GateKinds
  <2>3. orphaned' \in BOOLEAN
    BY <2>1
  <2>4. TypeOK'
    <3>1. Parts'
      BY <1>1, <2>1, <2>2, <2>3 DEF Parts
    <3> QED
      BY <3>1 DEF TypeOK, Parts, ThreadType, TurnType
  <2>5. future # "open"
    BY <1>3, <2>1 DEF Inv, GateHasOwner
  <2>6. ActiveIsLive' /\ GateHasOwner' /\ EditsAreOnRecord' /\ LedgerIsShown'
    BY <2>1, <2>2, <2>5 DEF Inv, ActiveIsLive, GateHasOwner, EditsAreOnRecord, LedgerIsShown
  <2>7. FutureHasTurn' /\ StopHasTurn' /\ EditIsNew' /\ HistoryKnows' /\ RelaysKnown'
    BY <2>1, <2>2
    DEF Inv, FutureHasTurn, StopHasTurn, EditIsNew, HistoryKnows, RelaysKnown, Looping, NoneRuns
  <2> QED
    BY <2>4, <2>6, <2>7 DEF Inv
<1>4. ASSUME NEW kind \in {"edit", "command"}, NEW answer \in {"yes", "no"}, Decide(kind, answer),
             turn.pc = kind, future = "open"
      PROVE  Inv'
  BY <1>2, <1>4 DEF Decide, ghosts
<1>5. CASE TimedOut
  BY <1>2, <1>5 DEF TimedOut
<1> QED
  BY <1>3, <1>4, <1>5 DEF Decision

\* A stop has a turn to reach, and the turn stores what it did before it is gone.
LEMMA StopSteps ==
    ASSUME Inv, Stop \/ Unwind \/ UnwindUnstarted \/ StopReturns
    PROVE  Inv'
<1>1. Parts /\ thread \in ThreadType /\ turn \in TurnType
  BY TypeIsParts DEF Inv, Parts
<1>2. CASE Stop
  <2>1. /\ stop' = "requested" /\ ~NoneRuns
        /\ UNCHANGED <<thread, turn, turns, edits, real, ruled, tasksOn, active, future, toggle,
                       relays, ghosts>>
    BY <1>2 DEF Stop
  <2>2. TypeOK'
    <3>1. Parts'
      BY <1>1, <2>1 DEF Parts, ghosts
    <3> QED
      BY <3>1 DEF TypeOK, Parts, ThreadType, TurnType
  <2> QED
    BY <2>1, <2>2 DEF Inv, ActiveIsLive, GateHasOwner, EditsAreOnRecord, LedgerIsShown,
       FutureHasTurn, StopHasTurn, EditIsNew, HistoryKnows, RelaysKnown, Looping, NoneRuns, ghosts
<1>3. CASE StopReturns
  <2>1. /\ stop' = "no" /\ relays' = {}
        /\ UNCHANGED <<thread, turn, turns, edits, real, ruled, tasksOn, active, future, toggle, ghosts>>
    BY <1>3 DEF StopReturns
  <2>2. TypeOK'
    <3>1. Parts'
      BY <1>1, <2>1 DEF Parts, ghosts
    <3> QED
      BY <3>1 DEF TypeOK, Parts, ThreadType, TurnType
  <2> QED
    BY <2>1, <2>2 DEF Inv, ActiveIsLive, GateHasOwner, EditsAreOnRecord, LedgerIsShown,
       FutureHasTurn, StopHasTurn, EditIsNew, HistoryKnows, RelaysKnown, Looping, NoneRuns, ghosts
<1>4. CASE UnwindUnstarted
  <2>1. /\ turn' = [NoTurn EXCEPT !.pc = "lost"] /\ stop' = "unwound" /\ turn.pc = "spawned"
        /\ UNCHANGED <<thread, turns, edits, real, ruled, tasksOn, active, future, toggle, relays, ghosts>>
    BY <1>4 DEF UnwindUnstarted
  <2>2. turn' \in TurnType /\ turn'.pc = "lost"
    BY <2>1, NoTurnType DEF TurnType
  <2>3. TypeOK'
    <3>1. Parts'
      BY <1>1, <2>1, <2>2 DEF Parts, ghosts
    <3> QED
      BY <3>1 DEF TypeOK, Parts, ThreadType, TurnType
  <2> QED
    BY <2>1, <2>2, <2>3 DEF Inv, ActiveIsLive, GateHasOwner, EditsAreOnRecord, LedgerIsShown,
       FutureHasTurn, StopHasTurn, EditIsNew, HistoryKnows, RelaysKnown, Looping, NoneRuns, ghosts
<1>5. CASE Unwind
  <2>1. /\ StopStores /\ turn' = NoTurn /\ active' = FALSE /\ future' = "none" /\ stop' = "unwound"
        /\ stop = "requested" /\ turn.pc # "spawned"
        /\ UNCHANGED <<turns, edits, real, ruled, tasksOn, toggle, relays, ghosts>>
    BY <1>5 DEF Unwind, Ended
  <2>2. turn.pc \in {"model", "tool", "edit", "command", "plan"}
    BY <1>1, <2>1 DEF Inv, StopHasTurn, NoneRuns, TurnType
  <2> DEFINE shown == IF turn.pc \in {"edit", "command"} THEN Cleared(thread) ELSE thread
  <2>3. /\ shown \in ThreadType /\ shown.applied = thread.applied
        /\ shown.discarded = thread.discarded /\ shown.history = thread.history
        /\ shown.gate \in {"none", thread.gate}
        /\ turn.pc \in {"edit", "command"} => shown.gate = "none"
    BY <1>1 DEF Cleared, Show, ThreadType, GateKinds
  <2>4. thread' = IF turn.pc = "plan" THEN shown ELSE Kept(shown, turn.live, turn.ledger)
    BY <2>1 DEF StopStores
  <2> HIDE DEF shown
  <2>5. /\ thread' \in ThreadType /\ thread'.applied = thread.applied
        /\ thread'.discarded = thread.discarded /\ thread'.gate = shown.gate
        /\ thread'.history = IF turn.pc = "plan" THEN thread.history ELSE turn.live
    BY <1>1, <2>3, <2>4 DEF Kept, ThreadType, TurnType
  <2>6. turn' \in TurnType /\ turn'.pc = "none"
    BY <2>1, NoTurnType
  <2>7. TypeOK'
    <3>1. active' \in BOOLEAN
      BY <2>1
    <3>2. Parts'
      BY <1>1, <2>1, <2>5, <2>6, <3>1 DEF Parts, ghosts
    <3> QED
      BY <3>2 DEF TypeOK, Parts, ThreadType, TurnType
  <2>8. thread'.gate \in {"edit", "command"} => orphaned
    BY <2>2, <2>3, <2>5 DEF Inv, GateHasOwner
  <2>9. ActiveIsLive' /\ GateHasOwner' /\ EditsAreOnRecord' /\ LedgerIsShown'
    BY <2>1, <2>5, <2>6, <2>8
    DEF Inv, ActiveIsLive, GateHasOwner, EditsAreOnRecord, LedgerIsShown, NoneRuns, ghosts
  <2>10. real \ lost \subseteq thread'.history
    BY <2>2, <2>5 DEF Inv, HistoryKnows, Looping
  <2>11. FutureHasTurn' /\ StopHasTurn' /\ EditIsNew' /\ HistoryKnows' /\ RelaysKnown'
    BY <2>1, <2>5, <2>6, <2>10
    DEF Inv, FutureHasTurn, StopHasTurn, EditIsNew, HistoryKnows, RelaysKnown, Looping, ghosts
  <2> QED
    BY <2>7, <2>9, <2>11 DEF Inv
<1> QED
  BY <1>2, <1>3, <1>4, <1>5

\* A restart forgets what was only in memory: the turn, its gate's future, the relays.
LEMMA RestartStep ==
    ASSUME Inv, Restart
    PROVE  Inv'
<1>1. Parts /\ thread \in ThreadType /\ turn \in TurnType
  BY TypeIsParts DEF Inv, Parts
<1>2. /\ turn' = NoTurn /\ active' = FALSE /\ future' = "none" /\ stop' = "no"
      /\ toggle' = FALSE /\ relays' = {} /\ tasksOn' \in BOOLEAN
      /\ lost' = lost \cup (turn.live \ thread.history)
      /\ orphaned' = (orphaned \/ turn.pc \in {"edit", "command"})
      /\ UNCHANGED <<thread, turns, edits, real, ruled, wanted, silent>>
  BY DEF Restart
<1>3. turn' \in TurnType /\ turn'.pc = "none"
  BY <1>2, NoTurnType
<1>4. active' \in BOOLEAN /\ toggle' \in BOOLEAN /\ orphaned' \in BOOLEAN
  <2>1. active' \in BOOLEAN
    BY <1>2
  <2>2. toggle' \in BOOLEAN
    BY <1>2
  <2>3. orphaned' \in BOOLEAN
    BY <1>2
  <2> QED
    BY <2>1, <2>2, <2>3
<1>5. lost' \subseteq Edits
  BY <1>1, <1>2 DEF Parts, TurnType
<1>6. TypeOK'
  <2>1. Parts'
    BY <1>1, <1>2, <1>3, <1>4, <1>5 DEF Parts
  <2> QED
    BY <2>1 DEF TypeOK, Parts, ThreadType, TurnType
<1>7. thread.gate \in {"edit", "command"} => orphaned'
  BY <1>2 DEF Inv, GateHasOwner
<1>8. ActiveIsLive' /\ GateHasOwner' /\ EditsAreOnRecord' /\ LedgerIsShown'
  BY <1>2, <1>3, <1>7
  DEF Inv, ActiveIsLive, GateHasOwner, EditsAreOnRecord, LedgerIsShown, NoneRuns
<1>9. real \ lost' \subseteq thread.history
  BY <1>2 DEF Inv, HistoryKnows
<1>10. FutureHasTurn' /\ StopHasTurn' /\ EditIsNew' /\ HistoryKnows' /\ RelaysKnown'
  BY <1>2, <1>3, <1>9
  DEF Inv, FutureHasTurn, StopHasTurn, EditIsNew, HistoryKnows, RelaysKnown, Looping
<1> QED
  BY <1>6, <1>8, <1>10 DEF Inv

\* The thread is empty, and nothing runs.
LEMMA InitInv == Init => Inv
<1> SUFFICES ASSUME Init  PROVE Inv
  OBVIOUS
<1>1. turn = NoTurn /\ turn \in TurnType /\ turn.pc = "none"
  BY NoTurnType DEF Init
<1>2. /\ thread \in ThreadType /\ thread.gate = "none" /\ thread.applied = {}
      /\ thread.discarded = {}
  BY DEF Init, ThreadType, Ledgers
<1>3. TypeOK
  <2>1. turns \in 0 .. MaxTurns /\ edits \in 0 .. MaxEdits
    BY ChatThreadAssumption DEF Init
  <2>2. Parts
    BY <1>1, <1>2, <2>1 DEF Init, Parts
  <2> QED
    BY <2>2, TypeIsParts
<1>4. ActiveIsLive /\ GateHasOwner /\ EditsAreOnRecord /\ LedgerIsShown
  BY <1>1, <1>2 DEF Init, ActiveIsLive, GateHasOwner, EditsAreOnRecord, LedgerIsShown
<1>5. FutureHasTurn /\ StopHasTurn /\ EditIsNew /\ HistoryKnows /\ RelaysKnown
  BY <1>1, <1>2 DEF Init, FutureHasTurn, StopHasTurn, EditIsNew, HistoryKnows, RelaysKnown
<1> QED
  BY <1>3, <1>4, <1>5 DEF Inv

\* Every step keeps the invariant.
LEMMA NextInv ==
    ASSUME Inv, [Next]_vars
    PROVE  Inv'
<1>1. CASE UNCHANGED vars
  <2>1. /\ UNCHANGED <<thread, turn, turns, edits, real, ruled, tasksOn>>
        /\ UNCHANGED <<active, future, stop, toggle, relays>>
        /\ UNCHANGED <<wanted, lost, silent, orphaned>>
    BY <1>1 DEF vars, memory, ghosts
  <2>2. TypeOK'
    BY <2>1 DEF Inv, TypeOK
  <2> QED
    BY <2>1, <2>2 DEF Inv, ActiveIsLive, GateHasOwner, EditsAreOnRecord, LedgerIsShown,
       FutureHasTurn, StopHasTurn, EditIsNew, HistoryKnows, RelaysKnown, Looping, NoneRuns
<1>2. CASE \E call \in Calls : Launch(call)
  BY <1>2, LaunchStep
<1>3. CASE Step
  <2>1. CASE BeginMessage \/ BeginClarify
    BY <2>1, BeginLoopSteps
  <2>2. CASE BeginMode
    BY <2>2, BeginModeStep
  <2>3. CASE BeginUnasked \/ PlanReady \/ BeginRefused
    BY <2>3, BeginOtherSteps
  <2>4. CASE Malformed \/ Redirected \/ ToolReturns \/ \E l \in {"open", "settled"} : WriteTodos(l)
    BY <2>4, ReplySteps
  <2>5. CASE Answer \/ Submit \/ Clarify \/ ProposeMode
    BY <2>5, EndingSteps
  <2>6. CASE ModelRaises
    BY <2>6, ModelRaisesStep
  <2>7. CASE CallTool
    BY <2>7, CallToolStep
  <2>8. CASE AskCommand \/ AskEdit
    BY <2>8, AskSteps
  <2>9. CASE \E remember \in BOOLEAN : CommandDecided(remember)
    BY <2>9, CommandDecidedStep
  <2>10. CASE EditAutoAccepted
    BY <2>10, EditAutoAcceptedStep
  <2>11. CASE EditDecided
    BY <2>11, EditDecidedStep
  <2>12. CASE Unwind \/ UnwindUnstarted
    BY <2>12, StopSteps
  <2> QED
    BY <1>3, <2>1, <2>2, <2>3, <2>4, <2>5, <2>6, <2>7, <2>8, <2>9, <2>10, <2>11, <2>12 DEF Step
<1>4. CASE Decision \/ TimedOut
  BY <1>4, DecisionSteps
<1>5. CASE Stop \/ StopReturns
  BY <1>5, StopSteps
<1>6. CASE Restart
  BY <1>6, RestartStep
<1>7. CASE Rest
  BY <1>1, <1>7 DEF Rest
<1> QED
  BY <1>1, <1>2, <1>3, <1>4, <1>5, <1>6, <1>7 DEF Next

\* The invariant of the thread holds in every state.
LEMMA InvHolds == Spec => []Inv
<1>1. Init => Inv
  BY InitInv
<1>2. Inv /\ [Next]_vars => Inv'
  BY NextInv
<1> QED
  BY <1>1, <1>2, PTL DEF Spec

\* The variables keep their types, and the counters their bounds.
THEOREM TypeCorrect == Spec => []TypeOK
<1>1. Inv => TypeOK
  BY DEF Inv
<1> QED
  BY <1>1, InvHolds, PTL

\* One turn per thread: the thread answers 409 exactly while a turn of it can still run, or
\* was stopped before it began.
THEOREM TurnsAreExclusive == Spec => []ActiveIsLive
<1>1. Inv => ActiveIsLive
  BY DEF Inv
<1> QED
  BY <1>1, InvHolds, PTL

\* A gate that waits is shown, and one that is shown waits, or a restart left it.
THEOREM GatesHaveOwners == Spec => []GateHasOwner
<1>1. Inv => GateHasOwner
  BY DEF Inv
<1> QED
  BY <1>1, InvHolds, PTL

\* Every edit of the workspace has its card, and none of a discarded one.
THEOREM EditsRecorded == Spec => []EditsAreOnRecord
<1>1. Inv => EditsAreOnRecord
  BY DEF Inv
<1> QED
  BY <1>1, InvHolds, PTL

\* Between turns the history mentions every promoted edit, stops and timeouts included.
THEOREM PromotedRemembered == Spec => []PromotedIsRemembered
<1>1. Inv => PromotedIsRemembered
  BY DEF Inv, HistoryKnows, PromotedIsRemembered, Looping, NoneRuns
<1> QED
  BY <1>1, InvHolds, PTL

\* When nothing runs, no request relays but those of turns that ended in silence.
THEOREM RelaysAllEnd == Spec => []RelaysEnd
<1>1. Inv => RelaysEnd
  BY DEF Inv, RelaysKnown, RelaysEnd
<1> QED
  BY <1>1, InvHolds, PTL
=============================================================================

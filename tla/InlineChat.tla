------------------------------ MODULE InlineChat ------------------------------
(***************************************************************************)
(* A thread of the chat agent that classifies: a message is explored and   *)
(* classified, then answered, changed inline in a shadow of a few files    *)
(* that the user promotes or discards from its card, handed to a task that *)
(* plans, or continued by resuming the thread's failed task.  The turn is  *)
(* bound to its request: a stream that closes cancels it.                  *)
(***************************************************************************)
EXTENDS Naturals, Sequences, FiniteSets, SequencesExt

CONSTANTS
    MaxTurns,     \* bound: the messages of the user
    MaxCalls,     \* max_explore_calls
    MaxTasks,     \* bound: the tasks of the thread
    MaxPlans,     \* bound: the planning rounds of a task
    Window        \* _RESUME_MESSAGE_WINDOW

VARIABLE chat

\* A text is the set of the edits in it: change i's, and what the user wrote meanwhile (0).
Files == {"a", "b"}
Absent == {MaxTurns + 1}
Base == [f \in Files |-> IF f = "a" THEN {} ELSE Absent]
Lines(text) == text \ Absent

NoTurn == [pc |-> "rest", calls |-> 0, read |-> {}, before |-> 0, recent |-> 0, targets |-> {}]

Change == Len(chat.changes)
Message(kind, ref) == [kind |-> kind, ref |-> ref, plan |-> 0, decision |-> "none"]
Text == Message("text", 0)
Say(c, ms) == [c EXCEPT !.messages = @ \o ms]

\* The turn returns; chat_done closes the stream.
Rest == [chat EXCEPT !.turn = NoTurn]
Done == [Rest EXCEPT !.stream = "none"]

\* Pills of their own before a card that cannot carry them.
Pills == IF chat.turn.calls > 0 THEN <<Message("pills", 0)>> ELSE << >>

-----------------------------------------------------------------------------
(* Explore and classify                                                     *)

Send ==
    /\ chat.turn.pc = "rest" /\ chat.stream = "none" /\ chat.turns < MaxTurns
    /\ chat' = [Say(chat, <<Message("user", 0)>>) EXCEPT
                   !.turns = @ + 1, !.stream = "open",
                   !.turn = [NoTurn EXCEPT !.pc = "explore", !.before = Len(chat.messages)]]

\* A call may read a file, fail, or be another tool's.
Explore(read) ==
    /\ chat.turn.pc = "explore" /\ chat.turn.calls < MaxCalls
    /\ chat' = [chat EXCEPT !.turn.calls = @ + 1, !.turn.read = @ \cup read]

\* The newest task that may be resumed among the last messages before this one.
RecentTask ==
    LET carded == {k \in 1 .. chat.turn.before :
            /\ chat.turn.before - k < Window
            /\ chat.messages[k].kind \in {"task_card", "plan_card"}
            /\ LET t == chat.tasks[chat.messages[k].ref]
               IN t.status \in {"FAILED", "ABORTED"} /\ t.executable}
    IN IF carded = {} THEN 0 ELSE chat.messages[Max(carded)].ref

\* The model is done, fails, or has used its calls.  A classification that fails, and a
\* message that says /plan, count as a large change.  What the intent has no use for is
\* forgotten.
Intents == {"qa", "clarify", "small_change", "resume", "large_change"}
Explored(intent) ==
    /\ chat.turn.pc = "explore"
    /\ chat' = [chat EXCEPT !.turn =
                   [NoTurn EXCEPT !.pc = intent,
                                  !.calls = IF intent \in {"resume", "large_change"} THEN chat.turn.calls ELSE 0,
                                  !.read = IF intent = "small_change" THEN chat.turn.read ELSE {},
                                  !.recent = IF intent = "resume" THEN RecentTask ELSE 0]]

\* An answer or a question.
Reply ==
    /\ chat.turn.pc \in {"qa", "clarify"}
    /\ chat' = Say(Done, <<Text>>)

-----------------------------------------------------------------------------
(* An inline change                                                         *)

\* The files that were read, else the likely ones, are copied to the shadow.
Seeds(likely) ==
    LET Existing(files) == {f \in files : chat.real[f] # Absent}
    IN IF Existing(chat.turn.read) # {} THEN Existing(chat.turn.read) ELSE Existing(likely)

Seeded(files) == [f \in Files |-> IF f \in files THEN chat.real[f] ELSE Absent]

\* Likely files that do not exist are targets too.  The entry in memory and the manifest
\* on disk list no file yet; seen and shown are history.
Prepare(likely) ==
    /\ chat.turn.pc = "small_change"
    /\ LET seeds == Seeds(likely)
       IN chat' = [chat EXCEPT
             !.turn = [NoTurn EXCEPT !.pc = "loop",
                                     !.targets = seeds \cup {f \in likely : chat.real[f] = Absent}],
             !.changes = Append(@,
                 [kept |-> TRUE, text |-> Seeded(seeds), entry |-> TRUE, touched |-> {},
                  manifest |-> {}, seen |-> chat.real, shown |-> {}, copied |-> {}])]

\* A patch that fails may leave a file written.
PatchFails(f) ==
    /\ chat.turn.pc = "loop" /\ f \in chat.turn.targets
    /\ chat' = [chat EXCEPT !.changes[Change].text[f] = Lines(@) \cup {Change}]

Patched(files) ==
    [f \in Files |-> LET text == chat.changes[Change].text[f]
                     IN IF f \in files THEN Lines(text) \cup {Change} ELSE text]

\* Mutant: the manifest keeps the empty list it was created with.
ListedInMemory(c, files) == [c EXCEPT !.touched = files]

\* What promotion is to copy, in memory and for after a restart.
Listed(c, files) == [c EXCEPT !.touched = files, !.manifest = files]

\* The loop returns with its first patch, or without one; the diff is shown on a card.
Changed(files) ==
    /\ chat.turn.pc = "loop" /\ files \subseteq chat.turn.targets
    /\ chat' = [Say(Done, <<Message("diff_card", Change)>>) EXCEPT
                   !.changes[Change] = [Listed(@, files) EXCEPT
                       !.text = Patched(files), !.shown = {<<f, Patched(files)[f]>> : f \in files}]]

LoopRaises ==
    /\ chat.turn.pc = "loop"
    /\ chat' = Done

Card(i) == SelectInSeq(chat.messages, LAMBDA m : m.kind = "diff_card" /\ m.ref = i)
ResolveCard(c, i, resolution) == [c EXCEPT !.messages[Card(i)].decision = resolution]

\* From memory, else from the manifest; a promotion that fails has copied some files.
Copies(i) == IF chat.changes[i].entry THEN chat.changes[i].touched ELSE chat.changes[i].manifest

Promote(i, files) ==
    /\ Card(i) > 0 /\ (chat.changes[i].entry \/ chat.changes[i].kept)
    /\ files \subseteq Copies(i)
    /\ LET text == chat.changes[i].text
           copied == [chat EXCEPT
               !.real = [f \in Files |-> IF f \in files THEN text[f] ELSE @[f]],
               !.changes[i].copied = @ \cup {<<f, text[f]>> : f \in files}]
       IN chat' = IF files = Copies(i)
                  THEN [ResolveCard(copied, i, "applied") EXCEPT !.changes[i].entry = FALSE]
                  ELSE copied

Discard(i) ==
    /\ Card(i) > 0
    /\ chat' = [ResolveCard(chat, i, "discarded") EXCEPT
                   !.changes[i].entry = FALSE, !.changes[i].kept = FALSE]

UserEdits(f) ==
    /\ chat.changes # << >>
    /\ chat' = [chat EXCEPT !.real[f] = Lines(@) \cup {0}]

-----------------------------------------------------------------------------
(* The thread's tasks                                                       *)

NewTask(parent) ==
    [status |-> IF parent = 0 THEN "PLANNED" ELSE "EXECUTING", executable |-> parent # 0,
     rounds |-> 0,
     plan |-> IF parent = 0 THEN 0 ELSE chat.tasks[parent].plan, parent |-> parent]

\* The task, its card, and the thread's pointer to it.
WithTask(c, parent) ==
    [Say(c, Pills \o <<Message("task_card", Len(chat.tasks) + 1)>>) EXCEPT
        !.tasks = Append(@, NewTask(parent)), !.active = Len(chat.tasks) + 1]

CreateTask ==
    /\ chat.turn.pc = "large_change" /\ Len(chat.tasks) < MaxTasks
    /\ chat' = [WithTask(chat, 0) EXCEPT !.turn = [NoTurn EXCEPT !.pc = "planning"]]

\* The turn polls the task it created, for at most an hour.
PlanAwaited(timeout) ==
    /\ chat.turn.pc = "planning"
    /\ timeout \/ Last(chat.tasks).status \notin {"PLANNED", "EXECUTING", "READY_FOR_REVIEW"}
    /\ chat' = Done

\* The child's run says chat_done: the stream stays.
Resume ==
    /\ chat.turn.pc = "resume" /\ chat.turn.recent > 0 /\ Len(chat.tasks) < MaxTasks
    /\ chat.tasks[chat.turn.recent].status \in {"FAILED", "ABORTED"}
    /\ chat' = [WithTask(chat, chat.turn.recent) EXCEPT !.turn = NoTurn]

\* There is no task to resume, or it cannot be; nothing is stored.
ResumeRefused ==
    /\ chat.turn.pc = "resume"
    /\ chat' = Done

\* A plan's card, unless the task's last card says the same.
PlanCard(t, plan) ==
    LET last == {k \in DOMAIN chat.messages :
                    chat.messages[k].kind = "plan_card" /\ chat.messages[k].ref = t}
    IN IF last # {} /\ chat.messages[Max(last)].plan = plan THEN << >>
       ELSE <<[Message("plan_card", t) EXCEPT !.plan = plan]>>

\* A plan, after feedback perhaps the same as before.
PlanMade(t, plan) ==
    /\ chat.tasks[t].status = "PLANNED" /\ plan > 0
    /\ plan \in {chat.tasks[t].plan, chat.tasks[t].rounds + 1}
    /\ chat' = [Say(chat, (IF chat.tasks[t].plan > 0 THEN <<Text>> ELSE << >>) \o PlanCard(t, plan))
                   EXCEPT !.tasks[t].status = "AWAITING_PLAN_APPROVAL", !.tasks[t].plan = plan,
                          !.tasks[t].rounds = @ + 1]

PlanFails(t) ==
    /\ chat.tasks[t].status = "PLANNED"
    /\ chat' = [chat EXCEPT !.tasks[t].status = "FAILED"]

Feedback(t) ==
    /\ chat.tasks[t].status = "AWAITING_PLAN_APPROVAL" /\ chat.tasks[t].rounds < MaxPlans
    /\ chat' = [chat EXCEPT !.tasks[t].status = "PLANNED"]

Approve(t) ==
    /\ chat.tasks[t].status = "AWAITING_PLAN_APPROVAL"
    /\ chat' = [Say(chat, <<Text>>) EXCEPT
                   !.tasks[t].status = "EXECUTING", !.tasks[t].executable = TRUE]

\* A task of the chat says how it ended (aborted is as failed here).  A resumed one has no
\* chat of its own; it says chat_done, which closes whichever stream is open, and so
\* cancels the turn behind it.
RunEnds(t, status) ==
    /\ chat.tasks[t].status = "EXECUTING"
    /\ LET ended == [chat EXCEPT !.tasks[t].status = status]
       IN chat' = IF chat.tasks[t].parent = 0 THEN Say(ended, <<Text>>)
                  ELSE [ended EXCEPT !.stream = "none", !.turn = NoTurn]

\* Accept (which may fail) and reject.
Reviewed(t, status) ==
    /\ chat.tasks[t].status = "READY_FOR_REVIEW"
    /\ LET ended == [chat EXCEPT !.tasks[t].status = status]
       IN chat' = IF chat.tasks[t].parent = 0 THEN Say(ended, <<Text>>) ELSE ended

\* What GET /live shows of the active task: its plan while it awaits approval.
Live ==
    IF chat.active > 0 /\ chat.tasks[chat.active].status = "AWAITING_PLAN_APPROVAL"
    THEN [task |-> chat.active, plan |-> chat.tasks[chat.active].plan]
    ELSE [task |-> chat.active, plan |-> 0]

-----------------------------------------------------------------------------

\* The client leaves: its turn is cancelled where it waits.
Disconnect ==
    /\ chat.stream = "open"
    /\ chat' = Done

\* The turn, the entries of the changes and the runs of the tasks are only in memory: a
\* task that was running keeps its status and nothing runs it ("STRANDED").
Restart ==
    chat' = [Done EXCEPT
        !.changes = [i \in DOMAIN @ |-> [@[i] EXCEPT !.entry = FALSE]],
        !.tasks = [t \in DOMAIN @ |->
            IF @[t].status \in {"PLANNED", "EXECUTING"} THEN [@[t] EXCEPT !.status = "STRANDED"]
            ELSE @[t]]]

Init ==
    chat = [turns |-> 0, turn |-> NoTurn, stream |-> "none", messages |-> << >>, real |-> Base,
            changes |-> << >>, tasks |-> << >>, active |-> 0]

Next ==
    \/ Send \/ Reply \/ LoopRaises \/ CreateTask \/ Resume \/ ResumeRefused
    \/ Disconnect \/ Restart
    \/ \E intent \in Intents : Explored(intent)
    \/ \E read \in {{}} \cup {{f} : f \in Files} : Explore(read)
    \/ \E likely \in SUBSET Files : Prepare(likely)
    \/ \E f \in Files : PatchFails(f) \/ UserEdits(f)
    \/ \E files \in SUBSET Files : Changed(files)
    \/ \E i \in DOMAIN chat.changes : Discard(i) \/ (\E files \in SUBSET Files : Promote(i, files))
    \/ \E timeout \in BOOLEAN : PlanAwaited(timeout)
    \/ \E t \in DOMAIN chat.tasks :
          \/ PlanFails(t) \/ Feedback(t) \/ Approve(t)
          \/ \E plan \in 1 .. MaxPlans : PlanMade(t, plan)
          \/ \E status \in {"READY_FOR_REVIEW", "FAILED"} : RunEnds(t, status)
          \/ \E status \in {"SUCCEEDED", "ABORTED"} : Reviewed(t, status)

-----------------------------------------------------------------------------
(* Properties                                                               *)

\* A card that says "applied" had what it showed copied into the workspace, every file of
\* it and nothing else, restarts between the diff and the decision included.
AppliedIsShown ==
    \A i \in DOMAIN chat.changes :
        Card(i) > 0 /\ chat.messages[Card(i)].decision = "applied" =>
            chat.changes[i].copied = chat.changes[i].shown

\* A promotion overwrites no edit that was in the file when the change began.
PromotionKeepsSeen ==
    \A i \in DOMAIN chat.changes : \A c \in chat.changes[i].copied :
        Lines(chat.changes[i].seen[c[1]]) \subseteq c[2]

\* The plan the live view offers for approval is the last one of the transcript.
LivePlanIsLastCard ==
    Live.plan > 0 => PlanCard(Live.task, Live.plan) = << >>

\* A run is resumed from a task of the thread that had failed or was aborted.
ResumedHadEnded ==
    \A t \in DOMAIN chat.tasks : chat.tasks[t].parent > 0 =>
        chat.tasks[chat.tasks[t].parent].status \in {"FAILED", "ABORTED"}

InlineAsShown ==
    AppliedIsShown /\ PromotionKeepsSeen /\ LivePlanIsLastCard /\ ResumedHadEnded
=============================================================================

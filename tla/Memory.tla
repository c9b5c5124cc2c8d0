--------------------------------- MODULE Memory ---------------------------------
(***************************************************************************)
(* The memory of an agent's loop: before each call of the model the        *)
(* history is compacted, its oldest messages stored as segments and folded *)
(* into an anchor; what was evicted is distilled in the background into    *)
(* memories of the workspace, which later turns recall.                    *)
(*                                                                         *)
(* One run of the loop is modelled, with its history begun anew by each    *)
(* attempt, and the memories of its workspace.                             *)
(***************************************************************************)
EXTENDS Naturals, FiniteSets, SequencesExt

CONSTANTS
    Sizes,         \* the sizes of messages, in tokens
    Trigger,       \* window_tokens * trigger_frac
    HotBudget,     \* window_tokens * hot_token_frac
    HotTurns,      \* hot_turns
    MaxMessages,   \* bound: the messages of the run
    MaxMemories,   \* bound: the memories ever written
    MaxTasks       \* bound: the consolidations that are begun, the first ones

VARIABLE mem

Kinds == {"episodic", "semantic"}

\* The history and the messages said since it began; the segments; the version of the
\* anchor and what it folds; the round under way; the background consolidations; the
\* memories; what was recalled for the query of the turn.
NoMemory ==
    [pc |-> "idle", history |-> << >>, said |-> 0, since |-> 1, segments |-> {},
     version |-> 0, round |-> [items |-> << >>, hot |-> << >>, lo |-> 0], tasks |-> {},
     begun |-> 0, store |-> << >>, recalled |-> {}]

Message(id, role, size) == [id |-> id, role |-> role, size |-> size, whole |-> TRUE]
Anchor == Message(0, "user", 1)
Tokens(history) == FoldLeft(LAMBDA sum, m : sum + m.size, 0, history)
Suffix(s, n) == SubSeq(s, Len(s) - n + 1, Len(s))

-----------------------------------------------------------------------------
(* Compaction                                                               *)

\* The longest tail within the budget and the cap, and one message at least; from it the
\* leading tool results, which belong to a message that is evicted, are taken away.
Hot(history) ==
    LET fits == {n \in 1 .. Len(history) :
                   n = 1 \/ (Tokens(Suffix(history, n)) <= HotBudget /\ n <= HotTurns)}
        longest == CHOOSE n \in fits : \A m \in fits : m <= n
        turns == {n \in 1 .. longest : n = 1 \/ Suffix(history, n)[1].role # "tool_result"}
    IN Suffix(history, CHOOSE n \in turns : \A m \in turns : m <= n)

\* Mutant: each round numbers its segments anew.
NextSeqOfRound(segments) == 0

\* next_seq: the numbers of a run's segments grow across rounds.
NextSeq(segments) ==
    IF segments = {} THEN 0 ELSE 1 + CHOOSE n \in {s.seq : s \in segments} : \A s \in segments : s.seq <= n

\* A loop's history begins: its first turn, or another attempt of the same step, whose
\* segments and anchor are those of the run.
NewHistory ==
    /\ mem.pc = "idle"
    /\ mem' = [mem EXCEPT !.pc = "turn", !.history = << >>, !.since = mem.said + 1]

\* A message of the user or of the model, or a result of a tool.
Say(role, size) ==
    /\ mem.pc = "turn" /\ mem.said < MaxMessages
    /\ mem' = [mem EXCEPT !.pc = "prepare", !.said = @ + 1,
                          !.history = Append(@, Message(mem.said + 1, role, size))]

\* maybe_compact up to the summary: the segments are stored before anything is awaited.
\* A newest message that alone is over the budget stays in the history cut to it, and is
\* stored whole.
Evict ==
    /\ mem.pc = "prepare" /\ Tokens(mem.history) >= Trigger
    /\ LET hot == Hot(mem.history)
           evicted == SubSeq(mem.history, 1, Len(mem.history) - Len(hot))
           over == Len(hot) = 1 /\ hot[1].size > HotBudget
           items == evicted \o (IF over THEN hot ELSE << >>)
           kept == IF over THEN <<[hot[1] EXCEPT !.size = HotBudget, !.whole = FALSE]>> ELSE hot
           lo == NextSeq(mem.segments)
           new == {[seq |-> lo + i - 1, item |-> items[i]] : i \in DOMAIN items}
           round == [items |-> items, hot |-> kept, lo |-> lo]
       IN mem' = IF evicted # << >>
                 THEN [mem EXCEPT !.pc = "summarise", !.segments = @ \cup new, !.round = round]
                 ELSE [mem EXCEPT !.pc = "compacted", !.segments = @ \cup new, !.round = round,
                                  !.history = IF mem.version > 0 THEN <<Anchor>> \o kept ELSE kept]

\* The summary is the next version of the anchor, and the head of the history.
Summarised ==
    /\ mem.pc = "summarise"
    /\ mem' = [mem EXCEPT !.pc = "compacted", !.version = @ + 1, !.history = <<Anchor>> \o mem.round.hot]

\* The model fails, or echoes its input twice: the anchor stays as it was.
SummaryFails ==
    /\ mem.pc = "summarise"
    /\ mem' = [mem EXCEPT !.pc = "compacted",
                          !.history = IF mem.version > 0 THEN <<Anchor>> \o mem.round.hot ELSE mem.round.hot]

\* Below the trigger nothing is read or written.
Compact == mem.pc = "prepare" /\ Tokens(mem.history) < Trigger /\ mem' = [mem EXCEPT !.pc = "recall"]

-----------------------------------------------------------------------------
(* Memories                                                                 *)

Live(store) == {i \in DOMAIN store : store[i].by = 0}
Workspace(store) == {i \in Live(store) : store[i].scope = "workspace"}

\* schedule_consolidation, with the span of the segments written and their text.
Schedule ==
    /\ mem.pc = "compacted"
    /\ LET r == mem.round
           hi == r.lo + Len(r.items) - 1
           text == {s.item : s \in {t \in mem.segments : t.seq \in r.lo .. hi}}
           n == IF r.items = << >> \/ mem.begun = MaxTasks THEN 0 ELSE 1
           task == [stage |-> "begin", span |-> r.lo .. hi, text |-> text, existing |-> {}]
       IN mem' = [mem EXCEPT !.pc = "recall", !.round = NoMemory.round, !.begun = @ + n,
                             !.tasks = IF n = 0 THEN @ ELSE @ \cup {task}]

\* A turn that submits its changes: its closing text is distilled, from no segment.
Submit ==
    /\ mem.pc = "turn" /\ mem.said > 0 /\ mem.begun < MaxTasks
    /\ mem' = [mem EXCEPT !.pc = "idle", !.begun = @ + 1,
                          !.tasks = @ \cup {[stage |-> "begin", span |-> {}, text |-> {}, existing |-> {}]}]

\* The task reads the memories there are, and the model is called.
Distil(t) ==
    /\ t.stage = "begin"
    /\ mem' = [mem EXCEPT !.tasks = (@ \ {t}) \cup {[t EXCEPT !.stage = "distil", !.existing = Workspace(mem.store)]}]

\* Nothing to remember, a failure, or a memory like one that lives.
Dropped(t) == t.stage = "distil" /\ mem' = [mem EXCEPT !.tasks = @ \ {t}]

\* supersede and insert_memory, each one transaction.
Insert(store, m) == Append(store, m)
Supersede(store, old, m) == Append([store EXCEPT ![old].by = Len(store) + 1], m)

\* _dispose of a candidate, which may contradict a memory the model was shown or make up
\* one that is not there.  Whether that memory still lives is not looked at.
Dispose(t, kind, contradicts) ==
    /\ t.stage = "distil" /\ Len(mem.store) < MaxMemories
    /\ contradicts \in t.existing \cup {0}
    /\ LET m == [kind |-> kind, scope |-> "workspace", by |-> 0, known |-> t.existing,
                  span |-> t.span, text |-> t.text]
       IN mem' = [mem EXCEPT !.tasks = @ \ {t},
                             !.store = IF kind # "episodic" /\ contradicts # 0
                                       THEN Supersede(@, contradicts, m) ELSE Insert(@, m)]

\* The remember tool: written at once, like another or not.
Remember(kind, scope) ==
    /\ mem.pc = "turn" /\ Len(mem.store) < MaxMemories /\ mem.said > 0
    /\ mem' = [mem EXCEPT !.store = Insert(@, [kind |-> kind, scope |-> scope, by |-> 0, known |-> {},
                                               span |-> {}, text |-> {}])]

\* _fill_recall: the memories recalled for a query are kept until the query changes; what
\* is above the floor is any part of those that live.
Recall(same, found) ==
    /\ mem.pc = "recall"
    /\ IF same THEN found = mem.recalled ELSE found \subseteq Workspace(mem.store)
    /\ mem' = [mem EXCEPT !.pc = "turn", !.recalled = found]

\* The loop ends without changes.
Ends == mem.pc = "turn" /\ mem' = [mem EXCEPT !.pc = "idle"]

-----------------------------------------------------------------------------

Init == mem = NoMemory

Next ==
    \/ NewHistory \/ Evict \/ Summarised \/ SummaryFails \/ Compact \/ Schedule \/ Submit \/ Ends
    \/ \E role \in {"user", "tool_result"}, size \in Sizes : Say(role, size)
    \/ \E t \in mem.tasks : \/ Distil(t) \/ Dropped(t)
                            \/ \E k \in Kinds, c \in t.existing \cup {0} : Dispose(t, k, c)
    \/ \E k \in Kinds, s \in {"workspace", "thread"} : Remember(k, s)
    \/ mem.pc = "recall" /\ \E b \in BOOLEAN, ms \in SUBSET DOMAIN mem.store : Recall(b, ms)

\* What compaction takes away can be had again.  Every message of the history is whole in
\* it or in a segment, during the summary too; the span of a memory names the very
\* segments it was distilled from, whatever rounds and attempts came between; and a
\* memory that is retired was so by a later one that was written in its knowledge.
MemoryIsGrounded ==
    /\ \A id \in mem.since .. mem.said :
         \/ \E i \in DOMAIN mem.history : mem.history[i].id = id /\ mem.history[i].whole
         \/ \E s \in mem.segments : s.item.id = id /\ s.item.whole
    /\ \A i \in DOMAIN mem.store :
         LET m == mem.store[i] IN
         /\ m.text = {s.item : s \in {t \in mem.segments : t.seq \in m.span}}
         /\ m.by # 0 => m.by \in DOMAIN mem.store /\ i < m.by /\ i \in mem.store[m.by].known
=============================================================================

---------------------------- MODULE SemanticIndex -----------------------------
(***************************************************************************)
(* The vector table of a workspace.  The indexer writes snapshots and asks *)
(* for a build after each; the loading of a task's context builds as well. *)
(* A build reads the snapshot, then the time and the text of each of its   *)
(* files, then the times in the table, and embeds again only the files     *)
(* whose time differs.  A version of a file is the time of its writing.    *)
(***************************************************************************)
EXTENDS Naturals, FiniteSets, FiniteSetsExt

CONSTANTS
    Paths,      \* the files of the workspace
    MaxClock,   \* bound: the writes to files
    MaxGen      \* bound: the snapshots and the restarts

VARIABLE index

\* A notified build runs in a thread, under a lock; a context's build on the event loop, without it.
Builders == {"notified", "context"}

Idle == [pc |-> "idle", gen |-> 0, todo |-> {}, stamp |-> << >>, text |-> << >>, update |-> {}]
Building(b) == index.builds[b].pc # "idle"
Update(b, job) == [index EXCEPT !.builds[b] = job]

\* The newest time stored of each file; 0 if there is none.
ExistingMtimes(rows) ==
    [f \in Paths |-> LET of == {r.stamp : r \in {x \in rows : x.path = f}} IN IF of = {} THEN 0 ELSE Max(of)]

-----------------------------------------------------------------------------
(* The workspace and the indexer                                            *)

Change(f, there) ==
    /\ index.clock < MaxClock /\ (there \/ index.disk[f] # 0)
    /\ index' = [index EXCEPT !.clock = @ + 1, !.disk[f] = IF there THEN index.clock + 1 ELSE 0]

\* The graph keeps the nodes of removed files.
Snapshot ==
    /\ index.gen + index.restarts < MaxGen
    /\ index' = [index EXCEPT !.gen = @ + 1, !.taken = index.clock,
                              !.nodes = @ \cup {f \in Paths : index.disk[f] # 0}]

-----------------------------------------------------------------------------
(* A build                                                                  *)

\* A second build beside a running one counts as an overlap.
Begin(b) ==
    /\ ~Building(b) /\ index.gen > 0
    /\ b = "context" => index.gen > index.last
    /\ index' = [Update(b, [Idle EXCEPT !.pc = "read", !.gen = index.gen, !.todo = index.nodes])
                     EXCEPT !.overlap = @ \/ \E o \in Builders : Building(o)]

At(b, pc) == index.builds[b].pc = pc
With(f, v, map) == [g \in DOMAIN map \cup {f} |-> IF g = f THEN v ELSE map[g]]

\* One file at a time: its time, then its text; a file that is gone has no chunk.
Reading(b, f) == At(b, "read") /\ f \in index.builds[b].todo

\* Mutant: its text, then its time.
ReadThenStat(b, f) ==
    LET job == index.builds[b]
    IN /\ Reading(b, f)
       /\ index' = Update(b, IF f \in DOMAIN job.text
                             THEN [job EXCEPT !.todo = @ \ {f}, !.stamp = With(f, index.disk[f], @)]
                             ELSE IF index.disk[f] = 0 THEN [job EXCEPT !.todo = @ \ {f}]
                             ELSE [job EXCEPT !.text = With(f, index.disk[f], @)])

StatThenRead(b, f) ==
    LET job == index.builds[b]
    IN /\ Reading(b, f)
       /\ index' = Update(b, IF index.disk[f] = 0 THEN [job EXCEPT !.todo = @ \ {f}]
                             ELSE IF f \in DOMAIN job.stamp
                             THEN [job EXCEPT !.todo = @ \ {f}, !.text = With(f, index.disk[f], @)]
                             ELSE [job EXCEPT !.stamp = With(f, index.disk[f], @)])

\* The build that ends well says which snapshot is in the table.
Finished(b) ==
    [index EXCEPT !.builds[b] = Idle,
                  !.last = IF b = "context" \/ index.builds[b].gen > @ THEN index.builds[b].gen ELSE @]

Compare(b) ==
    LET job == index.builds[b]
        stored == ExistingMtimes(index.rows)
        update == {f \in DOMAIN job.text : stored[f] # job.stamp[f]}
    IN /\ At(b, "read") /\ job.todo = {}
       /\ IF update = {} THEN index' = Finished(b)
          ELSE index' = Update(b, [job EXCEPT !.pc = "delete", !.update = update])

\* A deletion that fails is logged, and the old rows accumulate.
DeleteChunks(b) ==
    /\ At(b, "delete")
    /\ LET deleting == Update(b, [index.builds[b] EXCEPT !.pc = "embed"])
       IN \/ index' = [deleting EXCEPT !.rows = {r \in @ : r.path \notin index.builds[b].update}]
          \/ index' = [deleting EXCEPT !.overlap = TRUE]

EmbedAndInsert(b) ==
    LET job == index.builds[b]
    IN /\ At(b, "embed")
       /\ index' = [Finished(b) EXCEPT
              !.rows = @ \cup {[path |-> f, stamp |-> job.stamp[f], text |-> job.text[f]] : f \in job.update}]

\* The model or the table raises: what was deleted stays deleted, and no snapshot is marked.
Fails(b) == Building(b) /\ index' = Update(b, Idle)

\* The table outlives the process; the mark and the builds do not.
Restart ==
    /\ index.gen > 0 /\ index.gen + index.restarts < MaxGen
    /\ index' = [index EXCEPT !.builds = [b \in Builders |-> Idle], !.last = 0, !.restarts = @ + 1]

-----------------------------------------------------------------------------

Init ==
    index = [clock |-> 0, disk |-> [f \in Paths |-> 0], gen |-> 0, taken |-> 0, nodes |-> {}, rows |-> {},
             last |-> 0, builds |-> [b \in Builders |-> Idle], overlap |-> FALSE, restarts |-> 0]

Next ==
    \/ \E f \in Paths, there \in BOOLEAN : Change(f, there)
    \/ Snapshot \/ Restart
    \/ \E b \in Builders :
          \/ Begin(b) \/ Compare(b) \/ DeleteChunks(b) \/ EmbedAndInsert(b) \/ Fails(b)
          \/ \E f \in Paths : StatThenRead(b, f)

-----------------------------------------------------------------------------

\* A chunk carries no time later than its text, so that the build after a write that fell
\* between the two reads embeds the file again instead of skipping it for good.
StampsAreHonest == \A r \in index.rows : r.stamp <= r.text

\* Once the present snapshot is marked as built, each file of it not written since has its
\* chunks, of its present text and of no other, if no two builds ran at once and no deletion
\* failed.
CaughtUp ==
    ~index.overlap /\ index.last = index.gen =>
        \A f \in index.nodes : index.disk[f] \in 1 .. index.taken =>
            {r.text : r \in {x \in index.rows : x.path = f}} = {index.disk[f]}

SemanticIsTrue == StampsAreHonest /\ CaughtUp
=============================================================================

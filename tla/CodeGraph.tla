------------------------------ MODULE CodeGraph ------------------------------
(***************************************************************************)
(* The indexer: files are parsed into nodes and edges, each call first to  *)
(* an external name and then, if the language server answers, to the node  *)
(* its definition stands in; and a watch loop takes the events of the file *)
(* system one by one, wipes the calls of the file, and parses it again.    *)
(***************************************************************************)
EXTENDS Naturals, Sequences, FiniteSets

CONSTANTS
    Versions,         \* file -> the sources it may have: [decls, calls, ok]
    Implementations,  \* pairs <<name, name>>: the first implements the second
    MaxWrites         \* bound: the changes made to files

VARIABLE graph

Files == DOMAIN Versions
Gone == [decls |-> {}, calls |-> {}, ok |-> FALSE]

\* A function is named with its line, an external name by itself alone; a file stands in
\* its first line.
FileSymbol(f) == [scope |-> "file", file |-> f, name |-> f, line |-> 1]
Symbol(f, d) == [scope |-> "function", file |-> f, name |-> d.name, line |-> d.line]
External(name) == [scope |-> "external", file |-> "", name |-> name, line |-> 0]
Node(id, f, line) == [id |-> id, file |-> f, line |-> line]
Edge(from, to, kind) == [from |-> from, to |-> to, kind |-> kind]

\* The function a call stands in; at the top level it is the file.
Caller(f, s, c) ==
    LET around == {d \in s.decls : d.name = c.from}
    IN IF around = {} THEN FileSymbol(f) ELSE Symbol(f, CHOOSE d \in around : TRUE)

-----------------------------------------------------------------------------
(* Parsing and resolving                                                    *)

\* The last call that names an external has its node.
Upserted(nodes, new) == {n \in nodes : \A m \in new : m.id # n.id} \cup new

\* What a source has: its file and declarations, the names it calls, and the calls, each an
\* edge and parked with its line.
Declared(f, s) == {Node(FileSymbol(f), f, 1)} \cup {Node(Symbol(f, d), f, d.line) : d \in s.decls}
Mentioned(f, s) ==
    {Node(External(c.name), f, c.line) : c \in {d \in s.calls : \A e \in s.calls : e.name = d.name => e.line <= d.line}}
Called(f, s) == {Edge(Caller(f, s, c), External(c.name), "Calls") : c \in s.calls}
Parks(f, s) == {[from |-> Caller(f, s, c), name |-> c.name, line |-> c.line, file |-> f] : c \in s.calls}

Parsed(g, f, s) ==
    [g EXCEPT !.nodes = Upserted(@, Declared(f, s) \cup Mentioned(f, s)),
              !.edges = @ \cup Called(f, s), !.parked = @ \cup Parks(f, s)]

\* Mutant: the edges of the earlier source stay.
KeptAll(g, f) == g

\* Pruning takes the edges whose source node is in the file.
Pruned(g, f) ==
    [g EXCEPT !.edges = {e \in @ : ~\E n \in g.nodes : n.id = e.from /\ n.file = f}]

\* The declarations of a name in the files the language server was told of.
Definitions(g, name) ==
    UNION {{[file |-> f, line |-> d.line] : d \in {x \in g.told[f].decls : x.name = name}} : f \in Files}

\* The node of the file that starts last at or above the line; of two, either.
Nearest(g, at) ==
    LET above == {n \in g.nodes : n.file = at.file /\ n.line <= at.line /\ n.line > 0}
    IN {n.id : n \in {m \in above : \A o \in above : o.line <= m.line}}

\* What a parked call may resolve to; the server may not answer.
Targets(g, p) == {External(p.name)} \cup UNION {Nearest(g, at) : at \in Definitions(g, p.name)}

Implements(g, p, to) ==
    LET names == {i[1] : i \in {j \in Implementations : j[2] = p.name}}
        impls == UNION {Nearest(g, at) : at \in UNION {Definitions(g, n) : n \in names}}
    IN {Edge(impl, to, "Implements") : impl \in impls \ {to}}

Waiting(g, files) == {p \in g.parked : p.file \in files}
Found(calls, to) == {p \in calls : to[p] # External(p.name)}

\* The calls are resolved one by one: an edge to an external name (its node may stand nearest)
\* is taken again by a later call of that name.
Retaken(calls, to) ==
    {Edge(p.from, to[p], "Calls") : p \in {x \in Found(calls, to) :
        \E q \in Found(calls, to) : q.from = x.from /\ to[x] = External(q.name)}}

\* The external edge gives way to the resolved one, even if it is no longer there. What each
\* call resolved to is noted.
Resolved(g, files, to, retaken) ==
    LET calls == Waiting(g, files)
        found == Found(calls, to)
    IN [g EXCEPT !.parked = @ \ calls,
                 !.edges = (((@ \ {Edge(p.from, External(p.name), "Calls") : p \in found})
                             \cup {Edge(p.from, to[p], "Calls") : p \in found}) \ retaken)
                           \cup UNION {Implements(g, p, to[p]) : p \in found},
                 !.answers = [f \in Files |->
                    IF f \in files
                      THEN {[from |-> p.from, name |-> p.name, to |-> to[p]] : p \in Waiting(g, {f})}
                      ELSE @[f]]]

Persisted(g) == [g EXCEPT !.snapshot = g.edges]

ResolvesTo(g, calls) ==
    {to \in [calls -> UNION {Targets(g, p) : p \in calls}] : \A p \in calls : to[p] \in Targets(g, p)}

-----------------------------------------------------------------------------
(* Bootstrap                                                                *)

\* All files are parsed, in any order, then the server is told of those that parse, then all
\* calls are resolved.
Bootstrap(sources) ==
    LET found == {f \in Files : sources[f] # Gone}
        mentioned == UNION {Mentioned(f, sources[f]) : f \in found}
    IN /\ ~graph.started
       /\ \E names \in SUBSET mentioned :
            /\ \A n \in mentioned : \E m \in names : m.id = n.id
            /\ \A m, n \in names : m.id = n.id => m = n
            /\ LET g == [graph EXCEPT
                          !.started = TRUE, !.disk = sources, !.clean = Files,
                          !.told = [f \in Files |-> IF sources[f].ok THEN sources[f] ELSE Gone],
                          !.nodes = names \cup UNION {Declared(f, sources[f]) : f \in found},
                          !.edges = UNION {Called(f, sources[f]) : f \in found},
                          !.parked = UNION {Parks(f, sources[f]) : f \in found}]
               IN \E to \in ResolvesTo(g, Waiting(g, Files)) :
                    \E retaken \in SUBSET Retaken(Waiting(g, Files), to) :
                        graph' = Persisted(Resolved(g, Files, to, retaken))

-----------------------------------------------------------------------------
(* The watch loop                                                           *)

Write(f, s) ==
    /\ graph.started /\ graph.writes < MaxWrites /\ graph.disk[f] # s
    /\ graph' = [graph EXCEPT !.disk[f] = s, !.writes = @ + 1,
                              !.queue = Append(@, [file |-> f, gone |-> s = Gone])]

\* The time between two events of a file grows beyond the debounce.
Quiet == graph.recent # {} /\ graph' = [graph EXCEPT !.recent = {}]

Event == Head(graph.queue)
Taken == [graph EXCEPT !.queue = Tail(@)]
Handled == [Taken EXCEPT !.recent = @ \cup {Event.file}]

Debounced == graph.queue # << >> /\ Event.file \in graph.recent /\ graph' = Taken

Handling == graph.queue # << >> /\ Event.file \notin graph.recent

\* Nodes and edges of a removed file stay.
Removed == /\ Handling /\ Event.gone
           /\ graph' = Persisted([Handled EXCEPT !.told[Event.file] = Gone])

Vanished == Handling /\ ~Event.gone /\ graph.disk[Event.file] = Gone /\ graph' = Handled

\* A source with syntax errors is parsed as far as it goes, and left there.
ParseFails ==
    LET f == Event.file
    IN /\ Handling /\ ~Event.gone /\ graph.disk[f] # Gone /\ ~graph.disk[f].ok
       /\ graph' = [Parsed(Pruned(Handled, f), f, graph.disk[f]) EXCEPT !.clean = @ \ {f}]

Reparsed ==
    LET f == Event.file
        left == \E p \in graph.parked : p.file = f
        g == [Parsed(Pruned(Handled, f), f, graph.disk[f]) EXCEPT
                 !.told[f] = graph.disk[f], !.clean = IF left THEN @ \ {f} ELSE @ \cup {f}]
        mine == Waiting(g, {f})
    IN /\ Handling /\ ~Event.gone /\ graph.disk[f].ok
       /\ \E to \in ResolvesTo(g, mine) : \E retaken \in SUBSET Retaken(mine, to) :
            graph' = Persisted(Resolved(g, {f}, to, retaken))

Init ==
    graph = [disk |-> [f \in Files |-> Gone], told |-> [f \in Files |-> Gone], queue |-> << >>, recent |-> {},
             nodes |-> {}, edges |-> {}, parked |-> {}, clean |-> {}, snapshot |-> {}, writes |-> 0, started |-> FALSE,
             answers |-> [f \in Files |-> {}]]

Next ==
    \/ ~graph.started /\ \E sources \in {v \in [Files -> UNION {Versions[f] : f \in Files} \cup {Gone}] :
                                            \A f \in Files : v[f] \in Versions[f] \cup {Gone}} : Bootstrap(sources)
    \/ \E f \in Files : \E s \in Versions[f] \cup {Gone} : Write(f, s)
    \/ Quiet \/ Debounced \/ Removed \/ Vanished \/ ParseFails \/ Reparsed

-----------------------------------------------------------------------------

CallsIn(edges, f) == {e \in edges : e.kind = "Calls" /\ e.from.file = f}

\* The calls of f are those of the source s, each an edge to what it resolved to and no other;
\* the edge to a name is lost if another call of the name in the same function left it.
Accounted(calls, f, s, answers) ==
    /\ {<<a.from, a.name>> : a \in answers} = {<<Caller(f, s, c), c.name>> : c \in s.calls}
    /\ \A e \in calls : \E a \in answers : e = Edge(a.from, a.to, "Calls")
    /\ \A a \in answers :
        \/ Edge(a.from, a.to, "Calls") \in calls
        \/ \E b \in answers : b.from = a.from /\ a.to = External(b.name) /\ b.to # a.to

\* Once a file was parsed again, its calls are those of the source that was read, each to what
\* it resolved to then, and no edge is left of an earlier source
\* (prune_resolved_calls_from_file), unless a source with syntax errors left calls parked.
CallsAreCurrent ==
    \A f \in graph.clean :
        graph.told[f] # Gone => Accounted(CallsIn(graph.edges, f), f, graph.told[f], graph.answers[f])

\* What a reader finds on disk is the graph, unless a file was left half parsed.
SnapshotIsGraph == graph.clean = Files => graph.snapshot = graph.edges

GraphIsCurrent == CallsAreCurrent /\ SnapshotIsGraph
=============================================================================

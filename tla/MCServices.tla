------------------------------ MODULE MCServices ------------------------------
(***************************************************************************)
(* The instances of the services that are explored.                        *)
(***************************************************************************)
EXTENDS Services, Sequences, TLC

\* The patches: a Python file of two declarations, absent, or with one of them twice; a
\* file of another kind; and files no patch may touch.
MCLines == {<<"f">>, <<"try">>, <<"except">>}
MCPatchTrees == {"p.py" :> t @@ "r.md" :> <<"f">> : t \in {<<"f", "g">>, <<"f", "f">>}} \cup {"r.md" :> <<"f">>}
MCPatchSet ==
    [kind : {"create_file"}, file : {"p.py"}, text : MCLines]
    \cup [kind : {"create_file"}, file : {"key.pem", "far", "../up", "n.md"}, text : {<<"f">>}]
    \cup [kind : {"delete_file"}, file : {"p.py", "r.md"}]
    \cup [kind : {"replace_range"}, file : {"p.py"}, from : 0 .. 2, to : {1, 3}, text : MCLines]
    \cup [kind : {"search_replace"}, file : {"p.py"}, search : {<<"f">>, <<"try">>}, text : MCLines]
    \cup [kind : {"search_replace"}, file : {"r.md"}, search : {<<"f">>}, text : {<<"try">>}]
    \cup [kind : {"apply_diff"}, file : {"p.py"}, pre : {<<"f">>, << >>}, removed : {<<"g">>, << >>},
          text : {<<"except">>, <<"f">>}, post : {<<"h">>, <<"g">>}]
    \cup UNION {[kind : {"replace_node"}, file : {"p.py"}, name : {"f", "g"}, text : {t},
                 raw : {t, <<IF t = <<"f">> THEN "@d" ELSE "junk">> \o t}] : t \in MCLines}
    \cup UNION {[kind : {"insert_after_node"}, file : {"p.py"}, name : {n}, text : {t},
                 raw : {<<n>> \o t, <<"junk">>}] : n \in {"f", "g"}, t \in MCLines}

\* Two candidates may be beyond the limits.
MCCandidates ==
    LET Op(f, from, to) == [file |-> f, from |-> from, to |-> to]
    IN {[ops |-> {Op("p.py", "ok", t)}, lines |-> 3] : t \in {"bad", "setup", "err"}}
       \cup {[ops |-> {Op("p.py", "red", "ok"), Op("q.ts", "absent", "red")}, lines |-> 1250],
             [ops |-> {Op("p.py", "ok", "ok"), Op("q.ts", "absent", "red")}, lines |-> 2],
             [ops |-> {Op("q.ts", "red", "bad")}, lines |-> 1],
             [ops |-> {Op("p.py", "err", "red")}, lines |-> 1]}

\* Workspaces in Python, and in TypeScript, with their tools.
MCValProjects ==
    {{"py", "pytest"}, {"py", "pytest", "mypy", "package.json", "typecheck", "test"},
     {"package.json", "tsc", "jest"}}

\* A file of each kind beside those the candidates touch.
MCTrees ==
    {"p.py" :> p @@ "q.ts" :> q @@ "r.py" :> r :
        p \in {"ok", "bad", "red", "err"}, q \in {"absent", "red"},
        r \in {"absent", "red", "setup"}}

\* Workspaces: bare; two pinned packages, one of them installed; a package no lockfile pins.
MCEnvProjects ==
    LET At(root, sub, made, tools) ==
            [files |-> ("" :> root @@ "sub" :> sub), tools |-> tools,
             made |-> {[dir |-> "", eco |-> eco] : eco \in made}]
    IN {At({}, {}, {}, {"uv"}),
        At({"package.json", "yarn.lock"}, {"pyproject.toml", "requirements.txt"}, {"node"}, {"yarn", "pip"}),
        At({"pyproject.toml", "uv.lock"}, {"pyproject.toml"}, {"python"}, {"uv"})}

\* The sources of two files: a function whose call changes, or that has an error; and two calls
\* at the top level, in the line of a function.
MCSources ==
    LET Decl(n, l) == [name |-> n, line |-> l]
        Call(from, n, l) == [from |-> from, name |-> n, line |-> l]
    IN "a" :> {[decls |-> {Decl("f", 1)}, calls |-> c, ok |-> TRUE] :
                  c \in {{Call("f", "g", 2)}, {Call("f", "h", 2)}}}
              \cup {[decls |-> {Decl("f", 2)}, calls |-> {Call("f", "g", 1)}, ok |-> FALSE]}
       @@ "b" :> {[decls |-> {Decl("g", 1), Decl("h", 3)}, ok |-> TRUE,
                calls |-> {Call("b", "g", 1), Call("b", "h", 1)}]}

\* The methods that implement others.
MCImplementations == {<<"h", "g">>}
=============================================================================

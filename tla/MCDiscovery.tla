------------------------------ MODULE MCDiscovery ------------------------------
(* Instances of Discovery. *)
EXTENDS Discovery, TLC

CONSTANTS x, y, A, B, a1, a2, none

Paths == {x, y}
Wholes == {A, B}
Growing == {1, 2}
Passes == {a1, a2}
Directories == {d \in [Paths -> {"on", "none"}] : \E p \in Paths : d[p] = "on"}
Renaming == Permutations(Paths) \cup Permutations(Wholes) \cup Permutations(Passes)

\* Calls side by side, with files that come, are copied in and go
Commands == [ops |-> {"create", "remove", "start", "end", "delete", "import", "overlap"},
             left |-> 2]
\* Files older and newer than the session, with rounded times,
\* in directories that are added
Times == [ops |-> {"create", "copy", "directory", "start", "tick", "round"}, left |-> 2]
\* Files that grow while the game announces them
Growth == [ops |-> {"create", "grow", "directory", "start", "register"}, left |-> 2]
\* Files that change under the same name, and commands that look at them
Changes == [ops |-> {"create", "rewrite", "remove", "start", "archive", "check", "validate"},
            left |-> 2]
Scenarios == {Commands, Times, Growth, Changes}
================================================================================

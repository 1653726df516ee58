--------------------------- MODULE MCResetCleanup ---------------------------
(* Instances of ResetCleanup for TLC: two captures, their files, and         *)
(* destinations that are shared, on the network, or another capture's source.*)
EXTENDS ResetCleanup, TLC

CONSTANTS i1, i2, j1, j2, s1, s2, d1, d2, c1, t1, old, img, own, new, none

Items    == {i1, i2}
Jobs     == {j1, j2}
Contents == {old, img, own, new}
FreshOnly == {new}
OwnEdits == {own, none}
Paths    == {s1, s2, d1, d2, c1, t1}
NetPaths == {d2}
Cached   == {c1, t1}

Files(main, avatar, annotated, thumb) ==
    [f \in File |-> CASE f = "main" -> main [] f = "avatar" -> avatar
                      [] f = "annotated" -> annotated [] f = "thumb" -> thumb]

RowOf(source, at) ==
    [classified |-> at["main"] # None, busy |-> FALSE, version |-> 0, at |-> at, missing |-> {},
     owner |-> None, source |-> source, hash |-> img, took |-> None]
Rows(at1, at2) == [i \in Items |-> IF i = i1 THEN RowOf(s1, at1) ELSE RowOf(s2, at2)]
Main(p) == Files(p, none, none, none)

Scenario(ops, left, items, jobs, paths, rows) ==
    [ops |-> ops, left |-> left, items |-> items, jobs |-> jobs, paths |-> paths, rows |-> rows]
All == {"preview", "execute", "relabel", "edit", "crash"}

Scenarios == {
    \* A person picture with two archives, a local copy and a thumbnail
    Scenario(All, 4, {i1}, {j1}, Paths \ {s2}, {Rows(Files(d1, d2, c1, t1), Main(none))}),
    \* Two pictures: separate or shared archives, or one that is a source; either may
    \* take over what lies in its place
    Scenario(All \cup {"adopt"}, 4, Items, {j1}, {s1, d1, d2},
             {Rows(Main(d1), Main(d)) : d \in {d1, d2, s1}}),
    \* Two previews and their executions beside each other
    Scenario({"preview", "execute", "crash"}, 5, {i1}, Jobs, {s1, d1}, {Rows(Main(d1), Main(none))})}
=============================================================================

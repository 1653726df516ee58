---------------------------- MODULE MCFileReconcile ----------------------------
(* Instances of FileReconcile. *)
EXTENDS FileReconcile, TLC

CONSTANTS pic1, pic2, s1, s2, s3, t1, t2, v1, v2, w1, Left, Right, Vault, Attic, none, foreign

AllCaptures == {pic1, pic2}
AllPaths == {s1, s2, s3, t1, t2, v1, v2, w1}
Roots == {Left, Right, Vault, Attic}
Vaults == {Vault, Attic}
\* Three sources in two directories; two of them have the same name.
SourceNames == s1 :> "a" @@ s2 :> "a" @@ s3 :> "b"
\* Two targets for each output, one of them in a byte-copy directory, and one in
\* another destination.
Tokens == [p \in {t1, t2, v1, v2, w1} |-> <<pic1, IF p \in {v1, v2} THEN "avatar" ELSE "main">>]
Places == [p \in AllPaths |-> IF p \in {s1, s3} THEN Left ELSE IF p = s2 THEN Right
                           ELSE IF p = w1 THEN Attic ELSE Vault]
Copies == {t2}

Scenario(ops, left, items, paths, checks, homes, legacy) ==
    [ops |-> ops, left |-> left, items |-> items, paths |-> paths, checks |-> checks,
     homes |-> homes, legacy |-> legacy]

Scenarios == {
    \* Two captures, their sources and a third file
    Scenario({"check", "move", "remove", "replace", "discover", "down"}, 3, AllCaptures,
             {s1, s2, s3, t1}, 1, {Vault}, {FALSE}),
    \* One capture and every target it may have
    Scenario({"check", "move", "remove", "replace", "archive", "reset", "down"}, 3, {pic1},
             {s1, t1, t2, v1, v2}, 1, {Vault}, BOOLEAN),
    \* Two checks of one capture whose archive takes other names, with imports
    Scenario({"check", "move", "archive", "reset", "import", "rename"}, 4, {pic1}, {s1, t1, t2}, 2,
             {Vault}, {FALSE}),
    \* A share that goes away and comes back within a check
    Scenario({"check", "flap", "move", "archive"}, 3, {pic1}, {s1, t1, t2}, 1, {Vault}, {FALSE}),
    \* Source directories that are disabled and enabled
    Scenario({"check", "move", "disable", "down"}, 4, AllCaptures, {s1, s2, s3, t1}, 1, {Vault},
             {FALSE}),
    \* Another destination, with the old one away or not
    Scenario({"check", "move", "redirect", "down", "archive", "reset"}, 4, {pic1}, {s1, t1, w1}, 1,
             Vaults, {FALSE})}
================================================================================

----------------------------- MODULE MCFaceBank -----------------------------
(* Instances of FaceBank. *)
EXTENDS FaceBank, TLC

CONSTANTS i1, i2, a, b, w, u1, u2, sface, arcface, none

Captures == {i1, i2}
Characters == {a, b}
Callers == {u1, u2}
Procs == {w} \cup Callers
Recognizers == {sface, arcface}
Renaming == Permutations(Characters) \cup Permutations(Recognizers) \cup Permutations(Callers)

Scenario(ops, left, items, callers, start) ==
    [ops |-> ops, left |-> left, items |-> items, callers |-> callers, start |-> start]
Mixed == {"new", "labelled"}

Scenarios == {
    \* One capture: labelled, corrected, undone, tried again, extracted, excluded
    Scenario({"label", "relabel", "reset", "again", "refresh", "flag"}, 2, {i1}, Callers, Mixed),
    \* ... its region drawn while its source comes and goes
    Scenario({"frame", "label", "reset", "move", "scene"}, 3, {i1}, Callers, Mixed),
    \* Two captures: suggestions that are accepted and rejected
    Scenario({"label", "relabel", "refresh", "accept", "reject", "suggest"}, 2, Captures, {u1}, Mixed),
    \* ... a rebuild and a switch of the recognizer beside corrections
    Scenario({"rebuild", "relabel", "reset", "switch"}, 2, Captures, Callers, {"labelled"}),
    \* ... merged characters
    Scenario({"merge", "relabel", "refresh", "revoke"}, 2, Captures, {u1}, {"labelled"}),
    \* ... enrolled rejections, beside what a label found
    Scenario({"anchor", "label", "refresh"}, 2, Captures, {u1}, {"labelled"}),
    \* ... a character deleted beside a correction, a label and a suggestion
    Scenario({"deleteCharacter", "relabel", "label", "refresh", "accept"}, 2, Captures, {u1}, Mixed),
    \* ... beside a rebuild and rejections
    Scenario({"deleteCharacter", "rebuild", "anchor"}, 2, Captures, {u1}, {"labelled"})}
=============================================================================

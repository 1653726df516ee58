------------------------------- MODULE MCMirrors -------------------------------
(* Instances of Mirrors: since no service reads what another keeps, a behaviour is *)
(* one of a single service.                                                        *)
EXTENDS Mirrors, TLC

CONSTANTS e1, e2, text1, text2, foreign1, foreign2, i1, i2, ann, bob, dir1, dir2, user,
          game1, game2, call1, call2, inner, outer, shot, view1, view2

VARIABLE service

Budget(ops, left) == [ops |-> ops, left |-> left]
Shots(ops, nested) == [ops |-> ops, left |-> 4, nested |-> nested]

Texts == {text1, text2}
Foreigns == {foreign1, foreign2}
Editors == {e1, e2}
\* A window saves while the loop writes; two conflicts in a second.
OfNotes == {Budget({"save", "open", "down", "edit", "crash"}, 3),
            Budget({"save", "open", "edit", "overlap"}, 2), Budget({"save", "edit", "second"}, 3)}

Items == {i1, i2}
Chars == {ann, bob}
Dirs == {dir1, dir2}
User == {user}
\* Every trigger beside the background writer; outages, crashes, the switch, rebuilds
\* the user asks for, and what else leaves a manifest behind.
Triggers == {"label", "reset", "rename", "merge", "remove", "look"}
OfManifests ==
    {Budget(Triggers, 2),
     Budget({"label", "scene", "remove", "restore", "rebuild", "switch", "down", "crash",
             "partly"}, 2)}

Projects == {game1, game2}
Calls == {call1, call2}
\* Two projects in one game directory; then projects that are deleted, kills, and
\* files that cannot be put back.
OfBridge == {Budget({"install", "uninstall", "choose", "edit", "fail", "upgrade"}, 5),
             Budget({"install", "uninstall", "choose", "edit", "deleteProject", "crash",
                     "fail", "writeFails"}, 5)}

Games == {outer, inner}
Names == {shot}
Images == {view1, view2}
\* Two games number their screenshots alike: side by side, and one within the other.
OfMetadata == {Shots({"shoot", "delete", "uninstall", "newer"}, FALSE),
               Shots({"shoot", "delete"}, TRUE)}

ASSUME MirrorsAssumption == MirrorAssumption

Renaming ==
    Permutations({game1, game2}) \cup Permutations({call1, call2}) \cup Permutations({view1, view2})

mcVars == <<service, vars>>

\* The parts that rest begin in one state only.
NotesRest == note = None /\ noteBudget = Budget({"save", "edit", "second"}, 3)
ManifestsRest ==
    manifestBudget = Budget(Triggers, 2) /\ \A i \in Item : ~row[i].done
BridgeRests == disk["rpy"] = None /\ bridgeBudget.ops \cap {"crash"} = {}
MetadataRests == games = Games /\ ~metaBudget.nested

MCInit ==
    /\ Init
    /\ service \in {"notes", "manifests", "bridge", "metadata"}
    /\ service # "notes" => NotesRest
    /\ service # "manifests" => ManifestsRest
    /\ service # "bridge" => BridgeRests
    /\ service # "metadata" => MetadataRests
    /\ (service = "manifests" /\ "crash" \in manifestBudget.ops) => ~row[i2].done

MCNext ==
    /\ UNCHANGED service
    /\ \/ service = "notes" /\ NotesNext
       \/ service = "manifests" /\ ManifestsNext
       \/ service = "bridge" /\ BridgeNext
       \/ service = "metadata" /\ MetadataNext

MCSpec == MCInit /\ [][MCNext]_mcVars
================================================================================

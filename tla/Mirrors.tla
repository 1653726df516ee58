-------------------------------- MODULE Mirrors --------------------------------
(***************************************************************************)
(* What the program keeps up to date in directories that others write too: *)
(* the note of a project, the manifests of its archive, the bridge in a    *)
(* game directory and what the games say of their screenshots. The four    *)
(* services run beside each other; none reads what another keeps.          *)
(***************************************************************************)
EXTENDS Naturals, FiniteSets

CONSTANTS
    None,
    Text, Foreign, Editor, Loop, Empty, MaxNow, NoteBudgets,                \* NotesSync
    Item, Char, Dir, Scenes, Background, Users, ManifestBudgets,            \* ArchiveManifest
    Project, Client, Everyone, BridgeBudgets,                               \* RenpyBridge
    Game, Outer, Name, Image, Caller, MetaBudgets                           \* EngineMetadata

VARIABLES
    note, remote, backup, online, call, wrote, lost, now, noteBudget,
    row, name, files, manifest, pending, auto, reachable, rebuilds, manifestBudget,
    disk, version, serial, alive, choice, installed, policy, commands, locks, bridgeBudget,
    shots, due, sidecar, captures, ignored, games, passes, metaBudget

Notes == INSTANCE NotesSync WITH Budgets <- NoteBudgets, budget <- noteBudget

Manifests == INSTANCE ArchiveManifest WITH
    Budgets <- ManifestBudgets, online <- reachable, call <- rebuilds, budget <- manifestBudget

Bridge == INSTANCE RenpyBridge WITH
    Budgets <- BridgeBudgets, row <- installed, call <- commands, budget <- bridgeBudget

Metadata == INSTANCE EngineMetadata WITH
    Budgets <- MetaBudgets, disk <- shots, row <- captures, installed <- games, call <- passes,
    budget <- metaBudget

noteVars == <<note, remote, backup, online, call, wrote, lost, now, noteBudget>>
manifestVars == <<row, name, files, manifest, pending, auto, reachable, rebuilds, manifestBudget>>
bridgeVars == <<disk, version, serial, alive, choice, installed, policy, commands, locks,
                bridgeBudget>>
metaVars == <<shots, due, sidecar, captures, ignored, games, passes, metaBudget>>
vars == <<noteVars, manifestVars, bridgeVars, metaVars>>

MirrorAssumption ==
    /\ Notes!NotesAssumption /\ Manifests!ManifestAssumption
    /\ Bridge!BridgeAssumption /\ Metadata!MetadataAssumption

Init == Notes!Init /\ Manifests!Init /\ Bridge!Init /\ Metadata!Init

NotesNext     == Notes!Next /\ UNCHANGED <<manifestVars, bridgeVars, metaVars>>
ManifestsNext == Manifests!Next /\ UNCHANGED <<noteVars, bridgeVars, metaVars>>
BridgeNext    == Bridge!Next /\ UNCHANGED <<noteVars, manifestVars, metaVars>>
MetadataNext  == Metadata!Next /\ UNCHANGED <<noteVars, manifestVars, bridgeVars>>

Next == NotesNext \/ ManifestsNext \/ BridgeNext \/ MetadataNext

Spec == Init /\ [][Next]_vars

-----------------------------------------------------------------------------
\* Neither what the user wrote nor what another program wrote to the file is lost
\* (NotesSync).
NothingLost == Notes!NothingLost

\* Once nothing is under way, the manifests say what is archived (ArchiveManifest).
ManifestTrue == Manifests!ManifestTrue

\* What the program has in a game directory is recorded, and told what is saved
\* (RenpyBridge).
BridgeOwned == Bridge!BridgeOwned

\* No command touches what the user wrote; an uninstall leaves nothing (RenpyBridge).
UninstallExact == Bridge!UninstallExact

\* A capture is told what was said of its own picture, and what was said goes only
\* when it is known (EngineMetadata).
SidecarsExact == Metadata!SidecarsExact
================================================================================

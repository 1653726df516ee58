-------------------------- MODULE MCDatabaseRestore --------------------------
(* Instances of DatabaseRestore. *)
EXTENDS DatabaseRestore

CONSTANTS d1, d2, d3, broken, empty, part, none

\* Three databases this version opens and one it does not.
SoundContents == {d1, d2, d3, empty}
Contents == SoundContents \cup {broken}

\* Failures short of a kill, with transactions in the log.
Failing == [ops |-> {"write", "backup", "stage", "stageInRecovery", "cancel", "io", "damage"},
            left |-> 5]
\* Kills at any moment and failing renames of a roll-back, the log empty, and no
\* second restore staged from recovery mode.
Killing == [ops |-> {"stage", "undoIo", "damage", "crash"}, left |-> 5]
\* Removals that are ignored when they fail, twice over, none of them that of a log.
Sticking == [ops |-> {"write", "stage", "cancel", "io", "stuck"}, left |-> 4]
\* A log that stays beside another file, and the read after the swap that fails.
Leftover == [ops |-> {"write", "stage", "io", "stuckLog", "readBack"}, left |-> 3]
Unread == [ops |-> {"write", "stage", "stageInRecovery", "stuck", "readBack"}, left |-> 3]
Scenarios == {Failing, Killing, Sticking, Leftover, Unread}

\* A rename of the swap fails, and the roll-back is killed.
SwapKilled == {[ops |-> {"stage", "io", "crash"}, left |-> 2]}
==============================================================================

--------------------------- MODULE DatabaseRestore ---------------------------
(***************************************************************************)
(* Backup and two-phase restore of the database: data_maintenance_service  *)
(* stages a backup in the recovery directory; the next start snapshots the *)
(* live files, swaps the staged one in, checks it and opens it, or puts    *)
(* the snapshot back (initialize_database_startup in lib.rs).              *)
(*                                                                         *)
(* A file holds a content, or a part of one after an interrupted copy.     *)
(* SQLite keeps recent transactions in a write-ahead log beside the main   *)
(* file: "wal" is what the log makes of the main file it belongs to.  The  *)
(* -shm file is an index of the log that SQLite rebuilds, and is left out. *)
(***************************************************************************)
EXTENDS Naturals

CONSTANTS
    DbContent,   \* databases
    Sound,       \* those this version of the application can open
    Empty,       \* the database SQLite creates where there is none
    Part,        \* a file that is not a whole database
    NoFile,      \* where there is none
    RestoreBudgets  \* what users and faults may do, and how often

ASSUME ContentAssumption ==
    /\ Sound \subseteq DbContent /\ Empty \in Sound
    /\ Part \notin DbContent
    /\ NoFile \notin DbContent \cup {Part}
    /\ NoFile \notin [on : DbContent \cup {Part, NoFile}, data : DbContent]
ASSUME RestoreBudgetAssumption == RestoreBudgets \subseteq [ops : SUBSET STRING, left : Nat]

VARIABLES
    main, wal,           \* scene-vault.db and its -wal
    pending, marker,     \* staged copy; restore request, holding its sha256
    pre, preWal,         \* scene-vault.db.pre-restore and its -wal
    backup, manifest,    \* one backup file and its manifest
    staging,             \* progress of stage_restore
    app,                 \* the application
    prev, made,          \* history: the database when last in use; backups made
    allowed

live  == <<main, wal>>
staged == <<pending, marker>>
snapshot == <<pre, preWal>>
restoreVars == <<main, wal, pending, marker, pre, preWal, backup, manifest, staging,
          app, prev, made, allowed>>

File == DbContent \cup {Part, NoFile}
Wal == {NoFile} \cup [on : File, data : DbContent]
Applying == {"check", "snapshot", "snapshotWal", "dropWal", "swap", "validate", "clear"}
RollingBack == {"undoMain", "undoWal", "undoSwap", "undoSwapWal", "undoClear"}

\* applied: restore_was_applied; taken: the request apply_pending_restore read.
App == [pc : {"running", "recovery", "down", "open", "discard"} \cup Applying
             \cup RollingBack,
        applied : BOOLEAN, taken : DbContent \cup {NoFile}]

\* A database is read through its log; with the log of another one it is neither, and
\* SQLite may or may not notice.
Read(m, w) == IF w = NoFile THEN m ELSE IF w.on = m THEN w.data ELSE Part
Database == Read(main, wal)
Mixed == main # NoFile /\ wal # NoFile /\ wal.on # main

RestoreInit ==
    /\ main \in Sound \ {Empty} /\ wal = NoFile
    /\ pending = NoFile /\ marker = NoFile
    /\ pre = NoFile /\ preWal = NoFile
    /\ backup \in DbContent \ {Empty, main} /\ manifest = backup
    /\ staging = NoFile
    /\ app = [pc |-> "running", applied |-> FALSE, taken |-> NoFile]
    /\ prev = main
    /\ made = {backup}
    /\ allowed \in RestoreBudgets

-----------------------------------------------------------------------------
Takes(op) == op \in allowed.ops /\ allowed.left > 0 /\ allowed' = [allowed EXCEPT !.left = @ - 1]
Goes(pc) == app' = [app EXCEPT !.pc = pc]
Open == app.pc \in {"running", "recovery"}

\* remove_file and remove_if_exists: their failure is ignored and leaves the file.
Removes(file, failure) ==
    \/ file' = NoFile /\ UNCHANGED allowed
    \/ Takes(failure) /\ file' = file
RemovesBoth(one, other, failure) ==
    \/ one' = NoFile /\ other' = NoFile /\ UNCHANGED allowed
    \/ Takes(failure) /\ one' \in {one, NoFile} /\ other' \in {other, NoFile}

\* A transaction goes to the log.
Write(c) ==
    /\ Takes("write")
    /\ app.pc = "running"
    /\ c # Database
    /\ wal' = [on |-> IF wal = NoFile THEN main ELSE wal.on, data |-> c]
    /\ UNCHANGED <<main, staged, snapshot, backup, manifest, staging, app, prev, made>>

\* SQLite moves the log into the main file.
Checkpoint ==
    /\ app.pc = "running" /\ wal # NoFile
    /\ main' = Database /\ wal' = NoFile
    /\ UNCHANGED <<staged, snapshot, backup, manifest, staging, app, prev, made, allowed>>

-----------------------------------------------------------------------------
(* create_backup: VACUUM INTO a file, then its manifest.                   *)

BackupBegins ==
    /\ Takes("backup")
    /\ app.pc = "running"
    /\ backup' = Part /\ manifest' = NoFile
    /\ UNCHANGED <<live, staged, snapshot, staging, app, prev, made>>

\* VACUUM INTO writes one consistent state; collect_manifest checks it.
BackupEnds ==
    /\ app.pc = "running"
    /\ backup = Part /\ manifest = NoFile
    /\ Database \in DbContent
    /\ backup' = Database /\ manifest' = Database
    /\ made' = made \cup {Database}
    /\ UNCHANGED <<live, staged, snapshot, staging, app, prev, allowed>>

-----------------------------------------------------------------------------
(* stage_restore and clear_pending_restore.                                *)

\* validate_backup: the manifest, the sha256, quick_check.
Valid(file, sum) == file \in DbContent /\ sum = file

\* Recovery mode can stage a restore too.
MayStage == \/ "stage" \in allowed.ops /\ app.pc = "running"
            \/ "stageInRecovery" \in allowed.ops /\ app.pc = "recovery"

StageBegins ==
    /\ MayStage
    /\ staging = NoFile
    /\ Valid(backup, manifest)
    /\ pending = NoFile /\ marker = NoFile
    /\ pending' = Part
    /\ staging' = manifest
    /\ UNCHANGED <<live, marker, snapshot, backup, manifest, app, prev, made, allowed>>

\* The copy is complete and its checksum that of the manifest: the request is written.
StageEnds ==
    /\ Open
    /\ staging # NoFile /\ backup = staging
    /\ pending' = backup /\ marker' = staging
    /\ staging' = NoFile
    /\ UNCHANGED <<live, snapshot, backup, manifest, app, prev, made, allowed>>

\* The backup changed under the copy, a copy or the request failed: what was copied is
\* removed, or left.
StageFails ==
    /\ Open
    /\ staging # NoFile
    /\ \/ backup # staging /\ Removes(pending, "stuck")
       \/ Takes("io") /\ pending' \in {NoFile, Part, backup}
    /\ staging' = NoFile
    /\ UNCHANGED <<live, marker, snapshot, backup, manifest, app, prev, made>>

Cancels ==
    /\ "cancel" \in allowed.ops /\ Open
    /\ pending # NoFile \/ marker # NoFile
    /\ RemovesBoth(pending, marker, "stuck")
    /\ UNCHANGED <<live, snapshot, backup, manifest, staging, app, prev, made>>

-----------------------------------------------------------------------------
(* initialize_database_startup and apply_pending_restore.                  *)

Stops ==
    /\ Open
    /\ app' = [app EXCEPT !.pc = "down"]
    /\ staging' = NoFile
    /\ prev' = IF app.pc = "running" THEN Database ELSE prev
    /\ UNCHANGED <<live, staged, snapshot, backup, manifest, made, allowed>>

Starts ==
    /\ app.pc = "down"
    /\ app' = [pc |-> IF marker # NoFile THEN "check" ELSE "open",
               applied |-> FALSE, taken |-> marker]
    /\ UNCHANGED <<live, staged, snapshot, backup, manifest, staging, prev, made,
                   allowed>>

\* An error before anything is changed: the start goes on with the live files. A copy
\* that fails may leave a part.
Skips ==
    /\ app.pc \in {"check", "snapshot", "snapshotWal"}
    /\ IF \/ app.pc = "check" /\ ~Valid(pending, app.taken)
          \/ app.pc = "snapshot" /\ main = NoFile
       THEN UNCHANGED allowed ELSE Takes("io")
    /\ Goes("open")
    /\ IF app.pc = "snapshot" THEN pre' \in {pre, Part} ELSE UNCHANGED pre
    /\ UNCHANGED <<live, staged, preWal, backup, manifest, staging, prev, made>>

\* Wrong on purpose: what was live last time is moved away at once.
Early_ChecksStaged ==
    /\ app.pc = "check"
    /\ RemovesBoth(pre, preWal, "stuckLog")
    /\ main' = NoFile
    /\ Goes("snapshot")
    /\ UNCHANGED <<wal, staged, backup, manifest, staging, prev, made>>

\* The staged copy is compared with the request; the old snapshot goes, or stays.
ChecksStaged ==
    /\ app.pc = "check"
    /\ Valid(pending, app.taken)
    /\ \/ RemovesBoth(pre, preWal, "stuckLog")
       \/ Takes("stuck") /\ UNCHANGED pre /\ preWal' = NoFile
    /\ Goes("snapshot")
    /\ UNCHANGED <<live, staged, backup, manifest, staging, prev, made>>

SnapshotsMain ==
    /\ app.pc = "snapshot" /\ main # NoFile
    /\ pre' = main
    /\ Goes("snapshotWal")
    /\ UNCHANGED <<live, staged, preWal, backup, manifest, staging, prev, made, allowed>>

SnapshotsWal ==
    /\ app.pc = "snapshotWal"
    /\ preWal' = IF wal # NoFile THEN wal ELSE preWal
    /\ Goes("dropWal")
    /\ UNCHANGED <<live, staged, pre, backup, manifest, staging, prev, made, allowed>>

DropsWal ==
    /\ app.pc = "dropWal"
    /\ Removes(wal, "stuckLog")
    /\ Goes("swap")
    /\ UNCHANGED <<main, staged, snapshot, backup, manifest, staging, prev, made>>

\* The rename is atomic.
Swaps ==
    /\ app.pc = "swap"
    /\ main' = pending /\ pending' = NoFile
    /\ Goes("validate")
    /\ UNCHANGED <<wal, marker, snapshot, backup, manifest, staging, prev, made, allowed>>

\* The swapped file and what is read through its log, if it has one.
Whole == main \in DbContent /\ Database \in DbContent

\* The rename fails, or the swapped file cannot be read or is no database: back to
\* the snapshot.
GivesUp ==
    /\ app.pc \in {"swap", "validate"}
    /\ IF app.pc = "validate" /\ ~Whole
       THEN UNCHANGED allowed ELSE Takes("io")
    /\ Goes("undoMain")
    /\ UNCHANGED <<live, staged, snapshot, backup, manifest, staging, prev, made>>

Validates ==
    /\ app.pc = "validate"
    /\ Whole \/ (Mixed /\ main \in DbContent)
    /\ Goes("clear")
    /\ UNCHANGED <<live, staged, snapshot, backup, manifest, staging, prev, made, allowed>>

\* The request is carried out; its file goes, or stays without the staged one.
Clears ==
    /\ app.pc = "clear"
    /\ Removes(marker, "stuck")
    /\ app' = [app EXCEPT !.pc = "open", !.applied = TRUE]
    /\ UNCHANGED <<live, pending, snapshot, backup, manifest, staging, prev, made>>

\* The restored database cannot be opened to read its versions: the request is gone,
\* and the start goes on as if nothing had been restored.
ReadBackFails ==
    /\ app.pc = "clear"
    /\ Takes("readBack")
    /\ marker' = NoFile
    /\ app' = [app EXCEPT !.pc = "open", !.taken = NoFile]
    /\ UNCHANGED <<live, pending, snapshot, backup, manifest, staging, prev, made>>

-----------------------------------------------------------------------------
(* open_and_prepare_database: connect, migrate, preflight.                 *)

\* preflight and the migrations: what this version can open.
Prepared == Database \in Sound
MayPrepare == Prepared \/ Mixed

\* Wrong on purpose: the log of a missing file is kept.
Reusing_Opens ==
    /\ app.pc = "open"
    /\ \/ (Database \in Sound \/ Mixed) /\ UNCHANGED live
       \/ main = NoFile /\ main' = Empty /\ UNCHANGED wal
    /\ app' = [pc |-> IF app.applied THEN "discard" ELSE "running",
               applied |-> FALSE, taken |-> NoFile]
    /\ UNCHANGED <<staged, snapshot, backup, manifest, staging, prev, made, allowed>>

\* connect creates what is missing, and SQLite drops the log of a missing file.
Opens ==
    /\ app.pc = "open"
    /\ \/ MayPrepare /\ UNCHANGED live
       \/ main = NoFile /\ main' = Empty /\ wal' = NoFile
    /\ app' = [pc |-> IF app.applied THEN "discard" ELSE "running",
               applied |-> FALSE, taken |-> NoFile]
    /\ UNCHANGED <<staged, snapshot, backup, manifest, staging, prev, made, allowed>>

\* Wrong on purpose: a restored database is given up where it lies.
Resigned_Rejects ==
    /\ app.pc = "open"
    /\ main # NoFile
    /\ IF ~Prepared THEN UNCHANGED allowed ELSE Takes("io")
    /\ app' = [pc |-> "recovery", applied |-> FALSE, taken |-> NoFile]
    /\ UNCHANGED <<live, staged, snapshot, backup, manifest, staging, prev, made>>

\* The database is refused, perhaps after a migration wrote to its log: a restored
\* one is rolled back, any other leaves the application in recovery mode.
Rejects ==
    /\ app.pc = "open"
    /\ main # NoFile
    /\ IF ~Prepared THEN UNCHANGED allowed ELSE Takes("io")
    /\ app' = [pc |-> IF app.applied THEN "undoMain" ELSE "recovery",
               applied |-> FALSE, taken |-> NoFile]
    /\ wal' \in {wal} \cup {w \in Wal : w # NoFile /\ w.on = main /\ w.data = Database}
    /\ UNCHANGED <<main, staged, snapshot, backup, manifest, staging, prev, made>>

Discards ==
    /\ app.pc = "discard"
    /\ RemovesBoth(pre, preWal, "stuck")
    /\ Goes("running")
    /\ UNCHANGED <<live, staged, backup, manifest, staging, prev, made>>

-----------------------------------------------------------------------------
(* rollback                                                                *)

UndoesMain ==
    /\ app.pc = "undoMain"
    /\ Removes(main, "stuck")
    /\ Goes("undoWal")
    /\ UNCHANGED <<wal, staged, snapshot, backup, manifest, staging, prev, made>>

UndoesWal ==
    /\ app.pc = "undoWal"
    /\ Removes(wal, "stuckLog")
    /\ Goes("undoSwap")
    /\ UNCHANGED <<main, staged, snapshot, backup, manifest, staging, prev, made>>

UndoesSwap ==
    /\ app.pc = "undoSwap"
    /\ main' = pre /\ pre' = NoFile
    /\ Goes("undoSwapWal")
    /\ UNCHANGED <<wal, staged, preWal, backup, manifest, staging, prev, made, allowed>>

UndoesSwapWal ==
    /\ app.pc = "undoSwapWal"
    /\ IF preWal = NoFile THEN UNCHANGED <<wal, preWal>> ELSE wal' = preWal /\ preWal' = NoFile
    /\ Goes("undoClear")
    /\ UNCHANGED <<main, staged, pre, backup, manifest, staging, prev, made, allowed>>

UndoesClear ==
    /\ app.pc = "undoClear"
    /\ RemovesBoth(marker, pending, "stuck")
    /\ app' = [app EXCEPT !.pc = "open", !.taken = NoFile]
    /\ UNCHANGED <<live, snapshot, backup, manifest, staging, prev, made>>

\* A rename of the rollback fails: apply_pending_restore reports it and the start
\* goes on, or, after a rejected restore, the start itself ends with the error.
UndoFails ==
    /\ app.pc \in {"undoSwap", "undoSwapWal"}
    /\ Takes("undoIo")
    /\ app' = [app EXCEPT !.pc = IF app.taken # NoFile THEN "open" ELSE "down", !.taken = NoFile]
    /\ UNCHANGED <<live, staged, snapshot, backup, manifest, staging, prev, made>>

-----------------------------------------------------------------------------
(* The process is killed; the backup is damaged or replaced, the staged    *)
(* copy damaged.                                                           *)

\* The copy of the main file into the snapshot may be cut off.
Kills ==
    /\ ~Open /\ app.pc # "down"
    /\ Takes("crash")
    /\ app' = [pc |-> "down", applied |-> FALSE, taken |-> NoFile]
    /\ IF app.pc = "snapshot" THEN pre' \in {pre, Part} ELSE UNCHANGED pre
    /\ UNCHANGED <<live, staged, preWal, backup, manifest, staging, prev, made>>

Damage ==
    /\ Takes("damage")
    /\ \/ backup \in DbContent /\ backup' \in (DbContent \cup {Part}) \ {backup, Empty}
          /\ UNCHANGED pending
       \/ pending \in DbContent /\ pending' = Part /\ UNCHANGED backup
    /\ UNCHANGED <<live, marker, snapshot, manifest, staging, app, prev, made>>

Start == Starts \/ Skips \/ ChecksStaged \/ SnapshotsMain \/ SnapshotsWal \/ DropsWal
         \/ Swaps \/ GivesUp \/ Validates \/ Clears \/ ReadBackFails \/ Opens \/ Rejects \/ Discards
Rollback == UndoesMain \/ UndoesWal \/ UndoesSwap \/ UndoesSwapWal \/ UndoesClear
            \/ UndoFails
User == BackupBegins \/ BackupEnds \/ StageBegins \/ StageEnds \/ StageFails \/ Cancels
        \/ Stops \/ Checkpoint \/ \E c \in Sound \ {Empty} : Write(c)

RestoreNext == Start \/ Rollback \/ User \/ Kills \/ Damage

RestoreSpec == RestoreInit /\ [][RestoreNext]_restoreVars

-----------------------------------------------------------------------------
(* Properties *)

\* A database file is never read through the log of another one, through every
\* swap, roll-back and crash: that would be neither database, and undetected. It can
\* happen only where a log that cannot be removed is ignored (:419, :638, :684). And
\* what a start swaps in is a whole database as a backup recorded it, although the
\* backup and the staged copy may be cut off or damaged meanwhile.
NeverMixed ==
    /\ "stuckLog" \notin allowed.ops => ~Mixed
    /\ app.applied \/ app.pc = "clear" => main \in made

\* data_maintenance_service.rs: the live database is "snapshotted ... before the
\* swap": until the restored one has been opened the one last in use is still there,
\* live, in the snapshot, or on its way back. Not promised where a log stays
\* although its removal was asked for, nor where a restore that was swapped in and
\* then reported as failed can be followed by another from recovery mode.
PreviousKept ==
    /\ "stuckLog" \notin allowed.ops
    /\ {"readBack", "stageInRecovery"} \ allowed.ops # {}
    /\ app.pc \notin {"running", "discard"}
    => prev \in {Database, Read(pre, preWal), Read(main, preWal)}

\* A start replaces the database as a whole or leaves it as it was, with its latest
\* transactions: every behaviour is one of AtomicRestore, which knows no files. Four
\* failures break that, and are left out here: a kill in the middle of a start (the
\* next one takes what is left for the database), a rename of the roll-back that
\* fails, a log that cannot be removed, and a restored database that cannot be read
\* once its request is gone.
Breaking == {"crash", "undoIo", "stuckLog", "readBack"}
Unbroken == allowed.ops \cap Breaking = {}
Abstract == INSTANCE AtomicRestore WITH
    Content <- DbContent, None <- NoFile,
    db <- IF app.pc \in {"running", "discard"} THEN Database ELSE prev,
    request <- IF app.applied THEN app.taken
               ELSE IF pending = NoFile /\ app.pc \notin {"validate", "clear"} THEN NoFile
               ELSE marker,
    up <- app.pc \in {"running", "discard"}
Atomic == Abstract!AInit /\ [][Unbroken => Abstract!ANext]_(Abstract!avars)
=============================================================================

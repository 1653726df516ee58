-------------------------- MODULE CaptureLifecycle --------------------------
(***************************************************************************)
(* The life of a capture_items row: registration, labelling, background    *)
(* processing, archiving, reset, deletion, and the purge of rows whose     *)
(* source file is gone.  The actors are                                    *)
(*                                                                         *)
(*   - the background worker (capture_worker_service): one loop that       *)
(*     sweeps, archives one row, or claims one queued row.  It takes the   *)
(*     per-item lock only to archive and to extract a feature; its claim   *)
(*     and its status updates are guarded by the SQL WHERE clause alone;   *)
(*   - the commands of the user interface, each holding the per-item lock  *)
(*     of capture_operation_service while it runs;                         *)
(*   - the reset job and the project deletion;                             *)
(*   - the file system and the process: the source file vanishes, returns  *)
(*     or is replaced, the archive destination fails, the process dies.    *)
(*                                                                         *)
(* A command whose only effect is one guarded UPDATE is one action: its    *)
(* reads happen under the item lock, and the statement that could still    *)
(* run beside it is stopped by the status in its WHERE clause.  A handler  *)
(* that waits for a file or for the engine is split at those waits.        *)
(***************************************************************************)
EXTENDS Integers, FiniteSets

CONSTANTS
    Item,        \* capture ids, numbered in the order of captured_at
    Char,        \* characters of the project
    Ops,         \* commands and faults this instance explores
    MaxOps,      \* how many of them happen in one behaviour
    NoChar       \* NULL in character_id

ASSUME ItemAssumption == Item \subseteq Nat \ {0} /\ Item # {}
ASSUME CharAssumption == NoChar \notin Char
ASSUME MaxOpsAssumption == MaxOps \in Nat

VARIABLES
    row,      \* row[i]: the capture_items row of i ("absent": no row)
    source,   \* source[i]: what the file at source_path holds
    ignored,  \* ignored[i]: its content is in ignored_capture_contents
    lock,     \* lock[i]: who holds the item lock of capture_operation_service
    preview,  \* preview[i]: what a reset preview froze of the row
    copied,   \* copied[i]: bytes an archive in progress has promoted
    worker,   \* the background task: where it is, its item, what it read
    sweep,    \* sweep[i]: status the missing-source sweep selected i with
    budget    \* commands and faults left

vars == <<row, source, ignored, lock, preview, copied, worker, sweep, budget>>

Status == {"absent", "awaiting_label", "queued", "processing",
           "archive_pending", "completed", "failed"}
Class  == {"unclassified", "person", "other"}   \* other: scene or private
Source == {"none", "original", "foreign"}       \* whose content a file holds
\* ... and whose a file made from it: "unseen" is foreign content that was gone again
\* before the next look at the source.
Bytes  == Source \cup {"unseen"}
Holder == {"free", "worker", "ipc", "reset"}
Pc     == {"idle", "sweep", "cycle", "queue", "claimed", "validate", "engine",
           "finish", "archive", "copy", "schedule", "purge", "prelabel",
           "extract"}

Row == [status     : Status,
        class      : Class,
        char       : Char \cup {NoChar},
        stage      : {"none", "processing", "archive"},   \* failure_stage
        attempts   : Nat,                                 \* attempt_count
        due        : BOOLEAN,      \* next_retry_at is NULL or has passed
        archived   : BOOLEAN,                             \* archived_at set
        dest       : Bytes,        \* what was archived at destination_path
        annotated  : Bytes,        \* what annotated_path was drawn from
        drawnFor   : Char \cup {NoChar},     \* the name drawn on it
        state      : {"available", "missing", "replaced"}, \* source_file_state
        face       : BOOLEAN,      \* a primary capture_faces row with a feature
        owner      : BOOLEAN,      \* operation_owner is 'reset:<job>'
        version    : Nat]                                 \* processing_version

NewRow == [status |-> "awaiting_label", class |-> "unclassified",
           char |-> NoChar, stage |-> "none", attempts |-> 0, due |-> TRUE,
           archived |-> FALSE, dest |-> "none", annotated |-> "none",
           drawnFor |-> NoChar, state |-> "available", face |-> FALSE,
           owner |-> FALSE, version |-> 0]
NoRow == [NewRow EXCEPT !.status = "absent"]

\* The columns a reset preview compares again before it claims the row.
Frozen(r) == [class |-> r.class, char |-> r.char, status |-> r.status,
              dest |-> r.dest, annotated |-> r.annotated, owner |-> r.owner,
              version |-> r.version]
NoPreview == Frozen(NoRow)

Idle == [pc |-> "idle", item |-> 0, read |-> "none"]

Present(i) == row[i].status # "absent"
Free(i)    == lock[i] = "free" /\ ~row[i].owner    \* lock, then ensure_available
Oldest(S)  == {i \in S : \A j \in S : i <= j}

Init ==
    /\ row = [i \in Item |-> NoRow]
    /\ source = [i \in Item |-> "original"]
    /\ ignored = [i \in Item |-> FALSE]
    /\ lock = [i \in Item |-> "free"]
    /\ preview = [i \in Item |-> NoPreview]
    /\ copied = [i \in Item |-> "none"]
    /\ worker = Idle
    /\ sweep = [i \in Item |-> "absent"]
    /\ budget = MaxOps

-----------------------------------------------------------------------------
(* The UPDATE statements, as functions of the row they change.             *)

\* source_file_state after validate_source_identity has looked at the file.
Validated(r, bytes) ==
    [r EXCEPT !.state = CASE bytes = "original" -> "available"
                          [] bytes = "none"     -> "missing"
                          [] OTHER              -> "replaced"]

\* The tail every UPDATE that restarts the pipeline shares.
Restarted(r, status) ==
    [r EXCEPT !.status = status, !.stage = "none", !.attempts = 0, !.due = TRUE]

Labelled(r, class, char) ==
    Restarted([r EXCEPT !.class = class, !.char = char], "queued")

\* relabel_completed_capture: a full reprocessing that keeps the old archive.
Reprocessed(r, class, char) ==
    [Labelled(r, class, char) EXCEPT
        !.annotated = "none", !.drawnFor = NoChar, !.archived = FALSE,
        !.version = r.version + 1]

Claimed(r) ==
    [r EXCEPT !.status = "processing", !.stage = "none", !.due = TRUE]

Processed(r, annotated, char, face) ==
    [Restarted(r, "archive_pending") EXCEPT
        !.annotated = annotated, !.drawnFor = char, !.face = face]

MarkedFailed(r) ==
    [r EXCEPT !.status = "failed", !.stage = "processing", !.due = TRUE]

RecordedFailure(r) ==
    [r EXCEPT !.status = "failed", !.due = TRUE,
              !.stage = IF r.stage = "none" THEN "archive" ELSE r.stage]

\* Wrong on purpose: the attempt is not counted.
Uncounted_RetryScheduled(r) ==
    [r EXCEPT !.status = IF r.attempts + 1 <= 3 THEN "archive_pending" ELSE "failed",
              !.stage = "archive", !.due = ~(r.attempts + 1 <= 3)]

\* schedule_archive_retry: +2 s, +10 s, +30 s, then give up.
RetryScheduled(r) ==
    LET again == r.attempts + 1 <= 3
    IN  [r EXCEPT !.status = IF again THEN "archive_pending" ELSE "failed",
                  !.stage = "archive", !.attempts = r.attempts + 1,
                  !.due = ~again]

Archived(r, bytes) ==
    [r EXCEPT !.status = "completed", !.archived = TRUE, !.dest = bytes]

ResetRow(r) ==
    [NewRow EXCEPT !.version = r.version + 1]

\* purge_capture_item: the predicates of its DELETE.
Purgeable(r, expected) == ~r.archived /\ ~r.owner /\ r.status = expected

PurgedIf(i, expected) ==
    IF Purgeable(row[i], expected) THEN NoRow ELSE row[i]

-----------------------------------------------------------------------------
(* The background worker.  Goto moves it on with the item it has.          *)

Goto(pc)     == worker' = [worker EXCEPT !.pc = pc]
Take(pc, i)  == worker' = [pc |-> pc, item |-> i, read |-> "none"]
CycleEnds    == worker' = Idle
At(pc, i)    == worker.pc = pc /\ worker.item = i
Write(i, r)  == row' = [row EXCEPT ![i] = r]

\* run: every fourth cycle starts with sweep_missing_sources, whose SELECT
\* remembers the status of each unarchived row.
StartCycle ==
    /\ worker.pc = "idle"
    /\ \/ Goto("cycle") /\ UNCHANGED sweep
       \/ /\ Goto("sweep")
          /\ sweep' = [i \in Item |->
                         IF ~row[i].archived
                            /\ row[i].status \notin {"processing", "completed"}
                         THEN row[i].status ELSE "absent"]
    /\ UNCHANGED <<row, source, ignored, lock, preview, copied, budget>>

\* One row of the sweep: stat the file, then the guarded DELETE.  No lock.
SweepItem(i) ==
    /\ worker.pc = "sweep"
    /\ sweep[i] # "absent"
    /\ sweep' = [sweep EXCEPT ![i] = "absent"]
    /\ row' = IF source[i] = "none"
              THEN [row EXCEPT ![i] = PurgedIf(i, sweep[i])] ELSE row
    /\ UNCHANGED <<source, ignored, lock, preview, copied, worker, budget>>

SweepEnds ==
    /\ worker.pc = "sweep"
    /\ \A i \in Item : sweep[i] = "absent"
    /\ Goto("cycle")
    /\ UNCHANGED <<row, source, ignored, lock, preview, copied, sweep, budget>>

ArchiveDue == {i \in Item : row[i].status = "archive_pending" /\ row[i].due}
Queued     == {i \in Item : row[i].status = "queued" /\ ~row[i].owner}
Unlabelled == {i \in Item : /\ row[i].status = "awaiting_label"
                            /\ row[i].state = "available"
                            /\ ~row[i].face /\ ~row[i].owner /\ row[i].due}

\* process_once, first branch: the oldest due archive job goes first.
PickArchive ==
    /\ worker.pc = "cycle"
    /\ IF ArchiveDue = {} THEN Goto("queue")
                          ELSE \E i \in Oldest(ArchiveDue) : Take("archive", i)
    /\ UNCHANGED <<row, source, ignored, lock, preview, copied, sweep, budget>>

\* claim_next_queued: the oldest queued row no reset owns.
ClaimNextQueued(i) ==
    /\ worker.pc = "queue"
    /\ i \in Oldest(Queued)
    /\ Write(i, Claimed(row[i]))
    /\ Take("claimed", i)
    /\ UNCHANGED <<source, ignored, lock, preview, copied, sweep, budget>>

\* An empty queue: extract the feature of an unlabelled row, or rest (also
\* when no engine is configured or extract_at_registration is off).
QueueEmpty ==
    /\ worker.pc = "queue"
    /\ Queued = {}
    /\ \/ CycleEnds
       \/ \E i \in Oldest(Unlabelled) : Take("prelabel", i)
    /\ UNCHANGED <<row, source, ignored, lock, preview, copied, sweep, budget>>

\* The claimed source is gone: purge, and the cycle is over either way.
CheckSource(i) ==
    /\ At("claimed", i)
    /\ IF source[i] = "none"
       THEN Write(i, PurgedIf(i, "processing")) /\ CycleEnds
       ELSE Goto("validate") /\ UNCHANGED row
    /\ UNCHANGED <<source, ignored, lock, preview, copied, sweep, budget>>

\* validate_source_identity; a scene or private capture goes on to the archive.
ValidateClaimed(i) ==
    /\ At("validate", i)
    /\ \/ ~Present(i) /\ CycleEnds /\ UNCHANGED row
       \/ /\ Present(i) /\ source[i] # "original"
          /\ Write(i, MarkedFailed(Validated(row[i], source[i])))
          /\ CycleEnds
       \/ /\ Present(i) /\ source[i] = "original"
          /\ LET r == Validated(row[i], "original")
             IN  IF r.class = "person"
                 THEN Write(i, r) /\ Goto("engine")
                 ELSE Write(i, Restarted(r, "archive_pending")) /\ Goto("archive")
    /\ UNCHANGED <<source, ignored, lock, preview, copied, sweep, budget>>

\* The engine reads the screenshot at some moment of its run.
EngineReads(i) ==
    /\ At("engine", i)
    /\ source[i] # "none"
    /\ worker' = [worker EXCEPT !.pc = "finish", !.read = source[i]]
    /\ UNCHANGED <<row, source, ignored, lock, preview, copied, sweep, budget>>

\* Wrong on purpose: the source is not validated after the engine ran.
Trusting_CompleteProcessing(i) ==
    /\ At("finish", i)
    /\ row[i].status = "processing"
    /\ \E drawn, face \in BOOLEAN :
          Write(i, Processed(row[i], IF drawn THEN worker.read ELSE "none",
                             IF drawn THEN row[i].char ELSE NoChar, face))
    /\ Goto("archive")
    /\ UNCHANGED <<source, ignored, lock, preview, copied, sweep, budget>>

\* complete_processing validates the source once more before it writes, with
\* the annotated copy or without (annotation disabled), with a face or none.
CompleteProcessing(i) ==
    /\ At("finish", i)
    /\ row[i].status = "processing"
    /\ source[i] = "original"
    /\ \E drawn, face \in BOOLEAN :
          Write(i, Processed(Validated(row[i], "original"),
                             IF drawn THEN worker.read ELSE "none",
                             IF drawn THEN row[i].char ELSE NoChar, face))
    /\ Goto("archive")
    /\ UNCHANGED <<source, ignored, lock, preview, copied, sweep, budget>>

\* complete_processing_without_engine: the degraded path for a person.
CompleteWithoutEngine(i) ==
    /\ At("engine", i)
    /\ row[i].status = "processing"
    /\ Write(i, Processed(row[i], "none", NoChar, row[i].face))
    /\ Goto("archive")
    /\ UNCHANGED <<source, ignored, lock, preview, copied, sweep, budget>>

\* The engine, its output or the second validation fails: mark_failed.  The
\* row may be gone by then (project deleted), which only ends the cycle.
ProcessingFails(i) ==
    /\ At("engine", i) \/ At("finish", i)
    /\ IF Present(i)
       THEN Write(i, MarkedFailed(IF worker.pc = "finish"
                                  THEN Validated(row[i], source[i]) ELSE row[i]))
       ELSE UNCHANGED row
    /\ CycleEnds
    /\ UNCHANGED <<source, ignored, lock, preview, copied, sweep, budget>>
-----------------------------------------------------------------------------
(* capture_archive_service::archive, run by the worker or by the           *)
(* archive_capture command ("ipc").  It holds the item lock throughout.    *)

\* archive_inner up to set_archive_pending_for_retry.
Verdict(i) ==
    IF ~Present(i) \/ row[i].owner THEN "refused"
    ELSE IF row[i].status = "completed" THEN "done"
    ELSE IF source[i] = "none" THEN "gone"
    ELSE IF /\ source[i] = "original"
            /\ \/ row[i].status = "archive_pending"
               \/ row[i].status = "failed" /\ row[i].annotated # "none"
    THEN "go" ELSE "refused"

\* Wrong on purpose: a failed row is archived without leaving 'failed'.
Silent_ArchiveStarted(i) ==
    IF ~Present(i) \/ row[i].owner \/ row[i].status = "completed"
    THEN row[i] ELSE Validated(row[i], source[i])

\* Its effect on the row: the validated source state, and archive_pending.
ArchiveStarted(i) ==
    LET r == Validated(row[i], source[i])
    IN  IF ~Present(i) \/ row[i].owner \/ row[i].status = "completed" THEN row[i]
        ELSE IF Verdict(i) = "go" /\ row[i].status = "failed"
        THEN [r EXCEPT !.status = "archive_pending", !.stage = "none", !.due = TRUE]
        ELSE r

ArchiveBegins(i, who) ==
    /\ lock[i] = "free"
    /\ lock' = [lock EXCEPT ![i] = IF Verdict(i) = "go" THEN who ELSE "free"]
    /\ Write(i, ArchiveStarted(i))

\* archive_source_direct reads the source again; archive_person_item reads the
\* annotated copy.  The bytes are verified, renamed and fingerprinted.
ArchiveCopies(i, who) ==
    /\ lock[i] = who
    /\ copied[i] = "none"
    /\ LET bytes == IF row[i].class = "person" /\ row[i].annotated # "none"
                    THEN row[i].annotated ELSE source[i]
       IN  bytes # "none" /\ copied' = [copied EXCEPT ![i] = bytes]

\* persist_completed_archive: one transaction guarded by archive_pending.
ArchivePersists(i, who) ==
    /\ lock[i] = who
    /\ copied[i] # "none"
    /\ row[i].status = "archive_pending"
    /\ Write(i, Archived(row[i], copied[i]))
    /\ lock' = [lock EXCEPT ![i] = "free"]
    /\ copied' = [copied EXCEPT ![i] = "none"]

\* Any error of archive_pending_item: record_failure, then the lock is dropped.
ArchiveFails(i, who) ==
    /\ lock[i] = who
    /\ IF Present(i) THEN Write(i, RecordedFailure(row[i])) ELSE UNCHANGED row
    /\ lock' = [lock EXCEPT ![i] = "free"]
    /\ copied' = [copied EXCEPT ![i] = "none"]

\* archive_and_emit, waiting for the item lock.
WorkerArchiveBegins(i) ==
    /\ At("archive", i)
    /\ ArchiveBegins(i, "worker")
    /\ CASE Verdict(i) = "go"      -> Goto("copy")
         [] Verdict(i) = "done"    -> CycleEnds
         [] Verdict(i) = "gone"    -> Goto("purge")
         [] Verdict(i) = "refused" -> Goto("schedule")
    /\ UNCHANGED <<source, ignored, preview, copied, sweep, budget>>

WorkerCopies(i) ==
    /\ At("copy", i)
    /\ ArchiveCopies(i, "worker")
    /\ UNCHANGED <<row, source, ignored, lock, preview, worker, sweep, budget>>

WorkerPersists(i) ==
    /\ At("copy", i)
    /\ ArchivePersists(i, "worker")
    /\ CycleEnds
    /\ UNCHANGED <<source, ignored, preview, sweep, budget>>

WorkerArchiveFails(i) ==
    /\ At("copy", i)
    /\ ArchiveFails(i, "worker")
    /\ Goto("schedule")
    /\ UNCHANGED <<source, ignored, preview, sweep, budget>>

\* schedule_archive_retry, without the lock: a row no longer 'failed' makes the
\* UPDATE ... RETURNING fail, which ends the cycle with an error and no change.
ScheduleArchiveRetry(i) ==
    /\ At("schedule", i)
    /\ IF row[i].status = "failed"
       THEN Write(i, RetryScheduled(row[i])) ELSE UNCHANGED row
    /\ CycleEnds
    /\ UNCHANGED <<source, ignored, lock, preview, copied, sweep, budget>>

\* archive_and_emit answering NotFound("capture source image").
PurgeUnarchived(i) ==
    /\ At("purge", i)
    /\ Write(i, PurgedIf(i, "archive_pending"))
    /\ CycleEnds
    /\ UNCHANGED <<source, ignored, lock, preview, copied, sweep, budget>>

-----------------------------------------------------------------------------
(* process_awaiting_label_feature: under the item lock from its re-read on. *)

PrelabelBegins(i) ==
    /\ At("prelabel", i)
    /\ lock[i] = "free"
    /\ CASE row[i].status # "awaiting_label" \/ row[i].owner ->
              CycleEnds /\ UNCHANGED <<row, lock>>
         [] row[i].status = "awaiting_label" /\ ~row[i].owner ->
              \/ /\ source[i] = "none"
                 /\ Write(i, IF row[i].archived THEN Validated(row[i], "none")
                                                ELSE NoRow)
                 /\ CycleEnds /\ UNCHANGED lock
              \/ /\ source[i] = "foreign"
                 /\ Write(i, [Validated(row[i], "foreign") EXCEPT !.due = FALSE])
                 /\ CycleEnds /\ UNCHANGED lock
              \/ /\ source[i] = "original"
                 /\ Write(i, Validated(row[i], "original"))
                 /\ lock' = [lock EXCEPT ![i] = "worker"] /\ Goto("extract")
    /\ UNCHANGED <<source, ignored, preview, copied, sweep, budget>>

\* What the engine answers: a feature or no face (both stored, if the source
\* is still the registered one); an unreadable image (three attempts, then the
\* "no feature" marker); a transient failure (again in a minute); or a source
\* that is gone (purge).
PrelabelAnswer(i) ==
    LET r == row[i]
        retried == [r EXCEPT !.due = FALSE]
    IN  {IF source[i] = "original" THEN [Validated(r, "original") EXCEPT !.face = TRUE]
                                   ELSE Validated(r, source[i]),
         retried}
        \cup {IF r.attempts + 1 >= 3 THEN [r EXCEPT !.face = TRUE]
                                     ELSE [retried EXCEPT !.attempts = r.attempts + 1]}
        \cup (IF source[i] = "none" THEN {PurgedIf(i, "awaiting_label")} ELSE {})

PrelabelEnds(i) ==
    /\ At("extract", i)
    /\ IF Present(i) THEN \E r \in PrelabelAnswer(i) : Write(i, r)
                     ELSE UNCHANGED row
    /\ lock' = [lock EXCEPT ![i] = "free"]
    /\ CycleEnds
    /\ UNCHANGED <<source, ignored, preview, copied, sweep, budget>>

\* next_retry_at passes.
RetryFallsDue(i) ==
    /\ ~row[i].due
    /\ Write(i, [row[i] EXCEPT !.due = TRUE])
    /\ UNCHANGED <<source, ignored, lock, preview, copied, worker, sweep, budget>>

WorkerStep ==
    \/ StartCycle \/ SweepEnds \/ PickArchive \/ QueueEmpty
    \/ \E i \in Item :
          \/ SweepItem(i) \/ ClaimNextQueued(i) \/ CheckSource(i)
          \/ ValidateClaimed(i) \/ EngineReads(i) \/ CompleteProcessing(i)
          \/ CompleteWithoutEngine(i) \/ ProcessingFails(i)
          \/ WorkerArchiveBegins(i) \/ WorkerCopies(i) \/ WorkerPersists(i)
          \/ WorkerArchiveFails(i) \/ ScheduleArchiveRetry(i)
          \/ PurgeUnarchived(i) \/ PrelabelBegins(i) \/ PrelabelEnds(i)

-----------------------------------------------------------------------------
(* Commands.  Each uses one unit of the budget.                            *)

Uses(op) == op \in Ops /\ budget > 0 /\ budget' = budget - 1

Labels == ({"person"} \X Char) \cup ({"other"} \X (Char \cup {NoChar}))

\* register_eligible_path.  A new row has a new id: nobody refers to it yet.
RegisterCapture(i) ==
    /\ Uses("register")
    /\ ~Present(i) /\ ~ignored[i] /\ source[i] = "original"
    /\ worker.item # i /\ lock[i] = "free" /\ sweep[i] = "absent"
    /\ preview[i] = NoPreview
    /\ Write(i, NewRow)
    /\ UNCHANGED <<source, ignored, lock, preview, copied, worker, sweep>>

LabelCapture(i, label) ==
    /\ Uses("label")
    /\ Free(i)
    /\ row[i].status \in {"awaiting_label", "failed"}
    /\ Write(i, Labelled(row[i], label[1], label[2]))
    /\ UNCHANGED <<source, ignored, lock, preview, copied, worker, sweep>>

\* relabel_capture_item: nothing to do, rejected in flight, reprocessed when
\* completed (after validating the source), updated in place otherwise.
RelabelCapture(i, label) ==
    /\ Uses("relabel")
    /\ Free(i)
    /\ label[1] = "other" => label[2] = NoChar
    /\ label # <<row[i].class, row[i].char>>
    /\ \/ /\ row[i].status \in {"awaiting_label", "queued", "failed"}
          /\ Write(i, Labelled(row[i], label[1], label[2]))
       \/ /\ row[i].status = "completed"
          /\ LET r == Validated(row[i], source[i])
             IN  Write(i, IF source[i] = "original"
                          THEN Reprocessed(r, label[1], label[2]) ELSE r)
    /\ UNCHANGED <<source, ignored, lock, preview, copied, worker, sweep>>

\* requeue_completed_capture (big-face repair).
RequeueCompleted(i) ==
    /\ Uses("requeue")
    /\ Free(i)
    /\ row[i].status = "completed"
    /\ LET r == Validated(row[i], source[i])
       IN  Write(i, IF source[i] = "original"
                    THEN Reprocessed(r, r.class, r.char) ELSE r)
    /\ UNCHANGED <<source, ignored, lock, preview, copied, worker, sweep>>

Degraded(r) == r.status = "completed" /\ r.class = "person" /\ r.annotated = "none"

\* Wrong on purpose: any annotated copy is archived again, whatever failed.
Hasty_Retried(r, copy) ==
    IF Degraded(r) THEN Restarted(r, "queued")
    ELSE IF r.annotated # "none" THEN Restarted(r, "archive_pending")
    ELSE Restarted(r, IF r.char # NoChar THEN "queued" ELSE "awaiting_label")

\* retry_capture: where a failed or degraded row restarts.  The annotated copy
\* in the cache may have been lost.
Retried(r, copy) ==
    IF Degraded(r) THEN Restarted(r, "queued")
    ELSE IF r.stage = "archive" /\ r.annotated # "none" /\ copy = "kept"
    THEN Restarted(r, "archive_pending")
    ELSE IF r.char # NoChar
    THEN [Restarted(r, "queued") EXCEPT !.annotated = "none", !.drawnFor = NoChar]
    ELSE Restarted(r, "awaiting_label")

RetryCapture(i) ==
    /\ Uses("retry")
    /\ Free(i)
    /\ row[i].status = "failed" \/ Degraded(row[i])
    /\ LET r == Validated(row[i], source[i])
       IN  IF source[i] = "original"
           THEN \E copy \in {"kept", "lost"} : Write(i, Retried(r, copy))
           ELSE Write(i, r)
    /\ UNCHANGED <<source, ignored, lock, preview, copied, worker, sweep>>

\* The archive_capture command.
IpcArchiveBegins(i) ==
    /\ Uses("archive")
    /\ Present(i) /\ row[i].status # "completed"
    /\ ArchiveBegins(i, "ipc")
    /\ UNCHANGED <<source, ignored, preview, copied, worker, sweep>>

IpcArchiveContinues(i) ==
    \/ /\ ArchiveCopies(i, "ipc")
       /\ UNCHANGED <<row, source, ignored, lock, preview, worker, sweep, budget>>
    \/ /\ ArchivePersists(i, "ipc") \/ ArchiveFails(i, "ipc")
       /\ UNCHANGED <<source, ignored, preview, worker, sweep, budget>>

\* capture_deletion_service::execute: the transaction takes the write lock,
\* reads the row again and refuses a busy one; the content becomes ignored.
DeleteCapture(i) ==
    /\ Uses("delete")
    /\ Free(i)
    /\ row[i].status \in {"awaiting_label", "completed", "failed"}
    /\ Write(i, NoRow)
    /\ ignored' = [ignored EXCEPT ![i] = TRUE]
    /\ UNCHANGED <<source, lock, preview, copied, worker, sweep>>

\* delete_project cascades to every row, whoever works on it.
DeleteProject ==
    /\ Uses("deleteProject")
    /\ \E i \in Item : Present(i)
    /\ row' = [i \in Item |-> NoRow]
    /\ ignored' = [i \in Item |-> FALSE]
    /\ UNCHANGED <<source, lock, preview, copied, worker, sweep>>

-----------------------------------------------------------------------------
(* The reset job: preview, then per row lock, compare, claim, clean, commit. *)

ResetPreview(i) ==
    /\ Uses("reset")
    /\ Free(i)
    /\ row[i].class # "unclassified" /\ source[i] = "original"
    /\ row[i].status \in {"awaiting_label", "completed", "failed"}
    /\ preview' = [preview EXCEPT ![i] = Frozen(row[i])]
    /\ UNCHANGED <<row, source, ignored, lock, copied, worker, sweep>>

\* Wrong on purpose: the row is not compared with its preview again.
Blind_ResetExecute(i) ==
    /\ Uses("reset")
    /\ preview[i] # NoPreview
    /\ lock[i] = "free" /\ Present(i) /\ source[i] = "original"
    /\ lock' = [lock EXCEPT ![i] = "reset"]
    /\ UNCHANGED <<row, source, ignored, preview, copied, worker, sweep>>

\* execute_item: a row that no longer equals its preview is left alone.  A
\* failed item keeps its preview, so the job may be executed again.
ResetExecute(i) ==
    /\ Uses("reset")
    /\ preview[i] # NoPreview
    /\ lock[i] = "free"
    /\ Frozen(row[i]) = preview[i] /\ source[i] = "original"
    /\ lock' = [lock EXCEPT ![i] = "reset"]
    /\ UNCHANGED <<row, source, ignored, preview, copied, worker, sweep>>

\* The claim is guarded by owner and version, not by the status.  A row that
\* was deleted with its project loses the claim here.
ResetClaims(i) ==
    /\ lock[i] = "reset"
    /\ ~row[i].owner
    /\ IF Present(i) /\ row[i].version = preview[i].version
       THEN Write(i, [row[i] EXCEPT !.owner = TRUE]) /\ UNCHANGED lock
       ELSE lock' = [lock EXCEPT ![i] = "free"] /\ UNCHANGED row
    /\ UNCHANGED <<source, ignored, preview, copied, worker, sweep, budget>>

\* clean_and_commit succeeds: the row starts over.
ResetCommits(i) ==
    /\ lock[i] = "reset"
    /\ row[i].owner
    /\ source[i] = "original"
    /\ row[i].version = preview[i].version
    /\ Write(i, ResetRow(row[i]))
    /\ lock' = [lock EXCEPT ![i] = "free"]
    /\ preview' = [preview EXCEPT ![i] = NoPreview]
    /\ UNCHANGED <<source, ignored, copied, worker, sweep, budget>>

\* A cleanup that fails releases the claim and keeps the row as it was.
ResetFails(i) ==
    /\ lock[i] = "reset"
    /\ row[i].owner
    /\ Write(i, [row[i] EXCEPT !.owner = FALSE])
    /\ lock' = [lock EXCEPT ![i] = "free"]
    /\ UNCHANGED <<source, ignored, preview, copied, worker, sweep, budget>>

\* The dialog discards the job, or its time to live passes.
ResetDiscards(i) ==
    /\ preview[i] # NoPreview
    /\ lock[i] # "reset"
    /\ preview' = [preview EXCEPT ![i] = NoPreview]
    /\ UNCHANGED <<row, source, ignored, lock, copied, worker, sweep, budget>>

-----------------------------------------------------------------------------
(* Faults.                                                                 *)

\* The file at source_path is deleted, overwritten, or put back, perhaps before anyone
\* looked: what the engine read meanwhile is then unseen.
SourceChanges(i, op, from, to) ==
    /\ Uses(op)
    /\ source[i] = from
    /\ source' = [source EXCEPT ![i] = to]
    /\ worker' = IF to = "original" /\ worker.item = i /\ worker.read = "foreign"
                 THEN [worker EXCEPT !.read = "unseen"] ELSE worker
    /\ UNCHANGED <<row, ignored, lock, preview, copied, sweep>>

\* Wrong on purpose: start-up repairs nothing in the database.
Careless_Restart ==
    /\ Uses("crash")
    /\ worker' = Idle
    /\ lock' = [i \in Item |-> "free"]
    /\ preview' = [i \in Item |-> NoPreview]
    /\ copied' = [i \in Item |-> "none"]
    /\ sweep' = [i \in Item |-> "absent"]
    /\ UNCHANGED <<row, source, ignored>>

\* The process dies and starts again: everything in memory is gone.  Start-up
\* fails the interrupted processing rows and clears the reset claims.
Restart ==
    /\ Uses("crash")
    /\ row' = [i \in Item |->
                 [(IF row[i].status = "processing" THEN MarkedFailed(row[i])
                                                   ELSE row[i])
                  EXCEPT !.owner = FALSE]]
    /\ worker' = Idle
    /\ lock' = [i \in Item |-> "free"]
    /\ preview' = [i \in Item |-> NoPreview]
    /\ copied' = [i \in Item |-> "none"]
    /\ sweep' = [i \in Item |-> "absent"]
    /\ UNCHANGED <<source, ignored>>

-----------------------------------------------------------------------------
Command(i) ==
    \/ RegisterCapture(i) \/ RequeueCompleted(i) \/ RetryCapture(i)
    \/ \E label \in Labels : LabelCapture(i, label) \/ RelabelCapture(i, label)
    \/ IpcArchiveBegins(i) \/ DeleteCapture(i)
    \/ ResetPreview(i) \/ ResetExecute(i) \/ ResetDiscards(i)

\* A command that holds a lock and goes on by itself.
LockedStep(i) ==
    \/ IpcArchiveContinues(i)
    \/ ResetClaims(i) \/ ResetCommits(i) \/ ResetFails(i)

Fault(i) ==
    \/ SourceChanges(i, "missing", "original", "none")
    \/ SourceChanges(i, "restore", "none", "original")
    \/ SourceChanges(i, "replace", "original", "foreign")
    \/ SourceChanges(i, "missing", "foreign", "none")
    \/ SourceChanges(i, "putBack", "foreign", "original")

Next ==
    \/ WorkerStep
    \/ DeleteProject \/ Restart
    \/ \E i \in Item : Command(i) \/ LockedStep(i) \/ Fault(i) \/ RetryFallsDue(i)

Spec == Init /\ [][Next]_vars

\* The worker task and a command in progress always go on; time passes.  No
\* fairness for users, faults or restarts.
Fairness ==
    /\ WF_vars(WorkerStep)
    /\ \A i \in Item : WF_vars(LockedStep(i)) /\ WF_vars(RetryFallsDue(i))

FairSpec == Spec /\ Fairness

-----------------------------------------------------------------------------
(* Properties.                                                             *)

\* Every variable stays in its range.
TypeOK ==
    /\ row \in [Item -> Row]
    /\ source \in [Item -> Source]
    /\ ignored \in [Item -> BOOLEAN]
    /\ lock \in [Item -> Holder]
    /\ preview \in [Item -> [class : Class, char : Char \cup {NoChar},
                             status : Status, dest : Bytes, annotated : Bytes,
                             owner : BOOLEAN, version : Nat]]
    /\ copied \in [Item -> Bytes]
    /\ worker \in [pc : Pc, item : Item \cup {0}, read : Bytes]
    /\ sweep \in [Item -> Status]
    /\ budget \in Nat

\* The worker is between its claim of i and the end of processing it.
Working(i) ==
    worker.item = i /\ worker.pc \in {"claimed", "validate", "engine", "finish"}

\* An archive of i is running, by the worker or by a command.
Archiving(i) ==
    lock[i] = "ipc" \/ (lock[i] = "worker" /\ worker.pc = "copy")

\* A row in 'processing' is the row the live worker is processing: nothing
\* else leaves that status, so any other such row would be stuck until the
\* next start (recover_interrupted_processing).
ProcessingOwned == \A i \in Item : row[i].status = "processing" => Working(i)

\* While an archive of a row runs, the row stays 'archive_pending' until the
\* archive itself completes or fails it, or it is deleted: the guard of
\* persist_completed_archive fails for no other reason.
ArchiveHoldsRow ==
    \A i \in Item : Archiving(i) => row[i].status \in {"archive_pending", "absent"}

\* operation_owner names a reset that is really running and holds the lock,
\* and the row it owns is not in the hands of the pipeline's first stages.
ClaimHeld ==
    \A i \in Item : row[i].owner =>
        lock[i] = "reset" /\ row[i].status \notin {"absent", "queued", "processing"}

\* The annotated copy a row refers to was drawn from the registered content,
\* although the file may be replaced while the engine reads it, unless it was put
\* back before the second validation: the two looks at the source, before and after
\* the engine, are all there is.
AnnotationOriginal == \A i \in Item : row[i].annotated # "foreign"

\* A person capture is archived with the name of its current character on it.
AnnotationNamesCharacter ==
    \A i \in Item :
        /\ row[i].status \in {"archive_pending", "completed"}
        /\ row[i].class = "person"
        /\ row[i].annotated # "none"
        => row[i].drawnFor = row[i].char

\* What keeps the names right while the archive command is not called: a failed
\* archive, too, has the name it is tried again with, and the worker never
\* begins to archive a failed row, whose label may be another one.
NameRight(r) == r.class = "person" /\ r.annotated # "none" => r.drawnFor = r.char

NamesConsistent ==
    \A i \in Item :
        /\ \/ row[i].status \in {"archive_pending", "completed"}
           \/ row[i].status = "failed" /\ (row[i].stage = "archive" \/ At("schedule", i))
           => NameRight(row[i])
        /\ At("archive", i) => row[i].status # "failed"
        /\ lock[i] # "ipc"

\* A classification is never changed under a worker that processes the row or
\* an archive that copies it ("in progress or waiting to archive" is refused).
NoRelabelInFlight ==
    [][\A i \in Item :
          (Working(i) \/ Archiving(i)) /\ row'[i].status # "absent"
          => row'[i].class = row[i].class /\ row'[i].char = row[i].char]_vars

\* A reset takes away only the classification, archive and version its preview
\* showed to the user, however long ago that was.
ResetOnlyPreviewed ==
    [][\A i \in Item :
          row[i].owner /\ row'[i].version > row[i].version
          => /\ row[i].class = preview[i].class /\ row[i].char = preview[i].char
             /\ row[i].dest = preview[i].dest
             /\ row[i].version = preview[i].version]_vars

\* What the worker, the locks and the previews agree on for every row, and an
\* engine that read a replaced file stays convinced of it: together with the
\* invariants above, this is preserved by every step.
ReadConsistent ==
    worker.read = "foreign" => \E i \in Item : worker.item = i /\ source[i] # "original"

ItemConsistent(i) ==
    /\ Working(i) => row[i].status \in {"processing", "absent"}
    /\ lock[i] = "worker" <=> At("copy", i) \/ At("extract", i)
    /\ Archiving(i) => row[i].status \in {"archive_pending", "absent"}
    /\ preview[i] = NoPreview
       \/ preview[i].status \in {"awaiting_label", "completed", "failed"}
    /\ lock[i] = "reset" =>
          /\ row[i].status \notin {"queued", "processing"}
          /\ Present(i) => /\ row[i].class = preview[i].class
                          /\ row[i].char = preview[i].char
                          /\ row[i].dest = preview[i].dest
                          /\ row[i].version = preview[i].version
    /\ row[i].owner =>
          lock[i] = "reset" /\ row[i].status \notin {"absent", "queued", "processing"}
    /\ row[i].annotated # "foreign"

Consistent == TypeOK /\ ReadConsistent /\ \A i \in Item : ItemConsistent(i)

\* Once the user and the environment stop, every row comes to rest: nothing
\* stays queued, processing or waiting for the archive for ever.
Settled(i) == row[i].status \notin {"queued", "processing", "archive_pending"}
Settles == <>[](\A i \in Item : Settled(i))

=============================================================================

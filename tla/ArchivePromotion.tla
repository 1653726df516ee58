-------------------------- MODULE ArchivePromotion --------------------------
(***************************************************************************)
(* The files of the archive directory and the fingerprints that say which  *)
(* of them are ours: capture_archive_service (choose a name, check the     *)
(* target, copy, check again, rename, verify, record, commit, retire the   *)
(* old target) and capture_deletion_service (check, recycle, forget).      *)
(*                                                                         *)
(* Other actors are the user, who edits the directory at any moment, the   *)
(* deletion of a whole project, which takes no lock, and the crash.        *)
(*                                                                         *)
(* Hashes are contents: equal content, equal hash.  The source of a job is *)
(* fixed while it runs (a source that changes is CaptureLifecycle's        *)
(* subject).  The name a template renders for an output is any name,       *)
(* because template, character and counter all change it.                  *)
(***************************************************************************)
EXTENDS Naturals

CONSTANTS
    Item,        \* captures
    Name,        \* names a template may render for an output
    Content,     \* contents of files
    None,        \* no file, no path, no fingerprint
    Outputs,     \* what processing may produce for a capture
    Edits,       \* contents the user may put into a file
    Ops,         \* commands and faults this instance explores
    MaxOps,      \* how many of them happen in one behaviour
    Concurrent   \* TRUE: archive_capture is called beside the worker

Slot == {"main", "avatar"}      \* destination_path, destination_avatar_path

\* <<s, n, None>>: name n in the subdirectory for outputs of slot s (头像图 is
\* for avatars alone); <<s, n, i>>: "n - repaired-i" beside it.
Path == Slot \X Name \X (Item \cup {None})
Bytes == Content \cup {None}
Places == {f \in [Slot -> Path \cup {None}] :
              \A s \in Slot : f[s] = None \/ f[s][1] = s}

ASSUME NoneAssumption == None \notin Content \cup Path \cup Item
ASSUME OutputsAssumption ==
    Outputs \subseteq {o \in [derived : BOOLEAN, bytes : [Slot -> Bytes]] :
                          o.bytes["main"] # None}
ASSUME EditsAssumption == Edits \subseteq Bytes
ASSUME MaxOpsAssumption == MaxOps \in Nat
ASSUME ConcurrentAssumption == Concurrent \in BOOLEAN

VARIABLES
    files,      \* files[p]: content of the file at path p of the archive
    row,        \* row[i]: the archive columns of the capture_items row
    prints,     \* prints[i][p]: capture_archive_fingerprints
    job,        \* job[i]: the archive operation running for i
    del,        \* del[i]: the deletion running for i
    disturbed,  \* paths the user or a deletion has changed (history)
    budget      \* commands and faults left

vars == <<files, row, prints, job, del, disturbed, budget>>

Nowhere == [s \in Slot |-> None]

\* "pending" stands for the way from queued to archive_pending, "gone" for a
\* row that was deleted.  want: the outputs to archive; derived: they are files
\* of the local cache and not the screenshot itself; old: archived before
\* fingerprints existed (migration 0024).
Row == [status : {"pending", "failed", "completed", "gone"},
        want   : Outputs,
        dest   : Places,
        state  : [Slot -> {"none", "available", "missing", "unavailable"}],
        old    : BOOLEAN]

Job == [pc     : {"idle", "resolve", "check", "recheck", "promote", "verify",
                  "record", "persist", "retire", "recycle"},
        slot   : Slot,
        target : Path \cup {None},   \* where this output goes
        before : Bytes,              \* previous_archive_hash of the target
        was    : Places,             \* destinations when the job began
        placed : Places]             \* outputs recorded so far

Deletion == [pc     : {"idle", "file", "remove", "finish"},
             slot   : Slot,
             failed : BOOLEAN,
             state  : [Slot -> {"none", "available", "missing", "unavailable"}]]

NoJob == [pc |-> "idle", slot |-> "main", target |-> None, before |-> None,
          was |-> Nowhere, placed |-> Nowhere]
NoDeletion == [pc |-> "idle", slot |-> "main", failed |-> FALSE,
               state |-> [s \in Slot |-> "none"]]

Rendered(s) == {<<s, n, None>> : n \in Name}
Targets(places) == {places[s] : s \in Slot}

\* A capture that was never archived, or archived before fingerprints existed.
FreshRow(r) == /\ r.status = "pending" /\ r.dest = Nowhere /\ ~r.old
               /\ r.state = [s \in Slot |-> "none"]
OldRow(r) ==
    /\ r.status = "completed" /\ r.old
    /\ \A s \in Slot :
          IF r.want.bytes[s] = None
          THEN r.dest[s] = None /\ r.state[s] = "none"
          ELSE r.dest[s] \in Rendered(s) /\ r.state[s] = "available"

ArchivedAs(p, c) ==
    \E i \in Item, s \in Slot : row[i].dest[s] = p /\ row[i].want.bytes[s] = c

Init ==
    /\ row \in [Item -> {r \in Row : FreshRow(r) \/ OldRow(r)}]
    /\ files = [p \in Path |-> IF \E c \in Content : ArchivedAs(p, c)
                               THEN CHOOSE c \in Content : ArchivedAs(p, c)
                               ELSE None]
    /\ prints = [i \in Item |-> [p \in Path |-> None]]
    /\ job = [i \in Item |-> NoJob]
    /\ del = [i \in Item |-> NoDeletion]
    /\ disturbed = {}
    /\ budget = MaxOps

-----------------------------------------------------------------------------
Uses(op) == op \in Ops /\ budget > 0 /\ budget' = budget - 1

Unlocked(i) == job[i].pc = "idle" /\ del[i].pc = "idle"

\* A deletion keeps its write transaction open while it removes files.
WriterFree == \A i \in Item : del[i].pc = "idle"

Step(i, pc)    == job' = [job EXCEPT ![i].pc = pc]
New(i)         == row[i].want.bytes[job[i].slot]
Recorded(i, p) == prints[i][p] # None

\* Another capture's row points at p.
Shared(i, p) == \E j \in Item \ {i} : p \in Targets(row[j].dest)

\* Wrong on purpose: a target that others use may be replaced.
Trusting_PreviousHash(i, p) ==
    IF p \in Targets(job[i].was) THEN prints[i][p] ELSE None

\* previous_archive_hash: the content i may replace at p.
PreviousHash(i, p) ==
    IF p \in Targets(job[i].was) /\ ~Shared(i, p) THEN prints[i][p] ELSE None

Repaired(i, p) == <<p[1], p[2], i>>

\* resolve_legacy_repair_destination: an unrecorded old target that differs
\* is left alone, the output goes beside it.
RepairDestination(i, p) ==
    IF /\ {p, Repaired(i, p)} \cap Targets(job[i].was) # {}
       /\ ~Recorded(i, p)
       /\ files[p] \notin {None, New(i)}
    THEN Repaired(i, p) ELSE p

-----------------------------------------------------------------------------
(* archive_pending_item and what it calls, for one capture.                *)

\* The row is read under the item lock.  The worker archives one capture at a
\* time; the archive_capture command would run beside it.
ArchiveBegins(i) ==
    /\ row[i].status = "pending"
    /\ Unlocked(i)
    /\ Concurrent \/ \A j \in Item : job[j].pc = "idle"
    /\ job' = [job EXCEPT ![i] = [NoJob EXCEPT !.pc = "resolve",
                                               !.was = row[i].dest]]
    /\ UNCHANGED <<files, row, prints, del, disturbed, budget>>

\* resolve_archive_destination, the repair name, previous_archive_hash.
Resolves(i) ==
    /\ job[i].pc = "resolve"
    /\ \E rendered \in Rendered(job[i].slot) :
          LET p == RepairDestination(i, rendered)
          IN  job' = [job EXCEPT ![i].pc = "check", ![i].target = p,
                                 ![i].before = PreviousHash(i, p)]
    /\ UNCHANGED <<files, row, prints, del, disturbed, budget>>

\* check_destination_identity: equal content is reused; the way is free when
\* nothing or the recorded previous content is there; anything else fails.
ChecksTarget(i, from, to) ==
    LET found == files[job[i].target]
    IN  /\ job[i].pc = from
        /\ \/ found = New(i) /\ Step(i, "record")
           \/ found # New(i) /\ found \in {None, job[i].before} /\ Step(i, to)
        /\ UNCHANGED <<files, row, prints, del, disturbed, budget>>

\* copy_verified_atomic_inner: before the copy to a temporary file and after.
Checks(i)   == ChecksTarget(i, "check", "recheck")
Rechecks(i) == ChecksTarget(i, "recheck", "promote")

\* rename replaces whatever is at the target by now, or fails; either way the
\* content of the target decides.
Promotes(i) ==
    /\ job[i].pc = "promote"
    /\ \/ files' = [files EXCEPT ![job[i].target] = New(i)]
       \/ UNCHANGED files
    /\ Step(i, "verify")
    /\ UNCHANGED <<row, prints, del, disturbed, budget>>

\* verify_archive_promotion
Verifies(i) ==
    /\ job[i].pc = "verify"
    /\ files[job[i].target] = New(i)
    /\ Step(i, "record")
    /\ UNCHANGED <<files, row, prints, del, disturbed, budget>>

\* copy_tracked_archive saves the fingerprint of each output by itself; the
\* foreign key refuses it when the row is gone.
Records(i) ==
    /\ job[i].pc = "record"
    /\ WriterFree
    /\ row[i].status # "gone"
    /\ LET s == job[i].slot
           p == job[i].target
       IN  /\ prints' = [prints EXCEPT ![i][p] = New(i)]
           /\ job' = [job EXCEPT
                 ![i].placed[s] = p, ![i].target = None, ![i].before = None,
                 ![i].slot = "avatar",
                 ![i].pc = IF s = "main" /\ row[i].want.bytes["avatar"] # None
                           THEN "resolve" ELSE "persist"]
    /\ UNCHANGED <<files, row, del, disturbed, budget>>

\* persist_completed_archive, up to its COMMIT.
Persists(i) ==
    /\ job[i].pc = "persist"
    /\ WriterFree
    /\ row[i].status = "pending"
    /\ row' = [row EXCEPT
          ![i].status = "completed", ![i].dest = job[i].placed, ![i].old = FALSE,
          ![i].state = [s \in Slot |-> IF job[i].placed[s] = None
                                       THEN "none" ELSE "available"]]
    /\ job' = [job EXCEPT ![i].pc = "retire", ![i].slot = "main"]
    /\ UNCHANGED <<files, prints, del, disturbed, budget>>

\* Wrong on purpose: the old target is retired even if the output went there.
Eager_Retirable(i, p) ==
    /\ p # None
    /\ PreviousHash(i, p) # None
    /\ files[p] = PreviousHash(i, p)

\* can_retire_previous_archive, asked only of a target no longer in use.
Retirable(i, p) ==
    /\ p \notin {None, job[i].placed[job[i].slot]}
    /\ PreviousHash(i, p) # None
    /\ files[p] = PreviousHash(i, p)

RetiredNext(i) ==
    job' = [job EXCEPT ![i] = IF @.slot = "main"
                              THEN [@ EXCEPT !.slot = "avatar", !.pc = "retire"]
                              ELSE NoJob]

Retires(i) ==
    /\ job[i].pc = "retire"
    /\ IF Retirable(i, job[i].was[job[i].slot])
       THEN Step(i, "recycle") ELSE RetiredNext(i)
    /\ UNCHANGED <<files, row, prints, del, disturbed, budget>>

\* The recycle bin may refuse (a network target): the file stays.
Recycles(i) ==
    /\ job[i].pc = "recycle"
    /\ \/ files' = [files EXCEPT ![job[i].was[job[i].slot]] = None]
       \/ UNCHANGED files
    /\ RetiredNext(i)
    /\ UNCHANGED <<row, prints, del, disturbed, budget>>

\* Any error before the COMMIT: a target refused, a share gone, a row that is
\* no longer archive_pending.  record_failure marks the row.
ArchiveFails(i) ==
    /\ job[i].pc \in {"resolve", "check", "recheck", "promote", "verify",
                      "record", "persist"}
    /\ WriterFree
    /\ row' = [row EXCEPT ![i].status =
                  IF @ \in {"completed", "gone"} THEN @ ELSE "failed"]
    /\ job' = [job EXCEPT ![i] = NoJob]
    /\ UNCHANGED <<files, prints, del, disturbed, budget>>

\* The scheduled retry, or the user's.
Retry(i) ==
    /\ row[i].status = "failed"
    /\ Unlocked(i)
    /\ WriterFree
    /\ row' = [row EXCEPT ![i].status = "pending"]
    /\ UNCHANGED <<files, prints, job, del, disturbed, budget>>

\* verify_legacy_outputs_before_reprocessing: an unrecorded target that equals
\* the copy still in the local cache is ours after all.
Adopted(i, p) ==
    \E s \in Slot : /\ row[i].want.derived
                    /\ row[i].dest[s] = p /\ p # None
                    /\ ~Recorded(i, p)
                    /\ files[p] = row[i].want.bytes[s]

\* A completed row is relabelled or requeued, a failed one labelled again: it
\* will be archived anew, from other outputs.  The local copies may be lost.
Reprocess(i, want) ==
    /\ Uses("reprocess")
    /\ Unlocked(i)
    /\ WriterFree
    /\ row[i].status \in {"completed", "failed"}
    /\ row' = [row EXCEPT ![i].status = "pending", ![i].want = want]
    /\ \/ UNCHANGED prints
       \/ /\ row[i].status = "completed"
          /\ prints' = [prints EXCEPT ![i] =
                [p \in Path |-> IF Adopted(i, p) THEN files[p] ELSE prints[i][p]]]
    /\ UNCHANGED <<files, job, del, disturbed>>

-----------------------------------------------------------------------------
(* capture_deletion_service::execute for one capture.                      *)

Forgotten(i) ==
    /\ row' = [row EXCEPT ![i].status = "gone", ![i].dest = Nowhere,
                          ![i].state = [s \in Slot |-> "none"]]
    /\ prints' = [prints EXCEPT ![i] = [p \in Path |-> None]]

\* The transaction begins with a write, so one deletion at a time gets here.
DeleteBegins(i) ==
    /\ Uses("delete")
    /\ Unlocked(i)
    /\ WriterFree
    /\ row[i].status \in {"completed", "failed"}
    /\ del' = [del EXCEPT ![i] = [pc |-> "file", slot |-> "main",
                                  failed |-> FALSE, state |-> row[i].state]]
    /\ UNCHANGED <<files, row, prints, job, disturbed>>

\* The user chose to keep the archived files.
DeleteRecordOnly(i) ==
    /\ Uses("delete")
    /\ Unlocked(i)
    /\ WriterFree
    /\ row[i].status \in {"completed", "failed"}
    /\ Forgotten(i)
    /\ UNCHANGED <<files, job, del, disturbed>>

\* What happened to the file of the current slot, and on to the next one.
FileDone(i, state, failed) ==
    del' = [del EXCEPT ![i] =
              [pc     |-> IF @.slot = "main" THEN "file" ELSE "finish",
               slot   |-> "avatar",
               failed |-> @.failed \/ failed,
               state  |-> [@.state EXCEPT ![del[i].slot] = state]]]

\* Wrong on purpose: the path alone is enough to delete.
Blind_Deletable(i, p) == TRUE

\* validate_destination_identity: targets without a fingerprint pass.
Deletable(i, p) == prints[i][p] \in {None, files[p]}

\* One destination: none; absent; unreadable or not ours; seen missing before
\* and now a new file, or a network target not confirmed; or free to go.
DeleteChecks(i) ==
    LET s == del[i].slot
        p == row[i].dest[s]
        state == del[i].state[s]
    IN  /\ del[i].pc = "file"
        /\ \/ p = None /\ FileDone(i, state, FALSE)
           \/ /\ p # None /\ files[p] = None
              /\ FileDone(i, "missing", FALSE)
           \/ p # None /\ FileDone(i, "unavailable", TRUE)
           \/ /\ p # None /\ files[p] # None
              /\ \/ FileDone(i, state, TRUE)
                 \/ /\ row[i].state[s] # "missing"
                    /\ Deletable(i, p)
                    /\ del' = [del EXCEPT ![i].pc = "remove"]
        /\ UNCHANGED <<files, row, prints, job, disturbed, budget>>

DeleteRemoves(i) ==
    LET p == row[i].dest[del[i].slot]
    IN  /\ del[i].pc = "remove"
        /\ \/ /\ files' = [files EXCEPT ![p] = None]
              /\ disturbed' = disturbed \cup {p}
              /\ FileDone(i, "missing", FALSE)
           \/ /\ FileDone(i, "unavailable", TRUE)
              /\ UNCHANGED <<files, disturbed>>
        /\ UNCHANGED <<row, prints, job, budget>>

\* A failure keeps the record, with the states found; success removes it.
DeleteFinishes(i) ==
    /\ del[i].pc = "finish"
    /\ IF del[i].failed
       THEN row' = [row EXCEPT ![i].state = del[i].state] /\ UNCHANGED prints
       ELSE Forgotten(i)
    /\ del' = [del EXCEPT ![i] = NoDeletion]
    /\ UNCHANGED <<files, job, disturbed, budget>>

-----------------------------------------------------------------------------
(* Others.                                                                 *)

\* Deleting a project cascades to its captures, whatever runs on them.
DeleteProject(i) ==
    /\ Uses("deleteProject")
    /\ WriterFree
    /\ row[i].status # "gone"
    /\ Forgotten(i)
    /\ UNCHANGED <<files, job, del, disturbed>>

\* A check has passed and the rename or removal it allows comes next.
InGap(p) ==
    \E i \in Item :
        \/ job[i].pc = "promote" /\ job[i].target = p
        \/ job[i].pc = "recycle" /\ job[i].was[job[i].slot] = p
        \/ del[i].pc = "remove" /\ row[i].dest[del[i].slot] = p

\* The user writes or removes a file of the archive.  "gap" admits it even
\* between a last check and the rename or removal it allows.
UserEdits(p, c) ==
    /\ Uses("edit")
    /\ files[p] # c
    /\ "gap" \in Ops \/ ~InGap(p)
    /\ files' = [files EXCEPT ![p] = c]
    /\ disturbed' = disturbed \cup {p}
    /\ UNCHANGED <<row, prints, job, del>>

\* The process dies: jobs vanish, an open transaction is rolled back.
Crash ==
    /\ Uses("crash")
    /\ job' = [i \in Item |-> NoJob]
    /\ del' = [i \in Item |-> NoDeletion]
    /\ UNCHANGED <<files, row, prints, disturbed>>

ArchiveStep(i) ==
    \/ ArchiveBegins(i) \/ Resolves(i) \/ Checks(i) \/ Rechecks(i)
    \/ Promotes(i) \/ Verifies(i) \/ Records(i) \/ Persists(i)
    \/ Retires(i) \/ Recycles(i) \/ ArchiveFails(i)

RowStep(i) == Retry(i) \/ \E want \in Outputs : Reprocess(i, want)

DeleteStep(i) ==
    \/ DeleteBegins(i) \/ DeleteRecordOnly(i) \/ DeleteChecks(i)
    \/ DeleteRemoves(i) \/ DeleteFinishes(i) \/ DeleteProject(i)

UserStep == \E p \in Path, c \in Edits : UserEdits(p, c)

Next ==
    \/ \E i \in Item : ArchiveStep(i) \/ RowStep(i) \/ DeleteStep(i)
    \/ UserStep
    \/ Crash

Spec == Init /\ [][Next]_vars

-----------------------------------------------------------------------------
(* Properties.                                                             *)

TypeOK ==
    /\ files \in [Path -> Bytes]
    /\ row \in [Item -> Row]
    /\ prints \in [Item -> [Path -> Bytes]]
    /\ job \in [Item -> Job]
    /\ del \in [Item -> Deletion]
    /\ disturbed \subseteq Path
    /\ budget \in 0 .. MaxOps

\* An archive operation of i may change what is at p: p is a target of its own
\* row, used by no other row, and holds the content recorded for it.  Deleting
\* the project may have removed that record while the operation was running.
ArchiveMay(i, p) ==
    /\ job[i].pc # "idle"
    /\ p \in Targets(job[i].was)
    /\ ~Shared(i, p)
    /\ prints[i][p] = files[p] \/ row[i].status = "gone"

\* The deletion of i may remove what is at p: p is a target of its row and
\* holds the content recorded for it; a target from before fingerprints must
\* not have been missing at an earlier attempt.
DeleteMay(i, p) ==
    /\ del[i].pc # "idle"
    /\ \E s \in Slot : row[i].dest[s] = p /\ row[i].state[s] # "missing"
    /\ prints[i][p] \in {files[p], None}

\* Whatever the user puts into the archive stays there: the program overwrites
\* or removes a file only if it holds what was recorded for the row it works
\* for, through copies that last for minutes, crashes, and other captures that
\* are archived, relabelled and deleted beside it.
OnlyRecordedReplaced ==
    [][\A p \in Path : files[p] # None /\ files'[p] # files[p] =>
          \/ UserStep
          \/ \E i \in Item : ArchiveMay(i, p) \/ DeleteMay(i, p)]_vars

\* A completed row has a fingerprint for every destination (unless it is from
\* before they existed), and the file still has that fingerprint unless the
\* user or a deletion touched it: archiving one capture never costs another
\* its archive.
CompletedIntact ==
    \A i \in Item, s \in Slot :
        LET p == row[i].dest[s]
        IN  row[i].status = "completed" /\ p # None =>
               /\ row[i].old \/ Recorded(i, p)
               /\ Recorded(i, p) /\ p \notin disturbed => files[p] = prints[i][p]

\* An archive operation removes an old file only when the row is committed to
\* the new one and every new output is on disk, so that at no moment does a
\* capture have neither.
NewBeforeOld ==
    [][\A p \in Path : files[p] # None /\ files'[p] = None =>
          \/ UserStep
          \/ \E i \in Item : DeleteMay(i, p)
          \/ \E i \in Item :
                /\ p \in Targets(job[i].was) \ Targets(job[i].placed)
                /\ row[i].status \in {"completed", "gone"}
                /\ \A s \in Slot :
                      LET new == job[i].placed[s]
                      IN  IF new = None THEN row[i].want.bytes[s] = None
                          ELSE new \in disturbed
                               \/ files[new] = row[i].want.bytes[s]]_vars

-----------------------------------------------------------------------------
(* The inductive invariant, for one archive at a time and no edit between a *)
(* last check and what it allows.                                          *)

Calm == ~Concurrent /\ "gap" \notin Ops

Copying == {"check", "recheck", "promote", "verify", "record"}
Placing == Copying \cup {"resolve", "persist"}
Retiring == {"retire", "recycle"}

\* One archive runs, one deletion runs, and never both on one capture.
Exclusive ==
    \A i, j \in Item :
        /\ job[i].pc # "idle" /\ job[j].pc # "idle" => i = j
        /\ del[i].pc # "idle" /\ del[j].pc # "idle" => i = j
        /\ job[i].pc = "idle" \/ del[i].pc = "idle"

\* The row of a running archive is still the one it began with.
JobHoldsRow(i) ==
    /\ job[i].pc = "idle" => job[i].placed = Nowhere
    /\ row[i].status = "gone" => row[i].dest = Nowhere
    /\ job[i].pc \in Placing => row[i].status \in {"pending", "gone"}
    /\ job[i].pc \in Placing /\ row[i].status = "pending" =>
          row[i].dest = job[i].was
    /\ job[i].pc \in Retiring => row[i].status \in {"completed", "gone"}
    /\ job[i].pc \in Retiring /\ row[i].status = "completed" =>
          row[i].dest = job[i].placed

\* i may change p: its own old target, nobody else's, and what was recorded.
Owns(i, p, c) ==
    /\ p \in Targets(job[i].was)
    /\ ~Shared(i, p)
    /\ c = prints[i][p] \/ row[i].status = "gone"

\* What a job knows of the target it is working on.
TargetKnown(i) ==
    LET p == job[i].target
    IN  /\ job[i].pc \in Copying => p \in Path /\ p[1] = job[i].slot
        /\ job[i].pc \in {"check", "recheck", "promote"} =>
              job[i].before = None \/ Owns(i, p, job[i].before)
        /\ job[i].pc = "promote" => files[p] \in {None, job[i].before}
        /\ job[i].pc = "recycle" =>
              LET old == job[i].was[job[i].slot]
              IN  /\ old \in Path /\ old # job[i].placed[job[i].slot]
                  /\ files[old] # None => Owns(i, old, files[old])

\* A file about to be deleted is there, and passed the check.
RemovalChecked(i) ==
    del[i].pc = "remove" =>
        LET p == row[i].dest[del[i].slot]
        IN  /\ p \in Path /\ files[p] # None
            /\ Deletable(i, p)
            /\ row[i].state[del[i].slot] # "missing"

\* Outputs recorded so far are on disk, and the last one just verified too.
OutputsPlaced(i) ==
    /\ job[i].pc = "record" =>
          job[i].target \in disturbed \/ files[job[i].target] = New(i)
    /\ \A s \in Slot :
          LET p == job[i].placed[s]
              c == row[i].want.bytes[s]
          IN  p # None =>
                 /\ p \in disturbed \/ files[p] = c
                 /\ prints[i][p] = c \/ row[i].status = "gone"
                 /\ c # None

\* Which outputs a job has placed, by its position.
PlacedInOrder(i) ==
    LET placed == job[i].placed
    IN  /\ job[i].pc \in Copying \cup {"resolve"} =>
              /\ placed["avatar"] = None
              /\ IF job[i].slot = "main" THEN placed["main"] = None
                 ELSE placed["main"] # None /\ row[i].want.bytes["avatar"] # None
        /\ job[i].pc \in Retiring \cup {"persist"} =>
              \A s \in Slot : placed[s] = None => row[i].want.bytes[s] = None

Guarded ==
    /\ TypeOK
    /\ Exclusive
    /\ \A i \in Item : /\ JobHoldsRow(i) /\ TargetKnown(i)
                        /\ RemovalChecked(i) /\ OutputsPlaced(i)
                        /\ PlacedInOrder(i)
    /\ CompletedIntact
=============================================================================

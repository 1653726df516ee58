----------------------- MODULE CaptureLifecycleProofs -----------------------
(* Proofs about CaptureLifecycle, for every value of its constants.         *)
EXTENDS CaptureLifecycle, TLAPS

-----------------------------------------------------------------------------
(* The row updates stay within Row.                                        *)

\* validate_source_identity writes one of the three source states.
LEMMA ValidatedType ==
    ASSUME NEW r \in Row, NEW b \in Bytes
    PROVE  Validated(r, b) \in Row
  BY DEF Validated, Row

\* Restarting the pipeline keeps a row well formed.
LEMMA RestartedType ==
    ASSUME NEW r \in Row, NEW s \in Status
    PROVE  Restarted(r, s) \in Row
  BY DEF Restarted, Row, Status

\* So does a label.
LEMMA LabelledType ==
    ASSUME NEW r \in Row, NEW class \in Class, NEW char \in Char \cup {NoChar}
    PROVE  Labelled(r, class, char) \in Row
  <1>1. [r EXCEPT !.class = class, !.char = char] \in Row
    BY DEF Row
  <1> QED
    BY <1>1, RestartedType DEF Labelled, Status

\* And the reprocessing of a completed row.
LEMMA ReprocessedType ==
    ASSUME NEW r \in Row, NEW class \in Class, NEW char \in Char \cup {NoChar}
    PROVE  Reprocessed(r, class, char) \in Row
  <1>1. Labelled(r, class, char) \in Row
    BY LabelledType
  <1>2. r.version + 1 \in Nat
    BY DEF Row
  <1> QED
    BY <1>1, <1>2 DEF Reprocessed, Row, Bytes, Source

\* The claim and the failures.
LEMMA FailureTypes ==
    ASSUME NEW r \in Row
    PROVE  Claimed(r) \in Row /\ MarkedFailed(r) \in Row /\ RecordedFailure(r) \in Row
  <1>1. Claimed(r) \in Row
    BY DEF Claimed, Row, Status
  <1>2. MarkedFailed(r) \in Row
    BY DEF MarkedFailed, Row, Status
  <1>3. RecordedFailure(r) \in Row
    <2>1. (IF r.stage = "none" THEN "archive" ELSE r.stage)
             \in {"none", "processing", "archive"}
      BY DEF Row
    <2> QED
      BY <2>1 DEF RecordedFailure, Row, Status
  <1> QED
    BY <1>1, <1>2, <1>3

\* A scheduled archive retry.
LEMMA RetryScheduledType ==
    ASSUME NEW r \in Row
    PROVE  RetryScheduled(r) \in Row
  <1> DEFINE again == r.attempts + 1 <= 3
             status == IF again THEN "archive_pending" ELSE "failed"
  <1>1. r.attempts + 1 \in Nat
    BY DEF Row
  <1>2. status \in Status
    BY DEF Status
  <1>3. (~again) \in BOOLEAN
    OBVIOUS
  <1>4. RetryScheduled(r) = [r EXCEPT !.status = status, !.stage = "archive",
                                      !.attempts = r.attempts + 1, !.due = ~again]
    BY DEF RetryScheduled
  <1> HIDE DEF again, status
  <1> QED
    BY <1>1, <1>2, <1>3, <1>4 DEF Row

\* A finished archive.
LEMMA ArchivedType ==
    ASSUME NEW r \in Row, NEW b \in Bytes
    PROVE  Archived(r, b) \in Row
  BY DEF Archived, Row, Status

\* New, absent and reset rows.
LEMMA NewRowType ==
    NewRow \in Row /\ NoRow \in Row /\ \A r \in Row : ResetRow(r) \in Row
  <1>1. NewRow \in Row
    BY DEF NewRow, Row, Status, Class, Bytes, Source
  <1>2. NoRow \in Row
    BY <1>1 DEF NoRow, Row, Status
  <1>3. ASSUME NEW r \in Row PROVE ResetRow(r) \in Row
    <2>1. r.version + 1 \in Nat
      BY DEF Row
    <2> QED
      BY <1>1, <2>1 DEF ResetRow, Row
  <1> QED
    BY <1>1, <1>2, <1>3

\* A retry.
LEMMA RetriedType ==
    ASSUME NEW r \in Row, NEW copy
    PROVE  Retried(r, copy) \in Row
  <1>1. \A s \in Status : Restarted(r, s) \in Row
    BY RestartedType
  <1>2. {"queued", "archive_pending", "awaiting_label"} \subseteq Status
    BY DEF Status
  <1>3. [Restarted(r, "queued") EXCEPT !.annotated = "none", !.drawnFor = NoChar] \in Row
    <2>1. Restarted(r, "queued") \in Row
      BY <1>1, <1>2
    <2> QED
      BY <2>1 DEF Row, Bytes, Source
  <1> QED
    BY <1>1, <1>2, <1>3 DEF Retried

\* What a preview keeps of a row.
LEMMA FrozenType ==
    ASSUME NEW r \in Row
    PROVE  Frozen(r) \in [class : Class, char : Char \cup {NoChar},
                          status : Status, dest : Bytes, annotated : Bytes,
                          owner : BOOLEAN, version : Nat]
  BY DEF Frozen, Row

\* A finished recognition.
LEMMA ProcessedType ==
    ASSUME NEW r \in Row, NEW b \in Bytes, NEW char \in Char \cup {NoChar},
           NEW face \in BOOLEAN
    PROVE  Processed(r, b, char, face) \in Row
  <1>1. Restarted(r, "archive_pending") \in Row
    BY RestartedType DEF Status
  <1> QED
    BY <1>1 DEF Processed, Row

-----------------------------------------------------------------------------
(* Type correctness.                                                       *)

\* Writing one well-formed row keeps the table well formed.
LEMMA WriteType ==
    ASSUME TypeOK, NEW i \in Item, NEW r \in Row, Write(i, r)
    PROVE  row' \in [Item -> Row]
  BY DEF TypeOK, Write

\* The worker stays within its record type wherever it goes.
LEMMA WorkerType ==
    ASSUME TypeOK
    PROVE  /\ \A pc \in Pc : Goto(pc) => worker' \in [pc : Pc, item : Item \cup {0}, read : Bytes]
           /\ \A pc \in Pc, i \in Item :
                 Take(pc, i) => worker' \in [pc : Pc, item : Item \cup {0}, read : Bytes]
           /\ CycleEnds => worker' \in [pc : Pc, item : Item \cup {0}, read : Bytes]
  BY DEF TypeOK, Goto, Take, CycleEnds, Idle, Pc, Bytes, Source

\* A label names a class and a character.
LEMMA LabelType ==
    ASSUME NEW label \in Labels
    PROVE  label[1] \in Class /\ label[2] \in Char \cup {NoChar}
  BY DEF Labels, Class

\* A purge leaves a row or none.
LEMMA PurgedType ==
    ASSUME TypeOK, NEW i \in Item, NEW s
    PROVE  PurgedIf(i, s) \in Row
  BY NewRowType DEF PurgedIf, TypeOK

\* Entering the archive keeps the row well formed.
LEMMA ArchiveStartedType ==
    ASSUME TypeOK, NEW i \in Item
    PROVE  ArchiveStarted(i) \in Row
  <1> DEFINE r == Validated(row[i], source[i])
  <1>1. row[i] \in Row /\ r \in Row
    BY ValidatedType DEF TypeOK, Bytes
  <1>2. [r EXCEPT !.status = "archive_pending", !.stage = "none", !.due = TRUE] \in Row
    BY <1>1 DEF Row, Status
  <1> QED
    BY <1>1, <1>2 DEF ArchiveStarted

\* The archive steps shared by the worker and the command keep their part.
LEMMA ArchiveTypes ==
    ASSUME TypeOK, NEW i \in Item, NEW who \in Holder
    PROVE  /\ ArchiveBegins(i, who) =>
                 row' \in [Item -> Row] /\ lock' \in [Item -> Holder]
           /\ ArchiveCopies(i, who) => copied' \in [Item -> Bytes]
           /\ ArchivePersists(i, who) =>
                 /\ row' \in [Item -> Row] /\ lock' \in [Item -> Holder]
                 /\ copied' \in [Item -> Bytes]
           /\ ArchiveFails(i, who) =>
                 /\ row' \in [Item -> Row] /\ lock' \in [Item -> Holder]
                 /\ copied' \in [Item -> Bytes]
  <1>1. row[i] \in Row /\ copied[i] \in Bytes /\ source[i] \in Bytes
    BY DEF TypeOK, Bytes
  <1>2. ArchiveBegins(i, who) => row' \in [Item -> Row] /\ lock' \in [Item -> Holder]
    BY ArchiveStartedType, WriteType DEF ArchiveBegins, TypeOK, Holder
  <1>3. ArchiveCopies(i, who) => copied' \in [Item -> Bytes]
    <2>1. row[i].annotated \in Bytes
      BY <1>1 DEF Row
    <2> QED
      BY <1>1, <2>1 DEF ArchiveCopies, TypeOK
  <1>4. ArchivePersists(i, who) =>
           /\ row' \in [Item -> Row] /\ lock' \in [Item -> Holder]
           /\ copied' \in [Item -> Bytes]
    <2>1. Archived(row[i], copied[i]) \in Row
      BY <1>1, ArchivedType
    <2> QED
      BY <2>1, WriteType DEF ArchivePersists, TypeOK, Holder, Bytes, Source
  <1>5. ArchiveFails(i, who) =>
           /\ row' \in [Item -> Row] /\ lock' \in [Item -> Holder]
           /\ copied' \in [Item -> Bytes]
    <2>1. RecordedFailure(row[i]) \in Row
      BY <1>1, FailureTypes
    <2> QED
      BY <2>1, WriteType DEF ArchiveFails, TypeOK, Holder, Bytes, Source
  <1> QED
    BY <1>2, <1>3, <1>4, <1>5

\* Every step keeps the variables in their ranges.
LEMMA TypeNext ==
    ASSUME TypeOK, [Next]_vars
    PROVE  TypeOK'
  <1> DEFINE WorkerRange == [pc : Pc, item : Item \cup {0}, read : Bytes]
  <1> USE DEF TypeOK
  <1>0. /\ \A i \in Item : row[i] \in Row
        /\ \A i \in Item : source[i] \in Bytes
        /\ NoRow \in Row
    BY NewRowType DEF Bytes
  <1>idle. CycleEnds => worker' \in WorkerRange
    BY WorkerType
  <1>goto. \A pc \in Pc : Goto(pc) => worker' \in WorkerRange
    BY WorkerType
  <1>take. \A pc \in Pc, i \in Item : Take(pc, i) => worker' \in WorkerRange
    BY WorkerType
  <1>stays. \A i \in Item, r \in Row : Write(i, r) => row' \in [Item -> Row]
    BY WriteType
  <1>uses. \A op : Uses(op) => budget' \in Nat
    BY DEF Uses
  <1> HIDE DEF TypeOK
  <1>1. CASE StartCycle
    BY <1>1, <1>goto DEF StartCycle, TypeOK, Pc, Row, Status
  <1>2. CASE SweepEnds
    BY <1>2, <1>goto DEF SweepEnds, TypeOK, Pc
  <1>3. CASE PickArchive
    <2>1. Oldest(ArchiveDue) \subseteq Item
      BY DEF Oldest, ArchiveDue
    <2> QED
      BY <1>3, <2>1, <1>goto, <1>take DEF PickArchive, TypeOK, Pc
  <1>4. CASE QueueEmpty
    <2>1. Oldest(Unlabelled) \subseteq Item
      BY DEF Oldest, Unlabelled
    <2> QED
      BY <1>4, <2>1, <1>idle, <1>take DEF QueueEmpty, TypeOK, Pc
  <1>5. ASSUME NEW i \in Item, SweepItem(i) PROVE TypeOK'
    <2>1. PurgedIf(i, sweep[i]) \in Row
      BY PurgedType
    <2> QED
      BY <1>5, <2>1 DEF SweepItem, TypeOK, Status
  <1>6. ASSUME NEW i \in Item, ClaimNextQueued(i) PROVE TypeOK'
    <2>1. Claimed(row[i]) \in Row
      BY <1>0, FailureTypes
    <2> QED
      BY <1>6, <2>1, <1>stays, <1>take DEF ClaimNextQueued, TypeOK, Pc
  <1>7. ASSUME NEW i \in Item, CheckSource(i) PROVE TypeOK'
    <2>1. PurgedIf(i, "processing") \in Row
      BY PurgedType
    <2> QED
      BY <1>7, <2>1, <1>stays, <1>goto, <1>idle DEF CheckSource, TypeOK, Pc
  <1>8. ASSUME NEW i \in Item, ValidateClaimed(i) PROVE TypeOK'
    <2>1. \A b \in Bytes : Validated(row[i], b) \in Row
      BY <1>0, ValidatedType
    <2>2. MarkedFailed(Validated(row[i], source[i])) \in Row
      BY <1>0, <2>1, FailureTypes
    <2>3. /\ Validated(row[i], "original") \in Row
          /\ Restarted(Validated(row[i], "original"), "archive_pending") \in Row
      BY <2>1, RestartedType DEF Bytes, Source, Status
    <2> QED
      BY <1>8, <2>2, <2>3, <1>stays, <1>goto, <1>idle
      DEF ValidateClaimed, TypeOK, Pc
  <1>9. ASSUME NEW i \in Item, EngineReads(i) PROVE TypeOK'
    BY <1>9, <1>0 DEF EngineReads, TypeOK, Pc
  <1>10. ASSUME NEW i \in Item, CompleteProcessing(i) PROVE TypeOK'
    <2>1. Validated(row[i], "original") \in Row
      BY <1>0, ValidatedType DEF Bytes, Source
    <2>2. PICK drawn \in BOOLEAN, face \in BOOLEAN :
             Write(i, Processed(Validated(row[i], "original"),
                                IF drawn THEN worker.read ELSE "none",
                                IF drawn THEN row[i].char ELSE NoChar, face))
      BY <1>10 DEF CompleteProcessing
    <2>3. /\ (IF drawn THEN worker.read ELSE "none") \in Bytes
          /\ (IF drawn THEN row[i].char ELSE NoChar) \in Char \cup {NoChar}
      BY <1>0 DEF TypeOK, Row, Bytes, Source
    <2>4. Processed(Validated(row[i], "original"),
                    IF drawn THEN worker.read ELSE "none",
                    IF drawn THEN row[i].char ELSE NoChar, face) \in Row
      BY <2>1, <2>3, ProcessedType
    <2> QED
      BY <1>10, <2>2, <2>4, <1>stays, <1>goto DEF CompleteProcessing, TypeOK, Pc
  <1>11. ASSUME NEW i \in Item, CompleteWithoutEngine(i) PROVE TypeOK'
    <2>1. Processed(row[i], "none", NoChar, row[i].face) \in Row
      <3>1. row[i].face \in BOOLEAN
        BY <1>0 DEF Row
      <3> QED
        BY <1>0, <3>1, ProcessedType DEF Bytes, Source
    <2> QED
      BY <1>11, <2>1, <1>stays, <1>goto DEF CompleteWithoutEngine, TypeOK, Pc
  <1>12. ASSUME NEW i \in Item, ProcessingFails(i) PROVE TypeOK'
    <2>1. (IF worker.pc = "finish" THEN Validated(row[i], source[i]) ELSE row[i]) \in Row
      BY <1>0, ValidatedType
    <2>2. MarkedFailed(IF worker.pc = "finish" THEN Validated(row[i], source[i])
                                               ELSE row[i]) \in Row
      BY <2>1, FailureTypes
    <2> QED
      BY <1>12, <2>2, <1>stays, <1>idle DEF ProcessingFails, TypeOK
  <1>13. ASSUME NEW i \in Item, WorkerArchiveBegins(i) PROVE TypeOK'
    <2>1. row' \in [Item -> Row] /\ lock' \in [Item -> Holder]
      BY <1>13, ArchiveTypes DEF WorkerArchiveBegins, Holder
    <2>2. Verdict(i) \in {"go", "done", "gone", "refused"}
      BY DEF Verdict
    <2>3. CycleEnds \/ Goto("copy") \/ Goto("purge") \/ Goto("schedule")
      BY <1>13, <2>2 DEF WorkerArchiveBegins
    <2> QED
      BY <1>13, <2>1, <2>3, <1>goto, <1>idle DEF WorkerArchiveBegins, TypeOK, Pc
  <1>14. ASSUME NEW i \in Item, WorkerCopies(i) PROVE TypeOK'
    BY <1>14, ArchiveTypes DEF WorkerCopies, Holder, TypeOK
  <1>15. ASSUME NEW i \in Item, WorkerPersists(i) PROVE TypeOK'
    BY <1>15, ArchiveTypes, <1>idle DEF WorkerPersists, Holder, TypeOK
  <1>16. ASSUME NEW i \in Item, WorkerArchiveFails(i) PROVE TypeOK'
    BY <1>16, ArchiveTypes, <1>goto DEF WorkerArchiveFails, Holder, Pc, TypeOK
  <1>17. ASSUME NEW i \in Item, ScheduleArchiveRetry(i) PROVE TypeOK'
    <2>1. RetryScheduled(row[i]) \in Row
      BY <1>0, RetryScheduledType
    <2> QED
      BY <1>17, <2>1, <1>stays, <1>idle DEF ScheduleArchiveRetry, TypeOK
  <1>18. ASSUME NEW i \in Item, PurgeUnarchived(i) PROVE TypeOK'
    BY <1>18, PurgedType, <1>stays, <1>idle DEF PurgeUnarchived, TypeOK
  <1>19. ASSUME NEW i \in Item, PrelabelBegins(i) PROVE TypeOK'
    <2>1. \A b \in Bytes : Validated(row[i], b) \in Row
      BY <1>0, ValidatedType
    <2>2. [Validated(row[i], "foreign") EXCEPT !.due = FALSE] \in Row
      <3>1. Validated(row[i], "foreign") \in Row
        BY <2>1 DEF Bytes, Source
      <3> QED
        BY <3>1 DEF Row
    <2>3. Validated(row[i], "none") \in Row /\ Validated(row[i], "original") \in Row
      BY <2>1 DEF Bytes, Source
    <2> QED
      BY <1>19, <2>2, <2>3, <1>0, <1>stays, <1>goto, <1>idle
      DEF PrelabelBegins, TypeOK, Pc, Holder
  <1>20. ASSUME NEW i \in Item, PrelabelEnds(i) PROVE TypeOK'
    <2>1. \A r \in PrelabelAnswer(i) : r \in Row
      <3>1. [row[i] EXCEPT !.face = TRUE] \in Row /\ [row[i] EXCEPT !.due = FALSE] \in Row
        BY <1>0 DEF Row
      <3>2. row[i].attempts + 1 \in Nat
        BY <1>0 DEF Row
      <3>3. [[row[i] EXCEPT !.due = FALSE] EXCEPT !.attempts = row[i].attempts + 1] \in Row
        BY <3>1, <3>2 DEF Row
      <3>4. /\ Validated(row[i], "original") \in Row
            /\ Validated(row[i], source[i]) \in Row
        BY <1>0, ValidatedType DEF Bytes, Source
      <3>5. [Validated(row[i], "original") EXCEPT !.face = TRUE] \in Row
        BY <3>4 DEF Row
      <3> QED
        BY <3>1, <3>3, <3>4, <3>5, PurgedType DEF PrelabelAnswer
    <2> QED
      BY <1>20, <2>1, <1>stays, <1>idle DEF PrelabelEnds, TypeOK, Holder
  <1>21. ASSUME NEW i \in Item, RetryFallsDue(i) PROVE TypeOK'
    <2>1. [row[i] EXCEPT !.due = TRUE] \in Row
      BY <1>0 DEF Row
    <2> QED
      BY <1>21, <2>1, <1>stays DEF RetryFallsDue, TypeOK
  <1>22. ASSUME NEW i \in Item, RegisterCapture(i) PROVE TypeOK'
    BY <1>22, NewRowType, <1>stays, <1>uses DEF RegisterCapture, TypeOK
  <1>23. ASSUME NEW i \in Item, NEW label \in Labels, LabelCapture(i, label) PROVE TypeOK'
    <2>1. Labelled(row[i], label[1], label[2]) \in Row
      BY <1>0, LabelType, LabelledType
    <2> QED
      BY <1>23, <2>1, <1>stays, <1>uses DEF LabelCapture, TypeOK
  <1>24. ASSUME NEW i \in Item, NEW label \in Labels, RelabelCapture(i, label) PROVE TypeOK'
    <2>1. Labelled(row[i], label[1], label[2]) \in Row
      BY <1>0, LabelType, LabelledType
    <2>2. Validated(row[i], source[i]) \in Row
      BY <1>0, ValidatedType
    <2>3. Reprocessed(Validated(row[i], source[i]), label[1], label[2]) \in Row
      BY <2>2, LabelType, ReprocessedType
    <2> QED
      BY <1>24, <2>1, <2>2, <2>3, <1>stays, <1>uses DEF RelabelCapture, TypeOK
  <1>25. ASSUME NEW i \in Item, RequeueCompleted(i) PROVE TypeOK'
    <2> DEFINE r == Validated(row[i], source[i])
    <2>1. r \in Row
      BY <1>0, ValidatedType
    <2>2. r.class \in Class /\ r.char \in Char \cup {NoChar}
      BY <2>1 DEF Row
    <2>3. Reprocessed(r, r.class, r.char) \in Row
      BY <2>1, <2>2, ReprocessedType
    <2> QED
      BY <1>25, <2>1, <2>3, <1>stays, <1>uses DEF RequeueCompleted, TypeOK
  <1>26. ASSUME NEW i \in Item, RetryCapture(i) PROVE TypeOK'
    <2>1. Validated(row[i], source[i]) \in Row
      BY <1>0, ValidatedType
    <2>2. \A copy \in {"kept", "lost"} : Retried(Validated(row[i], source[i]), copy) \in Row
      BY <2>1, RetriedType
    <2> QED
      BY <1>26, <2>1, <2>2, <1>stays, <1>uses DEF RetryCapture, TypeOK
  <1>27. ASSUME NEW i \in Item, IpcArchiveBegins(i) PROVE TypeOK'
    BY <1>27, ArchiveTypes, <1>uses DEF IpcArchiveBegins, Holder, TypeOK
  <1>28. ASSUME NEW i \in Item, IpcArchiveContinues(i) PROVE TypeOK'
    BY <1>28, ArchiveTypes DEF IpcArchiveContinues, Holder, TypeOK
  <1>29. ASSUME NEW i \in Item, DeleteCapture(i) PROVE TypeOK'
    BY <1>29, <1>0, <1>stays, <1>uses DEF DeleteCapture, TypeOK
  <1>30. CASE DeleteProject
    BY <1>30, <1>0, <1>uses DEF DeleteProject, TypeOK
  <1>31. ASSUME NEW i \in Item, ResetPreview(i) PROVE TypeOK'
    <2>1. Frozen(row[i]) \in [class : Class, char : Char \cup {NoChar},
                             status : Status, dest : Bytes, annotated : Bytes,
                             owner : BOOLEAN, version : Nat]
      BY <1>0, FrozenType
    <2> QED
      BY <1>31, <2>1, <1>uses DEF ResetPreview, TypeOK
  <1>32. ASSUME NEW i \in Item, ResetExecute(i) PROVE TypeOK'
    BY <1>32, <1>uses DEF ResetExecute, Holder, TypeOK
  <1>33. ASSUME NEW i \in Item, ResetClaims(i) PROVE TypeOK'
    <2>1. [row[i] EXCEPT !.owner = TRUE] \in Row
      BY <1>0 DEF Row
    <2> QED
      BY <1>33, <2>1, <1>stays DEF ResetClaims, TypeOK, Holder
  <1>34. ASSUME NEW i \in Item, ResetCommits(i) PROVE TypeOK'
    <2>1. ResetRow(row[i]) \in Row
      BY <1>0, NewRowType
    <2>2. NoPreview \in [class : Class, char : Char \cup {NoChar},
                         status : Status, dest : Bytes, annotated : Bytes,
                         owner : BOOLEAN, version : Nat]
      BY <1>0, FrozenType DEF NoPreview
    <2> QED
      BY <1>34, <2>1, <2>2, <1>stays DEF ResetCommits, TypeOK, Holder
  <1>35. ASSUME NEW i \in Item, ResetFails(i) PROVE TypeOK'
    <2>1. [row[i] EXCEPT !.owner = FALSE] \in Row
      BY <1>0 DEF Row
    <2> QED
      BY <1>35, <2>1, <1>stays DEF ResetFails, TypeOK, Holder
  <1>36. ASSUME NEW i \in Item, ResetDiscards(i) PROVE TypeOK'
    <2>1. NoPreview \in [class : Class, char : Char \cup {NoChar},
                         status : Status, dest : Bytes, annotated : Bytes,
                         owner : BOOLEAN, version : Nat]
      BY <1>0, FrozenType DEF NoPreview
    <2> QED
      BY <1>36, <2>1 DEF ResetDiscards, TypeOK
  <1>37. ASSUME NEW i \in Item, NEW op, NEW from, NEW to \in Source,
                SourceChanges(i, op, from, to) PROVE TypeOK'
    <2>1. worker' \in [pc : Pc, item : Item \cup {0}, read : Bytes]
      BY <1>0, <1>37 DEF SourceChanges, TypeOK, Bytes
    <2> QED
      BY <1>37, <2>1, <1>uses DEF SourceChanges, TypeOK
  <1>38. CASE Restart
    <2>1. ASSUME NEW i \in Item
          PROVE  [(IF row[i].status = "processing" THEN MarkedFailed(row[i])
                                                   ELSE row[i])
                  EXCEPT !.owner = FALSE] \in Row
      <3>1. (IF row[i].status = "processing" THEN MarkedFailed(row[i]) ELSE row[i]) \in Row
        BY <1>0, FailureTypes
      <3> QED
        BY <3>1 DEF Row
    <2>2. row' \in [Item -> Row]
      BY <1>38, <2>1 DEF Restart
    <2>3. NoPreview \in [class : Class, char : Char \cup {NoChar},
                         status : Status, dest : Bytes, annotated : Bytes,
                         owner : BOOLEAN, version : Nat]
      BY <1>0, FrozenType DEF NoPreview
    <2> QED
      BY <1>38, <2>2, <2>3, <1>idle, <1>uses
      DEF Restart, CycleEnds, TypeOK, Holder, Bytes, Source, Status
  <1>39. CASE UNCHANGED vars
    BY <1>39 DEF vars, TypeOK
  <1>40. CASE WorkerStep
    BY <1>40, <1>1, <1>2, <1>3, <1>4, <1>5, <1>6, <1>7, <1>8, <1>9, <1>10, <1>11, <1>12, <1>13, <1>14, <1>15, <1>16, <1>17, <1>18, <1>19, <1>20 DEF WorkerStep
  <1>41. ASSUME NEW i \in Item, Command(i) \/ LockedStep(i) \/ Fault(i) PROVE TypeOK'
    BY <1>41, <1>22, <1>23, <1>24, <1>25, <1>26, <1>27, <1>28, <1>29, <1>30, <1>31, <1>32, <1>33, <1>34, <1>35, <1>36, <1>37, <1>38
    DEF Command, LockedStep, Fault, Source
  <1> QED
    BY <1>21, <1>30, <1>38, <1>39, <1>40, <1>41 DEF Next

\* The first start.
LEMMA InitType == Init => TypeOK
  BY NewRowType, FrozenType, MaxOpsAssumption
  DEF Init, TypeOK, NoPreview, Idle, Bytes, Source, Holder, Pc, Status

\* The table, the locks, the worker and the previews keep their types, however
\* many captures, characters and commands there are.
THEOREM TypeCorrect == Spec => []TypeOK
  BY InitType, TypeNext, PTL DEF Spec


-----------------------------------------------------------------------------
(* What the row updates keep.                                              *)

\* s is r but for status, retry columns, annotated copy and feature.
SameLabel(r, s) ==
    /\ s.class = r.class /\ s.char = r.char /\ s.dest = r.dest
    /\ s.owner = r.owner /\ s.version = r.version

\* The updates of the pipeline never touch label, archive, owner or version.
LEMMA PipelineFields ==
    ASSUME NEW r \in Row
    PROVE  /\ \A b : /\ SameLabel(r, Validated(r, b))
                     /\ Validated(r, b).status = r.status
                     /\ Validated(r, b).annotated = r.annotated
           /\ \A s : /\ SameLabel(r, Restarted(r, s))
                     /\ Restarted(r, s).status = s
                     /\ Restarted(r, s).annotated = r.annotated
           /\ SameLabel(r, Claimed(r)) /\ Claimed(r).status = "processing"
           /\ Claimed(r).annotated = r.annotated
           /\ SameLabel(r, MarkedFailed(r)) /\ MarkedFailed(r).status = "failed"
           /\ MarkedFailed(r).annotated = r.annotated
           /\ SameLabel(r, RecordedFailure(r)) /\ RecordedFailure(r).status = "failed"
           /\ RecordedFailure(r).annotated = r.annotated
           /\ SameLabel(r, RetryScheduled(r))
           /\ RetryScheduled(r).status \in {"archive_pending", "failed"}
           /\ RetryScheduled(r).annotated = r.annotated
  <1>1. \A b : /\ SameLabel(r, Validated(r, b))
               /\ Validated(r, b).status = r.status
               /\ Validated(r, b).annotated = r.annotated
    BY DEF Validated, SameLabel, Row
  <1>2. \A s : /\ SameLabel(r, Restarted(r, s))
               /\ Restarted(r, s).status = s
               /\ Restarted(r, s).annotated = r.annotated
    BY DEF Restarted, SameLabel, Row
  <1>3. /\ SameLabel(r, Claimed(r)) /\ Claimed(r).status = "processing"
        /\ Claimed(r).annotated = r.annotated
    BY DEF Claimed, SameLabel, Row
  <1>4. /\ SameLabel(r, MarkedFailed(r)) /\ MarkedFailed(r).status = "failed"
        /\ MarkedFailed(r).annotated = r.annotated
    BY DEF MarkedFailed, SameLabel, Row
  <1>5. /\ SameLabel(r, RecordedFailure(r)) /\ RecordedFailure(r).status = "failed"
        /\ RecordedFailure(r).annotated = r.annotated
    BY DEF RecordedFailure, SameLabel, Row
  <1>6. /\ SameLabel(r, RetryScheduled(r))
        /\ RetryScheduled(r).status \in {"archive_pending", "failed"}
        /\ RetryScheduled(r).annotated = r.annotated
    BY DEF RetryScheduled, SameLabel, Row
  <1> QED
    BY <1>1, <1>2, <1>3, <1>4, <1>5, <1>6

\* A finished recognition adds its copy.
LEMMA ProcessedFields ==
    ASSUME NEW r \in Row, NEW b \in Bytes, NEW char, NEW face
    PROVE  /\ SameLabel(r, Processed(r, b, char, face))
           /\ Processed(r, b, char, face).status = "archive_pending"
           /\ Processed(r, b, char, face).annotated = b
  <1>1. Restarted(r, "archive_pending") \in Row
    BY RestartedType DEF Status
  <1>2. /\ SameLabel(r, Restarted(r, "archive_pending"))
        /\ Restarted(r, "archive_pending").status = "archive_pending"
    BY PipelineFields
  <1> QED
    BY <1>1, <1>2 DEF Processed, SameLabel, Row

\* A finished archive adds its bytes.
LEMMA ArchivedFields ==
    ASSUME NEW r \in Row, NEW b \in Bytes
    PROVE  /\ Archived(r, b).status = "completed"
           /\ Archived(r, b).annotated = r.annotated
           /\ Archived(r, b).class = r.class /\ Archived(r, b).char = r.char
           /\ Archived(r, b).owner = r.owner /\ Archived(r, b).version = r.version
  BY DEF Archived, Row

\* What a user's command writes.
LEMMA CommandFields ==
    ASSUME NEW r \in Row, NEW class \in Class, NEW char \in Char \cup {NoChar}
    PROVE  /\ Labelled(r, class, char).status = "queued"
           /\ Labelled(r, class, char).annotated = r.annotated
           /\ Labelled(r, class, char).owner = r.owner
           /\ Labelled(r, class, char).version = r.version
           /\ Labelled(r, class, char).class = class
           /\ Labelled(r, class, char).char = char
           /\ Reprocessed(r, class, char).status = "queued"
           /\ Reprocessed(r, class, char).annotated = "none"
           /\ Reprocessed(r, class, char).owner = r.owner
           /\ Reprocessed(r, class, char).class = class
           /\ Reprocessed(r, class, char).char = char
           /\ \A copy :
                 /\ Retried(r, copy).status
                      \in {"queued", "archive_pending", "awaiting_label"}
                 /\ Retried(r, copy).annotated \in {"none", r.annotated}
                 /\ SameLabel(r, Retried(r, copy))
  <1> DEFINE q == [r EXCEPT !.class = class, !.char = char]
  <1>1. q \in Row
    BY DEF Row
  <1>2. /\ q.class = class /\ q.char = char /\ q.annotated = r.annotated
        /\ q.owner = r.owner /\ q.version = r.version
    BY DEF Row
  <1>3. Labelled(r, class, char) = Restarted(q, "queued")
    BY DEF Labelled
  <1> HIDE DEF q
  <1>4. /\ Labelled(r, class, char).status = "queued"
        /\ Labelled(r, class, char).annotated = r.annotated
        /\ Labelled(r, class, char).owner = r.owner
        /\ Labelled(r, class, char).version = r.version
        /\ Labelled(r, class, char).class = class
        /\ Labelled(r, class, char).char = char
    BY <1>1, <1>2, <1>3, PipelineFields DEF SameLabel
  <1>5. Labelled(r, class, char) \in Row
    BY LabelledType
  <1>6. /\ Reprocessed(r, class, char).status = "queued"
        /\ Reprocessed(r, class, char).annotated = "none"
        /\ Reprocessed(r, class, char).owner = r.owner
        /\ Reprocessed(r, class, char).class = class
        /\ Reprocessed(r, class, char).char = char
    BY <1>4, <1>5 DEF Reprocessed, Row
  <1>7. Restarted(r, "queued") \in Row
    BY RestartedType DEF Status
  <1> DEFINE plain == [Restarted(r, "queued") EXCEPT !.annotated = "none",
                                                    !.drawnFor = NoChar]
  <1>8. plain.status = "queued" /\ plain.annotated = "none" /\ SameLabel(r, plain)
    BY <1>7, PipelineFields DEF SameLabel, Row
  <1>9. ASSUME NEW copy PROVE
        Retried(r, copy) \in {Restarted(r, "queued"), Restarted(r, "archive_pending"),
                        Restarted(r, "awaiting_label"), plain}
    BY DEF Retried
  <1> HIDE DEF plain
  <1>10. ASSUME NEW copy
         PROVE  /\ Retried(r, copy).status
                     \in {"queued", "archive_pending", "awaiting_label"}
                /\ Retried(r, copy).annotated \in {"none", r.annotated}
                /\ SameLabel(r, Retried(r, copy))
    BY <1>8, <1>9, PipelineFields
  <1> QED
    BY <1>4, <1>6, <1>10

\* Rows that are new, absent or reset.
LEMMA FreshFields ==
    /\ NewRow.status = "awaiting_label" /\ ~NewRow.owner /\ NewRow.annotated = "none"
    /\ NoRow.status = "absent" /\ ~NoRow.owner /\ NoRow.annotated = "none"
    /\ \A r \in Row : /\ ResetRow(r).status = "awaiting_label" /\ ~ResetRow(r).owner
                      /\ ResetRow(r).annotated = "none"
  BY DEF NewRow, NoRow, ResetRow

-----------------------------------------------------------------------------
(* Consistent is inductive.                                                *)

Busy(i) == Working(i) \/ At("copy", i) \/ At("extract", i)

\* A step that changes neither the row, the lock nor the preview of i, nor makes
\* the worker take it up or put it down, keeps it consistent.
LEMMA Untouched ==
    ASSUME NEW i \in Item, ItemConsistent(i),
           row'[i] = row[i], lock'[i] = lock[i], preview'[i] = preview[i],
           worker' = worker \/ (~Busy(i) /\ ~Busy(i)')
    PROVE  ItemConsistent(i)'
  <1>1. CASE worker' = worker
    BY <1>1 DEF ItemConsistent, Working, Archiving, At, Present
  <1>2. CASE ~Busy(i) /\ ~Busy(i)'
    BY <1>2 DEF ItemConsistent, Busy, Working, Archiving, At, Present
  <1> QED
    BY <1>1, <1>2

\* What the engine read stays what it was, or the next read replaces it.
LEMMA ReadKept ==
    ASSUME Consistent, source' = source,
           worker' = worker \/ worker'.read = "none"
           \/ (worker'.read = worker.read /\ worker'.item = worker.item)
    PROVE  ReadConsistent'
  BY DEF Consistent, ReadConsistent

\* The worker's moves.
LEMMA Moves ==
    ASSUME TypeOK
    PROVE  /\ \A pc : Goto(pc) => /\ worker'.pc = pc /\ worker'.item = worker.item
                                 /\ worker'.read = worker.read
           /\ \A pc, i : Take(pc, i) => /\ worker'.pc = pc /\ worker'.item = i
                                       /\ worker'.read = "none"
           /\ CycleEnds => /\ worker'.pc = "idle" /\ worker'.item = 0
                           /\ worker'.read = "none"
  BY DEF TypeOK, Goto, Take, CycleEnds, Idle

\* Entering the archive keeps the label, and goes on only into archive_pending.
ArchiveStartKeeps(i) ==
    /\ SameLabel(row[i], ArchiveStarted(i))
    /\ ArchiveStarted(i).annotated = row[i].annotated
    /\ ArchiveStarted(i).status \in {row[i].status, "archive_pending"}
    /\ Verdict(i) = "go" =>
          ~row[i].owner /\ ArchiveStarted(i).status = "archive_pending"
          /\ row[i].status \in {"archive_pending", "failed"}
    /\ Verdict(i) # "go" => ArchiveStarted(i).status = row[i].status

LEMMA ArchiveStartFields ==
    ASSUME NEW i \in Item, row[i] \in Row, source[i] \in Bytes
    PROVE  ArchiveStartKeeps(i)
  <1> DEFINE r == Validated(row[i], source[i])
             q == [r EXCEPT !.status = "archive_pending", !.stage = "none", !.due = TRUE]
             refused == ~Present(i) \/ row[i].owner \/ row[i].status = "completed"
  <1>1. r \in Row /\ SameLabel(row[i], r) /\ r.status = row[i].status
        /\ r.annotated = row[i].annotated
    BY ValidatedType, PipelineFields
  <1>2. /\ SameLabel(row[i], q) /\ q.annotated = row[i].annotated
        /\ q.status = "archive_pending"
    BY <1>1 DEF SameLabel, Row
  <1>3. Verdict(i) = "go" => ~refused /\ row[i].status \in {"archive_pending", "failed"}
    BY DEF Verdict
  <1>4. ArchiveStarted(i) = IF refused THEN row[i]
                            ELSE IF Verdict(i) = "go" /\ row[i].status = "failed"
                                 THEN q ELSE r
    BY DEF ArchiveStarted
  <1> HIDE DEF r, q
  <1> QED
    BY <1>1, <1>2, <1>3, <1>4 DEF ArchiveStartKeeps, SameLabel

\* Writing a row.
LEMMA Writes ==
    ASSUME TypeOK, NEW i \in Item, NEW r, Write(i, r)
    PROVE  row'[i] = r /\ \A j \in Item : j # i => row'[j] = row[j]
  BY DEF TypeOK, Write

\* A step of the worker on its item i: the rest of the table is untouched.
LEMMA WorkerTouchesItem ==
    ASSUME Consistent, NEW i \in Item, worker.item = i,
           \A j \in Item : j # i => row'[j] = row[j],
           \A j \in Item : j # i => lock'[j] = lock[j],
           preview' = preview, source' = source,
           \/ worker' = worker
           \/ worker'.item = i /\ worker'.read = worker.read
           \/ worker'.item = 0 /\ worker'.read = "none",
           ItemConsistent(i)'
    PROVE  ReadConsistent' /\ \A j \in Item : ItemConsistent(j)'
  <1>1. ReadConsistent'
    BY ReadKept
  <1>2. ASSUME NEW j \in Item, j # i PROVE ItemConsistent(j)'
    <2>1. ~Busy(j) /\ ~Busy(j)'
      BY <1>2, ItemAssumption DEF Busy, Working, At
    <2>2. ItemConsistent(j)
      BY DEF Consistent
    <2> QED
      BY <1>2, <2>1, <2>2, Untouched
  <1> QED
    BY <1>1, <1>2

\* The worker's own steps.
LEMMA WorkerConsistent ==
    ASSUME Consistent, TypeOK', WorkerStep
    PROVE  ReadConsistent' /\ \A j \in Item : ItemConsistent(j)'
  <1> DEFINE Goal == ReadConsistent' /\ \A j \in Item : ItemConsistent(j)'
  <1>t. TypeOK
    BY DEF Consistent
  <1>r. \A i \in Item : row[i] \in Row /\ source[i] \in Bytes /\ ItemConsistent(i)
    BY <1>t DEF TypeOK, Bytes, Consistent
  <1>z. 0 \notin Item
    BY ItemAssumption
  <1>1. CASE StartCycle
    <2>1. /\ worker.pc = "idle" /\ worker'.pc \in {"cycle", "sweep"}
          /\ worker'.read = worker.read /\ worker'.item = worker.item
      BY <1>1, <1>t, Moves DEF StartCycle
    <2>2. \A j \in Item : ~Busy(j) /\ ~Busy(j)'
      BY <2>1 DEF Busy, Working, At
    <2> QED
      BY <1>1, <1>r, <2>1, <2>2, Untouched, ReadKept DEF StartCycle
  <1>2. CASE SweepEnds
    <2>1. /\ worker.pc = "sweep" /\ worker'.pc = "cycle"
          /\ worker'.read = worker.read /\ worker'.item = worker.item
      BY <1>2, <1>t, Moves DEF SweepEnds
    <2>2. \A j \in Item : ~Busy(j) /\ ~Busy(j)'
      BY <2>1 DEF Busy, Working, At
    <2> QED
      BY <1>2, <1>r, <2>1, <2>2, Untouched, ReadKept DEF SweepEnds
  <1>3. CASE PickArchive
    <2>1. /\ worker.pc = "cycle" /\ worker'.pc \in {"queue", "archive"}
          /\ worker'.read = "none" \/ (worker'.read = worker.read /\ worker'.item = worker.item)
      BY <1>3, <1>t, Moves DEF PickArchive
    <2>2. \A j \in Item : ~Busy(j) /\ ~Busy(j)'
      BY <2>1 DEF Busy, Working, At
    <2> QED
      BY <1>3, <1>r, <2>1, <2>2, Untouched, ReadKept DEF PickArchive
  <1>4. CASE QueueEmpty
    <2>1. /\ worker.pc = "queue" /\ worker'.pc \in {"idle", "prelabel"}
          /\ worker'.read = "none"
      BY <1>4, <1>t, Moves DEF QueueEmpty
    <2>2. \A j \in Item : ~Busy(j) /\ ~Busy(j)'
      BY <2>1 DEF Busy, Working, At
    <2> QED
      BY <1>4, <1>r, <2>1, <2>2, Untouched, ReadKept DEF QueueEmpty
  <1>5. ASSUME NEW i \in Item, SweepItem(i) PROVE Goal
    <2>1. row'[i] \in {row[i], NoRow} /\ \A j \in Item : j # i => row'[j] = row[j]
      BY <1>5, <1>t DEF SweepItem, PurgedIf, TypeOK
    <2>2. row'[i] = NoRow /\ row[i] # NoRow => ~row[i].owner
      BY <1>5, <1>t, <2>1 DEF SweepItem, PurgedIf, Purgeable, TypeOK
    <2>3. worker.pc = "sweep"
      BY <1>5 DEF SweepItem
    <2>4. ItemConsistent(i)'
      BY <1>5, <1>r, <2>1, <2>3, FreshFields
      DEF SweepItem, ItemConsistent, Working, Archiving, At, Present
    <2>5. \A j \in Item : j # i => ItemConsistent(j)'
      BY <1>5, <1>r, <2>1, Untouched DEF SweepItem
    <2> QED
      BY <1>5, <2>4, <2>5, ReadKept DEF SweepItem
  <1>6. ASSUME NEW i \in Item, ClaimNextQueued(i) PROVE Goal
    <2>1. row'[i] = Claimed(row[i]) /\ \A j \in Item : j # i => row'[j] = row[j]
      BY <1>6, <1>t, Writes DEF ClaimNextQueued
    <2>2. /\ worker.pc = "queue" /\ worker'.pc = "claimed" /\ worker'.item = i
          /\ worker'.read = "none"
      BY <1>6, <1>t, Moves DEF ClaimNextQueued
    <2>3. row[i].status = "queued" /\ ~row[i].owner
      BY <1>6 DEF ClaimNextQueued, Oldest, Queued
    <2>4. ItemConsistent(i)'
      BY <1>6, <1>r, <2>1, <2>2, <2>3, PipelineFields
      DEF ClaimNextQueued, ItemConsistent, SameLabel, Working, Archiving, At, Present
    <2>5. ASSUME NEW j \in Item, j # i PROVE ItemConsistent(j)'
      <3>1. ~Busy(j) /\ ~Busy(j)'
        BY <2>2, <2>5 DEF Busy, Working, At
      <3> QED
        BY <1>6, <1>r, <2>1, <2>5, <3>1, Untouched DEF ClaimNextQueued
    <2> QED
      BY <1>6, <2>2, <2>4, <2>5, ReadKept DEF ClaimNextQueued
  <1>7. ASSUME NEW i \in Item, CheckSource(i) PROVE Goal
    <2>1. row'[i] \in {row[i], NoRow} /\ \A j \in Item : j # i => row'[j] = row[j]
      BY <1>7, <1>t, Writes DEF CheckSource, PurgedIf
    <2>2. /\ worker.pc = "claimed" /\ worker.item = i
          /\ \/ worker'.item = i /\ worker'.read = worker.read /\ worker'.pc = "validate"
             \/ worker'.item = 0 /\ worker'.read = "none" /\ worker'.pc = "idle"
      BY <1>7, <1>t, Moves DEF CheckSource, At
    <2>3. ItemConsistent(i)'
      BY <1>7, <1>r, <2>1, <2>2, FreshFields
      DEF CheckSource, ItemConsistent, Working, Archiving, At, Present
    <2> QED
      BY <1>7, <2>1, <2>2, <2>3, WorkerTouchesItem DEF CheckSource
  <1>8. ASSUME NEW i \in Item, ValidateClaimed(i) PROVE Goal
    <2>1. /\ worker.pc = "validate" /\ worker.item = i
          /\ \/ worker'.item = i /\ worker'.read = worker.read
                /\ worker'.pc \in {"engine", "archive"}
             \/ worker'.item = 0 /\ worker'.read = "none" /\ worker'.pc = "idle"
      BY <1>8, <1>t, Moves DEF ValidateClaimed, At
    <2>2. \A b \in Bytes : Validated(row[i], b) \in Row
      BY <1>r, ValidatedType
    <2>3. /\ SameLabel(row[i], row'[i]) /\ row'[i].annotated = row[i].annotated
          /\ \/ row'[i] = row[i] /\ worker'.pc = "idle"
             \/ /\ Present(i)
                /\ \/ row'[i].status = "failed" /\ worker'.pc = "idle"
                   \/ row'[i].status = row[i].status /\ worker'.pc = "engine"
                   \/ row'[i].status = "archive_pending" /\ worker'.pc = "archive"
      <3>1. CASE ~Present(i) /\ CycleEnds /\ UNCHANGED row
        BY <3>1, <1>t, Moves DEF SameLabel
      <3>2. CASE Present(i) /\ Write(i, MarkedFailed(Validated(row[i], source[i]))) /\ CycleEnds
        BY <3>2, <1>t, <1>r, <2>2, Moves, Writes, PipelineFields DEF SameLabel
      <3>3. CASE Present(i) /\ Write(i, Validated(row[i], "original")) /\ Goto("engine")
        BY <3>3, <1>t, <1>r, <2>2, Moves, Writes, PipelineFields DEF SameLabel
      <3>4. CASE /\ Present(i)
                 /\ Write(i, Restarted(Validated(row[i], "original"), "archive_pending"))
                 /\ Goto("archive")
        <4>1. Validated(row[i], "original") \in Row
          BY <2>2 DEF Bytes, Source
        <4> QED
          BY <3>4, <4>1, <1>t, <1>r, Moves, Writes, PipelineFields DEF SameLabel
      <3> QED
        BY <1>8, <3>1, <3>2, <3>3, <3>4 DEF ValidateClaimed
    <2>4. \A j \in Item : j # i => row'[j] = row[j]
      BY <1>8, <1>t, Writes DEF ValidateClaimed
    <2>5. ItemConsistent(i)'
      BY <1>8, <1>r, <1>z, <2>1, <2>3
      DEF ValidateClaimed, ItemConsistent, SameLabel, Working, Archiving, At, Present
    <2> QED
      BY <1>8, <2>1, <2>4, <2>5, WorkerTouchesItem DEF ValidateClaimed
  <1>9. ASSUME NEW i \in Item, EngineReads(i) PROVE Goal
    <2>1. /\ worker.pc = "engine" /\ worker.item = i /\ worker'.pc = "finish"
          /\ worker'.item = i /\ worker'.read = source[i]
      BY <1>9, <1>t DEF EngineReads, At, TypeOK
    <2>2. ReadConsistent'
      BY <1>9, <2>1 DEF EngineReads, ReadConsistent
    <2>3. ItemConsistent(i)'
      BY <1>9, <1>r, <2>1
      DEF EngineReads, ItemConsistent, Working, Archiving, At, Present
    <2>4. ASSUME NEW j \in Item, j # i PROVE ItemConsistent(j)'
      <3>1. ~Busy(j) /\ ~Busy(j)'
        BY <2>1, <2>4 DEF Busy, Working, At
      <3> QED
        BY <1>9, <1>r, <3>1, Untouched DEF EngineReads
    <2> QED
      BY <2>2, <2>3, <2>4
  <1>10. ASSUME NEW i \in Item, CompleteProcessing(i) PROVE Goal
    <2>1. PICK drawn \in BOOLEAN, face \in BOOLEAN :
             Write(i, Processed(Validated(row[i], "original"),
                                IF drawn THEN worker.read ELSE "none",
                                IF drawn THEN row[i].char ELSE NoChar, face))
      BY <1>10 DEF CompleteProcessing
    <2>2. (IF drawn THEN worker.read ELSE "none") \in Bytes \ {"foreign"}
      <3>1. worker.item = i /\ source[i] = "original"
        BY <1>10 DEF CompleteProcessing, At
      <3>2. worker.read # "foreign"
        BY <3>1 DEF Consistent, ReadConsistent
      <3> QED
        BY <1>t, <3>2 DEF TypeOK, Bytes, Source
    <2>3. Validated(row[i], "original") \in Row
      BY <1>r, ValidatedType DEF Bytes, Source
    <2>4. /\ row'[i].status = "archive_pending" /\ row'[i].annotated # "foreign"
          /\ SameLabel(row[i], row'[i])
          /\ \A j \in Item : j # i => row'[j] = row[j]
      <3> DEFINE v == Validated(row[i], "original")
                 bytes == IF drawn THEN worker.read ELSE "none"
                 char == IF drawn THEN row[i].char ELSE NoChar
      <3>1. SameLabel(row[i], v)
        BY <1>r, PipelineFields
      <3>2. v \in Row /\ bytes \in Bytes
        BY <2>2, <2>3
      <3>3. bytes # "foreign" /\ Write(i, Processed(v, bytes, char, face))
        BY <2>1, <2>2
      <3> HIDE DEF v, bytes, char
      <3>4. /\ SameLabel(v, Processed(v, bytes, char, face))
            /\ Processed(v, bytes, char, face).status = "archive_pending"
            /\ Processed(v, bytes, char, face).annotated = bytes
        BY <3>2, ProcessedFields
      <3>5. /\ row'[i] = Processed(v, bytes, char, face)
            /\ \A j \in Item : j # i => row'[j] = row[j]
        BY <1>t, <3>3, Writes
      <3> QED
        BY <3>1, <3>3, <3>4, <3>5 DEF SameLabel
    <2>5. /\ worker.pc = "finish" /\ worker.item = i /\ worker'.pc = "archive"
          /\ worker'.item = i /\ worker'.read = worker.read
      BY <1>10, <1>t, Moves DEF CompleteProcessing, At
    <2>6. ItemConsistent(i)'
      BY <1>10, <1>r, <2>4, <2>5
      DEF CompleteProcessing, ItemConsistent, SameLabel, Working, Archiving, At, Present
    <2> QED
      BY <1>10, <2>4, <2>5, <2>6, WorkerTouchesItem DEF CompleteProcessing
  <1>11. ASSUME NEW i \in Item, CompleteWithoutEngine(i) PROVE Goal
    <2>1. /\ row'[i].status = "archive_pending" /\ row'[i].annotated # "foreign"
          /\ SameLabel(row[i], row'[i])
          /\ \A j \in Item : j # i => row'[j] = row[j]
      <3>1. "none" \in Bytes /\ row[i].face \in BOOLEAN
        BY <1>r DEF Bytes, Source, Row
      <3> QED
        BY <1>11, <1>t, <1>r, <3>1, Writes, ProcessedFields DEF CompleteWithoutEngine
    <2>2. /\ worker.pc = "engine" /\ worker.item = i /\ worker'.pc = "archive"
          /\ worker'.item = i /\ worker'.read = worker.read
      BY <1>11, <1>t, Moves DEF CompleteWithoutEngine, At
    <2>3. ItemConsistent(i)'
      BY <1>11, <1>r, <2>1, <2>2
      DEF CompleteWithoutEngine, ItemConsistent, SameLabel, Working, Archiving, At, Present
    <2> QED
      BY <1>11, <2>1, <2>2, <2>3, WorkerTouchesItem DEF CompleteWithoutEngine
  <1>12. ASSUME NEW i \in Item, ProcessingFails(i) PROVE Goal
    <2>1. /\ worker.pc \in {"engine", "finish"} /\ worker.item = i
          /\ worker'.pc = "idle" /\ worker'.item = 0 /\ worker'.read = "none"
      BY <1>12, <1>t, Moves DEF ProcessingFails, At
    <2> DEFINE r == IF worker.pc = "finish" THEN Validated(row[i], source[i]) ELSE row[i]
    <2>2. r \in Row /\ SameLabel(row[i], r) /\ r.annotated = row[i].annotated
      BY <1>r, ValidatedType, PipelineFields DEF SameLabel
    <2>3. \/ row' = row
          \/ Present(i) /\ Write(i, MarkedFailed(r))
      BY <1>12 DEF ProcessingFails
    <2> HIDE DEF r
    <2>4. \/ row' = row
          \/ /\ Present(i) /\ row'[i].status = "failed" /\ SameLabel(row[i], row'[i])
             /\ row'[i].annotated = row[i].annotated
      BY <1>t, <2>2, <2>3, Writes, PipelineFields DEF SameLabel
    <2>5. \A j \in Item : j # i => row'[j] = row[j]
      BY <1>t, <2>3, Writes
    <2>6. ItemConsistent(i)'
      BY <1>12, <1>r, <1>z, <2>1, <2>4
      DEF ProcessingFails, ItemConsistent, SameLabel, Working, Archiving, At, Present
    <2> QED
      BY <1>12, <2>1, <2>5, <2>6, WorkerTouchesItem DEF ProcessingFails
  <1>13. ASSUME NEW i \in Item, WorkerArchiveBegins(i) PROVE Goal
    <2>1. /\ lock[i] = "free" /\ row'[i] = ArchiveStarted(i)
          /\ \A j \in Item : j # i => row'[j] = row[j]
          /\ lock'[i] = (IF Verdict(i) = "go" THEN "worker" ELSE "free")
          /\ \A j \in Item : j # i => lock'[j] = lock[j]
      BY <1>13, <1>t, Writes DEF WorkerArchiveBegins, ArchiveBegins, TypeOK
    <2>2. /\ worker.pc = "archive" /\ worker.item = i
          /\ \/ /\ Verdict(i) = "go" /\ worker'.pc = "copy"
                /\ worker'.item = i /\ worker'.read = worker.read
             \/ /\ Verdict(i) # "go" /\ worker'.pc \in {"purge", "schedule"}
                /\ worker'.item = i /\ worker'.read = worker.read
             \/ /\ Verdict(i) # "go" /\ worker'.pc = "idle"
                /\ worker'.item = 0 /\ worker'.read = "none"
      <3>1. Verdict(i) \in {"go", "done", "gone", "refused"}
        BY DEF Verdict
      <3> QED
        BY <1>13, <1>t, <3>1, Moves DEF WorkerArchiveBegins, At
    <2>3. ArchiveStartKeeps(i)
      BY <1>r, ArchiveStartFields
    <2>4. ItemConsistent(i)'
      BY <1>13, <1>r, <1>z, <2>1, <2>2, <2>3
      DEF WorkerArchiveBegins, ArchiveStartKeeps, ItemConsistent, SameLabel,
          Working, Archiving, At, Present
    <2> QED
      BY <1>13, <2>1, <2>2, <2>4, WorkerTouchesItem DEF WorkerArchiveBegins
  <1>14. ASSUME NEW i \in Item, WorkerCopies(i) PROVE Goal
    <2>1. ItemConsistent(i)'
      BY <1>14, <1>r, Untouched DEF WorkerCopies
    <2> QED
      BY <1>14, <2>1, WorkerTouchesItem DEF WorkerCopies, At
  <1>15. ASSUME NEW i \in Item, WorkerPersists(i) PROVE Goal
    <2>1. /\ row'[i] = Archived(row[i], copied[i]) /\ lock'[i] = "free"
          /\ \A j \in Item : j # i => row'[j] = row[j]
          /\ \A j \in Item : j # i => lock'[j] = lock[j]
      BY <1>15, <1>t, Writes DEF WorkerPersists, ArchivePersists, TypeOK
    <2>2. /\ worker.pc = "copy" /\ worker.item = i /\ worker'.pc = "idle"
          /\ worker'.item = 0 /\ worker'.read = "none" /\ lock[i] = "worker"
      BY <1>15, <1>t, Moves DEF WorkerPersists, ArchivePersists, At
    <2>3. copied[i] \in Bytes
      BY <1>t DEF TypeOK
    <2>4. /\ row'[i].status = "completed" /\ row'[i].annotated = row[i].annotated
          /\ row'[i].owner = row[i].owner
      BY <1>r, <2>1, <2>3, ArchivedFields
    <2>5. ItemConsistent(i)'
      BY <1>15, <1>r, <1>z, <2>1, <2>2, <2>4
      DEF WorkerPersists, ItemConsistent, Working, Archiving, At, Present
    <2> QED
      BY <1>15, <2>1, <2>2, <2>5, WorkerTouchesItem DEF WorkerPersists
  <1>16. ASSUME NEW i \in Item, WorkerArchiveFails(i) PROVE Goal
    <2>1. /\ row'[i] = RecordedFailure(row[i]) \/ row'[i] = row[i]
          /\ lock'[i] = "free"
          /\ \A j \in Item : j # i => row'[j] = row[j]
          /\ \A j \in Item : j # i => lock'[j] = lock[j]
      BY <1>16, <1>t, Writes DEF WorkerArchiveFails, ArchiveFails, TypeOK
    <2>2. /\ worker.pc = "copy" /\ worker.item = i /\ worker'.pc = "schedule"
          /\ worker'.item = i /\ worker'.read = worker.read /\ lock[i] = "worker"
      BY <1>16, <1>t, Moves DEF WorkerArchiveFails, ArchiveFails, At
    <2>3. ItemConsistent(i)'
      BY <1>16, <1>r, <2>1, <2>2, PipelineFields
      DEF WorkerArchiveFails, ItemConsistent, SameLabel, Working, Archiving, At, Present
    <2> QED
      BY <1>16, <2>1, <2>2, <2>3, WorkerTouchesItem DEF WorkerArchiveFails
  <1>17. ASSUME NEW i \in Item, ScheduleArchiveRetry(i) PROVE Goal
    <2>1. /\ \/ row'[i] = row[i]
             \/ row[i].status = "failed" /\ row'[i] = RetryScheduled(row[i])
          /\ \A j \in Item : j # i => row'[j] = row[j]
      BY <1>17, <1>t, Writes DEF ScheduleArchiveRetry
    <2>2. /\ worker.pc = "schedule" /\ worker.item = i /\ worker'.pc = "idle"
          /\ worker'.item = 0 /\ worker'.read = "none"
      BY <1>17, <1>t, Moves DEF ScheduleArchiveRetry, At
    <2>3. ItemConsistent(i)'
      BY <1>17, <1>r, <1>z, <2>1, <2>2, PipelineFields
      DEF ScheduleArchiveRetry, ItemConsistent, SameLabel, Working, Archiving, At, Present
    <2> QED
      BY <1>17, <2>1, <2>2, <2>3, WorkerTouchesItem DEF ScheduleArchiveRetry
  <1>18. ASSUME NEW i \in Item, PurgeUnarchived(i) PROVE Goal
    <2>1. /\ row'[i] = row[i] \/ (row'[i] = NoRow /\ ~row[i].owner)
          /\ \A j \in Item : j # i => row'[j] = row[j]
      BY <1>18, <1>t, Writes DEF PurgeUnarchived, PurgedIf, Purgeable
    <2>2. /\ worker.pc = "purge" /\ worker.item = i /\ worker'.pc = "idle"
          /\ worker'.item = 0 /\ worker'.read = "none"
      BY <1>18, <1>t, Moves DEF PurgeUnarchived, At
    <2>3. ItemConsistent(i)'
      BY <1>18, <1>r, <1>z, <2>1, <2>2, FreshFields
      DEF PurgeUnarchived, ItemConsistent, Working, Archiving, At, Present
    <2> QED
      BY <1>18, <2>1, <2>2, <2>3, WorkerTouchesItem DEF PurgeUnarchived
  <1>19. ASSUME NEW i \in Item, PrelabelBegins(i) PROVE Goal
    <2>1. /\ row'[i] = row[i] \/ row'[i] = NoRow
             \/ (/\ SameLabel(row[i], row'[i]) /\ row'[i].status = row[i].status
                 /\ row'[i].annotated = row[i].annotated)
          /\ \A j \in Item : j # i => row'[j] = row[j]
      <3>1. \A b \in Bytes : Validated(row[i], b) \in Row
        BY <1>r, ValidatedType
      <3> DEFINE q == [Validated(row[i], "foreign") EXCEPT !.due = FALSE]
      <3>2. SameLabel(row[i], q) /\ q.status = row[i].status /\ q.annotated = row[i].annotated
        BY <1>r, <3>1, PipelineFields DEF SameLabel, Row, Bytes, Source
      <3>3. \/ row' = row
            \/ Write(i, Validated(row[i], "none")) \/ Write(i, NoRow)
            \/ Write(i, q) \/ Write(i, Validated(row[i], "original"))
        BY <1>19 DEF PrelabelBegins
      <3> HIDE DEF q
      <3> QED
        BY <1>t, <1>r, <3>2, <3>3, Writes, PipelineFields
    <2>2. /\ worker.pc = "prelabel" /\ worker.item = i /\ lock[i] = "free"
          /\ \A j \in Item : j # i => lock'[j] = lock[j]
          /\ \/ /\ worker'.pc = "idle" /\ worker'.item = 0 /\ worker'.read = "none"
                /\ lock' = lock
             \/ /\ worker'.pc = "extract" /\ worker'.item = i
                /\ worker'.read = worker.read /\ lock'[i] = "worker"
      BY <1>19, <1>t, Moves DEF PrelabelBegins, At, TypeOK
    <2>3. ItemConsistent(i)'
      BY <1>19, <1>r, <1>z, <2>1, <2>2, FreshFields
      DEF PrelabelBegins, ItemConsistent, SameLabel, Working, Archiving, At, Present
    <2> QED
      BY <1>19, <2>1, <2>2, <2>3, WorkerTouchesItem DEF PrelabelBegins
  <1>20. ASSUME NEW i \in Item, PrelabelEnds(i) PROVE Goal
    <2>1. /\ worker.pc = "extract" /\ worker.item = i /\ worker'.pc = "idle"
          /\ worker'.item = 0 /\ worker'.read = "none" /\ lock'[i] = "free"
          /\ \A j \in Item : j # i => lock'[j] = lock[j]
      BY <1>20, <1>t, Moves DEF PrelabelEnds, At, TypeOK
    <2>2. /\ row'[i] = row[i] \/ row'[i] = NoRow
             \/ (/\ SameLabel(row[i], row'[i]) /\ row'[i].status = row[i].status
                 /\ row'[i].annotated = row[i].annotated)
          /\ \A j \in Item : j # i => row'[j] = row[j]
      <3>1. ASSUME NEW r \in PrelabelAnswer(i)
            PROVE  r = row[i] \/ r = NoRow
                   \/ (/\ SameLabel(row[i], r) /\ r.status = row[i].status
                       /\ r.annotated = row[i].annotated)
        <4> DEFINE Good(q) == /\ SameLabel(row[i], q) /\ q.status = row[i].status
                              /\ q.annotated = row[i].annotated
                   v == Validated(row[i], "original")
                   foreign == Validated(row[i], source[i])
                   stored == [v EXCEPT !.face = TRUE]
                   retried == [row[i] EXCEPT !.due = FALSE]
                   given == [row[i] EXCEPT !.face = TRUE]
                   counted == [retried EXCEPT !.attempts = row[i].attempts + 1]
        <4>1. v \in Row
          BY <1>r, ValidatedType DEF Bytes, Source
        <4>2. Good(v) /\ Good(foreign)
          BY <1>r, PipelineFields DEF Bytes, Source
        <4>3. Good(stored)
          <5> HIDE DEF v
          <5> QED
            BY <4>1, <4>2 DEF SameLabel, Row
        <4>4. Good(retried) /\ Good(given) /\ Good(counted)
          BY <1>r DEF SameLabel, Row
        <4>5. r \in {stored, foreign, retried, given, counted} \/ r = NoRow \/ r = row[i]
          BY <3>1 DEF PrelabelAnswer, PurgedIf
        <4> HIDE DEF stored, foreign, retried, given, counted
        <4> QED
          BY <4>2, <4>3, <4>4, <4>5
      <3> QED
        BY <1>20, <1>t, <3>1, Writes DEF PrelabelEnds
    <2>3. ItemConsistent(i)'
      BY <1>20, <1>r, <1>z, <2>1, <2>2, FreshFields
      DEF PrelabelEnds, ItemConsistent, SameLabel, Working, Archiving, At, Present
    <2> QED
      BY <1>20, <2>1, <2>2, <2>3, WorkerTouchesItem DEF PrelabelEnds
  <1> QED
    BY <1>1, <1>2, <1>3, <1>4, <1>5, <1>6, <1>7, <1>8, <1>9, <1>10, <1>11, <1>12,
       <1>13, <1>14, <1>15, <1>16, <1>17, <1>18, <1>19, <1>20 DEF WorkerStep

\* A command, a reset step or a timer on i leaves the worker and its source
\* alone, and every other row with its lock and preview.
LEMMA CommandTouchesItem ==
    ASSUME Consistent, NEW i \in Item,
           worker' = worker, source' = source,
           \A j \in Item : j # i =>
              row'[j] = row[j] /\ lock'[j] = lock[j] /\ preview'[j] = preview[j],
           ItemConsistent(i)'
    PROVE  ReadConsistent' /\ \A j \in Item : ItemConsistent(j)'
  <1>1. ReadConsistent'
    BY ReadKept
  <1>2. ASSUME NEW j \in Item, j # i PROVE ItemConsistent(j)'
    <2>1. ItemConsistent(j)
      BY DEF Consistent
    <2> QED
      BY <1>2, <2>1, Untouched
  <1> QED
    BY <1>1, <1>2

\* The commands and timers that rewrite one row under a free lock.
LEMMA RowCommandsConsistent ==
    ASSUME Consistent, TypeOK', NEW i \in Item,
           \/ RegisterCapture(i) \/ RequeueCompleted(i) \/ RetryCapture(i)
           \/ \E label \in Labels : LabelCapture(i, label) \/ RelabelCapture(i, label)
           \/ DeleteCapture(i) \/ RetryFallsDue(i)
    PROVE  ReadConsistent' /\ \A j \in Item : ItemConsistent(j)'
  <1> DEFINE Goal == ReadConsistent' /\ \A j \in Item : ItemConsistent(j)'
             Same == UNCHANGED <<source, lock, preview, worker>>
  <1>t. TypeOK
    BY DEF Consistent
  <1>r. row[i] \in Row /\ source[i] \in Bytes /\ ItemConsistent(i)
    BY <1>t DEF TypeOK, Bytes, Consistent
  <1>v. /\ Validated(row[i], source[i]) \in Row
        /\ SameLabel(row[i], Validated(row[i], source[i]))
        /\ Validated(row[i], source[i]).status = row[i].status
        /\ Validated(row[i], source[i]).annotated = row[i].annotated
    BY <1>r, ValidatedType, PipelineFields
  <1>1. CASE RegisterCapture(i)
    <2>1. /\ row'[i] = NewRow /\ \A j \in Item : j # i => row'[j] = row[j]
          /\ Same /\ worker.item # i /\ lock[i] = "free"
      BY <1>1, <1>t, Writes DEF RegisterCapture
    <2>2. ItemConsistent(i)'
      BY <1>r, <2>1, FreshFields
      DEF ItemConsistent, Working, Archiving, At, Present
    <2> QED
      BY <2>1, <2>2, CommandTouchesItem
  \* The next four leave a queued, failed, completed or awaiting row in such a
  \* status again, under a free lock.
  <1>2. ASSUME NEW r, Write(i, r), Same, lock[i] = "free", ~row[i].owner, ~r.owner,
               row[i].status \in {"awaiting_label", "queued", "completed", "failed"},
               r.status # "absent", r.annotated \in {"none", row[i].annotated}
        PROVE  Goal
    <2>1. row'[i] = r /\ \A j \in Item : j # i => row'[j] = row[j]
      BY <1>2, <1>t, Writes
    <2>2. ItemConsistent(i)'
      BY <1>2, <1>r, <2>1 DEF ItemConsistent, Working, Archiving, At, Present
    <2> QED
      BY <1>2, <2>1, <2>2, CommandTouchesItem
  <1>3. ASSUME NEW label \in Labels, LabelCapture(i, label) PROVE Goal
    <2>1. /\ Labelled(row[i], label[1], label[2]).status = "queued"
          /\ Labelled(row[i], label[1], label[2]).annotated = row[i].annotated
          /\ Labelled(row[i], label[1], label[2]).owner = row[i].owner
      BY <1>r, LabelType, CommandFields
    <2> QED
      BY <1>3, <1>2, <2>1 DEF LabelCapture, Free
  <1>4. ASSUME NEW label \in Labels, RelabelCapture(i, label) PROVE Goal
    <2> DEFINE v == Validated(row[i], source[i])
    <2>1. /\ Labelled(row[i], label[1], label[2]).status = "queued"
          /\ Labelled(row[i], label[1], label[2]).annotated = row[i].annotated
          /\ Labelled(row[i], label[1], label[2]).owner = row[i].owner
      BY <1>r, LabelType, CommandFields
    <2>2. /\ Reprocessed(v, label[1], label[2]).status = "queued"
          /\ Reprocessed(v, label[1], label[2]).annotated = "none"
          /\ Reprocessed(v, label[1], label[2]).owner = row[i].owner
      BY <1>v, LabelType, CommandFields DEF SameLabel
    <2>3. v.status = row[i].status /\ v.annotated = row[i].annotated
          /\ v.owner = row[i].owner
      BY <1>v DEF SameLabel
    <2>4. /\ Same /\ lock[i] = "free" /\ ~row[i].owner
          /\ \/ /\ Write(i, Labelled(row[i], label[1], label[2]))
                /\ row[i].status \in {"awaiting_label", "queued", "failed"}
             \/ /\ Write(i, Reprocessed(v, label[1], label[2])) \/ Write(i, v)
                /\ row[i].status = "completed"
      BY <1>4 DEF RelabelCapture, Free
    <2> HIDE DEF v
    <2> QED
      BY <1>2, <2>1, <2>2, <2>3, <2>4
  <1>5. CASE RequeueCompleted(i)
    <2> DEFINE v == Validated(row[i], source[i])
    <2>1. v \in Row /\ v.status = row[i].status /\ v.annotated = row[i].annotated
          /\ v.owner = row[i].owner
      BY <1>v DEF SameLabel
    <2>2. /\ Same /\ lock[i] = "free" /\ ~row[i].owner /\ row[i].status = "completed"
          /\ Write(i, Reprocessed(v, v.class, v.char)) \/ Write(i, v)
      BY <1>5 DEF RequeueCompleted, Free
    <2> HIDE DEF v
    <2>3. v.class \in Class /\ v.char \in Char \cup {NoChar}
      BY <2>1 DEF Row
    <2>4. /\ Reprocessed(v, v.class, v.char).status = "queued"
          /\ Reprocessed(v, v.class, v.char).annotated = "none"
          /\ Reprocessed(v, v.class, v.char).owner = row[i].owner
      BY <2>1, <2>3, CommandFields
    <2> QED
      BY <1>2, <2>1, <2>2, <2>4
  <1>6. CASE RetryCapture(i)
    <2> DEFINE v == Validated(row[i], source[i])
    <2>1. v \in Row /\ v.status = row[i].status /\ v.annotated = row[i].annotated
          /\ v.owner = row[i].owner
      BY <1>v DEF SameLabel
    <2>2. /\ Same /\ lock[i] = "free" /\ ~row[i].owner
          /\ row[i].status \in {"failed", "completed"}
          /\ (\E copy \in {"kept", "lost"} : Write(i, Retried(v, copy))) \/ Write(i, v)
      BY <1>6 DEF RetryCapture, Free, Degraded
    <2> HIDE DEF v
    <2>3. ASSUME NEW copy \in {"kept", "lost"}
          PROVE  /\ Retried(v, copy).status
                      \in {"queued", "archive_pending", "awaiting_label"}
                 /\ Retried(v, copy).annotated \in {"none", row[i].annotated}
                 /\ Retried(v, copy).owner = row[i].owner
      <3>1. "person" \in Class /\ NoChar \in Char \cup {NoChar}
        BY DEF Class
      <3> QED
        BY <2>1, <3>1, CommandFields DEF SameLabel
    <2> QED
      BY <1>2, <2>1, <2>2, <2>3
  <1>7. CASE DeleteCapture(i)
    <2>1. /\ row'[i] = NoRow /\ \A j \in Item : j # i => row'[j] = row[j]
          /\ Same /\ lock[i] = "free"
      BY <1>7, <1>t, Writes DEF DeleteCapture, Free
    <2>2. ItemConsistent(i)'
      BY <1>r, <2>1, FreshFields
      DEF ItemConsistent, Working, Archiving, At, Present
    <2> QED
      BY <2>1, <2>2, CommandTouchesItem
  <1>8. CASE RetryFallsDue(i)
    <2> DEFINE q == [row[i] EXCEPT !.due = TRUE]
    <2>1. SameLabel(row[i], q) /\ q.status = row[i].status /\ q.annotated = row[i].annotated
      BY <1>r DEF SameLabel, Row
    <2>2. Write(i, q) /\ Same
      BY <1>8 DEF RetryFallsDue
    <2> HIDE DEF q
    <2>3. row'[i] = q /\ \A j \in Item : j # i => row'[j] = row[j]
      BY <1>t, <2>2, Writes
    <2>4. ItemConsistent(i)'
      BY <1>r, <2>1, <2>2, <2>3
      DEF ItemConsistent, SameLabel, Working, Archiving, At, Present
    <2> QED
      BY <2>2, <2>3, <2>4, CommandTouchesItem
  <1> QED
    BY <1>1, <1>3, <1>4, <1>5, <1>6, <1>7, <1>8

\* The archive command.
LEMMA ArchiveCommandConsistent ==
    ASSUME Consistent, TypeOK', NEW i \in Item,
           IpcArchiveBegins(i) \/ IpcArchiveContinues(i)
    PROVE  ReadConsistent' /\ \A j \in Item : ItemConsistent(j)'
  <1>t. TypeOK
    BY DEF Consistent
  <1>r. row[i] \in Row /\ source[i] \in Bytes /\ copied[i] \in Bytes /\ ItemConsistent(i)
    BY <1>t DEF TypeOK, Bytes, Consistent
  <1>1. CASE IpcArchiveBegins(i)
    <2>1. /\ lock[i] = "free" /\ row'[i] = ArchiveStarted(i)
          /\ \A j \in Item : j # i => row'[j] = row[j]
          /\ lock'[i] = (IF Verdict(i) = "go" THEN "ipc" ELSE "free")
          /\ \A j \in Item : j # i => lock'[j] = lock[j]
          /\ UNCHANGED <<source, preview, worker>>
      BY <1>1, <1>t, Writes DEF IpcArchiveBegins, ArchiveBegins, TypeOK
    <2>2. ArchiveStartKeeps(i)
      BY <1>r, ArchiveStartFields
    <2>3. ItemConsistent(i)'
      BY <1>r, <2>1, <2>2
      DEF ArchiveStartKeeps, ItemConsistent, SameLabel, Working, Archiving, At, Present
    <2> QED
      BY <2>1, <2>3, CommandTouchesItem
  <1>2. CASE UNCHANGED <<row, source, lock, preview, worker>>
    <2>1. ItemConsistent(i)'
      BY <1>2, <1>r, Untouched
    <2> QED
      BY <1>2, <2>1, CommandTouchesItem
  <1>3. CASE ArchivePersists(i, "ipc") /\ UNCHANGED <<source, preview, worker>>
    <2>1. /\ row'[i] = Archived(row[i], copied[i]) /\ lock[i] = "ipc" /\ lock'[i] = "free"
          /\ \A j \in Item : j # i => row'[j] = row[j] /\ lock'[j] = lock[j]
      BY <1>3, <1>t, Writes DEF ArchivePersists, TypeOK
    <2>2. /\ row'[i].status = "completed" /\ row'[i].annotated = row[i].annotated
          /\ row'[i].owner = row[i].owner
      BY <1>r, <2>1, ArchivedFields
    <2>3. row[i].status = "archive_pending"
      BY <1>3 DEF ArchivePersists
    <2>4. ItemConsistent(i)'
      BY <1>3, <1>r, <2>1, <2>2, <2>3 DEF ItemConsistent, Working, Archiving, At, Present
    <2> QED
      BY <1>3, <2>1, <2>4, CommandTouchesItem
  <1>4. CASE ArchiveFails(i, "ipc") /\ UNCHANGED <<source, preview, worker>>
    <2>1. /\ \/ row'[i] = row[i]
             \/ Present(i) /\ row'[i] = RecordedFailure(row[i])
          /\ lock[i] = "ipc" /\ lock'[i] = "free"
          /\ \A j \in Item : j # i => row'[j] = row[j] /\ lock'[j] = lock[j]
      BY <1>4, <1>t, Writes DEF ArchiveFails, TypeOK
    <2>2. ItemConsistent(i)'
      BY <1>4, <1>r, <2>1, PipelineFields
      DEF ItemConsistent, SameLabel, Working, Archiving, At, Present
    <2> QED
      BY <1>4, <2>1, <2>2, CommandTouchesItem
  <1> QED
    BY <1>1, <1>2, <1>3, <1>4 DEF IpcArchiveContinues

\* The reset job.
LEMMA ResetConsistent ==
    ASSUME Consistent, TypeOK', NEW i \in Item,
           \/ ResetPreview(i) \/ ResetExecute(i) \/ ResetDiscards(i)
           \/ ResetClaims(i) \/ ResetCommits(i) \/ ResetFails(i)
    PROVE  ReadConsistent' /\ \A j \in Item : ItemConsistent(j)'
  <1>t. TypeOK
    BY DEF Consistent
  <1>r. row[i] \in Row /\ ItemConsistent(i)
    BY <1>t DEF TypeOK, Consistent
  <1>1. CASE ResetPreview(i)
    <2>1. /\ UNCHANGED <<row, source, lock, worker>> /\ lock[i] = "free"
          /\ preview'[i] = Frozen(row[i])
          /\ \A j \in Item : j # i => preview'[j] = preview[j]
          /\ row[i].status \in {"awaiting_label", "completed", "failed"}
      BY <1>1, <1>t DEF ResetPreview, Free, TypeOK
    <2>2. Frozen(row[i]).status = row[i].status
      BY DEF Frozen
    <2>3. ItemConsistent(i)'
      BY <1>r, <2>1, <2>2 DEF ItemConsistent, Working, Archiving, At, Present
    <2> QED
      BY <2>1, <2>3, CommandTouchesItem
  <1>2. CASE ResetExecute(i)
    <2>1. /\ UNCHANGED <<row, source, preview, worker>>
          /\ lock[i] = "free" /\ lock'[i] = "reset"
          /\ \A j \in Item : j # i => lock'[j] = lock[j]
          /\ preview[i] # NoPreview /\ preview[i] = Frozen(row[i])
      BY <1>2, <1>t DEF ResetExecute, TypeOK
    <2>2. /\ preview[i].status = row[i].status /\ preview[i].class = row[i].class
          /\ preview[i].char = row[i].char /\ preview[i].dest = row[i].dest
          /\ preview[i].version = row[i].version
      BY <2>1 DEF Frozen
    <2>3. ItemConsistent(i)'
      BY <1>r, <2>1, <2>2 DEF ItemConsistent, Working, Archiving, At, Present
    <2> QED
      BY <2>1, <2>3, CommandTouchesItem
  <1>3. CASE ResetDiscards(i)
    <2>1. /\ UNCHANGED <<row, source, lock, worker>> /\ lock[i] # "reset"
          /\ preview'[i] = NoPreview
          /\ \A j \in Item : j # i => preview'[j] = preview[j]
      BY <1>3, <1>t DEF ResetDiscards, TypeOK
    <2>2. ItemConsistent(i)'
      BY <1>r, <2>1 DEF ItemConsistent, Working, Archiving, At, Present
    <2> QED
      BY <2>1, <2>2, CommandTouchesItem
  <1>4. CASE ResetClaims(i)
    <2> DEFINE q == [row[i] EXCEPT !.owner = TRUE]
    <2>1. /\ q.status = row[i].status /\ q.annotated = row[i].annotated
          /\ q.class = row[i].class /\ q.char = row[i].char
          /\ q.dest = row[i].dest /\ q.version = row[i].version
      BY <1>r DEF Row
    <2>2. /\ UNCHANGED <<source, preview, worker>> /\ lock[i] = "reset" /\ ~row[i].owner
          /\ \/ Present(i) /\ Write(i, q) /\ UNCHANGED lock
             \/ lock' = [lock EXCEPT ![i] = "free"] /\ UNCHANGED row
      BY <1>4 DEF ResetClaims
    <2> HIDE DEF q
    <2>3. /\ \A j \in Item : j # i => row'[j] = row[j] /\ lock'[j] = lock[j]
          /\ \/ Present(i) /\ row'[i] = q /\ lock'[i] = "reset"
             \/ row'[i] = row[i] /\ lock'[i] = "free"
      BY <1>t, <2>2, Writes DEF TypeOK
    <2>4. ItemConsistent(i)'
      BY <1>r, <2>1, <2>2, <2>3 DEF ItemConsistent, Working, Archiving, At, Present
    <2> QED
      BY <2>2, <2>3, <2>4, CommandTouchesItem
  <1>5. CASE ResetCommits(i)
    <2>1. /\ row'[i] = ResetRow(row[i]) /\ lock[i] = "reset" /\ row[i].owner
          /\ lock'[i] = "free" /\ preview'[i] = NoPreview
          /\ \A j \in Item : j # i =>
                row'[j] = row[j] /\ lock'[j] = lock[j] /\ preview'[j] = preview[j]
          /\ UNCHANGED <<source, worker>>
      BY <1>5, <1>t, Writes DEF ResetCommits, TypeOK
    <2>2. ItemConsistent(i)'
      BY <1>r, <2>1, FreshFields DEF ItemConsistent, Working, Archiving, At, Present
    <2> QED
      BY <2>1, <2>2, CommandTouchesItem
  <1>6. CASE ResetFails(i)
    <2> DEFINE q == [row[i] EXCEPT !.owner = FALSE]
    <2>1. ~q.owner /\ q.status = row[i].status /\ q.annotated = row[i].annotated
      BY <1>r DEF Row
    <2>2. /\ Write(i, q) /\ UNCHANGED <<source, preview, worker>> /\ lock[i] = "reset"
          /\ lock' = [lock EXCEPT ![i] = "free"]
      BY <1>6 DEF ResetFails
    <2> HIDE DEF q
    <2>3. /\ row'[i] = q /\ lock'[i] = "free"
          /\ \A j \in Item : j # i => row'[j] = row[j] /\ lock'[j] = lock[j]
      BY <1>t, <2>2, Writes DEF TypeOK
    <2>4. ItemConsistent(i)'
      BY <1>r, <2>1, <2>2, <2>3 DEF ItemConsistent, Working, Archiving, At, Present
    <2> QED
      BY <2>2, <2>3, <2>4, CommandTouchesItem
  <1> QED
    BY <1>1, <1>2, <1>3, <1>4, <1>5, <1>6

\* Faults, restarts and the deletion of the project.
LEMMA FaultsConsistent ==
    ASSUME Consistent, TypeOK',
           DeleteProject \/ Restart \/ (\E i \in Item : Fault(i)) \/ UNCHANGED vars
    PROVE  ReadConsistent' /\ \A j \in Item : ItemConsistent(j)'
  <1> DEFINE Goal == ReadConsistent' /\ \A j \in Item : ItemConsistent(j)'
  <1>t. TypeOK
    BY DEF Consistent
  <1>r. \A i \in Item : row[i] \in Row /\ ItemConsistent(i)
    BY <1>t DEF TypeOK, Consistent
  <1>1. CASE DeleteProject
    <2>1. UNCHANGED <<source, lock, preview, worker>> /\ \A j \in Item : row'[j] = NoRow
      BY <1>1 DEF DeleteProject
    <2>2. \A j \in Item : ItemConsistent(j)'
      BY <1>r, <2>1, FreshFields DEF ItemConsistent, Working, Archiving, At, Present
    <2> QED
      BY <2>1, <2>2, ReadKept
  <1>2. CASE Restart
    <2>1. /\ worker'.pc = "idle" /\ worker'.item = 0 /\ worker'.read = "none"
          /\ source' = source
          /\ \A j \in Item : lock'[j] = "free" /\ preview'[j] = NoPreview
      BY <1>2 DEF Restart, Idle
    <2>2. \A j \in Item : ~row'[j].owner /\ row'[j].annotated = row[j].annotated
      <3> TAKE j \in Item
      <3> DEFINE q == IF row[j].status = "processing" THEN MarkedFailed(row[j]) ELSE row[j]
      <3>1. q \in Row /\ q.annotated = row[j].annotated
        BY <1>r, FailureTypes, PipelineFields
      <3>2. row'[j] = [q EXCEPT !.owner = FALSE]
        BY <1>2 DEF Restart
      <3> HIDE DEF q
      <3> QED
        BY <3>1, <3>2 DEF Row
    <2>3. \A j \in Item : ItemConsistent(j)'
      BY <1>r, <2>1, <2>2, ItemAssumption
      DEF ItemConsistent, Working, Archiving, At, Present
    <2> QED
      BY <2>1, <2>3, ReadKept
  <1>3. ASSUME NEW i \in Item, Fault(i) PROVE Goal
    <2>1. /\ UNCHANGED <<row, lock, preview>>
          /\ worker'.pc = worker.pc /\ worker'.item = worker.item
      BY <1>3, <1>t DEF Fault, SourceChanges, TypeOK
    <2>2. ReadConsistent'
      BY <1>3, <1>t DEF Consistent, ReadConsistent, Fault, SourceChanges, TypeOK, Source
    <2> QED
      BY <1>r, <2>1, <2>2 DEF ItemConsistent, Working, Archiving, At, Present
  <1>4. CASE UNCHANGED vars
    BY <1>4, <1>r, ReadKept, Untouched DEF vars
  <1> QED
    BY <1>1, <1>2, <1>3, <1>4

\* The rows, the worker, the locks and the previews agree in every reachable
\* state, for any number of captures and characters.
THEOREM PipelineConsistent == Spec => []Consistent
  <1>1. Init => Consistent
    <2> SUFFICES ASSUME Init PROVE Consistent
      OBVIOUS
    <2>1. TypeOK
      BY InitType
    <2>2. /\ worker.pc = "idle" /\ worker.item = 0 /\ worker.read = "none"
          /\ \A i \in Item : /\ row[i] = NoRow /\ lock[i] = "free"
                            /\ preview[i] = NoPreview
      BY DEF Init, Idle
    <2>3. \A i \in Item : ItemConsistent(i)
      BY <2>2, FreshFields DEF ItemConsistent, Working, Archiving, At, Present
    <2> QED
      BY <2>1, <2>2, <2>3 DEF Consistent, ReadConsistent
  <1>2. Consistent /\ [Next]_vars => Consistent'
    <2> SUFFICES ASSUME Consistent, [Next]_vars PROVE Consistent'
      OBVIOUS
    <2>1. TypeOK'
      BY TypeNext DEF Consistent
    <2>2. ReadConsistent' /\ \A j \in Item : ItemConsistent(j)'
      BY <2>1, WorkerConsistent, RowCommandsConsistent, ArchiveCommandConsistent,
         ResetConsistent, FaultsConsistent
      DEF Next, Command, LockedStep
    <2> QED
      BY <2>1, <2>2 DEF Consistent
  <1> QED
    BY <1>1, <1>2, PTL DEF Spec

-----------------------------------------------------------------------------
(* What follows for the states and for the steps.                          *)

\* While an archive runs, nobody moves its row out of archive_pending.
THEOREM ArchiveUndisturbed == Spec => []ArchiveHoldsRow
  <1>1. Consistent => ArchiveHoldsRow
    BY DEF Consistent, ItemConsistent, ArchiveHoldsRow
  <1> QED
    BY <1>1, PipelineConsistent, PTL

\* A claim of the reset job is always held by a running reset.
THEOREM ResetClaimHeld == Spec => []ClaimHeld
  <1>1. Consistent => ClaimHeld
    BY DEF Consistent, ItemConsistent, ClaimHeld
  <1> QED
    BY <1>1, PipelineConsistent, PTL

\* An annotated copy is drawn from the registered content, or from a file that was put
\* away again before the source was looked at the second time.
THEOREM AnnotatesOriginal == Spec => []AnnotationOriginal
  <1>1. Consistent => AnnotationOriginal
    BY DEF Consistent, ItemConsistent, AnnotationOriginal
  <1> QED
    BY <1>1, PipelineConsistent, PTL

\* How a step may change a row: it removes it, keeps its label and version,
\* is a command on a free row, or is the commit of a reset that owns it.
Kept(i) ==
    \/ row'[i].status = "absent" /\ row'[i].version = 0
    \/ /\ row'[i].class = row[i].class /\ row'[i].char = row[i].char
       /\ row'[i].version = row[i].version
    \/ lock[i] = "free" /\ ~Working(i) /\ ~row[i].owner
    \/ lock[i] = "reset" /\ row[i].owner

\* Writing no row, or the same label, keeps every row.
LEMMA WriteKeeps ==
    ASSUME TypeOK, NEW k \in Item, NEW r,
           row' = row \/ (Write(k, r) /\ (r = NoRow \/ SameLabel(row[k], r)))
    PROVE  \A i \in Item : Kept(i)
  <1>1. NoRow.status = "absent" /\ NoRow.version = 0
    BY DEF NoRow, NewRow
  <1>2. \A i \in Item : row'[i] = row[i] \/ i = k
    BY Writes
  <1>3. row' = row \/ (row'[k] = r /\ (r = NoRow \/ SameLabel(row[k], r)))
    BY Writes
  <1> QED
    BY <1>1, <1>2, <1>3 DEF Kept, SameLabel

\* The worker never changes a label or a version.
LEMMA WorkerKeeps ==
    ASSUME Consistent, WorkerStep
    PROVE  \A i \in Item : Kept(i)
  <1> DEFINE Goal == \A i \in Item : Kept(i)
  <1>t. TypeOK
    BY DEF Consistent
  <1>r. \A i \in Item : row[i] \in Row /\ source[i] \in Bytes /\ copied[i] \in Bytes
    BY <1>t DEF TypeOK, Bytes
  <1>b. \A i \in Item, b \in Bytes : Validated(row[i], b) \in Row
    BY <1>r, ValidatedType
  <1>w. ASSUME NEW k \in Item, NEW r, Write(k, r), r = NoRow \/ SameLabel(row[k], r)
        PROVE  Goal
    BY <1>t, <1>w, WriteKeeps
  <1>s. row' = row => Goal
    BY DEF Kept
  <1>1. CASE StartCycle \/ SweepEnds \/ PickArchive \/ QueueEmpty
    BY <1>1, <1>s DEF StartCycle, SweepEnds, PickArchive, QueueEmpty
  <1>2. ASSUME NEW k \in Item, EngineReads(k) \/ WorkerCopies(k) PROVE Goal
    BY <1>2, <1>s DEF EngineReads, WorkerCopies
  <1>3. ASSUME NEW k \in Item, SweepItem(k) \/ CheckSource(k) \/ PurgeUnarchived(k) PROVE Goal
    <2>1. row' = row \/ Write(k, NoRow) \/ Write(k, row[k])
      BY <1>3 DEF SweepItem, CheckSource, PurgeUnarchived, PurgedIf, Write
    <2>2. SameLabel(row[k], row[k])
      BY DEF SameLabel
    <2> QED
      BY <2>1, <2>2, <1>s, <1>w
  <1>4. ASSUME NEW k \in Item, ClaimNextQueued(k) PROVE Goal
    BY <1>4, <1>r, <1>w, PipelineFields DEF ClaimNextQueued
  <1>5. ASSUME NEW k \in Item, ValidateClaimed(k) PROVE Goal
    <2>1. \/ row' = row
          \/ Write(k, MarkedFailed(Validated(row[k], source[k])))
          \/ Write(k, Validated(row[k], "original"))
          \/ Write(k, Restarted(Validated(row[k], "original"), "archive_pending"))
      BY <1>5 DEF ValidateClaimed
    <2>2. "original" \in Bytes
      BY DEF Bytes, Source
    <2>3. /\ SameLabel(row[k], MarkedFailed(Validated(row[k], source[k])))
          /\ SameLabel(row[k], Validated(row[k], "original"))
          /\ SameLabel(row[k], Restarted(Validated(row[k], "original"), "archive_pending"))
      BY <1>r, <1>b, <2>2, PipelineFields DEF SameLabel
    <2> QED
      BY <2>1, <2>3, <1>s, <1>w
  <1>6. ASSUME NEW k \in Item, CompleteProcessing(k) PROVE Goal
    <2>1. PICK drawn \in BOOLEAN, face \in BOOLEAN :
             Write(k, Processed(Validated(row[k], "original"),
                                IF drawn THEN worker.read ELSE "none",
                                IF drawn THEN row[k].char ELSE NoChar, face))
      BY <1>6 DEF CompleteProcessing
    <2> DEFINE v == Validated(row[k], "original")
               b == IF drawn THEN worker.read ELSE "none"
               char == IF drawn THEN row[k].char ELSE NoChar
    <2>2. v \in Row /\ SameLabel(row[k], v)
      BY <1>r, <1>b, PipelineFields DEF Bytes, Source
    <2>3. b \in Bytes
      BY <1>t DEF TypeOK, Bytes, Source
    <2>4. Write(k, Processed(v, b, char, face))
      BY <2>1
    <2> HIDE DEF v, b, char
    <2>5. SameLabel(row[k], Processed(v, b, char, face))
      BY <2>2, <2>3, ProcessedFields DEF SameLabel
    <2> QED
      BY <2>4, <2>5, <1>w
  <1>7. ASSUME NEW k \in Item, CompleteWithoutEngine(k) PROVE Goal
    <2>1. "none" \in Bytes
      BY DEF Bytes, Source
    <2> QED
      BY <1>7, <1>r, <1>w, <2>1, ProcessedFields DEF CompleteWithoutEngine
  <1>8. ASSUME NEW k \in Item, ProcessingFails(k) PROVE Goal
    <2> DEFINE q == IF worker.pc = "finish" THEN Validated(row[k], source[k]) ELSE row[k]
    <2>1. q \in Row /\ SameLabel(row[k], q)
      BY <1>r, <1>b, PipelineFields DEF SameLabel
    <2>2. row' = row \/ Write(k, MarkedFailed(q))
      BY <1>8 DEF ProcessingFails
    <2> HIDE DEF q
    <2>3. SameLabel(row[k], MarkedFailed(q))
      BY <2>1, PipelineFields DEF SameLabel
    <2> QED
      BY <2>2, <2>3, <1>s, <1>w
  <1>9. ASSUME NEW k \in Item, WorkerArchiveBegins(k) PROVE Goal
    <2>1. SameLabel(row[k], ArchiveStarted(k))
      BY <1>r, ArchiveStartFields DEF ArchiveStartKeeps
    <2> QED
      BY <1>9, <2>1, <1>w DEF WorkerArchiveBegins, ArchiveBegins
  <1>10. ASSUME NEW k \in Item, WorkerPersists(k) PROVE Goal
    <2>1. row'[k] = Archived(row[k], copied[k]) /\ \A i \in Item : i # k => row'[i] = row[i]
      BY <1>10, <1>t, Writes DEF WorkerPersists, ArchivePersists
    <2>2. /\ row'[k].class = row[k].class /\ row'[k].char = row[k].char
          /\ row'[k].version = row[k].version
      BY <2>1, <1>r, ArchivedFields
    <2> QED
      BY <2>1, <2>2 DEF Kept
  <1>11. ASSUME NEW k \in Item, WorkerArchiveFails(k) PROVE Goal
    BY <1>11, <1>r, <1>s, <1>w, PipelineFields DEF WorkerArchiveFails, ArchiveFails
  <1>12. ASSUME NEW k \in Item, ScheduleArchiveRetry(k) PROVE Goal
    BY <1>12, <1>r, <1>s, <1>w, PipelineFields DEF ScheduleArchiveRetry
  <1>13. ASSUME NEW k \in Item, PrelabelBegins(k) PROVE Goal
    <2> DEFINE q == [Validated(row[k], "foreign") EXCEPT !.due = FALSE]
    <2>1. /\ SameLabel(row[k], q) /\ SameLabel(row[k], Validated(row[k], "none"))
          /\ SameLabel(row[k], Validated(row[k], "original"))
      BY <1>r, <1>b, PipelineFields DEF SameLabel, Row, Bytes, Source
    <2>2. \/ row' = row \/ Write(k, NoRow) \/ Write(k, q)
          \/ Write(k, Validated(row[k], "none")) \/ Write(k, Validated(row[k], "original"))
      BY <1>13 DEF PrelabelBegins
    <2> HIDE DEF q
    <2> QED
      BY <2>1, <2>2, <1>s, <1>w
  <1>14. ASSUME NEW k \in Item, PrelabelEnds(k) PROVE Goal
    <2>1. ASSUME NEW r \in PrelabelAnswer(k) PROVE r = NoRow \/ SameLabel(row[k], r)
      <3>1. Validated(row[k], "original") \in Row
        BY <1>r, ValidatedType DEF Bytes, Source
      <3>2. SameLabel(row[k], Validated(row[k], "original"))
            /\ SameLabel(row[k], Validated(row[k], source[k]))
        BY <1>r, PipelineFields DEF Bytes, Source
      <3>3. SameLabel(Validated(row[k], "original"),
                      [Validated(row[k], "original") EXCEPT !.face = TRUE])
        BY <3>1 DEF SameLabel, Row
      <3> QED
        BY <1>r, <2>1, <3>2, <3>3 DEF PrelabelAnswer, PurgedIf, SameLabel, Row
    <2> QED
      BY <1>14, <2>1, <1>s, <1>w DEF PrelabelEnds
  <1> QED
    BY <1>1, <1>2, <1>3, <1>4, <1>5, <1>6, <1>7, <1>8, <1>9, <1>10, <1>11, <1>12,
       <1>13, <1>14 DEF WorkerStep

\* Nor does any step, except a command on a free row or a reset that owns it.
LEMMA StepKeeps ==
    ASSUME Consistent, [Next]_vars
    PROVE  \A i \in Item : Kept(i)
  <1> DEFINE Goal == \A i \in Item : Kept(i)
  <1>t. TypeOK
    BY DEF Consistent
  <1>r. \A i \in Item : /\ row[i] \in Row /\ source[i] \in Bytes /\ copied[i] \in Bytes
                      /\ ItemConsistent(i)
    BY <1>t DEF TypeOK, Bytes, Consistent
  <1>s. row' = row => Goal
    BY DEF Kept
  \* A command on a row no one works on.
  <1>f. ASSUME NEW k \in Item, lock[k] = "free", ~Working(k), ~row[k].owner,
               NEW r, Write(k, r)
        PROVE  Goal
    BY <1>t, <1>f, Writes DEF Kept
  <1>i. ASSUME NEW k \in Item, Free(k),
               row[k].status \in {"awaiting_label", "queued", "completed", "failed"}
        PROVE  lock[k] = "free" /\ ~Working(k) /\ ~row[k].owner
    BY <1>r, <1>i DEF ItemConsistent, Free
  <1>1. CASE WorkerStep
    BY <1>1, WorkerKeeps
  <1>2. ASSUME NEW k \in Item,
               \/ RequeueCompleted(k) \/ RetryCapture(k) \/ DeleteCapture(k)
               \/ \E label \in Labels : LabelCapture(k, label) \/ RelabelCapture(k, label)
        PROVE  Goal
    <2>1. /\ Free(k)
          /\ row[k].status \in {"awaiting_label", "queued", "completed", "failed"}
          /\ \E r : Write(k, r)
      BY <1>2
      DEF RequeueCompleted, RetryCapture, DeleteCapture, LabelCapture, RelabelCapture,
          Degraded
    <2> QED
      BY <2>1, <1>f, <1>i
  <1>3. ASSUME NEW k \in Item, RegisterCapture(k) PROVE Goal
    <2>1. /\ lock[k] = "free" /\ worker.item # k /\ Write(k, NewRow)
      BY <1>3 DEF RegisterCapture
    <2>2. ~Working(k) /\ ~row[k].owner
      BY <1>r, <2>1 DEF ItemConsistent, Working
    <2> QED
      BY <2>1, <2>2, <1>f
  <1>4. ASSUME NEW k \in Item, IpcArchiveBegins(k) PROVE Goal
    <2>1. SameLabel(row[k], ArchiveStarted(k))
      BY <1>r, ArchiveStartFields DEF ArchiveStartKeeps
    <2> QED
      BY <1>4, <1>t, <2>1, WriteKeeps DEF IpcArchiveBegins, ArchiveBegins
  <1>5. ASSUME NEW k \in Item, IpcArchiveContinues(k) PROVE Goal
    <2>1. CASE row' = row
      BY <2>1, <1>s
    <2>2. CASE Write(k, Archived(row[k], copied[k]))
      <3>1. row'[k] = Archived(row[k], copied[k]) /\ \A i \in Item : i # k => row'[i] = row[i]
        BY <2>2, <1>t, Writes
      <3>2. /\ row'[k].class = row[k].class /\ row'[k].char = row[k].char
            /\ row'[k].version = row[k].version
        BY <3>1, <1>r, ArchivedFields
      <3> QED
        BY <3>1, <3>2 DEF Kept
    <2>3. CASE Write(k, RecordedFailure(row[k]))
      <3>1. SameLabel(row[k], RecordedFailure(row[k]))
        BY <1>r, PipelineFields
      <3> QED
        BY <2>3, <3>1, <1>t, WriteKeeps
    <2> QED
      BY <1>5, <2>1, <2>2, <2>3 DEF IpcArchiveContinues, ArchivePersists, ArchiveFails
  <1>6. ASSUME NEW k \in Item, ResetPreview(k) \/ ResetExecute(k) \/ ResetDiscards(k) \/ Fault(k)
        PROVE  Goal
    BY <1>6, <1>s DEF ResetPreview, ResetExecute, ResetDiscards, Fault, SourceChanges
  <1>7. ASSUME NEW k \in Item, ResetClaims(k) PROVE Goal
    <2> DEFINE q == [row[k] EXCEPT !.owner = TRUE]
    <2>1. /\ q.class = row[k].class /\ q.char = row[k].char /\ q.version = row[k].version
      BY <1>r DEF Row
    <2>2. row' = row \/ Write(k, q)
      BY <1>7 DEF ResetClaims
    <2> HIDE DEF q
    <2>3. row' = row \/ (row'[k] = q /\ \A i \in Item : i # k => row'[i] = row[i])
      BY <1>t, <2>2, Writes
    <2> QED
      BY <2>1, <2>3 DEF Kept
  <1>8. ASSUME NEW k \in Item, ResetCommits(k) \/ ResetFails(k) PROVE Goal
    <2>1. lock[k] = "reset" /\ row[k].owner /\ \A i \in Item : i # k => row'[i] = row[i]
      BY <1>8, <1>t, Writes DEF ResetCommits, ResetFails
    <2> QED
      BY <2>1 DEF Kept
  <1>9. ASSUME NEW k \in Item, RetryFallsDue(k) PROVE Goal
    <2> DEFINE q == [row[k] EXCEPT !.due = TRUE]
    <2>1. SameLabel(row[k], q)
      BY <1>r DEF SameLabel, Row
    <2>2. Write(k, q)
      BY <1>9 DEF RetryFallsDue
    <2> HIDE DEF q
    <2> QED
      BY <1>t, <2>1, <2>2, WriteKeeps
  <1>10. CASE DeleteProject
    <2>1. \A i \in Item : row'[i].status = "absent" /\ row'[i].version = 0
      BY <1>10 DEF DeleteProject, NoRow, NewRow
    <2> QED
      BY <2>1 DEF Kept
  <1>11. CASE Restart
    <2> TAKE i \in Item
    <2> DEFINE q == IF row[i].status = "processing" THEN MarkedFailed(row[i]) ELSE row[i]
    <2>1. q \in Row /\ SameLabel(row[i], q)
      BY <1>r, FailureTypes, PipelineFields DEF SameLabel
    <2>2. row'[i] = [q EXCEPT !.owner = FALSE]
      BY <1>11 DEF Restart
    <2> HIDE DEF q
    <2>3. /\ row'[i].class = row[i].class /\ row'[i].char = row[i].char
          /\ row'[i].version = row[i].version
      BY <2>1, <2>2 DEF SameLabel, Row
    <2> QED
      BY <2>3 DEF Kept
  <1>12. CASE UNCHANGED vars
    BY <1>12, <1>s DEF vars
  <1> QED
    BY <1>1, <1>2, <1>3, <1>4, <1>5, <1>6, <1>7, <1>8, <1>9, <1>10, <1>11, <1>12
    DEF Next, Command, LockedStep

\* No step changes the label of a row the worker processes or an archive copies.
THEOREM LabelFixedInFlight == Spec => NoRelabelInFlight
  <1> DEFINE InFlightKept ==
        \A i \in Item :
           (Working(i) \/ Archiving(i)) /\ row'[i].status # "absent"
           => row'[i].class = row[i].class /\ row'[i].char = row[i].char
  <1>1. Consistent /\ [Next]_vars => InFlightKept
    <2> SUFFICES ASSUME Consistent, [Next]_vars, NEW i \in Item,
                        Working(i) \/ Archiving(i), row'[i].status # "absent"
                 PROVE  row'[i].class = row[i].class /\ row'[i].char = row[i].char
      OBVIOUS
    <2>1. Kept(i) /\ ItemConsistent(i)
      BY StepKeeps DEF Consistent
    <2> QED
      BY <2>1 DEF Kept, ItemConsistent, Archiving
  <1>2. NoRelabelInFlight <=> [][InFlightKept]_vars
    BY DEF NoRelabelInFlight
  <1> HIDE DEF InFlightKept
  <1> QED
    BY <1>1, <1>2, PipelineConsistent, PTL DEF Spec

\* A reset takes away what its preview showed and nothing newer.
THEOREM ResetRespectsPreview == Spec => ResetOnlyPreviewed
  <1> DEFINE PreviewedOnly ==
        \A i \in Item :
           row[i].owner /\ row'[i].version > row[i].version
           => /\ row[i].class = preview[i].class /\ row[i].char = preview[i].char
              /\ row[i].dest = preview[i].dest
              /\ row[i].version = preview[i].version
  <1>1. Consistent /\ [Next]_vars => PreviewedOnly
    <2> SUFFICES ASSUME Consistent, [Next]_vars, NEW i \in Item,
                        row[i].owner, row'[i].version > row[i].version
                 PROVE  /\ row[i].class = preview[i].class /\ row[i].char = preview[i].char
                        /\ row[i].dest = preview[i].dest
                        /\ row[i].version = preview[i].version
      OBVIOUS
    <2>1. ItemConsistent(i)
      BY DEF Consistent
    <2> QED
      BY <2>1 DEF ItemConsistent, Present
  <1>2. ResetOnlyPreviewed <=> [][PreviewedOnly]_vars
    BY DEF ResetOnlyPreviewed
  <1> HIDE DEF PreviewedOnly
  <1> QED
    BY <1>1, <1>2, PipelineConsistent, PTL DEF Spec


-----------------------------------------------------------------------------
(* What holds for part of the operations: a row in 'processing' is the      *)
(* worker's as long as no source vanishes, and an archived person shows its *)
(* own name as long as nobody calls the archive command.  Both follow from  *)
(* what one step can do to one row.                                         *)

\* s shows the same name as r, for the same label.
SameName(r, s) ==
    /\ s.class = r.class /\ s.char = r.char
    /\ s.annotated = r.annotated /\ s.drawnFor = r.drawnFor

\* The updates that carry a row between queue and archive keep the copy with its
\* name; only a failed archive is put back to archive_pending.
LEMMA NameFields ==
    ASSUME NEW r \in Row
    PROVE  /\ \A b : /\ SameName(r, Validated(r, b))
                     /\ Validated(r, b).status = r.status
                     /\ Validated(r, b).stage = r.stage
           /\ \A s : SameName(r, Restarted(r, s)) /\ Restarted(r, s).status = s
           /\ SameName(r, RecordedFailure(r)) /\ RecordedFailure(r).status = "failed"
           /\ SameName(r, RetryScheduled(r))
           /\ RetryScheduled(r).status \in {"archive_pending", "failed"}
           /\ MarkedFailed(r).status = "failed" /\ MarkedFailed(r).stage = "processing"
           /\ \A b : SameName(r, Archived(r, b)) /\ Archived(r, b).status = "completed"
  <1>1. \A b : /\ SameName(r, Validated(r, b))
               /\ Validated(r, b).status = r.status
               /\ Validated(r, b).stage = r.stage
    BY DEF Validated, SameName, Row
  <1>2. \A s : SameName(r, Restarted(r, s)) /\ Restarted(r, s).status = s
    BY DEF Restarted, SameName, Row
  <1>3. SameName(r, RecordedFailure(r)) /\ RecordedFailure(r).status = "failed"
    BY DEF RecordedFailure, SameName, Row
  <1>4. /\ SameName(r, RetryScheduled(r))
        /\ RetryScheduled(r).status \in {"archive_pending", "failed"}
    BY DEF RetryScheduled, SameName, Row
  <1>5. MarkedFailed(r).status = "failed" /\ MarkedFailed(r).stage = "processing"
    BY DEF MarkedFailed, Row
  <1>6. \A b : SameName(r, Archived(r, b)) /\ Archived(r, b).status = "completed"
    BY DEF Archived, SameName, Row
  <1> QED
    BY <1>1, <1>2, <1>3, <1>4, <1>5, <1>6

\* A retry that goes straight to the archive was of a failed archive.
LEMMA RetriedFields ==
    ASSUME NEW r \in Row, r.status \in {"failed", "completed"}, NEW copy
    PROVE  \/ Retried(r, copy).status \in {"queued", "awaiting_label"}
           \/ /\ Retried(r, copy).status = "archive_pending"
              /\ SameName(r, Retried(r, copy)) /\ r.stage = "archive"
  <1> DEFINE plain == [Restarted(r, "queued") EXCEPT !.annotated = "none",
                                                    !.drawnFor = NoChar]
  <1>0. Restarted(r, "queued") \in Row /\ Restarted(r, "queued").status = "queued"
    BY RestartedType, NameFields DEF Status
  <1>1. plain.status = "queued"
    BY <1>0 DEF Row
  <1>2. /\ Restarted(r, "queued").status = "queued"
        /\ Restarted(r, "awaiting_label").status = "awaiting_label"
        /\ Restarted(r, "archive_pending").status = "archive_pending"
        /\ SameName(r, Restarted(r, "archive_pending"))
    BY NameFields
  <1>3. \/ Retried(r, copy) \in {Restarted(r, "queued"), Restarted(r, "awaiting_label"), plain}
        \/ Retried(r, copy) = Restarted(r, "archive_pending") /\ r.stage = "archive"
    BY DEF Retried
  <1> HIDE DEF plain
  <1> QED
    BY <1>1, <1>2, <1>3

\* What a step does to the row of i: it leaves the pipeline, keeps its status
\* and name, is claimed, fails in processing, reaches the archive with its name
\* right, or is archived, failed there, scheduled or retried with its name as it was.
RowStep(i) ==
    LET r == row[i]
        s == row'[i]
    IN  \/ s.status \in {"absent", "awaiting_label", "queued"}
        \/ SameName(r, s) /\ s.status = r.status /\ s.stage = r.stage
        \/ s.status = "processing" /\ Working(i)'
        \/ s.status = "failed" /\ s.stage = "processing" /\ worker'.pc = "idle"
        \/ s.status = "archive_pending" /\ NameRight(s)
        \/ SameName(r, s) /\ r.status = "archive_pending" /\ s.status = "completed"
        \/ /\ SameName(r, s) /\ r.status = "archive_pending" /\ s.status = "failed"
           /\ worker'.pc = "schedule" \/ lock[i] = "ipc"
        \/ /\ SameName(r, s) /\ r.status = "failed" /\ At("schedule", i)
           /\ s.status \in {"failed", "archive_pending"} /\ worker'.pc = "idle"
        \/ /\ SameName(r, s) /\ r.status = "failed" /\ s.status = "archive_pending"
           /\ r.stage = "archive" \/ At("archive", i) \/ "archive" \in Ops

\* The worker archives what is to be archived, schedules what it archived, and
\* gives up a row whose source is there only when it is out of 'processing'.
WorkerMove(i) ==
    /\ At("archive", i)' => At("archive", i) \/ row'[i].status = "archive_pending"
    /\ At("schedule", i)' => At("schedule", i) \/ At("copy", i) \/ At("archive", i)
    /\ Working(i) /\ row'[i].status = "processing" /\ source[i] # "none" => Working(i)'

\* A step that leaves row and worker position of i alone, or has the worker on
\* another item.
LEMMA OtherStep ==
    ASSUME NEW i \in Item, row'[i] = row[i],
           worker' = worker \/ (worker.item # i /\ worker'.item # i)
    PROVE  RowStep(i) /\ WorkerMove(i)
  BY DEF RowStep, WorkerMove, SameName, At, Working

\* A command that writes the row of i.
LEMMA CommandStep ==
    ASSUME TypeOK, NEW i \in Item, NEW j \in Item, NEW r, Write(i, r), worker' = worker,
           \/ r.status \in {"absent", "awaiting_label", "queued"}
           \/ SameName(row[i], r) /\ r.status = row[i].status /\ r.stage = row[i].stage
           \/ /\ SameName(row[i], r) /\ row[i].status = "failed"
              /\ r.status = "archive_pending" /\ row[i].stage = "archive"
    PROVE  RowStep(j) /\ WorkerMove(j)
  <1>1. row'[i] = r /\ (j # i => row'[j] = row[j])
    BY Writes
  <1>2. CASE j # i
    BY <1>1, <1>2, OtherStep
  <1>3. CASE j = i
    BY <1>1, <1>3 DEF RowStep, WorkerMove, At, Working
  <1> QED
    BY <1>2, <1>3

\* Entering the archive keeps the name; a failed row goes on only into
\* archive_pending.
ArchiveStartNames(i) ==
    /\ SameName(row[i], ArchiveStarted(i))
    /\ \/ ArchiveStarted(i).status = row[i].status /\ ArchiveStarted(i).stage = row[i].stage
       \/ row[i].status = "failed" /\ ArchiveStarted(i).status = "archive_pending"

LEMMA ArchiveStartName ==
    ASSUME NEW i \in Item, row[i] \in Row, source[i] \in Bytes
    PROVE  ArchiveStartNames(i)
  <1> DEFINE r == Validated(row[i], source[i])
             q == [r EXCEPT !.status = "archive_pending", !.stage = "none", !.due = TRUE]
  <1>1. r \in Row /\ SameName(row[i], r) /\ r.status = row[i].status /\ r.stage = row[i].stage
    BY ValidatedType, NameFields
  <1>2. SameName(row[i], q) /\ q.status = "archive_pending"
    BY <1>1 DEF SameName, Row
  <1>3. \/ ArchiveStarted(i) = row[i] \/ ArchiveStarted(i) = r
        \/ ArchiveStarted(i) = q /\ row[i].status = "failed"
    BY DEF ArchiveStarted
  <1> HIDE DEF r, q
  <1> QED
    BY <1>1, <1>2, <1>3 DEF ArchiveStartNames, SameName

\* The worker's steps, for a row j.
LEMMA WorkerTrace ==
    ASSUME Consistent, WorkerStep, NEW j \in Item
    PROVE  RowStep(j) /\ WorkerMove(j)
  <1> DEFINE Goal == RowStep(j) /\ WorkerMove(j)
  <1>t. TypeOK
    BY DEF Consistent
  <1>r. \A i \in Item : row[i] \in Row /\ source[i] \in Bytes /\ ItemConsistent(i)
    BY <1>t DEF TypeOK, Bytes, Consistent
  <1>z. 0 \notin Item
    BY ItemAssumption
  <1>f. NoRow.status = "absent"
    BY FreshFields
  \* Steps that write no row.
  <1>w. ASSUME row' = row,
               \/ ~At("archive", j)' /\ ~At("schedule", j)' /\ (Working(j) => Working(j)')
               \/ /\ At("archive", j)' => row[j].status = "archive_pending"
                  /\ ~At("schedule", j)' /\ ~Working(j)
        PROVE  Goal
    BY <1>w DEF RowStep, WorkerMove, SameName
  <1>1. CASE StartCycle
    <2>1. worker.pc = "idle" /\ worker'.pc \in {"cycle", "sweep"}
      BY <1>1, <1>t, Moves DEF StartCycle
    <2> QED
      BY <1>1, <1>w, <2>1 DEF StartCycle, At, Working
  <1>2. CASE SweepEnds
    <2>1. worker.pc = "sweep" /\ worker'.pc = "cycle"
      BY <1>2, <1>t, Moves DEF SweepEnds
    <2> QED
      BY <1>2, <1>w, <2>1 DEF SweepEnds, At, Working
  <1>3. CASE PickArchive
    <2>1. /\ worker.pc = "cycle"
          /\ \/ worker'.pc = "queue"
             \/ worker'.pc = "archive" /\ worker'.item \in ArchiveDue
      BY <1>3, <1>t, Moves DEF PickArchive, Oldest
    <2> QED
      BY <1>3, <1>w, <2>1 DEF PickArchive, At, Working, ArchiveDue
  <1>4. CASE QueueEmpty
    <2>1. worker.pc = "queue" /\ worker'.pc \in {"idle", "prelabel"}
      BY <1>4, <1>t, Moves DEF QueueEmpty
    <2> QED
      BY <1>4, <1>w, <2>1 DEF QueueEmpty, At, Working
  <1>5. ASSUME NEW i \in Item, SweepItem(i) PROVE Goal
    <2>1. row'[j] \in {row[j], NoRow} /\ worker' = worker
      BY <1>5, <1>t DEF SweepItem, PurgedIf, TypeOK
    <2>2. CASE row'[j] = NoRow
      BY <1>f, <1>5, <2>1, <2>2 DEF RowStep, WorkerMove, SweepItem, At
    <2> QED
      BY <2>1, <2>2, OtherStep
  \* Steps on the worker's item leave the other rows alone.
  <1>o. ASSUME NEW i \in Item, NEW r, Write(i, r), worker.item = i \/ worker.item = 0 \/ worker.pc = "queue",
               worker'.item \in {i, 0}, j # i
        PROVE  Goal
    <2>1. row'[j] = row[j]
      BY <1>t, <1>o, Writes
    <2> QED
      BY <1>o, <1>z, <2>1 DEF RowStep, WorkerMove, SameName, At, Working
  <1>6. ASSUME NEW i \in Item, ClaimNextQueued(i) PROVE Goal
    <2>1. row'[i] = Claimed(row[i]) /\ Claimed(row[i]).status = "processing"
      BY <1>6, <1>r, <1>t, Writes, PipelineFields DEF ClaimNextQueued
    <2>2. worker'.pc = "claimed" /\ worker'.item = i /\ worker.pc = "queue"
      BY <1>6, <1>t, Moves DEF ClaimNextQueued
    <2>3. CASE i = j
      BY <2>1, <2>2, <2>3 DEF RowStep, WorkerMove, Working, At
    <2> QED
      BY <1>6, <1>o, <2>2, <2>3 DEF ClaimNextQueued
  <1>7. ASSUME NEW i \in Item, CheckSource(i) PROVE Goal
    <2>1. /\ worker.pc = "claimed" /\ worker.item = i
          /\ \/ worker'.item = i /\ worker'.pc = "validate" /\ row' = row
             \/ /\ worker'.item = 0 /\ worker'.pc = "idle" /\ source[i] = "none"
                /\ Write(i, PurgedIf(i, "processing"))
      BY <1>7, <1>t, Moves DEF CheckSource, At
    <2>2. CASE row' = row /\ worker'.item = i /\ worker'.pc = "validate"
      BY <1>w, <2>1, <2>2 DEF At, Working
    <2>3. CASE worker'.pc = "idle" /\ worker'.item = 0 /\ Write(i, PurgedIf(i, "processing"))
               /\ source[i] = "none"
      <3>1. CASE i = j
        <4>1. row'[i] \in {row[i], NoRow}
          BY <1>t, <2>3, Writes DEF PurgedIf
        <4> QED
          BY <1>f, <2>1, <2>3, <3>1, <4>1 DEF RowStep, WorkerMove, SameName, At
      <3> QED
        BY <1>o, <2>1, <2>3, <3>1
    <2> QED
      BY <2>1, <2>2, <2>3
  <1>8. ASSUME NEW i \in Item, ValidateClaimed(i) PROVE Goal
    <2> DEFINE v == Validated(row[i], "original")
    <2>1. worker.pc = "validate" /\ worker.item = i
      BY <1>8 DEF ValidateClaimed, At
    <2>2. CASE ~Present(i) /\ CycleEnds /\ UNCHANGED row
      <3>1. worker'.pc = "idle"
        BY <1>t, <2>2, Moves
      <3> QED
        BY <2>1, <2>2, <3>1 DEF RowStep, WorkerMove, SameName, At, Working, Present
    <2>3. CASE CycleEnds /\ Write(i, MarkedFailed(Validated(row[i], source[i])))
      <3>1. worker'.pc = "idle" /\ worker'.item = 0
        BY <1>t, <2>3, Moves
      <3>2. CASE i = j
        <4>1. row'[i].status = "failed" /\ row'[i].stage = "processing"
          BY <1>r, <1>t, <2>3, Writes, NameFields, ValidatedType
        <4> QED
          BY <3>1, <3>2, <4>1 DEF RowStep, WorkerMove, At
      <3> QED
        BY <1>o, <2>1, <2>3, <3>1, <3>2
    <2>4. CASE Write(i, v) /\ Goto("engine")
      <3>1. worker'.pc = "engine" /\ worker'.item = i
        BY <1>t, <2>1, <2>4, Moves
      <3>2. CASE i = j
        <4>1. SameName(row[i], row'[i]) /\ row'[i].status = row[i].status
              /\ row'[i].stage = row[i].stage
          BY <1>r, <1>t, <2>4, Writes, NameFields
        <4> QED
          BY <3>1, <3>2, <4>1 DEF RowStep, WorkerMove, Working, At
      <3> QED
        BY <1>o, <2>1, <2>4, <3>1, <3>2
    <2>5. CASE v.class # "person" /\ Write(i, Restarted(v, "archive_pending"))
               /\ Goto("archive")
      <3>1. worker'.pc = "archive" /\ worker'.item = i
        BY <1>t, <2>1, <2>5, Moves
      <3>2. CASE i = j
        <4>0. v \in Row
          BY <1>r, ValidatedType DEF Bytes, Source
        <4>1. row'[i].class # "person" /\ row'[i].status = "archive_pending"
          BY <1>t, <2>5, <4>0, Writes, NameFields DEF SameName
        <4> QED
          BY <3>1, <3>2, <4>1 DEF RowStep, WorkerMove, NameRight, At
      <3> QED
        BY <1>o, <2>1, <2>5, <3>1, <3>2
    <2> QED
      BY <1>8, <2>2, <2>3, <2>4, <2>5 DEF ValidateClaimed
  <1>9. ASSUME NEW i \in Item, EngineReads(i) PROVE Goal
    <2>1. worker.item = i /\ worker.pc = "engine" /\ worker'.item = i /\ worker'.pc = "finish"
      BY <1>9, <1>t DEF EngineReads, At, TypeOK
    <2> QED
      BY <1>9, <1>w, <2>1 DEF EngineReads, At, Working
  \* A recognition ends with the current name on the copy, or without a copy.
  <1>p. ASSUME NEW i \in Item, NEW r \in Row, NEW b \in Bytes, NEW char, NEW face,
               Write(i, Processed(r, b, char, face)), Goto("archive"), worker.item = i,
               b = "none" \/ char = r.char
        PROVE  Goal
    <2>1. worker'.pc = "archive" /\ worker'.item = i
      BY <1>t, <1>p, Moves
    <2>2. CASE i = j
      <3>0. Restarted(r, "archive_pending") \in Row
            /\ SameName(r, Restarted(r, "archive_pending"))
            /\ Restarted(r, "archive_pending").status = "archive_pending"
        BY RestartedType, NameFields DEF Status
      <3>1. /\ Processed(r, b, char, face).status = "archive_pending"
            /\ Processed(r, b, char, face).annotated = b
            /\ Processed(r, b, char, face).drawnFor = char
            /\ Processed(r, b, char, face).char = r.char
        BY <3>0 DEF Processed, Row, SameName
      <3>2. row'[i] = Processed(r, b, char, face)
        BY <1>t, <1>p, Writes
      <3>3. row'[i].status = "archive_pending" /\ NameRight(row'[i])
        BY <1>p, <3>1, <3>2 DEF NameRight
      <3> QED
        BY <2>1, <2>2, <3>3 DEF RowStep, WorkerMove, At
    <2> QED
      BY <1>o, <1>p, <2>1, <2>2
  <1>10. ASSUME NEW i \in Item, CompleteProcessing(i) PROVE Goal
    <2> DEFINE v == Validated(row[i], "original")
    <2>1. v \in Row /\ v.char = row[i].char /\ worker.item = i /\ Goto("archive")
      BY <1>10, <1>r, ValidatedType, NameFields DEF CompleteProcessing, At, Bytes, Source, SameName
    <2>2. PICK drawn \in BOOLEAN, face \in BOOLEAN :
             Write(i, Processed(v, IF drawn THEN worker.read ELSE "none",
                                   IF drawn THEN row[i].char ELSE NoChar, face))
      BY <1>10 DEF CompleteProcessing
    <2>3. (IF drawn THEN worker.read ELSE "none") \in Bytes
      BY <1>t DEF TypeOK, Bytes, Source
    <2>4. \/ (IF drawn THEN worker.read ELSE "none") = "none"
          \/ (IF drawn THEN row[i].char ELSE NoChar) = v.char
      BY <2>1
    <2> HIDE DEF v
    <2> QED
      BY <1>p, <2>1, <2>2, <2>3, <2>4
  <1>11. ASSUME NEW i \in Item, CompleteWithoutEngine(i) PROVE Goal
    <2>1. /\ worker.item = i /\ Goto("archive") /\ "none" \in Bytes
          /\ Write(i, Processed(row[i], "none", NoChar, row[i].face))
      BY <1>11 DEF CompleteWithoutEngine, At, Bytes, Source
    <2> QED
      BY <1>p, <1>r, <2>1
  <1>12. ASSUME NEW i \in Item, ProcessingFails(i) PROVE Goal
    <2>1. worker.item = i /\ worker'.pc = "idle" /\ worker'.item = 0
      BY <1>12, <1>t, Moves DEF ProcessingFails, At
    <2>2. CASE ~Present(i)
      BY <1>12, <2>1, <2>2
      DEF ProcessingFails, RowStep, WorkerMove, SameName, Present, Working, At
    <2>3. CASE Present(i)
      <3> DEFINE r == IF worker.pc = "finish" THEN Validated(row[i], source[i]) ELSE row[i]
      <3>1. Write(i, MarkedFailed(r)) /\ r \in Row
        BY <1>12, <1>r, <2>3, ValidatedType DEF ProcessingFails
      <3> HIDE DEF r
      <3>2. CASE i = j
        <4>1. row'[i].status = "failed" /\ row'[i].stage = "processing"
          BY <1>t, <3>1, Writes, NameFields
        <4> QED
          BY <2>1, <3>2, <4>1 DEF RowStep, WorkerMove, At
      <3> QED
        BY <1>o, <2>1, <3>1, <3>2
    <2> QED
      BY <2>2, <2>3
  <1>13. ASSUME NEW i \in Item, WorkerArchiveBegins(i) PROVE Goal
    <2>1. /\ worker.item = i /\ worker.pc = "archive" /\ Write(i, ArchiveStarted(i))
          /\ \/ worker'.pc = "copy" /\ worker'.item = i
             \/ worker'.pc = "idle" /\ worker'.item = 0
             \/ worker'.pc \in {"purge", "schedule"} /\ worker'.item = i
      <3>1. Verdict(i) \in {"refused", "done", "gone", "go"}
        BY DEF Verdict
      <3> QED
        BY <1>13, <1>t, <3>1, Moves DEF WorkerArchiveBegins, ArchiveBegins, At
    <2>2. CASE i = j
      <3>1. row'[i] = ArchiveStarted(i) /\ ArchiveStartNames(i)
        BY <1>r, <1>t, <2>1, Writes, ArchiveStartName
      <3> QED
        BY <2>1, <2>2, <3>1
        DEF RowStep, WorkerMove, At, Working, ArchiveStartNames
    <2> QED
      BY <1>o, <2>1, <2>2
  <1>14. ASSUME NEW i \in Item, WorkerCopies(i) PROVE Goal
    <2>1. worker' = worker /\ row' = row
      BY <1>14 DEF WorkerCopies
    <2> QED
      BY <2>1, OtherStep
  <1>15. ASSUME NEW i \in Item, WorkerPersists(i) PROVE Goal
    <2>1. /\ worker.item = i /\ worker'.pc = "idle" /\ worker'.item = 0
          /\ row[i].status = "archive_pending" /\ Write(i, Archived(row[i], copied[i]))
      BY <1>15, <1>t, Moves DEF WorkerPersists, ArchivePersists, At
    <2>2. CASE i = j
      <3>1. SameName(row[i], row'[i]) /\ row'[i].status = "completed"
        BY <1>r, <1>t, <2>1, Writes, NameFields
      <3> QED
        BY <2>1, <2>2, <3>1 DEF RowStep, WorkerMove, At
    <2> QED
      BY <1>o, <2>1, <2>2
  <1>16. ASSUME NEW i \in Item, WorkerArchiveFails(i) PROVE Goal
    <2>1. /\ worker.item = i /\ worker.pc = "copy" /\ lock[i] = "worker"
          /\ worker'.pc = "schedule" /\ worker'.item = i
          /\ IF Present(i) THEN Write(i, RecordedFailure(row[i])) ELSE row' = row
      BY <1>16, <1>t, Moves DEF WorkerArchiveFails, ArchiveFails, At
    <2>2. row[i].status \in {"archive_pending", "absent"}
      BY <1>r, <2>1 DEF ItemConsistent, Archiving
    <2>3. CASE row' = row
      BY <2>1, <2>2, <2>3 DEF RowStep, WorkerMove, SameName, At, Working
    <2>4. CASE Write(i, RecordedFailure(row[i])) /\ row[i].status = "archive_pending"
      <3>1. CASE i = j
        <4>1. SameName(row[i], row'[i]) /\ row'[i].status = "failed"
          BY <1>r, <1>t, <2>4, Writes, NameFields
        <4> QED
          BY <2>1, <2>4, <3>1, <4>1 DEF RowStep, WorkerMove, At
      <3> QED
        BY <1>o, <2>1, <2>4, <3>1
    <2> QED
      BY <2>1, <2>2, <2>3, <2>4 DEF Present
  <1>17. ASSUME NEW i \in Item, ScheduleArchiveRetry(i) PROVE Goal
    <2>1. /\ worker.item = i /\ worker.pc = "schedule"
          /\ worker'.pc = "idle" /\ worker'.item = 0
          /\ IF row[i].status = "failed" THEN Write(i, RetryScheduled(row[i])) ELSE row' = row
      BY <1>17, <1>t, Moves DEF ScheduleArchiveRetry, At
    <2>2. CASE row' = row
      BY <2>1, <2>2 DEF RowStep, WorkerMove, SameName, At, Working
    <2>3. CASE row[i].status = "failed" /\ Write(i, RetryScheduled(row[i]))
      <3>1. CASE i = j
        <4>1. SameName(row[i], row'[i]) /\ row'[i].status \in {"archive_pending", "failed"}
          BY <1>r, <1>t, <2>3, Writes, NameFields
        <4> QED
          BY <2>1, <2>3, <3>1, <4>1 DEF RowStep, WorkerMove, At
      <3> QED
        BY <1>o, <2>1, <2>3, <3>1
    <2> QED
      BY <2>1, <2>2, <2>3
  <1>18. ASSUME NEW i \in Item, PurgeUnarchived(i) PROVE Goal
    <2>1. /\ worker.item = i /\ worker.pc = "purge" /\ worker'.pc = "idle"
          /\ worker'.item = 0 /\ Write(i, PurgedIf(i, "archive_pending"))
      BY <1>18, <1>t, Moves DEF PurgeUnarchived, At
    <2>2. CASE i = j
      <3>1. row'[i] \in {row[i], NoRow}
        BY <1>t, <2>1, Writes DEF PurgedIf
      <3> QED
        BY <1>f, <2>1, <2>2, <3>1 DEF RowStep, WorkerMove, SameName, At, Working
    <2> QED
      BY <1>o, <2>1, <2>2
  <1>19. ASSUME NEW i \in Item, PrelabelBegins(i) PROVE Goal
    <2>1. worker.item = i /\ worker.pc = "prelabel" /\ worker'.item \in {i, 0}
          /\ worker'.pc \in {"idle", "extract"}
      BY <1>19, <1>t, Moves DEF PrelabelBegins, At
    <2>2. \/ row' = row
          \/ /\ row[i].status = "awaiting_label"
             /\ \/ Write(i, NoRow) \/ \E b \in Bytes : Write(i, Validated(row[i], b))
                \/ Write(i, [Validated(row[i], "foreign") EXCEPT !.due = FALSE])
      BY <1>19 DEF PrelabelBegins, Bytes, Source
    <2>3. CASE row' = row
      BY <2>1, <2>3 DEF RowStep, WorkerMove, SameName, At, Working
    <2>4. ASSUME NEW r, Write(i, r), r.status \in {"awaiting_label", "absent"} PROVE Goal
      <3>1. CASE i = j
        <4>1. row'[i] = r
          BY <1>t, <2>4, Writes
        <4> QED
          BY <2>1, <2>4, <3>1, <4>1 DEF RowStep, WorkerMove, At, Working
      <3> QED
        BY <1>o, <2>1, <2>4, <3>1
    <2>5. /\ \A b \in Bytes : Validated(row[i], b).status = row[i].status
          /\ [Validated(row[i], "foreign") EXCEPT !.due = FALSE].status = row[i].status
      BY <1>r, NameFields, ValidatedType DEF Row, Bytes, Source
    <2> QED
      BY <1>f, <2>2, <2>3, <2>4, <2>5
  <1>20. ASSUME NEW i \in Item, PrelabelEnds(i) PROVE Goal
    <2>1. worker.item = i /\ worker.pc = "extract" /\ worker'.item = 0 /\ worker'.pc = "idle"
      BY <1>20, <1>t, Moves DEF PrelabelEnds, At
    <2>2. \/ row' = row
          \/ \E r \in PrelabelAnswer(i) : Write(i, r)
      BY <1>20 DEF PrelabelEnds
    <2>3. CASE row' = row
      BY <2>1, <2>3 DEF RowStep, WorkerMove, SameName, At, Working
    <2>4. ASSUME NEW r \in PrelabelAnswer(i), Write(i, r) PROVE Goal
      <3>1. \/ r = NoRow
            \/ SameName(row[i], r) /\ r.status = row[i].status /\ r.stage = row[i].stage
        <4> DEFINE v == Validated(row[i], source[i])
                   q == [row[i] EXCEPT !.due = FALSE]
        <4>1. v \in Row /\ SameName(row[i], v) /\ v.status = row[i].status
              /\ v.stage = row[i].stage
          BY <1>r, ValidatedType, NameFields
        <4>2. [v EXCEPT !.face = TRUE].status = row[i].status
              /\ [v EXCEPT !.face = TRUE].stage = row[i].stage
              /\ SameName(row[i], [v EXCEPT !.face = TRUE])
          BY <4>1 DEF SameName, Row
        <4>3. q.status = row[i].status /\ q.stage = row[i].stage /\ SameName(row[i], q)
          BY <1>r DEF SameName, Row
        <4>4. /\ [row[i] EXCEPT !.face = TRUE].status = row[i].status
              /\ [row[i] EXCEPT !.face = TRUE].stage = row[i].stage
              /\ SameName(row[i], [row[i] EXCEPT !.face = TRUE])
          BY <1>r DEF SameName, Row
        <4>5. /\ [q EXCEPT !.attempts = row[i].attempts + 1].status = row[i].status
              /\ [q EXCEPT !.attempts = row[i].attempts + 1].stage = row[i].stage
              /\ SameName(row[i], [q EXCEPT !.attempts = row[i].attempts + 1])
          BY <1>r DEF SameName, Row
        <4>6. SameName(row[i], row[i])
          BY DEF SameName
        <4>7. source[i] = "original" => Validated(row[i], "original") = v
          OBVIOUS
        <4>8. \/ r = [v EXCEPT !.face = TRUE] \/ r = v \/ r = q
              \/ r = [row[i] EXCEPT !.face = TRUE]
              \/ r = [q EXCEPT !.attempts = row[i].attempts + 1]
              \/ r = NoRow \/ r = row[i]
          BY <2>4 DEF PrelabelAnswer, PurgedIf
        <4> HIDE DEF v, q
        <4> QED
          BY <4>1, <4>2, <4>3, <4>4, <4>5, <4>6, <4>8
      <3>2. CASE i = j
        <4>1. row'[i] = r
          BY <1>t, <2>4, Writes
        <4> QED
          BY <1>f, <2>1, <3>1, <3>2, <4>1 DEF RowStep, WorkerMove, At, Working
      <3> QED
        BY <1>o, <2>1, <2>4, <3>2
    <2> QED
      BY <2>2, <2>3, <2>4
  <1> QED
    BY <1>1, <1>2, <1>3, <1>4, <1>5, <1>6, <1>7, <1>8, <1>9, <1>10, <1>11, <1>12,
       <1>13, <1>14, <1>15, <1>16, <1>17, <1>18, <1>19, <1>20 DEF WorkerStep

\* Every step, for a row j.
LEMMA StepTrace ==
    ASSUME Consistent, [Next]_vars, NEW j \in Item
    PROVE  RowStep(j) /\ WorkerMove(j)
  <1> DEFINE Goal == RowStep(j) /\ WorkerMove(j)
  <1>t. TypeOK
    BY DEF Consistent
  <1>r. \A i \in Item : row[i] \in Row /\ source[i] \in Bytes /\ ItemConsistent(i)
    BY <1>t DEF TypeOK, Bytes, Consistent
  <1>f. /\ NoRow.status = "absent" /\ NewRow.status = "awaiting_label"
        /\ \A i \in Item : ResetRow(row[i]).status = "awaiting_label"
    BY <1>r, FreshFields
  <1>v. \A i \in Item :
          /\ Validated(row[i], source[i]) \in Row
          /\ SameName(row[i], Validated(row[i], source[i]))
          /\ Validated(row[i], source[i]).status = row[i].status
          /\ Validated(row[i], source[i]).stage = row[i].stage
    BY <1>r, ValidatedType, NameFields
  <1>c. ASSUME NEW i \in Item, NEW r, Write(i, r), worker' = worker,
               \/ r.status \in {"absent", "awaiting_label", "queued"}
               \/ SameName(row[i], r) /\ r.status = row[i].status /\ r.stage = row[i].stage
               \/ /\ SameName(row[i], r) /\ row[i].status = "failed"
                  /\ r.status = "archive_pending" /\ row[i].stage = "archive"
        PROVE  Goal
    BY <1>t, <1>c, CommandStep
  <1>s. ASSUME row' = row, worker' = worker PROVE Goal
    BY <1>s, OtherStep
  <1>1. CASE WorkerStep
    BY <1>1, WorkerTrace
  <1>2. ASSUME NEW i \in Item, RegisterCapture(i) \/ DeleteCapture(i) PROVE Goal
    BY <1>2, <1>f, <1>c DEF RegisterCapture, DeleteCapture
  <1>3. ASSUME NEW i \in Item, NEW label \in Labels, LabelCapture(i, label) PROVE Goal
    <2>1. Labelled(row[i], label[1], label[2]).status = "queued"
      BY <1>r, LabelType, CommandFields
    <2> QED
      BY <1>3, <1>c, <2>1 DEF LabelCapture
  <1>4. ASSUME NEW i \in Item, NEW label \in Labels, RelabelCapture(i, label) PROVE Goal
    <2> DEFINE v == Validated(row[i], source[i])
    <2>1. /\ Labelled(row[i], label[1], label[2]).status = "queued"
          /\ Reprocessed(v, label[1], label[2]).status = "queued"
      BY <1>r, <1>v, LabelType, CommandFields
    <2>2. /\ worker' = worker
          /\ \/ Write(i, Labelled(row[i], label[1], label[2]))
             \/ Write(i, Reprocessed(v, label[1], label[2]))
             \/ Write(i, v)
      BY <1>4 DEF RelabelCapture
    <2> HIDE DEF v
    <2>3. SameName(row[i], v) /\ v.status = row[i].status /\ v.stage = row[i].stage
      BY <1>v DEF v
    <2> QED
      BY <1>c, <2>1, <2>2, <2>3
  <1>5. ASSUME NEW i \in Item, RequeueCompleted(i) PROVE Goal
    <2> DEFINE v == Validated(row[i], source[i])
    <2>1. v \in Row /\ SameName(row[i], v) /\ v.status = row[i].status /\ v.stage = row[i].stage
      BY <1>v
    <2>2. worker' = worker /\ (Write(i, Reprocessed(v, v.class, v.char)) \/ Write(i, v))
      BY <1>5 DEF RequeueCompleted
    <2> HIDE DEF v
    <2>3. Reprocessed(v, v.class, v.char).status = "queued"
      BY <2>1, CommandFields DEF Row
    <2> QED
      BY <1>c, <2>1, <2>2, <2>3
  <1>6. ASSUME NEW i \in Item, RetryCapture(i) PROVE Goal
    <2> DEFINE v == Validated(row[i], source[i])
    <2>1. v \in Row /\ SameName(row[i], v) /\ v.status = row[i].status /\ v.stage = row[i].stage
      BY <1>v
    <2>2. /\ worker' = worker /\ row[i].status \in {"failed", "completed"}
          /\ (\E copy \in {"kept", "lost"} : Write(i, Retried(v, copy))) \/ Write(i, v)
      BY <1>6 DEF RetryCapture, Degraded
    <2>3. row[i].status = "completed" => \A copy : Retried(v, copy) = Restarted(v, "queued")
      BY <1>6, <1>v DEF RetryCapture, Degraded, Retried, SameName
    <2> HIDE DEF v
    <2>4. ASSUME NEW copy, Write(i, Retried(v, copy)) PROVE Goal
      <3>1. \/ Retried(v, copy).status \in {"queued", "awaiting_label"}
            \/ /\ Retried(v, copy).status = "archive_pending"
               /\ SameName(row[i], Retried(v, copy)) /\ row[i].stage = "archive"
               /\ row[i].status = "failed"
        <4>1. Restarted(v, "queued").status = "queued"
          BY <2>1, NameFields
        <4> QED
          BY <2>1, <2>2, <2>3, <4>1, RetriedFields DEF SameName
      <3> QED
        BY <1>c, <2>2, <2>4, <3>1
    <2> QED
      BY <1>c, <2>1, <2>2, <2>4
  <1>7. ASSUME NEW i \in Item, IpcArchiveBegins(i) PROVE Goal
    <2>1. /\ worker' = worker /\ Write(i, ArchiveStarted(i)) /\ "archive" \in Ops
      BY <1>7 DEF IpcArchiveBegins, ArchiveBegins, Uses
    <2>2. ArchiveStartNames(i)
      BY <1>r, ArchiveStartName
    <2>3. row'[i] = ArchiveStarted(i) /\ (j # i => row'[j] = row[j])
      BY <1>t, <2>1, Writes
    <2> QED
      BY <2>1, <2>2, <2>3, OtherStep
      DEF ArchiveStartNames, RowStep, WorkerMove, At, Working
  <1>8. ASSUME NEW i \in Item, IpcArchiveContinues(i) PROVE Goal
    <2>1. /\ worker' = worker /\ lock[i] = "ipc"
          /\ \/ row' = row
             \/ Write(i, Archived(row[i], copied[i])) /\ row[i].status = "archive_pending"
             \/ Write(i, RecordedFailure(row[i])) /\ Present(i)
      BY <1>8 DEF IpcArchiveContinues, ArchiveCopies, ArchivePersists, ArchiveFails
    <2>2. row[i].status \in {"archive_pending", "absent"}
      BY <1>r, <2>1 DEF ItemConsistent, Archiving
    <2>4. CASE Write(i, Archived(row[i], copied[i])) /\ row[i].status = "archive_pending"
      <3>1. /\ row'[i] = Archived(row[i], copied[i]) /\ (j # i => row'[j] = row[j])
            /\ SameName(row[i], row'[i]) /\ row'[i].status = "completed"
        BY <1>r, <1>t, <2>4, Writes, NameFields
      <3> QED
        BY <2>1, <2>4, <3>1, OtherStep DEF RowStep, WorkerMove, At, Working
    <2>5. CASE Write(i, RecordedFailure(row[i])) /\ Present(i)
      <3>1. /\ row'[i] = RecordedFailure(row[i]) /\ (j # i => row'[j] = row[j])
            /\ SameName(row[i], row'[i]) /\ row'[i].status = "failed"
        BY <1>r, <1>t, <2>5, Writes, NameFields
      <3> QED
        BY <2>1, <2>2, <2>5, <3>1, OtherStep DEF RowStep, WorkerMove, At, Working, Present
    <2> QED
      BY <1>s, <2>1, <2>4, <2>5
  <1>9. ASSUME NEW i \in Item, ResetPreview(i) \/ ResetExecute(i) \/ ResetDiscards(i) \/ Fault(i)
        PROVE  Goal
    <2>1. row' = row /\ worker'.pc = worker.pc /\ worker'.item = worker.item
      BY <1>9, <1>t DEF ResetPreview, ResetExecute, ResetDiscards, Fault, SourceChanges, TypeOK
    <2> QED
      BY <2>1 DEF RowStep, WorkerMove, SameName, At, Working
  <1>10. ASSUME NEW i \in Item, ResetClaims(i) \/ ResetFails(i) \/ RetryFallsDue(i) PROVE Goal
    <2> DEFINE p == [row[i] EXCEPT !.owner = TRUE]
               q == [row[i] EXCEPT !.owner = FALSE]
               d == [row[i] EXCEPT !.due = TRUE]
    <2>1. /\ SameName(row[i], p) /\ p.status = row[i].status /\ p.stage = row[i].stage
          /\ SameName(row[i], q) /\ q.status = row[i].status /\ q.stage = row[i].stage
          /\ SameName(row[i], d) /\ d.status = row[i].status /\ d.stage = row[i].stage
      BY <1>r DEF SameName, Row
    <2>2. worker' = worker /\ (row' = row \/ Write(i, p) \/ Write(i, q) \/ Write(i, d))
      BY <1>10 DEF ResetClaims, ResetFails, RetryFallsDue
    <2> HIDE DEF p, q, d
    <2> QED
      BY <1>c, <1>s, <2>1, <2>2
  <1>11. ASSUME NEW i \in Item, ResetCommits(i) PROVE Goal
    BY <1>11, <1>c, <1>f DEF ResetCommits
  <1>12. CASE DeleteProject
    <2>1. row'[j].status = "absent" /\ worker' = worker
      BY <1>12, <1>f DEF DeleteProject
    <2> QED
      BY <2>1 DEF RowStep, WorkerMove, At
  <1>13. CASE Restart
    <2> DEFINE q == IF row[j].status = "processing" THEN MarkedFailed(row[j]) ELSE row[j]
    <2>1. /\ q \in Row
          /\ \/ q.status = "failed" /\ q.stage = "processing"
             \/ q = row[j] /\ q.status # "processing"
      BY SMTT(30), <1>r, FailureTypes, NameFields
    <2>2. row'[j] = [q EXCEPT !.owner = FALSE] /\ worker'.pc = "idle"
      BY <1>13 DEF Restart, Idle
    <2> HIDE DEF q
    <2>3. /\ row'[j].status = q.status /\ row'[j].stage = q.stage /\ SameName(q, row'[j])
      BY <2>1, <2>2 DEF Row, SameName
    <2> QED
      BY <2>1, <2>2, <2>3 DEF RowStep, WorkerMove, At
  <1>14. CASE UNCHANGED vars
    BY <1>14, <1>s DEF vars
  <1> QED
    BY <1>1, <1>2, <1>3, <1>4, <1>5, <1>6, <1>7, <1>8, <1>9, <1>10, <1>11, <1>12, <1>13, <1>14
    DEF Next, Command, LockedStep

\* Only the archive command takes the lock for a command that archives.
LEMMA NobodyElseArchives ==
    ASSUME TypeOK, [Next]_vars, "archive" \notin Ops, NEW j \in Item, lock[j] # "ipc"
    PROVE  lock'[j] # "ipc"
  <1>k. ASSUME NEW i \in Item, NEW who \in {"free", "worker", "reset"},
               lock' = [lock EXCEPT ![i] = who]
        PROVE  lock'[j] # "ipc"
    BY <1>k DEF TypeOK
  <1>1. CASE WorkerStep
    <2>1. \/ lock' = lock
          \/ \E i \in Item, who \in {"free", "worker"} : lock' = [lock EXCEPT ![i] = who]
      BY <1>1
      DEF WorkerStep, StartCycle, SweepEnds, PickArchive, QueueEmpty, SweepItem,
          ClaimNextQueued, CheckSource, ValidateClaimed, EngineReads, CompleteProcessing,
          CompleteWithoutEngine, ProcessingFails, WorkerArchiveBegins, ArchiveBegins,
          WorkerCopies, WorkerPersists, ArchivePersists, WorkerArchiveFails, ArchiveFails,
          ScheduleArchiveRetry, PurgeUnarchived, PrelabelBegins, PrelabelEnds
    <2> QED
      BY <1>k, <2>1
  <1>2. ASSUME NEW i \in Item, Command(i) \/ RetryFallsDue(i) \/ Fault(i) PROVE lock'[j] # "ipc"
    <2>1. lock' = lock \/ lock' = [lock EXCEPT ![i] = "reset"]
      BY <1>2
      DEF Command, RegisterCapture, RequeueCompleted, RetryCapture, LabelCapture,
          RelabelCapture, IpcArchiveBegins, Uses, DeleteCapture, ResetPreview, ResetExecute,
          ResetDiscards, RetryFallsDue, Fault, SourceChanges
    <2> QED
      BY <1>k, <2>1
  <1>3. ASSUME NEW i \in Item, LockedStep(i) PROVE lock'[j] # "ipc"
    <2>1. lock' = lock \/ lock' = [lock EXCEPT ![i] = "free"]
      BY <1>3
      DEF LockedStep, IpcArchiveContinues, ArchiveCopies, ArchivePersists, ArchiveFails,
          ResetClaims, ResetCommits, ResetFails
    <2> QED
      BY <1>k, <2>1
  <1>4. CASE DeleteProject \/ Restart \/ UNCHANGED vars
    BY <1>4 DEF DeleteProject, Restart, vars
  <1> QED
    BY <1>1, <1>2, <1>3, <1>4 DEF Next

\* No source vanishes where that fault is not explored.
LEMMA SourcesStay ==
    ASSUME TypeOK, [Next]_vars, "missing" \notin Ops, \A i \in Item : source[i] # "none"
    PROVE  \A i \in Item : source'[i] # "none"
  <1>1. CASE source' = source
    BY <1>1
  <1>2. ASSUME NEW i \in Item, Fault(i) PROVE \A k \in Item : source'[k] # "none"
    BY <1>2 DEF Fault, SourceChanges, Uses, TypeOK
  <1>3. CASE WorkerStep
    BY <1>1, <1>3
    DEF WorkerStep, StartCycle, SweepEnds, PickArchive, QueueEmpty, SweepItem,
        ClaimNextQueued, CheckSource, ValidateClaimed, EngineReads, CompleteProcessing,
        CompleteWithoutEngine, ProcessingFails, WorkerArchiveBegins, WorkerCopies,
        WorkerPersists, WorkerArchiveFails, ScheduleArchiveRetry, PurgeUnarchived,
        PrelabelBegins, PrelabelEnds
  <1>4. ASSUME NEW i \in Item, Command(i) \/ RetryFallsDue(i) \/ LockedStep(i)
        PROVE  source' = source
    BY <1>4
    DEF Command, RegisterCapture, RequeueCompleted, RetryCapture, LabelCapture,
        RelabelCapture, IpcArchiveBegins, DeleteCapture, ResetPreview, ResetExecute,
        ResetDiscards, RetryFallsDue, LockedStep, IpcArchiveContinues, ResetClaims,
        ResetCommits, ResetFails
  <1>5. CASE DeleteProject \/ Restart \/ UNCHANGED vars
    BY <1>1, <1>5 DEF DeleteProject, Restart, vars
  <1> QED
    BY <1>1, <1>2, <1>3, <1>4, <1>5 DEF Next

\* recover_interrupted_processing is needed after a crash only: while no source
\* vanishes, whatever users, resets, deletions and restarts do, a row in
\* 'processing' is the one the live worker is processing.
THEOREM ProcessingIsOwned ==
    ASSUME "missing" \notin Ops
    PROVE  Spec => []ProcessingOwned
  <1> DEFINE Owned == ProcessingOwned /\ \A i \in Item : source[i] # "none"
  <1>1. Init => Owned
    BY DEF Init, NoRow, NewRow, ProcessingOwned
  <1>2. Consistent /\ Owned /\ [Next]_vars => Owned'
    <2> SUFFICES ASSUME Consistent, Owned, [Next]_vars PROVE Owned'
      OBVIOUS
    <2>1. \A i \in Item : source'[i] # "none"
      BY SourcesStay DEF Consistent
    <2>2. ASSUME NEW i \in Item, row'[i].status = "processing" PROVE Working(i)'
      <3>1. RowStep(i) /\ WorkerMove(i)
        BY StepTrace
      <3> QED
        BY <2>2, <3>1 DEF RowStep, WorkerMove, ProcessingOwned
    <2> QED
      BY <2>1, <2>2 DEF ProcessingOwned
  <1>3. Owned => ProcessingOwned
    OBVIOUS
  <1> HIDE DEF Owned
  <1> QED
    BY <1>1, <1>2, <1>3, PipelineConsistent, PTL DEF Spec

\* Without the archive_capture command, which no page calls, a person is archived
\* with the name of its current character on it, through every relabelling, retry,
\* reset and crash.
THEOREM ArchivedUnderOwnName ==
    ASSUME "archive" \notin Ops
    PROVE  Spec => []AnnotationNamesCharacter
  <1>1. Init => NamesConsistent
    BY DEF Init, NoRow, NewRow, Idle, NamesConsistent, At, NameRight
  <1>2. Consistent /\ NamesConsistent /\ [Next]_vars => NamesConsistent'
    <2> SUFFICES ASSUME Consistent, NamesConsistent, [Next]_vars, NEW i \in Item
                 PROVE  /\ \/ row'[i].status \in {"archive_pending", "completed"}
                           \/ /\ row'[i].status = "failed"
                              /\ row'[i].stage = "archive" \/ At("schedule", i)'
                           => NameRight(row'[i])
                        /\ At("archive", i)' => row'[i].status # "failed"
                        /\ lock'[i] # "ipc"
      BY DEF NamesConsistent
    <2>1. lock'[i] # "ipc"
      BY NobodyElseArchives DEF Consistent, NamesConsistent
    <2>2. RowStep(i) /\ WorkerMove(i)
      BY StepTrace
    <2>3. ItemConsistent(i)
      BY DEF Consistent
    <2>4. SameName(row[i], row'[i]) /\ NameRight(row[i]) => NameRight(row'[i])
      BY DEF SameName, NameRight
    <2>5. At("archive", i)' => row'[i].status # "failed"
      BY <2>2 DEF RowStep, WorkerMove, NamesConsistent, At
    <2>6. At("schedule", i)' /\ row'[i].status = "failed" => NameRight(row'[i])
      <3> SUFFICES ASSUME At("schedule", i)', row'[i].status = "failed"
                   PROVE  NameRight(row'[i])
        OBVIOUS
      <3>1. At("copy", i) => row[i].status \in {"archive_pending", "absent"}
        BY <2>3 DEF ItemConsistent, Archiving, At
      <3> QED
        BY <2>2, <2>4, <3>1 DEF RowStep, WorkerMove, NamesConsistent, At
    <2>7. row'[i].status \in {"archive_pending", "completed"} => NameRight(row'[i])
      BY <2>2, <2>4 DEF RowStep, NamesConsistent
    <2>8. row'[i].status = "failed" /\ row'[i].stage = "archive" => NameRight(row'[i])
      BY <2>2, <2>4 DEF RowStep, NamesConsistent
    <2> QED
      BY <2>1, <2>5, <2>6, <2>7, <2>8
  <1>3. NamesConsistent => AnnotationNamesCharacter
    BY DEF NamesConsistent, AnnotationNamesCharacter, NameRight
  <1> QED
    BY <1>1, <1>2, <1>3, PipelineConsistent, PTL DEF Spec
==============================================================================

----------------------- MODULE ArchivePromotionProofs -----------------------
(* Proofs about the two places where files are replaced by renames: the     *)
(* archive directory (ArchivePromotion) with the pictures put there         *)
(* (ArchiveOutput), and the restored database (DatabaseRestore).  They hold *)
(* for every value of the constants.                                        *)
EXTENDS ArchivePromotion, ArchiveOutput, DatabaseRestore, TLAPS

-----------------------------------------------------------------------------
(* Paths and the records that hold them.                                   *)

\* A rendered name and its repaired form are paths of the same slot.
LEMMA RenderedPath ==
    ASSUME NEW i \in Item, NEW s \in Slot, NEW p \in Rendered(s)
    PROVE  /\ p \in Path /\ p[1] = s
           /\ RepairDestination(i, p) \in Path /\ RepairDestination(i, p)[1] = s
  <1>1. PICK n \in Name : p = <<s, n, None>>
    BY DEF Rendered
  <1>2. p \in Path /\ p[1] = s
    BY <1>1 DEF Path
  <1>3. Repaired(i, p) \in Path /\ Repaired(i, p)[1] = s
    BY <1>1 DEF Repaired, Path
  <1> QED
    BY <1>2, <1>3 DEF RepairDestination

\* Putting an output of a slot at a path of that slot.
LEMMA PlacedType ==
    ASSUME NEW f \in Places, NEW s \in Slot, NEW p \in Path, p[1] = s
    PROVE  /\ [f EXCEPT ![s] = p] \in Places
           /\ [f EXCEPT ![s] = p][s] = p
           /\ \A t \in Slot \ {s} : [f EXCEPT ![s] = p][t] = f[t]
  BY DEF Places

\* A place is a path of its slot, so two slots never share a path.
LEMMA PlacesApart ==
    ASSUME NEW f \in Places
    PROVE  /\ Targets(f) \subseteq Path \cup {None}
           /\ \A s \in Slot : f[s] \in Path \cup {None}
           /\ \A s \in Slot : f[s] # None => f[s] \in Path /\ f[s][1] = s
  BY DEF Places, Targets

\* Nothing placed.
LEMMA NowhereType == Nowhere \in Places /\ \A s \in Slot : Nowhere[s] = None
  BY DEF Nowhere, Places

LEMMA NoJobType ==
    /\ NoJob \in Job /\ NoJob.pc = "idle" /\ NoJob.placed = Nowhere
    /\ NoDeletion \in Deletion /\ NoDeletion.pc = "idle"
  BY NowhereType DEF NoJob, NoDeletion, Job, Deletion, Slot, Bytes

-----------------------------------------------------------------------------
(* Init.                                                                   *)

\* The initial state satisfies the inductive invariant.
LEMMA InitGuarded == Init => Guarded
  <1> SUFFICES ASSUME Init PROVE Guarded
    OBVIOUS
  <1>1. TypeOK
    <2>1. files \in [Path -> Bytes]
      <3>1. ASSUME NEW p \in Path
            PROVE  (IF \E c \in Content : ArchivedAs(p, c)
                    THEN CHOOSE c \in Content : ArchivedAs(p, c)
                    ELSE None) \in Bytes
        BY DEF Bytes
      <3> QED
        BY <3>1 DEF Init
    <2> QED
      BY <2>1, NoJobType, MaxOpsAssumption DEF Init, TypeOK, Bytes
  <1>2. Exclusive
    BY NoJobType DEF Init, Exclusive
  <1>3. ASSUME NEW i \in Item
        PROVE  /\ JobHoldsRow(i) /\ TargetKnown(i) /\ RemovalChecked(i)
               /\ OutputsPlaced(i) /\ PlacedInOrder(i)
    <2>1. job[i] = NoJob /\ del[i] = NoDeletion /\ row[i].status # "gone"
      BY DEF Init, FreshRow, OldRow
    <2> QED
      BY <2>1, NoJobType, NowhereType
      DEF JobHoldsRow, TargetKnown, RemovalChecked, OutputsPlaced, PlacedInOrder,
          Copying, Placing, Retiring
  <1>4. CompletedIntact
    BY NowhereType DEF Init, CompletedIntact, FreshRow, OldRow, Recorded, TypeOK, Row, Places
  <1> QED
    BY <1>1, <1>2, <1>3, <1>4 DEF Guarded

-----------------------------------------------------------------------------
(* Steps.  First what is common to them.                                   *)

\* A capture with no archive running satisfies what is said of jobs.
LEMMA IdleAfter ==
    ASSUME NEW k \in Item, job'[k].pc = "idle", job'[k].placed = Nowhere
    PROVE  TargetKnown(k)' /\ OutputsPlaced(k)' /\ PlacedInOrder(k)'
  BY NowhereType
  DEF TargetKnown, OutputsPlaced, PlacedInOrder, Copying, Retiring, New

\* While i has a job, the others have none, and i is not being deleted.
LEMMA OthersIdle ==
    ASSUME Guarded, NEW i \in Item, job[i].pc # "idle"
    PROVE  /\ del[i].pc = "idle"
           /\ \A k \in Item \ {i} : job[k].pc = "idle" /\ job[k].placed = Nowhere
  BY DEF Guarded, Exclusive, JobHoldsRow

\* A step that only moves the job of i.
LEMMA JobMoves ==
    ASSUME Guarded, NEW i \in Item, NEW j \in Job,
           job' = [job EXCEPT ![i] = j],
           UNCHANGED <<files, row, prints, del, disturbed, budget>>,
           job[i].pc # "idle" \/ \A k \in Item : job[k].pc = "idle",
           del[i].pc = "idle",
           JobHoldsRow(i)', TargetKnown(i)', OutputsPlaced(i)', PlacedInOrder(i)'
    PROVE  Guarded'
  <1>1. TypeOK'
    BY DEF Guarded, TypeOK
  <1>2. \A k \in Item \ {i} : job'[k] = job[k] /\ job[k].pc = "idle"
                            /\ job[k].placed = Nowhere
    BY OthersIdle DEF Guarded, TypeOK, JobHoldsRow
  <1>3. Exclusive'
    BY <1>2 DEF Guarded, Exclusive
  <1>4. ASSUME NEW k \in Item
        PROVE  /\ JobHoldsRow(k)' /\ TargetKnown(k)' /\ RemovalChecked(k)'
               /\ OutputsPlaced(k)' /\ PlacedInOrder(k)'
    <2>1. RemovalChecked(k)'
      BY DEF Guarded, RemovalChecked, Deletable
    <2>2. CASE k = i
      BY <2>1, <2>2
    <2>3. CASE k # i
      BY <2>1, <2>3, <1>2, IdleAfter
      DEF Guarded, JobHoldsRow, Placing, Retiring, Copying
    <2> QED
      BY <2>2, <2>3
  <1>5. CompletedIntact'
    BY DEF Guarded, CompletedIntact, Recorded
  <1> QED
    BY <1>1, <1>3, <1>4, <1>5 DEF Guarded

\* An archive begins.
LEMMA BeginsGuarded ==
    ASSUME Guarded, Calm, NEW i \in Item, ArchiveBegins(i)
    PROVE  Guarded'
  <1> DEFINE j == [NoJob EXCEPT !.pc = "resolve", !.was = row[i].dest]
  <1>1. row[i] \in Row
    BY DEF Guarded, TypeOK
  <1>2. j \in Job
    BY <1>1, NoJobType DEF Job, Row
  <1>3. /\ job'[i].pc = "resolve" /\ job'[i].slot = "main"
        /\ job'[i].placed = Nowhere /\ job'[i].was = row[i].dest
    BY DEF ArchiveBegins, Guarded, TypeOK, NoJob
  <1>4. JobHoldsRow(i)'
    BY <1>3 DEF JobHoldsRow, ArchiveBegins, Guarded, Placing, Copying, Retiring
  <1>5. TargetKnown(i)' /\ OutputsPlaced(i)' /\ PlacedInOrder(i)'
    BY <1>3, NowhereType
    DEF TargetKnown, OutputsPlaced, PlacedInOrder, Copying, Retiring, Slot
  <1> QED
    BY <1>2, <1>4, <1>5, JobMoves DEF ArchiveBegins, Calm, Unlocked

\* A target is chosen.
LEMMA ResolvesGuarded ==
    ASSUME Guarded, NEW i \in Item, Resolves(i)
    PROVE  Guarded'
  <1>1. job[i] \in Job /\ prints[i] \in [Path -> Bytes] /\ job[i].slot \in Slot
    BY DEF Guarded, TypeOK, Job
  <1>2. PICK p \in Path, h \in Bytes :
           /\ p[1] = job[i].slot /\ h = PreviousHash(i, p)
           /\ job' = [job EXCEPT ![i].pc = "check", ![i].target = p, ![i].before = h]
    <2>1. PICK rendered \in Rendered(job[i].slot) :
             job' = [job EXCEPT ![i].pc = "check",
                                ![i].target = RepairDestination(i, rendered),
                                ![i].before = PreviousHash(i, RepairDestination(i, rendered))]
      BY DEF Resolves
    <2>2. /\ RepairDestination(i, rendered) \in Path
          /\ RepairDestination(i, rendered)[1] = job[i].slot
      BY <1>1, RenderedPath
    <2>3. PreviousHash(i, RepairDestination(i, rendered)) \in Bytes
      BY <1>1, <2>2 DEF PreviousHash, Bytes
    <2> QED
      BY <2>1, <2>2, <2>3
  <1> DEFINE j == [job[i] EXCEPT !.pc = "check", !.target = p, !.before = h]
  <1>3. j \in Job /\ job' = [job EXCEPT ![i] = j]
    BY <1>1, <1>2 DEF Job, Guarded, TypeOK
  <1>4. /\ job'[i].pc = "check" /\ job'[i].target = p /\ job'[i].slot = job[i].slot
        /\ job'[i].before = h /\ job'[i].was = job[i].was
        /\ job'[i].placed = job[i].placed
    BY <1>1, <1>2 DEF Job, Guarded, TypeOK
  <1>5. UNCHANGED <<files, row, prints, del, disturbed, budget>> /\ job[i].pc = "resolve"
    BY DEF Resolves
  <1>6. JobHoldsRow(i)'
    BY <1>4, <1>5 DEF JobHoldsRow, Guarded, Placing, Copying, Retiring
  <1>7. TargetKnown(i)'
    <2>1. h = None \/ Owns(i, p, h)'
      BY <1>2, <1>4, <1>5 DEF Owns, Shared, PreviousHash
    <2> QED
      BY <2>1, <1>2, <1>4 DEF TargetKnown, Owns, Shared
  <1>8. OutputsPlaced(i)' /\ PlacedInOrder(i)'
    BY <1>4, <1>5 DEF OutputsPlaced, PlacedInOrder, Guarded, Copying, Retiring
  <1> QED
    BY <1>3, <1>5, <1>6, <1>7, <1>8, JobMoves, OthersIdle

\* A job moves on without changing anything but its position.
LEMMA PcMoves ==
    ASSUME Guarded, NEW i \in Item, NEW q \in {"recheck", "promote", "verify", "record", "recycle"},
           job[i].pc # "idle", Step(i, q)
    PROVE  /\ [job[i] EXCEPT !.pc = q] \in Job
           /\ job' = [job EXCEPT ![i] = [job[i] EXCEPT !.pc = q]]
           /\ job'[i].pc = q
           /\ job'[i].slot = job[i].slot /\ job'[i].target = job[i].target
           /\ job'[i].before = job[i].before /\ job'[i].was = job[i].was
           /\ job'[i].placed = job[i].placed
  BY DEF Guarded, TypeOK, Job, Step

\* The two looks at the target.
LEMMA ChecksGuarded ==
    ASSUME Guarded, NEW i \in Item, Checks(i) \/ Rechecks(i)
    PROVE  Guarded'
  <1>1. PICK from \in {"check", "recheck"}, to \in {"recheck", "promote"} :
           ChecksTarget(i, from, to)
    BY DEF Checks, Rechecks
  <1>2. PICK q \in {to, "record"} :
           /\ Step(i, q)
           /\ q = "record" => files[job[i].target] = New(i)
           /\ q # "record" => files[job[i].target] \in {None, job[i].before}
    BY <1>1 DEF ChecksTarget
  <1>3. job[i].pc = from /\ UNCHANGED <<files, row, prints, del, disturbed, budget>>
    BY <1>1 DEF ChecksTarget
  <1>4. /\ [job[i] EXCEPT !.pc = q] \in Job
        /\ job' = [job EXCEPT ![i] = [job[i] EXCEPT !.pc = q]]
        /\ job'[i].pc = q
        /\ job'[i].slot = job[i].slot /\ job'[i].target = job[i].target
        /\ job'[i].before = job[i].before /\ job'[i].was = job[i].was
        /\ job'[i].placed = job[i].placed
    <2>1. q \in {"recheck", "promote", "verify", "record", "recycle"} /\ job[i].pc # "idle"
      BY <1>3
    <2> QED
      BY <1>2, <2>1, PcMoves
  <1>5. JobHoldsRow(i)'
    BY <1>3, <1>4 DEF JobHoldsRow, Guarded, Placing, Copying, Retiring
  <1>6. TargetKnown(i)'
    BY <1>2, <1>3, <1>4 DEF TargetKnown, Owns, Shared, Guarded, Copying
  <1>7. OutputsPlaced(i)'
    BY <1>2, <1>3, <1>4 DEF OutputsPlaced, Guarded, New
  <1>8. PlacedInOrder(i)'
    BY <1>3, <1>4 DEF PlacedInOrder, Guarded, Copying, Retiring
  <1> QED
    BY <1>3, <1>4, <1>5, <1>6, <1>7, <1>8, JobMoves, OthersIdle

\* The rename is verified.
LEMMA VerifiesGuarded ==
    ASSUME Guarded, NEW i \in Item, Verifies(i)
    PROVE  Guarded'
  <1>1. /\ job[i].pc = "verify" /\ files[job[i].target] = New(i) /\ Step(i, "record")
        /\ UNCHANGED <<files, row, prints, del, disturbed, budget>>
    BY DEF Verifies
  <1>2. /\ [job[i] EXCEPT !.pc = "record"] \in Job
        /\ job' = [job EXCEPT ![i] = [job[i] EXCEPT !.pc = "record"]]
        /\ job'[i].pc = "record"
        /\ job'[i].slot = job[i].slot /\ job'[i].target = job[i].target
        /\ job'[i].placed = job[i].placed /\ job'[i].was = job[i].was
    BY <1>1, PcMoves
  <1>3. JobHoldsRow(i)'
    BY <1>1, <1>2 DEF JobHoldsRow, Guarded, Placing, Copying, Retiring
  <1>4. TargetKnown(i)'
    BY <1>1, <1>2 DEF TargetKnown, Guarded, Copying
  <1>5. OutputsPlaced(i)' /\ PlacedInOrder(i)'
    BY <1>1, <1>2 DEF OutputsPlaced, PlacedInOrder, Guarded, New, Copying, Retiring
  <1> QED
    BY <1>1, <1>2, <1>3, <1>4, <1>5, JobMoves, OthersIdle

\* Moving on to the next old target, or to the end.
LEMMA RetiredMoves ==
    ASSUME Guarded, NEW i \in Item, job[i].pc \in Retiring, RetiredNext(i)
    PROVE  \E j \in Job :
              /\ job' = [job EXCEPT ![i] = j] /\ job'[i] = j
              /\ \/ j = NoJob
                 \/ /\ j.pc = "retire" /\ j.was = job[i].was
                    /\ j.placed = job[i].placed
  <1> DEFINE j == IF job[i].slot = "main"
                  THEN [job[i] EXCEPT !.slot = "avatar", !.pc = "retire"] ELSE NoJob
  <1>1. j \in Job
    BY NoJobType DEF Guarded, TypeOK, Job, Slot
  <1>2. job' = [job EXCEPT ![i] = j] /\ job'[i] = j
    BY DEF RetiredNext, Guarded, TypeOK
  <1>3. j = NoJob \/ (j.pc = "retire" /\ j.was = job[i].was /\ j.placed = job[i].placed)
    BY DEF Guarded, TypeOK, Job
  <1> HIDE DEF j
  <1> QED
    BY <1>1, <1>2, <1>3

\* Is the old target to be retired?
LEMMA RetiresGuarded ==
    ASSUME Guarded, NEW i \in Item, Retires(i)
    PROVE  Guarded'
  <1> DEFINE old == job[i].was[job[i].slot]
  <1>1. /\ job[i].pc = "retire"
        /\ UNCHANGED <<files, row, prints, del, disturbed, budget>>
        /\ IF Retirable(i, old) THEN Step(i, "recycle") ELSE RetiredNext(i)
    BY DEF Retires
  <1>2. CASE Retirable(i, old)
    <2>1. /\ [job[i] EXCEPT !.pc = "recycle"] \in Job
          /\ job' = [job EXCEPT ![i] = [job[i] EXCEPT !.pc = "recycle"]]
          /\ job'[i].pc = "recycle"
          /\ job'[i].slot = job[i].slot
          /\ job'[i].placed = job[i].placed /\ job'[i].was = job[i].was
      BY <1>1, <1>2, PcMoves
    <2>2. JobHoldsRow(i)'
      BY <1>1, <2>1 DEF JobHoldsRow, Guarded, Placing, Copying, Retiring
    <2>3. TargetKnown(i)'
      <3>1. old \in Path
        BY <1>2, PlacesApart DEF Retirable, Guarded, TypeOK, Job
      <3>2. old # job[i].placed[job[i].slot] /\ Owns(i, old, files[old])
        BY <1>2 DEF Retirable, PreviousHash, Owns
      <3>3. /\ job'[i].was[job'[i].slot] = old
            /\ old # job'[i].placed[job'[i].slot]
            /\ old \in Targets(job'[i].was) /\ ~Shared(i, old)
            /\ files'[old] = prints'[i][old] \/ row'[i].status = "gone"
        BY <1>1, <2>1, <3>2 DEF Owns
      <3> QED
        BY <1>1, <2>1, <3>1, <3>3 DEF TargetKnown, Copying, Owns, Shared
    <2>4. OutputsPlaced(i)' /\ PlacedInOrder(i)'
      BY <1>1, <2>1 DEF OutputsPlaced, PlacedInOrder, Guarded, Copying, Retiring
    <2> QED
      BY <1>1, <2>1, <2>2, <2>3, <2>4, JobMoves, OthersIdle
  <1>3. CASE ~Retirable(i, old)
    <2>1. PICK j \in Job :
             /\ job' = [job EXCEPT ![i] = j] /\ job'[i] = j
             /\ \/ j = NoJob
                \/ /\ j.pc = "retire" /\ j.was = job[i].was
                   /\ j.placed = job[i].placed
      BY <1>1, <1>3, RetiredMoves DEF Retiring
    <2>2. JobHoldsRow(i)'
      BY <1>1, <2>1, NoJobType DEF JobHoldsRow, Guarded, Placing, Copying, Retiring
    <2>3. TargetKnown(i)' /\ OutputsPlaced(i)' /\ PlacedInOrder(i)'
      <3>1. CASE j = NoJob
        BY <2>1, <3>1, NoJobType, IdleAfter
      <3>2. CASE j.pc = "retire" /\ j.was = job[i].was /\ j.placed = job[i].placed
        BY <1>1, <2>1, <3>2
        DEF TargetKnown, OutputsPlaced, PlacedInOrder, Guarded, Copying, Retiring
      <3> QED
        BY <2>1, <3>1, <3>2
    <2> QED
      BY <1>1, <2>1, <2>2, <2>3, JobMoves, OthersIdle
  <1> QED
    BY <1>2, <1>3

\* What a step of i's archive leaves as it was for the others.
LEMMA OthersKept ==
    ASSUME Guarded, NEW i \in Item, job[i].pc # "idle", NEW j,
           job' = [job EXCEPT ![i] = j], NEW k \in Item, k # i
    PROVE  /\ job'[k] = job[k] /\ job'[k].pc = "idle" /\ job'[k].placed = Nowhere
           /\ TargetKnown(k)' /\ OutputsPlaced(k)' /\ PlacedInOrder(k)'
  <1>1. job'[k] = job[k] /\ job[k].pc = "idle" /\ job[k].placed = Nowhere
    BY OthersIdle DEF Guarded, TypeOK
  <1> QED
    BY <1>1, IdleAfter

\* Running exclusively is kept by a step of a running archive.
LEMMA ExclusiveKept ==
    ASSUME Guarded, NEW i \in Item, job[i].pc # "idle", NEW j,
           job' = [job EXCEPT ![i] = j], del' = del
    PROVE  Exclusive'
  BY OthersIdle DEF Guarded, TypeOK, Exclusive

\* No other row points at what i owns.
LEMMA OwnedAlone ==
    ASSUME Guarded, NEW i \in Item, NEW p, NEW c, Owns(i, p, c),
           NEW k \in Item, k # i, NEW s \in Slot
    PROVE  row[k].dest[s] # p
  BY DEF Owns, Shared, Targets

\* The rename: over nothing, or over what i owns.
LEMMA RenamesGuarded ==
    ASSUME Guarded, NEW i \in Item, Promotes(i),
           files' = [files EXCEPT ![job[i].target] = New(i)]
    PROVE  Guarded'
  <1> DEFINE p == job[i].target
  <1>1. /\ job[i].pc = "promote" /\ files' = [files EXCEPT ![p] = New(i)]
        /\ Step(i, "verify") /\ UNCHANGED <<row, prints, del, disturbed, budget>>
    BY DEF Promotes
  <1>2. job[i] \in Job /\ row[i] \in Row /\ job[i].slot \in Slot
    BY DEF Guarded, TypeOK, Job
  <1>3. p \in Path /\ p[1] = job[i].slot /\ New(i) \in Bytes
    BY <1>1, <1>2, OutputsAssumption DEF Guarded, TargetKnown, Copying, New, Row
  <1>4. job' = [job EXCEPT ![i] = [job[i] EXCEPT !.pc = "verify"]]
    BY DEF Promotes, Step, Guarded, TypeOK
  <1>5. /\ job'[i].pc = "verify"
        /\ job'[i].slot = job[i].slot /\ job'[i].target = p
        /\ job'[i].was = job[i].was /\ job'[i].placed = job[i].placed
    BY <1>2, <1>4 DEF Guarded, TypeOK, Job
  <1>6. files[p] = None \/ Owns(i, p, files[p])
    BY <1>1 DEF Guarded, TargetKnown
  <1>7. TypeOK'
    BY SMTT(30), <1>1, <1>2, <1>3, <1>4 DEF Guarded, TypeOK, Job
  <1>8. Exclusive'
    BY <1>1, <1>4, ExclusiveKept
  <1>9. ASSUME NEW k \in Item, NEW s \in Slot, row[k].dest[s] = p,
               row[k].status # "gone", k # i
        PROVE  files[p] = None
    BY SMTT(30), <1>6, <1>9, OwnedAlone
  <1>10. ASSUME NEW k \in Item
         PROVE  RemovalChecked(k)'
    <2> SUFFICES ASSUME del[k].pc = "remove"
                 PROVE  RemovalChecked(k)'
      BY <1>1 DEF RemovalChecked
    <2>1. k # i /\ del[k].slot \in Slot
      BY <1>1, OthersIdle DEF Guarded, TypeOK, Deletion
    <2>2. /\ row[k].dest[del[k].slot] \in Path
          /\ files[row[k].dest[del[k].slot]] # None
      BY DEF Guarded, RemovalChecked
    <2>3. row[k].status # "gone"
      BY <2>1, <2>2, NowhereType, NoneAssumption DEF Guarded, JobHoldsRow
    <2>4. row[k].dest[del[k].slot] # p
      BY <2>1, <2>2, <2>3, <1>9
    <2>5. files'[row[k].dest[del[k].slot]] = files[row[k].dest[del[k].slot]]
      BY <1>1, <2>2, <2>4 DEF Guarded, TypeOK
    <2> QED
      BY <1>1, <2>5 DEF Guarded, RemovalChecked, Deletable
  <1>11. JobHoldsRow(i)' /\ PlacedInOrder(i)'
    BY <1>1, <1>5 DEF JobHoldsRow, PlacedInOrder, Guarded, Placing, Copying, Retiring
  <1>12. TargetKnown(i)'
    BY <1>3, <1>5 DEF TargetKnown, Copying
  <1>13. OutputsPlaced(i)'
    <2>1. ASSUME NEW s \in Slot, job[i].placed[s] # None
          PROVE  job[i].placed[s] # p /\ job[i].placed[s] \in Path
      <3>1. s # job[i].slot
        BY <1>1, <2>1 DEF Guarded, PlacedInOrder, Copying, Slot
      <3> QED
        BY <1>2, <1>3, <2>1, <3>1, PlacesApart DEF Job
    <2>2. ASSUME NEW s \in Slot, job[i].placed[s] # None
          PROVE  files'[job[i].placed[s]] = files[job[i].placed[s]]
      BY <1>1, <2>1, <2>2 DEF Guarded, TypeOK
    <2> QED
      BY <1>1, <1>5, <2>2 DEF OutputsPlaced, Guarded
  <1>14. ASSUME NEW k \in Item
         PROVE  /\ JobHoldsRow(k)' /\ TargetKnown(k)' /\ RemovalChecked(k)'
                /\ OutputsPlaced(k)' /\ PlacedInOrder(k)'
    <2>1. CASE k = i
      BY <2>1, <1>10, <1>11, <1>12, <1>13
    <2>2. CASE k # i
      <3>1. job'[k] = job[k] /\ TargetKnown(k)' /\ OutputsPlaced(k)' /\ PlacedInOrder(k)'
        BY <1>1, <1>4, <2>2, OthersKept
      <3> QED
        BY <1>1, <1>10, <3>1 DEF JobHoldsRow, Guarded
    <2> QED
      BY <2>1, <2>2
  <1>15. CompletedIntact'
    <2> SUFFICES ASSUME NEW k \in Item, NEW s \in Slot, row[k].status = "completed",
                        row[k].dest[s] # None, Recorded(k, row[k].dest[s]),
                        row[k].dest[s] \notin disturbed
                 PROVE  files'[row[k].dest[s]] = prints[k][row[k].dest[s]]
      BY <1>1 DEF CompletedIntact, Guarded, Recorded
    <2>1. files[row[k].dest[s]] = prints[k][row[k].dest[s]]
      BY DEF CompletedIntact, Guarded
    <2>2. k # i
      BY <1>1 DEF Guarded, JobHoldsRow, Placing, Copying
    <2>3. row[k].dest[s] # p
      BY <2>1, <2>2, <1>9 DEF Recorded
    <2>4. row[k].dest[s] \in Path
      BY PlacesApart DEF Guarded, TypeOK, Row
    <2> QED
      BY <1>1, <2>1, <2>3, <2>4 DEF Guarded, TypeOK
  <1> QED
    BY <1>7, <1>8, <1>14, <1>15 DEF Guarded

\* The rename fails: only the position moves.
LEMMA PromotesGuarded ==
    ASSUME Guarded, NEW i \in Item, Promotes(i)
    PROVE  Guarded'
  <1> SUFFICES ASSUME UNCHANGED files
               PROVE  Guarded'
    BY RenamesGuarded DEF Promotes
  <1>1. /\ job[i].pc = "promote" /\ Step(i, "verify")
        /\ UNCHANGED <<files, row, prints, del, disturbed, budget>>
    BY DEF Promotes
  <1>2. /\ [job[i] EXCEPT !.pc = "verify"] \in Job
        /\ job' = [job EXCEPT ![i] = [job[i] EXCEPT !.pc = "verify"]]
        /\ job'[i].pc = "verify"
        /\ job'[i].slot = job[i].slot /\ job'[i].target = job[i].target
        /\ job'[i].placed = job[i].placed /\ job'[i].was = job[i].was
    BY <1>1, PcMoves
  <1>3. JobHoldsRow(i)'
    BY <1>1, <1>2 DEF JobHoldsRow, Guarded, Placing, Copying, Retiring
  <1>4. TargetKnown(i)'
    BY <1>1, <1>2 DEF TargetKnown, Guarded, Copying
  <1>5. OutputsPlaced(i)' /\ PlacedInOrder(i)'
    BY <1>1, <1>2 DEF OutputsPlaced, PlacedInOrder, Guarded, New, Copying, Retiring
  <1> QED
    BY <1>1, <1>2, <1>3, <1>4, <1>5, JobMoves, OthersIdle

\* An old target is recycled, or stays.
LEMMA RecyclesGuarded ==
    ASSUME Guarded, NEW i \in Item, Recycles(i)
    PROVE  Guarded'
  <1> DEFINE p == job[i].was[job[i].slot]
  <1>1. /\ job[i].pc = "recycle" /\ RetiredNext(i)
        /\ UNCHANGED <<row, prints, del, disturbed, budget>>
        /\ files' = [files EXCEPT ![p] = None] \/ files' = files
    BY DEF Recycles
  <1>2. job[i] \in Job /\ row[i] \in Row /\ job[i].slot \in Slot
    BY DEF Guarded, TypeOK, Job
  <1>3. p \in Path /\ p # job[i].placed[job[i].slot]
    BY <1>1 DEF Guarded, TargetKnown
  <1>4. PICK j \in Job :
           /\ job' = [job EXCEPT ![i] = j] /\ job'[i] = j
           /\ \/ j = NoJob
              \/ /\ j.pc = "retire" /\ j.was = job[i].was
                 /\ j.placed = job[i].placed
    BY <1>1, RetiredMoves DEF Retiring
  <1>5. files[p] = None \/ Owns(i, p, files[p])
    BY <1>1 DEF Guarded, TargetKnown
  <1>6. TypeOK'
    <2>1. files' \in [Path -> Bytes]
      BY <1>1, <1>3 DEF Guarded, TypeOK, Bytes
    <2> QED
      BY <1>1, <1>4, <2>1 DEF Guarded, TypeOK
  <1>7. Exclusive'
    BY <1>1, <1>4, ExclusiveKept
  <1>8. ASSUME NEW q \in Path, q # p \/ files[p] = None
        PROVE  files'[q] = files[q]
    BY <1>1, <1>3, <1>8 DEF Guarded, TypeOK
  <1>9. ASSUME NEW k \in Item, NEW s \in Slot, k # i, row[k].dest[s] \in Path
        PROVE  files'[row[k].dest[s]] = files[row[k].dest[s]]
    BY SMTT(30), <1>5, <1>8, <1>9, OwnedAlone
  <1>10. ASSUME NEW k \in Item
         PROVE  RemovalChecked(k)'
    <2> SUFFICES ASSUME del[k].pc = "remove"
                 PROVE  RemovalChecked(k)'
      BY <1>1 DEF RemovalChecked
    <2>1. k # i /\ del[k].slot \in Slot
      BY <1>1, OthersIdle DEF Guarded, TypeOK, Deletion
    <2>2. row[k].dest[del[k].slot] \in Path
      BY DEF Guarded, RemovalChecked
    <2>3. files'[row[k].dest[del[k].slot]] = files[row[k].dest[del[k].slot]]
      BY <2>1, <2>2, <1>9
    <2> QED
      BY <1>1, <2>3 DEF Guarded, RemovalChecked, Deletable
  <1>11. ASSUME NEW s \in Slot, job[i].placed[s] # None
         PROVE  /\ job[i].placed[s] \in Path
                /\ files'[job[i].placed[s]] = files[job[i].placed[s]]
    <2>1. job[i].placed[s] \in Path /\ job[i].placed[s] # p
      BY <1>2, <1>3, <1>11, PlacesApart, NoneAssumption DEF Job
    <2> QED
      BY <2>1, <1>8
  <1>12. JobHoldsRow(i)'
    BY <1>1, <1>4, NoJobType DEF JobHoldsRow, Guarded, Placing, Copying, Retiring
  <1>13. TargetKnown(i)' /\ OutputsPlaced(i)' /\ PlacedInOrder(i)'
    <2>1. CASE j = NoJob
      BY <1>4, <2>1, NoJobType, IdleAfter
    <2>2. CASE j.pc = "retire" /\ j.was = job[i].was /\ j.placed = job[i].placed
      <3>1. TargetKnown(i)' /\ PlacedInOrder(i)'
        BY <1>1, <1>4, <2>2 DEF TargetKnown, PlacedInOrder, Guarded, Copying, Retiring
      <3>2. OutputsPlaced(i)'
        BY <1>1, <1>4, <2>2, <1>11 DEF OutputsPlaced, Guarded
      <3> QED
        BY <3>1, <3>2
    <2> QED
      BY <1>4, <2>1, <2>2
  <1>14. ASSUME NEW k \in Item
         PROVE  /\ JobHoldsRow(k)' /\ TargetKnown(k)' /\ RemovalChecked(k)'
                /\ OutputsPlaced(k)' /\ PlacedInOrder(k)'
    <2>1. CASE k = i
      BY <2>1, <1>10, <1>12, <1>13
    <2>2. CASE k # i
      <3>1. job'[k] = job[k] /\ TargetKnown(k)' /\ OutputsPlaced(k)' /\ PlacedInOrder(k)'
        BY <1>1, <1>4, <2>2, OthersKept
      <3> QED
        BY <1>1, <1>10, <3>1 DEF JobHoldsRow, Guarded
    <2> QED
      BY <2>1, <2>2
  <1>15. CompletedIntact'
    <2> SUFFICES ASSUME NEW k \in Item, NEW s \in Slot, row[k].status = "completed",
                        row[k].dest[s] # None
                 PROVE  files'[row[k].dest[s]] = files[row[k].dest[s]]
      BY <1>1 DEF CompletedIntact, Guarded, Recorded
    <2>1. row[k].dest[s] \in Path
      BY PlacesApart DEF Guarded, TypeOK, Row
    <2>2. CASE k = i
      <3>1. row[i].dest = job[i].placed
        BY <1>1, <2>2 DEF Guarded, JobHoldsRow, Retiring
      <3> QED
        BY <2>2, <3>1, <1>11
    <2> QED
      BY <2>1, <2>2, <1>9
  <1> QED
    BY <1>6, <1>7, <1>14, <1>15 DEF Guarded

\* An output's fingerprint is saved.
LEMMA RecordsGuarded ==
    ASSUME Guarded, NEW i \in Item, Records(i)
    PROVE  Guarded'
  <1> DEFINE p == job[i].target
             s0 == job[i].slot
             next == IF s0 = "main" /\ row[i].want.bytes["avatar"] # None
                     THEN "resolve" ELSE "persist"
             j == [job[i] EXCEPT !.placed[s0] = p, !.target = None, !.before = None,
                                 !.slot = "avatar", !.pc = next]
  <1>1. /\ job[i].pc = "record" /\ WriterFree /\ row[i].status # "gone"
        /\ prints' = [prints EXCEPT ![i][p] = New(i)]
        /\ UNCHANGED <<files, row, del, disturbed, budget>>
    BY DEF Records
  <1>2. job[i] \in Job /\ row[i] \in Row /\ s0 \in Slot
    BY DEF Guarded, TypeOK, Job
  <1>3. p \in Path /\ p[1] = s0
    BY <1>1 DEF Guarded, TargetKnown, Copying
  <1>4. New(i) \in Bytes /\ New(i) # None
    <2>1. row[i].want \in Outputs
      BY <1>2 DEF Row
    <2>2. s0 = "main" \/ row[i].want.bytes["avatar"] # None
      BY <1>1, <1>2 DEF Guarded, PlacedInOrder, Copying, Slot
    <2> QED
      BY <1>2, <2>1, <2>2, OutputsAssumption DEF New, Slot
  <1>5. job' = [job EXCEPT ![i] = j]
    BY <1>2 DEF Records, Guarded, TypeOK, Job
  <1>6. j \in Job
    <2>1. [job[i].placed EXCEPT ![s0] = p] \in Places
      BY <1>2, <1>3, PlacedType DEF Job
    <2> QED
      BY <1>2, <2>1 DEF Job, Slot, Bytes
  <1>7. /\ job'[i].pc = next /\ job'[i].slot = "avatar" /\ job'[i].was = job[i].was
        /\ job'[i].placed = [job[i].placed EXCEPT ![s0] = p]
    BY <1>2, <1>5 DEF Guarded, TypeOK, Job
  <1>8. /\ job'[i].placed[s0] = p
        /\ \A t \in Slot \ {s0} : job'[i].placed[t] = job[i].placed[t]
    BY <1>2, <1>3, <1>7, PlacedType DEF Job
  <1>9. TypeOK'
    <2>1. prints' \in [Item -> [Path -> Bytes]]
      BY <1>1, <1>3, <1>4 DEF Guarded, TypeOK
    <2> QED
      BY <1>1, <1>5, <1>6, <2>1 DEF Guarded, TypeOK
  <1>10. Exclusive'
    BY <1>1, <1>5, ExclusiveKept
  <1>11. \A k \in Item \ {i} : prints'[k] = prints[k]
    BY <1>1 DEF Guarded, TypeOK
  <1>12. \A q \in Path : prints'[i][q] = IF q = p THEN New(i) ELSE prints[i][q]
    BY <1>1, <1>3 DEF Guarded, TypeOK
  <1>13. JobHoldsRow(i)'
    BY <1>1, <1>7 DEF JobHoldsRow, Guarded, Placing, Copying, Retiring
  <1>14. TargetKnown(i)'
    BY <1>7 DEF TargetKnown, Copying
  <1>15. OutputsPlaced(i)'
    <2> SUFFICES ASSUME NEW t \in Slot, job'[i].placed[t] # None
                 PROVE  LET q == job'[i].placed[t]
                            c == row[i].want.bytes[t]
                        IN  /\ q \in disturbed \/ files[q] = c
                            /\ prints'[i][q] = c \/ row[i].status = "gone"
                            /\ c # None
      BY <1>1, <1>7 DEF OutputsPlaced
    <2>1. CASE t = s0
      <3>1. p \in disturbed \/ files[p] = New(i)
        BY <1>1 DEF Guarded, OutputsPlaced
      <3>2. prints'[i][p] = New(i)
        BY <1>3, <1>12
      <3> QED
        BY <1>4, <1>8, <2>1, <3>1, <3>2 DEF New
    <2>2. CASE t # s0
      <3>1. job'[i].placed[t] = job[i].placed[t]
        BY <1>8, <2>2
      <3>2. job[i].placed[t] \in Path /\ job[i].placed[t] # p
        BY <1>2, <1>3, <2>2, <3>1, PlacesApart, NoneAssumption DEF Job
      <3>3. prints'[i][job[i].placed[t]] = prints[i][job[i].placed[t]]
        BY <1>12, <3>2
      <3> QED
        BY <3>1, <3>3 DEF Guarded, OutputsPlaced
    <2> QED
      BY <2>1, <2>2
  <1>16. PlacedInOrder(i)'
    <2>1. job[i].placed["avatar"] = None
      BY <1>1 DEF Guarded, PlacedInOrder, Copying
    <2>2. p # None
      BY <1>3, NoneAssumption
    <2>3. CASE s0 = "main"
      BY <1>1, <1>7, <1>8, <2>1, <2>2, <2>3 DEF PlacedInOrder, Copying, Retiring, Slot
    <2>4. CASE s0 = "avatar"
      <3>1. job[i].placed["main"] # None
        BY <1>1, <2>4 DEF Guarded, PlacedInOrder, Copying
      <3>2. next = "persist" /\ \A t \in Slot : job'[i].placed[t] # None
        BY <1>8, <2>2, <2>4, <3>1 DEF Slot
      <3> QED
        BY <1>7, <3>2 DEF PlacedInOrder, Copying, Retiring
    <2> QED
      BY <1>2, <2>3, <2>4 DEF Slot
  <1>17. ASSUME NEW k \in Item
         PROVE  /\ JobHoldsRow(k)' /\ TargetKnown(k)' /\ RemovalChecked(k)'
                /\ OutputsPlaced(k)' /\ PlacedInOrder(k)'
    <2>1. RemovalChecked(k)'
      BY <1>1 DEF RemovalChecked, WriterFree
    <2>2. CASE k = i
      BY <2>1, <2>2, <1>13, <1>14, <1>15, <1>16
    <2>3. CASE k # i
      <3>1. job'[k] = job[k] /\ TargetKnown(k)' /\ OutputsPlaced(k)' /\ PlacedInOrder(k)'
        BY <1>1, <1>5, <2>3, OthersKept
      <3> QED
        BY <1>1, <2>1, <3>1 DEF JobHoldsRow, Guarded
    <2> QED
      BY <2>2, <2>3
  <1>18. CompletedIntact'
    <2>1. row[i].status # "completed"
      BY <1>1 DEF Guarded, JobHoldsRow, Placing, Copying
    <2> QED
      BY <1>1, <1>11, <2>1 DEF CompletedIntact, Guarded, Recorded
  <1> QED
    BY <1>9, <1>10, <1>17, <1>18 DEF Guarded

\* The row is committed to its new outputs.
LEMMA PersistsGuarded ==
    ASSUME Guarded, NEW i \in Item, Persists(i)
    PROVE  Guarded'
  <1> DEFINE r == [row[i] EXCEPT
                     !.status = "completed", !.dest = job[i].placed, !.old = FALSE,
                     !.state = [s \in Slot |-> IF job[i].placed[s] = None
                                               THEN "none" ELSE "available"]]
             j == [job[i] EXCEPT !.pc = "retire", !.slot = "main"]
  <1>1. /\ job[i].pc = "persist" /\ WriterFree /\ row[i].status = "pending"
        /\ UNCHANGED <<files, prints, del, disturbed, budget>>
    BY DEF Persists
  <1>2. job[i] \in Job /\ row[i] \in Row
    BY DEF Guarded, TypeOK
  <1>3. row' = [row EXCEPT ![i] = r] /\ job' = [job EXCEPT ![i] = j]
    BY DEF Persists, Guarded, TypeOK
  <1>4. r \in Row /\ j \in Job
    BY <1>2 DEF Row, Job, Slot
  <1>5. /\ row'[i].status = "completed" /\ row'[i].dest = job[i].placed
        /\ row'[i].want = row[i].want
        /\ job'[i].pc = "retire" /\ job'[i].placed = job[i].placed
    BY <1>2, <1>3 DEF Guarded, TypeOK, Row, Job
  <1>6. \A k \in Item \ {i} : row'[k] = row[k]
    BY <1>3 DEF Guarded, TypeOK
  <1>7. TypeOK'
    BY <1>1, <1>3, <1>4 DEF Guarded, TypeOK
  <1>8. Exclusive'
    BY <1>1, <1>3, ExclusiveKept
  <1>9. JobHoldsRow(i)' /\ TargetKnown(i)'
    BY <1>5 DEF JobHoldsRow, TargetKnown, Placing, Copying, Retiring
  <1>10. OutputsPlaced(i)' /\ PlacedInOrder(i)'
    BY <1>1, <1>5 DEF OutputsPlaced, PlacedInOrder, Guarded, Copying, Retiring
  <1>11. ASSUME NEW k \in Item
         PROVE  /\ JobHoldsRow(k)' /\ TargetKnown(k)' /\ RemovalChecked(k)'
                /\ OutputsPlaced(k)' /\ PlacedInOrder(k)'
    <2>1. RemovalChecked(k)'
      BY <1>1 DEF RemovalChecked, WriterFree
    <2>2. CASE k = i
      BY <2>1, <2>2, <1>9, <1>10
    <2>3. CASE k # i
      <3>1. job'[k] = job[k] /\ TargetKnown(k)' /\ OutputsPlaced(k)' /\ PlacedInOrder(k)'
        BY <1>1, <1>3, <2>3, OthersKept
      <3> QED
        BY <1>6, <2>1, <2>3, <3>1 DEF JobHoldsRow, Guarded
    <2> QED
      BY <2>2, <2>3
  <1>12. CompletedIntact'
    <2> SUFFICES ASSUME NEW k \in Item, NEW s \in Slot,
                        row'[k].status = "completed", row'[k].dest[s] # None
                 PROVE  LET p == row'[k].dest[s]
                        IN  /\ row'[k].old \/ Recorded(k, p)
                            /\ Recorded(k, p) /\ p \notin disturbed =>
                                  files[p] = prints[k][p]
      BY <1>1 DEF CompletedIntact, Recorded
    <2>1. CASE k = i
      <3>1. /\ job[i].placed[s] \in disturbed
               \/ files[job[i].placed[s]] = row[i].want.bytes[s]
            /\ prints[i][job[i].placed[s]] = row[i].want.bytes[s]
            /\ row[i].want.bytes[s] # None
        BY <1>1, <1>5, <2>1 DEF Guarded, OutputsPlaced
      <3> QED
        BY <1>5, <2>1, <3>1 DEF Recorded
    <2>2. CASE k # i
      BY <1>6, <2>2 DEF Guarded, CompletedIntact
    <2> QED
      BY <2>1, <2>2
  <1> QED
    BY <1>7, <1>8, <1>11, <1>12 DEF Guarded

\* A failed archive.
LEMMA FailsGuarded ==
    ASSUME Guarded, NEW i \in Item, ArchiveFails(i)
    PROVE  Guarded'
  <1> DEFINE r == [row[i] EXCEPT !.status =
                       IF @ \in {"completed", "gone"} THEN @ ELSE "failed"]
  <1>1. /\ job[i].pc \in Placing /\ job[i].pc # "idle" /\ WriterFree
        /\ row' = [row EXCEPT ![i] = r] /\ job' = [job EXCEPT ![i] = NoJob]
        /\ UNCHANGED <<files, prints, del, disturbed, budget>>
    BY DEF ArchiveFails, Placing, Copying, Guarded, TypeOK
  <1>2. r \in Row /\ r.dest = row[i].dest /\ r.status \in {"failed", "gone"}
        /\ (r.status = "gone" <=> row[i].status = "gone")
    <2>1. row[i] \in Row /\ row[i].status \in {"pending", "gone"}
      BY <1>1 DEF Guarded, TypeOK, JobHoldsRow
    <2>2. CASE row[i].status = "pending"
      BY <2>1, <2>2 DEF Row
    <2>3. CASE row[i].status = "gone"
      BY <2>1, <2>3 DEF Row
    <2> QED
      BY <2>1, <2>2, <2>3
  <1>3. row'[i] = r /\ job'[i] = NoJob /\ \A k \in Item \ {i} : row'[k] = row[k]
    BY <1>1 DEF Guarded, TypeOK
  <1> HIDE DEF r
  <1>4. TypeOK'
    BY <1>1, <1>2, NoJobType DEF Guarded, TypeOK
  <1>5. Exclusive'
    BY <1>1, ExclusiveKept
  <1>6. ASSUME NEW k \in Item
        PROVE  /\ JobHoldsRow(k)' /\ TargetKnown(k)' /\ RemovalChecked(k)'
               /\ OutputsPlaced(k)' /\ PlacedInOrder(k)'
    <2>1. RemovalChecked(k)'
      BY <1>1 DEF RemovalChecked, WriterFree
    <2>2. CASE k = i
      <3>1. JobHoldsRow(i)'
        BY <1>2, <1>3, NoJobType DEF JobHoldsRow, Guarded, Placing, Copying, Retiring
      <3> QED
        BY <2>1, <2>2, <3>1, <1>3, NoJobType, IdleAfter
    <2>3. CASE k # i
      <3>1. job'[k] = job[k] /\ TargetKnown(k)' /\ OutputsPlaced(k)' /\ PlacedInOrder(k)'
        BY <1>1, <2>3, OthersKept
      <3> QED
        BY <1>3, <2>1, <2>3, <3>1 DEF JobHoldsRow, Guarded
    <2> QED
      BY <2>2, <2>3
  <1>7. CompletedIntact'
    BY <1>1, <1>2, <1>3 DEF CompletedIntact, Guarded, Recorded
  <1> QED
    BY <1>4, <1>5, <1>6, <1>7 DEF Guarded

\* Commands that change the row of i and end any deletion: the row keeps its
\* destinations or loses all of them, and it does not become completed.
LEMMA RowMoves ==
    ASSUME Guarded, NEW i \in Item, NEW r \in Row, NEW f \in [Path -> Bytes],
           row' = [row EXCEPT ![i] = r], prints' = [prints EXCEPT ![i] = f],
           job' = job, files' = files, disturbed' = disturbed,
           budget' \in 0 .. MaxOps,
           del' \in [Item -> Deletion], \A k \in Item : del'[k].pc = "idle",
           job[i].pc = "idle" \/ (r.status = "gone" /\ r.want = row[i].want),
           r.dest = row[i].dest \/ r.dest = Nowhere,
           r.status = "gone" => r.dest = Nowhere,
           r.status = "completed" =>
              /\ row[i].status = "completed" /\ r.old = row[i].old
              /\ r.dest = row[i].dest /\ f = prints[i]
    PROVE  Guarded'
  <1>1. /\ row'[i] = r /\ \A k \in Item \ {i} : row'[k] = row[k]
        /\ prints'[i] = f /\ \A k \in Item \ {i} : prints'[k] = prints[k]
    BY DEF Guarded, TypeOK
  <1>2. TypeOK'
    BY DEF Guarded, TypeOK
  <1>3. Exclusive'
    BY DEF Guarded, Exclusive
  <1>4. ASSUME NEW k \in Item, NEW p, p # None, Shared(k, p)'
        PROVE  Shared(k, p)
    <2>1. PICK l \in Item \ {k}, s \in Slot : p = row'[l].dest[s]
      BY <1>4 DEF Shared, Targets
    <2>2. row'[l].dest = row[l].dest
      BY <1>1, <1>4, <2>1, NowhereType
    <2> QED
      BY <2>1, <2>2 DEF Shared, Targets
  <1>5. ASSUME NEW k \in Item
        PROVE  /\ JobHoldsRow(k)' /\ TargetKnown(k)' /\ RemovalChecked(k)'
               /\ OutputsPlaced(k)' /\ PlacedInOrder(k)'
    <2>1. RemovalChecked(k)'
      BY DEF RemovalChecked
    <2>2. JobHoldsRow(k)'
      BY <1>1 DEF JobHoldsRow, Guarded, Placing, Copying, Retiring
    <2>3. CASE job[k].pc = "idle"
      BY <2>1, <2>2, <2>3, IdleAfter DEF Guarded, JobHoldsRow
    <2>4. CASE job[k].pc # "idle"
      <3>1. /\ row'[k].want = row[k].want
            /\ \/ row'[k] = row[k] /\ prints'[k] = prints[k]
               \/ row'[k].status = "gone"
        BY <1>1, <2>4
      <3>2. ASSUME NEW p \in Path, NEW c, Owns(k, p, c)
            PROVE  Owns(k, p, c)'
        BY <1>4, <3>1, <3>2, NoneAssumption DEF Owns
      <3>3. TargetKnown(k)'
        <4> DEFINE t == job[k].target
                   old == job[k].was[job[k].slot]
        <4>1. /\ job[k].pc \in Copying => t \in Path /\ t[1] = job[k].slot
              /\ job[k].pc = "promote" => files[t] \in {None, job[k].before}
              /\ job[k].pc = "recycle" => old \in Path /\ old # job[k].placed[job[k].slot]
          BY DEF Guarded, TargetKnown
        <4>2. ASSUME job[k].pc \in {"check", "recheck", "promote"},
                     job[k].before # None
              PROVE  Owns(k, t, job[k].before)'
          <5>1. Owns(k, t, job[k].before)
            BY <4>2 DEF Guarded, TargetKnown
          <5>2. t \in Path
            BY <4>1, <4>2 DEF Copying
          <5> QED
            BY <3>2, <5>1, <5>2
        <4>3. ASSUME job[k].pc = "recycle", files[old] # None
              PROVE  Owns(k, old, files[old])'
          <5>1. Owns(k, old, files[old])
            BY <4>3 DEF Guarded, TargetKnown
          <5> QED
            BY <3>2, <4>1, <4>3, <5>1
        <4> QED
          BY <4>1, <4>2, <4>3 DEF TargetKnown, Owns, Shared
      <3>4. OutputsPlaced(k)'
        BY <3>1 DEF OutputsPlaced, Guarded, New
      <3>5. PlacedInOrder(k)'
        BY <3>1 DEF PlacedInOrder, Guarded, Copying, Retiring
      <3> QED
        BY <2>1, <2>2, <3>3, <3>4, <3>5
    <2> QED
      BY <2>3, <2>4
  <1>6. CompletedIntact'
    <2>1. \A k \in Item : row'[k].status = "completed" =>
             /\ row[k].status = "completed" /\ row'[k].dest = row[k].dest
             /\ row'[k].old = row[k].old /\ prints'[k] = prints[k]
      BY <1>1
    <2> QED
      BY <2>1 DEF CompletedIntact, Guarded, Recorded
  <1> QED
    BY <1>2, <1>3, <1>5, <1>6 DEF Guarded

\* A retry, and a row that starts over with other outputs.
LEMMA RowStepGuarded ==
    ASSUME Guarded, NEW i \in Item, RowStep(i)
    PROVE  Guarded'
  <1> USE DEF Guarded, TypeOK
  <1>1. CASE Retry(i)
    <2> DEFINE r == [row[i] EXCEPT !.status = "pending"]
    <2>1. r \in Row /\ r.dest = row[i].dest /\ r.status = "pending"
      BY DEF Row
    <2>2. /\ row' = [row EXCEPT ![i] = r] /\ prints' = [prints EXCEPT ![i] = prints[i]]
          /\ prints[i] \in [Path -> Bytes]
      BY <1>1 DEF Retry
    <2>3. /\ UNCHANGED <<files, job, del, disturbed, budget>>
          /\ job[i].pc = "idle" /\ \A k \in Item : del[k].pc = "idle"
      BY <1>1 DEF Retry, Unlocked, WriterFree
    <2> HIDE DEF r
    <2> QED
      BY <2>1, <2>2, <2>3, RowMoves
  <1>2. ASSUME NEW want \in Outputs, Reprocess(i, want)
        PROVE  Guarded'
    <2> DEFINE r == [row[i] EXCEPT !.status = "pending", !.want = want]
    <2>1. r \in Row /\ r.dest = row[i].dest /\ r.status = "pending"
      BY DEF Row
    <2>2. row' = [row EXCEPT ![i] = r]
      <3>1. row' = [row EXCEPT ![i].status = "pending", ![i].want = want]
        BY <1>2 DEF Reprocess
      <3>2. row \in [Item -> Row] /\ row[i] \in Row
        OBVIOUS
      <3> HIDE DEF Guarded, TypeOK
      <3>3. [row EXCEPT ![i].status = "pending", ![i].want = want] = [row EXCEPT ![i] = r]
        BY <3>2
      <3> QED
        BY <3>1, <3>3
    <2>3. PICK f \in [Path -> Bytes] : prints' = [prints EXCEPT ![i] = f]
      <3> DEFINE f == [p \in Path |-> IF Adopted(i, p) THEN files[p] ELSE prints[i][p]]
      <3>1. f \in [Path -> Bytes] /\ prints[i] \in [Path -> Bytes]
        OBVIOUS
      <3>2. prints' = prints \/ prints' = [prints EXCEPT ![i] = f]
        BY <1>2 DEF Reprocess
      <3>3. prints = [prints EXCEPT ![i] = prints[i]]
        OBVIOUS
      <3> HIDE DEF f
      <3> QED
        BY <3>1, <3>2, <3>3
    <2>4. /\ UNCHANGED <<files, job, del, disturbed>> /\ budget' \in 0 .. MaxOps
          /\ job[i].pc = "idle" /\ \A k \in Item : del[k].pc = "idle"
      BY <1>2, MaxOpsAssumption DEF Reprocess, Uses, Unlocked, WriterFree
    <2> HIDE DEF r
    <2> QED
      BY <2>1, <2>2, <2>3, <2>4, RowMoves
  <1> QED
    BY <1>1, <1>2 DEF RowStep

\* A row that is deleted, with the deletion over.
LEMMA ForgottenGuarded ==
    ASSUME Guarded, NEW i \in Item, Forgotten(i),
           UNCHANGED <<files, job, disturbed>>, budget' \in 0 .. MaxOps,
           del' \in [Item -> Deletion], \A k \in Item : del'[k].pc = "idle"
    PROVE  Guarded'
  <1> DEFINE r == [row[i] EXCEPT !.status = "gone", !.dest = Nowhere,
                                 !.state = [s \in Slot |-> "none"]]
             f == [p \in Path |-> None]
  <1>1. r \in Row /\ f \in [Path -> Bytes]
    BY ZenonT(60), NowhereType DEF Guarded, TypeOK, Row, Bytes
  <1>2. row' = [row EXCEPT ![i] = r] /\ prints' = [prints EXCEPT ![i] = f]
    BY DEF Forgotten, Guarded, TypeOK
  <1>3. r.status = "gone" /\ r.dest = Nowhere /\ r.want = row[i].want
    BY DEF Guarded, TypeOK, Row
  <1> HIDE DEF r, f
  <1> QED
    BY <1>1, <1>2, <1>3, RowMoves

\* A deletion that moves on without touching anything else.
LEMMA DeletionMoves ==
    ASSUME Guarded, NEW i \in Item, NEW d \in Deletion, del' = [del EXCEPT ![i] = d],
           job[i].pc = "idle", del[i].pc # "idle" \/ WriterFree,
           UNCHANGED <<files, row, prints, job, disturbed>>, budget' \in 0 .. MaxOps,
           RemovalChecked(i)'
    PROVE  Guarded'
  <1>1. TypeOK'
    BY DEF Guarded, TypeOK
  <1>2. Exclusive'
    BY DEF Guarded, TypeOK, Exclusive, WriterFree
  <1>3. ASSUME NEW k \in Item
        PROVE  /\ JobHoldsRow(k)' /\ TargetKnown(k)' /\ RemovalChecked(k)'
               /\ OutputsPlaced(k)' /\ PlacedInOrder(k)'
    <2>1. k # i => del'[k] = del[k]
      BY DEF Guarded, TypeOK
    <2>2. RemovalChecked(k)'
      BY <2>1 DEF Guarded, RemovalChecked, Deletable
    <2>3. JobHoldsRow(k)' /\ TargetKnown(k)'
      BY DEF Guarded, JobHoldsRow, TargetKnown, Owns, Shared
    <2>4. OutputsPlaced(k)' /\ PlacedInOrder(k)'
      BY DEF Guarded, OutputsPlaced, PlacedInOrder, New
    <2> QED
      BY <2>2, <2>3, <2>4
  <1>4. CompletedIntact'
    BY DEF Guarded, CompletedIntact, Recorded
  <1> QED
    BY <1>1, <1>2, <1>3, <1>4 DEF Guarded

\* Finishing one file of a deletion.
LEMMA FileDoneType ==
    ASSUME Guarded, NEW i \in Item, NEW failed \in BOOLEAN,
           NEW state \in {"none", "available", "missing", "unavailable"},
           FileDone(i, state, failed)
    PROVE  \E d \in Deletion : /\ del' = [del EXCEPT ![i] = d] /\ del'[i] = d
                               /\ d.pc \in {"file", "finish"}
  <1> DEFINE d == [pc     |-> IF del[i].slot = "main" THEN "file" ELSE "finish",
                   slot   |-> "avatar",
                   failed |-> del[i].failed \/ failed,
                   state  |-> [del[i].state EXCEPT ![del[i].slot] = state]]
  <1>1. del[i] \in Deletion
    BY DEF Guarded, TypeOK
  <1>2. (del[i].failed \/ failed) \in BOOLEAN
    BY <1>1 DEF Deletion
  <1>3. [del[i].state EXCEPT ![del[i].slot] = state]
           \in [Slot -> {"none", "available", "missing", "unavailable"}]
    BY <1>1 DEF Deletion
  <1>4. (IF del[i].slot = "main" THEN "file" ELSE "finish")
           \in {"idle", "file", "remove", "finish"}
    OBVIOUS
  <1>5. d \in Deletion
    BY <1>2, <1>3, <1>4 DEF Deletion, Slot
  <1>6. del' = [del EXCEPT ![i] = d] /\ del'[i] = d
    BY DEF FileDone, Guarded, TypeOK
  <1> QED
    BY <1>5, <1>6

\* Checking one file of a deletion.
LEMMA DeleteChecksGuarded ==
    ASSUME Guarded, NEW i \in Item, DeleteChecks(i)
    PROVE  Guarded'
  <1> DEFINE s == del[i].slot
             p == row[i].dest[s]
  <1>1. /\ del[i].pc = "file" /\ UNCHANGED <<files, row, prints, job, disturbed, budget>>
        /\ job[i].pc = "idle" /\ budget' \in 0 .. MaxOps
    BY DEF DeleteChecks, Guarded, Exclusive, TypeOK
  <1>2. del[i] \in Deletion /\ row[i] \in Row /\ s \in Slot
    BY DEF Guarded, TypeOK, Deletion
  <1>3. \/ \E state \in {"none", "available", "missing", "unavailable"},
             failed \in BOOLEAN : FileDone(i, state, failed)
        \/ /\ p # None /\ files[p] # None /\ row[i].state[s] # "missing"
           /\ Deletable(i, p) /\ del' = [del EXCEPT ![i].pc = "remove"]
    BY <1>2 DEF DeleteChecks, Deletion
  <1>4. CASE \E state \in {"none", "available", "missing", "unavailable"},
               failed \in BOOLEAN : FileDone(i, state, failed)
    <2>1. PICK d \in Deletion : /\ del' = [del EXCEPT ![i] = d] /\ del'[i] = d
                                /\ d.pc \in {"file", "finish"}
      BY <1>4, FileDoneType
    <2>2. RemovalChecked(i)'
      BY <2>1 DEF RemovalChecked
    <2> QED
      BY <1>1, <2>1, <2>2, DeletionMoves
  <1>5. CASE /\ p # None /\ files[p] # None /\ row[i].state[s] # "missing"
             /\ Deletable(i, p) /\ del' = [del EXCEPT ![i].pc = "remove"]
    <2>1. /\ [del[i] EXCEPT !.pc = "remove"] \in Deletion
          /\ del' = [del EXCEPT ![i] = [del[i] EXCEPT !.pc = "remove"]]
          /\ del'[i].slot = s
      BY <1>2, <1>5 DEF Guarded, TypeOK, Deletion
    <2>2. p \in Path
      BY <1>2, <1>5, PlacesApart DEF Row
    <2>3. RemovalChecked(i)'
      BY <1>1, <1>5, <2>1, <2>2 DEF RemovalChecked, Deletable
    <2> QED
      BY <1>1, <2>1, <2>3, DeletionMoves
  <1> QED
    BY <1>3, <1>4, <1>5

\* Removing one file of a deletion.
LEMMA DeleteRemovesGuarded ==
    ASSUME Guarded, NEW i \in Item, DeleteRemoves(i)
    PROVE  Guarded'
  <1> DEFINE p == row[i].dest[del[i].slot]
  <1>1. /\ del[i].pc = "remove" /\ UNCHANGED <<row, prints, job, budget>>
        /\ job[i].pc = "idle"
    BY DEF DeleteRemoves, Guarded, Exclusive
  <1>2. PICK state \in {"missing", "unavailable"}, failed \in BOOLEAN :
           FileDone(i, state, failed)
    BY DEF DeleteRemoves
  <1>3. PICK d \in Deletion : /\ del' = [del EXCEPT ![i] = d] /\ del'[i] = d
                              /\ d.pc \in {"file", "finish"}
    BY <1>2, FileDoneType
  <1>4. p \in Path
    BY <1>1 DEF Guarded, RemovalChecked
  <1>5. CASE UNCHANGED <<files, disturbed>>
    <2>1. RemovalChecked(i)'
      BY <1>3 DEF RemovalChecked
    <2> QED
      BY <1>1, <1>3, <1>5, <2>1, DeletionMoves DEF Guarded, TypeOK
  <1>6. CASE files' = [files EXCEPT ![p] = None] /\ disturbed' = disturbed \cup {p}
    <2>1. TypeOK'
      BY <1>1, <1>3, <1>4, <1>6 DEF Guarded, TypeOK, Bytes
    <2>2. Exclusive'
      BY <1>1, <1>3 DEF Guarded, TypeOK, Exclusive
    <2>3. \A q \in Path : files'[q] = files[q] \/ (files'[q] = None /\ q \in disturbed')
      BY <1>4, <1>6 DEF Guarded, TypeOK
    <2>4. disturbed \subseteq disturbed'
      BY <1>6
    <2>5. ASSUME NEW k \in Item
          PROVE  /\ JobHoldsRow(k)' /\ TargetKnown(k)' /\ RemovalChecked(k)'
                 /\ OutputsPlaced(k)' /\ PlacedInOrder(k)'
      <3>1. RemovalChecked(k)'
        BY <1>1, <1>3 DEF Guarded, RemovalChecked, Exclusive, TypeOK
      <3>2. JobHoldsRow(k)' /\ PlacedInOrder(k)'
        BY <1>1 DEF Guarded, JobHoldsRow, PlacedInOrder
      <3>3. TargetKnown(k)'
        <4> DEFINE t == job[k].target
                   old == job[k].was[job[k].slot]
        <4>1. job[k].pc = "promote" => t \in Path /\ files[t] \in {None, job[k].before}
          BY DEF Guarded, TargetKnown, Copying
        <4>2. job[k].pc = "promote" => files'[t] \in {None, job[k].before}
          BY <2>3, <4>1
        <4>3. job[k].pc = "recycle" /\ files'[old] # None => files'[old] = files[old]
          BY <2>3 DEF Guarded, TargetKnown
        <4> QED
          BY <1>1, <4>2, <4>3 DEF Guarded, TargetKnown, Owns, Shared
      <3>4. OutputsPlaced(k)'
        <4>1. job[k].pc = "record" => job[k].target \in Path
          BY DEF Guarded, TargetKnown, Copying
        <4>2. job[k].pc = "record" =>
                 job[k].target \in disturbed' \/ files'[job[k].target] = New(k)
          BY <2>3, <2>4, <4>1 DEF Guarded, OutputsPlaced
        <4>3. ASSUME NEW s \in Slot, job[k].placed[s] # None
              PROVE  job[k].placed[s] \in disturbed'
                     \/ files'[job[k].placed[s]] = row[k].want.bytes[s]
          <5>1. job[k].placed[s] \in Path
            BY <4>3, PlacesApart DEF Guarded, TypeOK, Job
          <5> QED
            BY <2>3, <2>4, <4>3, <5>1 DEF Guarded, OutputsPlaced
        <4> QED
          BY <1>1, <4>2, <4>3 DEF Guarded, OutputsPlaced, New
      <3> QED
        BY <3>1, <3>2, <3>3, <3>4
    <2>6. CompletedIntact'
      <3>1. ASSUME NEW k \in Item, NEW s \in Slot, row[k].dest[s] # None
            PROVE  row[k].dest[s] \in Path
        BY <3>1, PlacesApart DEF Guarded, TypeOK, Row
      <3> QED
        BY <1>1, <2>3, <2>4, <3>1 DEF Guarded, CompletedIntact, Recorded
    <2> QED
      BY <2>1, <2>2, <2>5, <2>6 DEF Guarded
  <1> QED
    BY <1>5, <1>6 DEF DeleteRemoves

\* The end of a deletion.
LEMMA DeleteFinishesGuarded ==
    ASSUME Guarded, NEW i \in Item, DeleteFinishes(i)
    PROVE  Guarded'
  <1>1. /\ del[i].pc = "finish" /\ del' = [del EXCEPT ![i] = NoDeletion]
        /\ UNCHANGED <<files, job, disturbed, budget>>
    BY DEF DeleteFinishes
  <1>2. /\ del' \in [Item -> Deletion] /\ \A k \in Item : del'[k].pc = "idle"
        /\ job[i].pc = "idle" /\ budget' \in 0 .. MaxOps
    BY <1>1, NoJobType DEF Guarded, Exclusive, TypeOK
  <1>3. CASE del[i].failed
    <2> DEFINE r == [row[i] EXCEPT !.state = del[i].state]
    <2>1. /\ r \in Row /\ r.dest = row[i].dest /\ r.status = row[i].status
          /\ r.old = row[i].old /\ (r.status = "gone" => r.dest = Nowhere)
      <3>1. row[i] \in Row /\ del[i] \in Deletion
        BY DEF Guarded, TypeOK
      <3>2. row[i].status = "gone" => row[i].dest = Nowhere
        BY DEF Guarded, JobHoldsRow
      <3> QED
        BY <3>1, <3>2 DEF Row, Deletion
    <2>2. /\ row' = [row EXCEPT ![i] = r] /\ prints[i] \in [Path -> Bytes]
          /\ prints' = [prints EXCEPT ![i] = prints[i]]
      BY <1>3 DEF DeleteFinishes, Guarded, TypeOK
    <2> HIDE DEF r
    <2> QED
      BY <1>1, <1>2, <2>1, <2>2, RowMoves
  <1>4. CASE ~del[i].failed
    BY <1>1, <1>2, <1>4, ForgottenGuarded DEF DeleteFinishes
  <1> QED
    BY <1>3, <1>4

\* Every step of a deletion.
LEMMA DeleteStepGuarded ==
    ASSUME Guarded, NEW i \in Item, DeleteStep(i)
    PROVE  Guarded'
  <1>1. CASE DeleteBegins(i)
    <2> DEFINE d == [pc |-> "file", slot |-> "main", failed |-> FALSE,
                     state |-> row[i].state]
    <2>1. d \in Deletion
      BY DEF Guarded, TypeOK, Row, Deletion, Slot
    <2>2. /\ del' = [del EXCEPT ![i] = d] /\ budget' \in 0 .. MaxOps
          /\ WriterFree /\ job[i].pc = "idle"
          /\ UNCHANGED <<files, row, prints, job, disturbed>>
      BY <1>1, MaxOpsAssumption DEF DeleteBegins, Uses, Guarded, TypeOK, Unlocked
    <2>3. del'[i].pc = "file"
      BY <2>2 DEF Guarded, TypeOK
    <2>4. RemovalChecked(i)'
      BY <2>3 DEF RemovalChecked
    <2> HIDE DEF d
    <2> QED
      BY <2>1, <2>2, <2>4, DeletionMoves
  <1>2. CASE DeleteRecordOnly(i) \/ DeleteProject(i)
    <2>1. /\ Forgotten(i) /\ UNCHANGED <<files, job, del, disturbed>> /\ WriterFree
          /\ budget' \in 0 .. MaxOps
      BY <1>2, MaxOpsAssumption DEF DeleteRecordOnly, DeleteProject, Uses, Guarded, TypeOK
    <2> QED
      BY <2>1, ForgottenGuarded DEF WriterFree, Guarded, TypeOK
  <1> QED
    BY <1>1, <1>2, DeleteChecksGuarded, DeleteRemovesGuarded, DeleteFinishesGuarded
    DEF DeleteStep

-----------------------------------------------------------------------------
(* The other actors, and every step.                                       *)

\* An edit of the user, not between a last check and what it allows.
LEMMA UserEditsGuarded ==
    ASSUME Guarded, Calm, NEW p \in Path, NEW c \in Edits, UserEdits(p, c)
    PROVE  Guarded'
  <1>1. /\ files' = [files EXCEPT ![p] = c] /\ disturbed' = disturbed \cup {p}
        /\ ~InGap(p) /\ UNCHANGED <<row, prints, job, del>>
        /\ budget' \in 0 .. MaxOps
    BY MaxOpsAssumption DEF UserEdits, Uses, Calm, Guarded, TypeOK
  <1>2. TypeOK'
    BY <1>1, EditsAssumption DEF Guarded, TypeOK
  <1>3. Exclusive'
    BY <1>1 DEF Guarded, Exclusive
  <1>4. \A q \in Path : q # p => files'[q] = files[q]
    BY <1>1 DEF Guarded, TypeOK
  <1>5. \A q \in Path : q \in disturbed' \/ files'[q] = files[q]
    BY <1>1, <1>4
  <1>6. ASSUME NEW k \in Item
        PROVE  /\ JobHoldsRow(k)' /\ TargetKnown(k)' /\ RemovalChecked(k)'
               /\ OutputsPlaced(k)' /\ PlacedInOrder(k)'
    <2>1. JobHoldsRow(k)' /\ PlacedInOrder(k)'
      BY <1>1 DEF Guarded, JobHoldsRow, PlacedInOrder
    <2>2. RemovalChecked(k)'
      <3>1. del[k].pc = "remove" => row[k].dest[del[k].slot] # p
        BY <1>1 DEF InGap
      <3> QED
        BY <1>1, <1>4, <3>1 DEF Guarded, RemovalChecked, Deletable
    <2>3. TargetKnown(k)'
      <3> DEFINE t == job[k].target
                 old == job[k].was[job[k].slot]
      <3>1. job[k].pc = "promote" => files'[t] = files[t]
        BY <1>1, <1>4 DEF InGap, Guarded, TargetKnown, Copying
      <3>2. job[k].pc = "recycle" => files'[old] = files[old]
        BY <1>1, <1>4 DEF InGap, Guarded, TargetKnown
      <3> QED
        BY <1>1, <3>1, <3>2 DEF Guarded, TargetKnown, Owns, Shared
    <2>4. OutputsPlaced(k)'
      <3>1. job[k].pc = "record" => job[k].target \in Path
        BY DEF Guarded, TargetKnown, Copying
      <3>2. job[k].pc = "record" =>
               job[k].target \in disturbed' \/ files'[job[k].target] = New(k)
        BY <1>1, <1>5, <3>1 DEF Guarded, OutputsPlaced
      <3>3. ASSUME NEW s \in Slot, job[k].placed[s] # None
            PROVE  job[k].placed[s] \in disturbed'
                   \/ files'[job[k].placed[s]] = row[k].want.bytes[s]
        <4>1. job[k].placed[s] \in Path
          BY <3>3, PlacesApart DEF Guarded, TypeOK, Job
        <4> QED
          BY <1>1, <1>5, <3>3, <4>1 DEF Guarded, OutputsPlaced
      <3> QED
        BY <1>1, <3>2, <3>3 DEF Guarded, OutputsPlaced, New
    <2> QED
      BY <2>1, <2>2, <2>3, <2>4
  <1>7. CompletedIntact'
    <2>1. ASSUME NEW k \in Item, NEW s \in Slot, row[k].dest[s] # None
          PROVE  row[k].dest[s] \in Path
      BY <2>1, PlacesApart DEF Guarded, TypeOK, Row
    <2> QED
      BY <1>1, <1>5, <2>1 DEF Guarded, CompletedIntact, Recorded
  <1> QED
    BY <1>2, <1>3, <1>6, <1>7 DEF Guarded

\* After a crash nothing runs; the rows and the files are what they were.
LEMMA CrashGuarded ==
    ASSUME Guarded, Crash
    PROVE  Guarded'
  <1>1. /\ job' = [i \in Item |-> NoJob] /\ del' = [i \in Item |-> NoDeletion]
        /\ UNCHANGED <<files, row, prints, disturbed>> /\ budget' \in 0 .. MaxOps
    BY MaxOpsAssumption DEF Crash, Uses, Guarded, TypeOK
  <1>2. \A k \in Item : /\ job'[k].pc = "idle" /\ job'[k].placed = Nowhere
                        /\ del'[k].pc = "idle"
    BY <1>1, NoJobType
  <1>3. TypeOK'
    BY <1>1, NoJobType DEF Guarded, TypeOK
  <1>4. Exclusive' /\ CompletedIntact'
    BY <1>1, <1>2 DEF Guarded, Exclusive, CompletedIntact, Recorded
  <1>5. ASSUME NEW k \in Item
        PROVE  JobHoldsRow(k)' /\ RemovalChecked(k)'
    BY <1>1, <1>2 DEF Guarded, JobHoldsRow, RemovalChecked, Placing, Copying, Retiring
  <1> QED
    BY <1>2, <1>3, <1>4, <1>5, IdleAfter DEF Guarded

\* Nothing of the model changes.
LEMMA StutterGuarded ==
    ASSUME Guarded, UNCHANGED vars
    PROVE  Guarded'
  <1> USE DEF vars, Guarded
  <1>1. TypeOK' /\ Exclusive' /\ CompletedIntact'
    BY SMTT(30) DEF TypeOK, Exclusive, CompletedIntact, Recorded
  <1>2. ASSUME NEW k \in Item
        PROVE  /\ JobHoldsRow(k)' /\ TargetKnown(k)' /\ RemovalChecked(k)'
               /\ OutputsPlaced(k)' /\ PlacedInOrder(k)'
    BY DEF JobHoldsRow, TargetKnown, RemovalChecked, OutputsPlaced, PlacedInOrder,
           Owns, Shared, Deletable, New
  <1> QED
    BY <1>1, <1>2

\* Guarded is inductive.
LEMMA NextGuarded ==
    ASSUME Guarded, Calm, [Next]_vars
    PROVE  Guarded'
  <1>1. ASSUME NEW i \in Item, ArchiveStep(i) PROVE Guarded'
    BY <1>1, BeginsGuarded, ResolvesGuarded, ChecksGuarded, PromotesGuarded,
       VerifiesGuarded, RecordsGuarded, PersistsGuarded, RetiresGuarded,
       RecyclesGuarded, FailsGuarded DEF ArchiveStep
  <1>2. ASSUME NEW i \in Item, RowStep(i) PROVE Guarded'
    BY <1>2, RowStepGuarded
  <1>3. ASSUME NEW i \in Item, DeleteStep(i) PROVE Guarded'
    BY <1>3, DeleteStepGuarded
  <1>4. ASSUME UserStep PROVE Guarded'
    BY <1>4, UserEditsGuarded DEF UserStep
  <1> QED
    BY <1>1, <1>2, <1>3, <1>4, CrashGuarded, StutterGuarded DEF Next

-----------------------------------------------------------------------------
(* What changes a file, and with what right.                               *)

\* Besides the user, three steps change files, each at the one path it works on.
LEMMA FilesChanged ==
    ASSUME Guarded, Next, NEW p \in Path, files'[p] # files[p], ~UserStep
    PROVE  \E i \in Item :
              \/ Promotes(i) /\ p = job[i].target
              \/ Recycles(i) /\ p = job[i].was[job[i].slot]
              \/ DeleteRemoves(i) /\ p = row[i].dest[del[i].slot]
  <1>1. ~Crash
    BY DEF Crash
  <1>2. PICK i \in Item : ArchiveStep(i) \/ RowStep(i) \/ DeleteStep(i)
    BY <1>1 DEF Next
  <1>3. ~RowStep(i)
    BY DEF RowStep, Retry, Reprocess
  <1>4. CASE ArchiveStep(i)
    <2>1. Promotes(i) \/ Recycles(i)
      BY <1>4 DEF ArchiveStep, ArchiveBegins, Resolves, Checks, Rechecks, ChecksTarget,
                  Verifies, Records, Persists, Retires, ArchiveFails
    <2> QED
      BY SMTT(30), <2>1 DEF Promotes, Recycles, Guarded, TypeOK
  <1>5. CASE DeleteStep(i)
    <2>1. DeleteRemoves(i)
      BY <1>5 DEF DeleteStep, DeleteBegins, DeleteRecordOnly, DeleteChecks,
                  DeleteFinishes, DeleteProject
    <2> QED
      BY <2>1 DEF DeleteRemoves, Guarded, TypeOK
  <1> QED
    BY <1>2, <1>3, <1>4, <1>5

\* A rename over a file, the recycling of one and the removal of one.
LEMMA EachHasTheRight ==
    ASSUME Guarded, Next, NEW p \in Path, files[p] # None, files'[p] # files[p], ~UserStep
    PROVE  \E i \in Item : ArchiveMay(i, p) \/ DeleteMay(i, p)
  <1>1. PICK i \in Item :
              \/ Promotes(i) /\ p = job[i].target
              \/ Recycles(i) /\ p = job[i].was[job[i].slot]
              \/ DeleteRemoves(i) /\ p = row[i].dest[del[i].slot]
    BY FilesChanged
  <1>2. CASE Promotes(i) /\ p = job[i].target
    BY SMTT(30), <1>2 DEF Promotes, Guarded, TargetKnown, Owns, ArchiveMay
  <1>3. CASE Recycles(i) /\ p = job[i].was[job[i].slot]
    BY SMTT(30), <1>3 DEF Recycles, Guarded, TargetKnown, Owns, ArchiveMay
  <1>4. CASE DeleteRemoves(i) /\ p = row[i].dest[del[i].slot]
    <2>1. del[i].slot \in Slot
      BY DEF Guarded, TypeOK, Deletion
    <2> QED
      BY <1>4, <2>1 DEF DeleteRemoves, Guarded, RemovalChecked, Deletable, DeleteMay
  <1> QED
    BY <1>1, <1>2, <1>3, <1>4

\* A rename never leaves nothing, and what is recycled is an old target of a
\* committed row with its new outputs in place.
LEMMA OldGoesLast ==
    ASSUME Guarded, Next, NEW p \in Path, files[p] # None, files'[p] = None, ~UserStep
    PROVE  \/ \E i \in Item : DeleteMay(i, p)
           \/ \E i \in Item :
                /\ p \in Targets(job[i].was) \ Targets(job[i].placed)
                /\ row[i].status \in {"completed", "gone"}
                /\ \A s \in Slot :
                      LET new == job[i].placed[s]
                      IN  IF new = None THEN row[i].want.bytes[s] = None
                          ELSE new \in disturbed
                               \/ files[new] = row[i].want.bytes[s]
  <1>1. PICK i \in Item :
              \/ Promotes(i) /\ p = job[i].target
              \/ Recycles(i) /\ p = job[i].was[job[i].slot]
              \/ DeleteRemoves(i) /\ p = row[i].dest[del[i].slot]
    BY FilesChanged
  <1>2. job[i] \in Job /\ row[i] \in Row /\ job[i].slot \in Slot
    BY DEF Guarded, TypeOK, Job
  <1>3. ~Promotes(i)
    <2>1. SUFFICES ASSUME Promotes(i), p = job[i].target PROVE FALSE
      BY <1>1 DEF Promotes, Recycles, DeleteRemoves, Guarded, Exclusive
    <2>2. New(i) # None
      <3>1. row[i].want.bytes["main"] # None
        BY <1>2, OutputsAssumption DEF Row
      <3>2. job[i].slot # "main" => row[i].want.bytes["avatar"] # None
        BY <2>1 DEF Promotes, Guarded, PlacedInOrder, Copying
      <3> QED
        BY <1>2, <3>1, <3>2 DEF New, Slot
    <2> QED
      BY <2>1, <2>2 DEF Promotes, Guarded, TypeOK
  <1>4. CASE Recycles(i) /\ p = job[i].was[job[i].slot]
    <2>1. job[i].pc = "recycle" /\ p # job[i].placed[job[i].slot]
      BY <1>4 DEF Recycles, Guarded, TargetKnown
    <2>2. p \in Targets(job[i].was) \ Targets(job[i].placed)
      <3>1. p \in Targets(job[i].was)
        BY <1>2, <1>4 DEF Targets
      <3>2. job[i].was \in Places /\ job[i].placed \in Places
        BY <1>2 DEF Job
      <3>3. p # None /\ p[1] = job[i].slot
        BY <1>2, <1>4, <2>1, <3>2, NoneAssumption, PlacesApart
      <3>4. \A s \in Slot : p = job[i].placed[s] => s = job[i].slot
        BY <3>2, <3>3, PlacesApart
      <3> QED
        BY <2>1, <3>1, <3>4 DEF Targets
    <2>3. row[i].status \in {"completed", "gone"}
      BY <2>1 DEF Guarded, JobHoldsRow, Retiring
    <2>4. ASSUME NEW s \in Slot
          PROVE  IF job[i].placed[s] = None THEN row[i].want.bytes[s] = None
                 ELSE job[i].placed[s] \in disturbed
                      \/ files[job[i].placed[s]] = row[i].want.bytes[s]
      BY SMTT(30), <2>1 DEF Guarded, OutputsPlaced, PlacedInOrder, Retiring
    <2> QED
      BY <2>2, <2>3, <2>4
  <1>5. CASE DeleteRemoves(i) /\ p = row[i].dest[del[i].slot]
    <2>1. del[i].slot \in Slot
      BY DEF Guarded, TypeOK, Deletion
    <2> QED
      BY <1>5, <2>1 DEF DeleteRemoves, Guarded, RemovalChecked, Deletable, DeleteMay
  <1> QED
    BY <1>1, <1>3, <1>4, <1>5

-----------------------------------------------------------------------------
(* Theorems.                                                               *)

\* However many captures, names and contents there are, the columns of a row,
\* its fingerprints and the files keep their types and the relations between
\* them that archive and deletion rely on.
THEOREM ArchiveGuarded ==
    ASSUME Calm
    PROVE  Spec => []Guarded
  <1>1. Guarded /\ [Next]_vars => Guarded'
    BY NextGuarded
  <1> QED
    BY <1>1, InitGuarded, PTL DEF Spec

\* A completed capture keeps its archive: its destinations are recorded, and
\* the files at them are the recorded ones until the user or a deletion
\* touches them.
THEOREM CompletedStayIntact ==
    ASSUME Calm
    PROVE  Spec => []CompletedIntact
  <1>1. Guarded => CompletedIntact
    BY DEF Guarded
  <1> QED
    BY <1>1, ArchiveGuarded, PTL

\* No step but the user's own changes a file without the right to it.
THEOREM OwnFilesOnly ==
    ASSUME Calm
    PROVE  Spec => OnlyRecordedReplaced
  <1> DEFINE A == \A p \in Path : files[p] # None /\ files'[p] # files[p] =>
                     \/ UserStep
                     \/ \E i \in Item : ArchiveMay(i, p) \/ DeleteMay(i, p)
  <1>1. Guarded /\ [Next]_vars => [A]_vars
    BY EachHasTheRight
  <1>2. Spec => []Guarded
    BY ArchiveGuarded
  <1> QED
    BY <1>1, <1>2, PTL DEF Spec, OnlyRecordedReplaced

\* The new archive is on disk and in the row before an old one is retired.
THEOREM NewComesFirst ==
    ASSUME Calm
    PROVE  Spec => NewBeforeOld
  <1> DEFINE A == \A p \in Path : files[p] # None /\ files'[p] = None =>
                     \/ UserStep
                     \/ \E i \in Item : DeleteMay(i, p)
                     \/ \E i \in Item :
                          /\ p \in Targets(job[i].was) \ Targets(job[i].placed)
                          /\ row[i].status \in {"completed", "gone"}
                          /\ \A s \in Slot :
                                LET new == job[i].placed[s]
                                IN  IF new = None THEN row[i].want.bytes[s] = None
                                    ELSE new \in disturbed
                                         \/ files[new] = row[i].want.bytes[s]
  <1>1. Guarded /\ [Next]_vars => [A]_vars
    BY OldGoesLast
  <1>2. Spec => []Guarded
    BY ArchiveGuarded
  <1> QED
    BY <1>1, <1>2, PTL DEF Spec, NewBeforeOld

-----------------------------------------------------------------------------
(* The picture itself: what a policy makes of it (ArchiveOutput).           *)

\* A quotient, without its rest.
LEMMA DivFacts ==
    ASSUME NEW a \in Nat, NEW b \in Nat, b > 0
    PROVE  (a \div b) \in Nat /\ (a \div b) * b <= a
  <1>1. (a \div b) \in Nat
    OBVIOUS
  <1>2. (a \div b) * b <= a
    OBVIOUS
  <1> QED
    BY <1>1, <1>2

LEMMA TimesMonotone ==
    ASSUME NEW a \in Nat, NEW b \in Nat, NEW c \in Nat, a <= b
    PROVE  a * c <= b * c
  OBVIOUS

LEMMA TimesMinus ==
    ASSUME NEW a \in Nat, NEW b \in Nat, NEW c \in Nat
    PROVE  a * (b - c) = a * b - a * c
  OBVIOUS

LEMMA TimesType ==
    ASSUME NEW a \in Nat, NEW b \in Nat
    PROVE  a * b \in Nat /\ a * b = b * a
  OBVIOUS

\* If w is scaled by less than one, the rounded result is no larger than w.
LEMMA ScaledDown ==
    ASSUME NEW w \in Nat, NEW h \in Nat, NEW t \in Nat, t < h
    PROVE  (2 * w * t + h) \div (2 * h) <= w \/ w = 0
  <1> DEFINE q == (2 * w * t + h) \div (2 * h)
  <1>1. 2 * w * t = 2 * (w * t) /\ w * t \in Nat /\ w * h \in Nat
    BY TimesType
  <1>2. q \in Nat /\ q * (2 * h) <= 2 * w * t + h
    <2>1. 2 * w * t + h \in Nat /\ 2 * h \in Nat /\ 2 * h > 0
      BY <1>1
    <2> HIDE DEF q
    <2>2. \A a \in Nat, b \in Nat : b > 0 => (a \div b) \in Nat /\ (a \div b) * b <= a
      BY DivFacts
    <2> QED
      BY <2>1, <2>2 DEF q
  <1> HIDE DEF q
  <1>3. w * t + w <= w * h
    <2>1. 1 * w <= (h - t) * w
      BY TimesMonotone
    <2>2. (h - t) * w = w * h - w * t
      BY TimesMinus, TimesType
    <2> QED
      BY <1>1, <2>1, <2>2
  <1>4. ASSUME q >= w + 1 PROVE w = 0
    <2>1. (w + 1) * (2 * h) <= q * (2 * h)
      BY <1>2, <1>4, TimesMonotone
    <2>2. (w + 1) * (2 * h) = 2 * (w * h) + 2 * h
      OBVIOUS
    <2>3. q * (2 * h) \in Nat
      BY <1>2, TimesType
    <2> QED
      BY <1>1, <1>2, <1>3, <2>1, <2>2, <2>3
  <1> QED
    BY <1>2, <1>4 DEF q

LEMMA ScaledWidthBound ==
    ASSUME NEW pic \in Pictures, NEW t \in Extent, t < pic.height
    PROVE  ScaledWidth(pic, t) \in 1 .. pic.width
  <1> DEFINE q == (2 * pic.width * t + pic.height) \div (2 * pic.height)
  <1>1. /\ pic.width \in Nat /\ pic.width > 0 /\ pic.height \in Nat /\ t \in Nat
    BY DEF Pictures, Extent
  <1>2. q \in Nat
    <2>1. 2 * pic.width * t + pic.height \in Nat /\ 2 * pic.height \in Nat /\ 2 * pic.height > 0
      BY <1>1, TimesType
    <2>2. \A a \in Nat, b \in Nat : b > 0 => (a \div b) \in Nat
      BY DivFacts
    <2> QED
      BY <2>1, <2>2
  <1>3. q <= pic.width
    BY <1>1, ScaledDown
  <1> HIDE DEF q
  <1>4. (IF q = 0 THEN 1 ELSE q) \in 1 .. pic.width
    BY <1>1, <1>2, <1>3
  <1> QED
    BY <1>4 DEF ScaledWidth, q

LEMMA FileType ==
    ASSUME NEW pic \in Files
    PROVE  /\ pic.width \in Nat /\ pic.height \in Nat
           /\ Readable(pic) <=> pic \in Pictures
           /\ Readable(pic) => pic.width > 0 /\ pic.height > 0
           /\ ~Readable(pic) => pic = Unreadable
  BY DEF Files, Pictures, Unreadable, Readable, Extent, SourceFormats

\* The height wanted, where one is.
LEMMA TargetHeightType ==
    ASSUME NEW spec \in Specs
    PROVE  /\ TargetHeight(spec) \in Nat
           /\ TargetHeight(spec) = 0
                  <=> spec.size = "keep" \/ (spec.size = "native" /\ spec.native = 0)
  <1>1. spec.size \in Sizes /\ spec.native \in Nat
    BY DEF Specs
  <1> QED
    BY <1>1 DEF Sizes, TargetHeight

LEMMA UnreadableCopied ==
    ASSUME NEW spec \in Specs
    PROVE  ~Reencodes(Unreadable, spec) /\ ~NeedsResize(Unreadable, spec)
  BY TargetHeightType DEF Reencodes, Reencodable, Readable, NeedsResize, Unreadable

\* Nothing is ever upscaled, in width or height, whatever picture and policy.
THEOREM NothingUpscaled ==
    ASSUME NEW pic \in Files, NEW spec \in Specs
    PROVE  NeverUpscaled(pic, spec)
  <1>1. CASE NeedsResize(pic, spec) /\ Reencodes(pic, spec)
    <2>1. TargetHeight(spec) \in Extent /\ TargetHeight(spec) < pic.height
      BY <1>1, TargetHeightType DEF NeedsResize, Extent
    <2>2. pic \in Pictures
      BY <1>1, FileType DEF Reencodes, Reencodable
    <2>3. ScaledWidth(pic, TargetHeight(spec)) \in 1 .. pic.width
      BY <2>1, <2>2, ScaledWidthBound
    <2>4. /\ Written(pic, spec).width = ScaledWidth(pic, TargetHeight(spec))
          /\ Written(pic, spec).height = TargetHeight(spec)
      BY <1>1 DEF Written
    <2> QED
      BY <2>1, <2>3, <2>4, FileType DEF NeverUpscaled, Extent
  <1>2. CASE ~(NeedsResize(pic, spec) /\ Reencodes(pic, spec))
    <2>1. Written(pic, spec).width = pic.width /\ Written(pic, spec).height = pic.height
      BY <1>2 DEF Written
    <2> QED
      BY <2>1, FileType DEF NeverUpscaled
  <1> QED
    BY <1>1, <1>2

\* The facts shown about an archived picture are true, and complete.
THEOREM FactsTell ==
    ASSUME NEW pic \in Files, NEW spec \in Specs
    PROVE  FactsTrue(pic, spec)
  <1>1. spec.format \in Formats
    BY DEF Specs
  <1>2. CASE ~Readable(pic)
    <2>1. pic = Unreadable /\ pic.format = "unknown" /\ Written(pic, spec) = pic
      BY <1>2, FileType, UnreadableCopied DEF Written, Unreadable
    <2>2. "unknown" # spec.format
      BY <1>1 DEF Formats
    <2> QED
      BY <1>2, <2>1, <2>2, UnreadableCopied DEF FactsTrue, FormatApplied, SizeApplied, ConvertNeeded
  <1>3. CASE Readable(pic)
    <2>1. Converts(spec) => Reencodes(pic, spec) \/ pic.format = spec.format
      BY <1>3 DEF Reencodes, Reencodable, ConvertNeeded
    <2>2. Converts(spec) => Written(pic, spec).format = spec.format
      BY <2>1 DEF Written
    <2>3. FormatApplied(pic, spec)
      BY <2>1 DEF FormatApplied, ConvertNeeded
    <2>4. SizeApplied(pic, spec)
              <=> spec.size = "keep"
                  \/ (TargetHeight(spec) # 0 /\ (NeedsResize(pic, spec) => Reencodes(pic, spec)))
      BY <1>3, TargetHeightType DEF SizeApplied
    <2>5. ASSUME TargetHeight(spec) # 0
          PROVE  (NeedsResize(pic, spec) => Reencodes(pic, spec))
                     <=> Written(pic, spec).height <= TargetHeight(spec)
      <3>1. TargetHeight(spec) \in Nat /\ pic.height \in Nat
        BY TargetHeightType, FileType
      <3>2. CASE NeedsResize(pic, spec) /\ Reencodes(pic, spec)
        <4>1. Written(pic, spec).height = TargetHeight(spec)
          BY <3>2 DEF Written
        <4> QED
          BY <3>1, <3>2, <4>1
      <3>3. CASE ~(NeedsResize(pic, spec) /\ Reencodes(pic, spec))
        <4>1. Written(pic, spec).height = pic.height
          BY <3>3 DEF Written
        <4> QED
          BY <2>5, <3>1, <3>3, <4>1 DEF NeedsResize
      <3> QED
        BY <3>2, <3>3
    <2> QED
      BY <1>3, <2>2, <2>3, <2>4, <2>5 DEF FactsTrue
  <1> QED
    BY <1>2, <1>3

\* What the user wants kept is copied, and no quality is claimed of a copy.
THEOREM KeptIsCopied ==
    ASSUME NEW pic \in Files, NEW spec \in Specs
    PROVE  CopyKept(pic, spec)
  <1> SUFFICES ASSUME spec.format = "keep",
                      spec.size = "keep" \/ ~Readable(pic) \/ pic.format = "webp"
               PROVE  ~Reencodes(pic, spec) /\ QualityKind(pic, spec) # "quality"
    BY DEF CopyKept
  <1>1. ~Converts(spec) /\ spec.format \notin {"jpeg", "webp"}
    BY DEF Converts
  <1>2. spec.size = "keep" => ~NeedsResize(pic, spec)
    BY TargetHeightType DEF NeedsResize
  <1>3. ~Reencodes(pic, spec)
    BY <1>1, <1>2 DEF Reencodes, Reencodable, ConvertNeeded
  <1> QED
    BY <1>3 DEF QualityKind

\* Whatever a project row and the metadata of a capture hold, the policy in
\* force is one of those offered, as long as the global settings are.
THEOREM PolicyAllowed ==
    ASSUME NEW global \in Specs, NEW project, NEW metadata
    PROVE  Resolved(project, global, ScreenSize(metadata)) \in Specs
  BY DEF Resolved, ScreenSize, Inherited, Specs, Extent

-----------------------------------------------------------------------------
(* The database (DatabaseRestore), for any order of user actions, failures  *)
(* and kills.                                                               *)

RestoreType ==
    /\ main \in File /\ wal \in Wal /\ pre \in File /\ preWal \in Wal
    /\ pending \in File /\ backup \in File
    /\ marker \in DbContent \cup {NoFile} /\ staging \in DbContent \cup {NoFile}
    /\ app \in App
    /\ allowed \in [ops : SUBSET STRING, left : Nat]

\* The request, its copy and what a start made of it come from a backup.
FromBackups ==
    /\ manifest # NoFile => manifest \in made
    /\ staging # NoFile => staging \in made
    /\ marker # NoFile => marker \in made
    /\ app.taken # NoFile => app.taken \in made
    /\ app.pc \in {"snapshot", "snapshotWal", "dropWal", "swap"} => pending \in made \cup {Part}
    /\ app.pc = "validate" => main \in made \cup {Part}
    /\ app.applied \/ app.pc = "clear" => main \in made

\* A log lies beside its own file, live and in the snapshot, and there is none when
\* a file is renamed into place, unless a log could not be removed.
Clean == "stuckLog" \notin allowed.ops
Saved == \/ app.pc \in {"dropWal", "swap", "validate", "clear", "undoMain", "undoWal", "undoSwap"}
         \/ app.pc = "open" /\ app.applied
CleanLogs ==
    /\ wal # NoFile /\ main # NoFile => wal.on = main
    /\ app.pc \in {"swap", "validate", "clear", "undoSwap", "undoSwapWal"} => wal = NoFile
    /\ app.pc \in {"snapshot", "snapshotWal"} => preWal = NoFile
    /\ Saved /\ preWal # NoFile => preWal.on = pre
    /\ app.pc = "undoSwapWal" /\ preWal # NoFile => preWal.on = main
OwnLogs ==
    /\ app.applied => app.pc = "open"
    /\ app.pc = "snapshotWal" => pre = main
    /\ app.pc \in {"snapshotWal", "dropWal"} => main # NoFile
    /\ Saved => pre # NoFile
    /\ app.pc \in {"undoSwapWal", "undoClear", "running", "discard"} => main # NoFile
    /\ wal # NoFile => wal.on # NoFile
    /\ preWal # NoFile => preWal.on # NoFile

RestoreInv == RestoreType /\ FromBackups /\ OwnLogs /\ (Clean => CleanLogs)

-----------------------------------------------------------------------------
LEMMA Names == NoFile \notin DbContent /\ Part \notin DbContent /\ NoFile # Part /\ Empty \in DbContent
               /\ Sound \subseteq DbContent
  BY ContentAssumption

LEMMA LogType ==
    ASSUME NEW f \in File, NEW c \in DbContent
    PROVE  /\ [on |-> f, data |-> c] \in Wal /\ [on |-> f, data |-> c] # NoFile
           /\ [on |-> f, data |-> c].on = f /\ [on |-> f, data |-> c].data = c
  BY Names, ContentAssumption DEF Wal, File

-----------------------------------------------------------------------------
(* Steps, one by one: copies, removals and renames of single files               *)

\* What may happen is decided at the beginning.
LEMMA OpsNext ==
    ASSUME RestoreInv, RestoreNext
    PROVE  allowed' \in [ops : SUBSET STRING, left : Nat] /\ allowed'.ops = allowed.ops
  <1> USE DEF RestoreInv, RestoreType, Takes, Removes, RemovesBoth
  <1>1. CASE Starts
    BY <1>1 DEF Starts
  <1>2. CASE Skips
    BY <1>2 DEF Skips
  <1>3. CASE ChecksStaged
    BY <1>3 DEF ChecksStaged
  <1>4. CASE SnapshotsMain
    BY <1>4 DEF SnapshotsMain
  <1>5. CASE SnapshotsWal
    BY <1>5 DEF SnapshotsWal
  <1>6. CASE DropsWal
    BY <1>6 DEF DropsWal
  <1>7. CASE Swaps
    BY <1>7 DEF Swaps
  <1>8. CASE GivesUp
    BY <1>8 DEF GivesUp
  <1>9. CASE Validates
    BY <1>9 DEF Validates
  <1>10. CASE Clears
    BY <1>10 DEF Clears
  <1>30. CASE ReadBackFails
    BY <1>30 DEF ReadBackFails
  <1>11. CASE Opens
    BY <1>11 DEF Opens
  <1>12. CASE Rejects
    BY <1>12 DEF Rejects
  <1>13. CASE Discards
    BY <1>13 DEF Discards
  <1>14. CASE UndoesMain
    BY <1>14 DEF UndoesMain
  <1>15. CASE UndoesWal
    BY <1>15 DEF UndoesWal
  <1>16. CASE UndoesSwap
    BY <1>16 DEF UndoesSwap
  <1>17. CASE UndoesSwapWal
    BY <1>17 DEF UndoesSwapWal
  <1>18. CASE UndoesClear
    BY <1>18 DEF UndoesClear
  <1>19. CASE UndoFails
    BY <1>19 DEF UndoFails
  <1>20. CASE BackupBegins
    BY <1>20 DEF BackupBegins
  <1>21. CASE BackupEnds
    BY <1>21 DEF BackupEnds
  <1>22. CASE StageBegins
    BY <1>22 DEF StageBegins
  <1>23. CASE StageEnds
    BY <1>23 DEF StageEnds
  <1>31. CASE StageFails
    BY <1>31 DEF StageFails
  <1>24. CASE Cancels
    BY <1>24 DEF Cancels
  <1>25. CASE Stops
    BY <1>25 DEF Stops
  <1>26. CASE Checkpoint
    BY <1>26 DEF Checkpoint
  <1>27. CASE Kills
    BY <1>27 DEF Kills
  <1>28. CASE Damage
    BY <1>28 DEF Damage
  <1>29. ASSUME NEW c \in Sound \ {Empty}, Write(c) PROVE allowed' \in [ops : SUBSET STRING, left : Nat] /\ allowed'.ops = allowed.ops
    BY <1>29 DEF Write
  <1> QED
    BY <1>1, <1>2, <1>3, <1>4, <1>5, <1>6, <1>7, <1>8, <1>9, <1>10, <1>11, <1>12, <1>13, <1>14,
       <1>15, <1>16, <1>17, <1>18, <1>19, <1>20, <1>21, <1>22, <1>23, <1>24, <1>25, <1>26, <1>27, <1>28, <1>29, <1>30, <1>31
    DEF RestoreNext, Start, Rollback, User

\* Files stay files.
LEMMA TypeNext ==
    ASSUME RestoreInv, RestoreNext
    PROVE  RestoreType'
  <1>0. allowed' \in [ops : SUBSET STRING, left : Nat]
    BY OpsNext
  <1> USE Names, <1>0 DEF RestoreInv, RestoreType, OwnLogs, Goes, Takes, live, staged, snapshot,
             App, Wal, File, Applying, RollingBack, Valid, Whole, Mixed, Removes, RemovesBoth, Open, Database, Read
  <1>1. CASE Starts
    BY <1>1 DEF Starts
  <1>2. CASE Skips
    BY <1>2 DEF Skips
  <1>3. CASE ChecksStaged
    BY <1>3 DEF ChecksStaged
  <1>4. CASE SnapshotsMain
    BY <1>4 DEF SnapshotsMain
  <1>5. CASE SnapshotsWal
    BY <1>5 DEF SnapshotsWal
  <1>6. CASE DropsWal
    BY <1>6 DEF DropsWal
  <1>7. CASE Swaps
    BY <1>7 DEF Swaps
  <1>8. CASE GivesUp
    BY <1>8 DEF GivesUp
  <1>9. CASE Validates
    BY <1>9 DEF Validates
  <1>10. CASE Clears
    <2>1. app' \in App
      BY <1>10 DEF Clears
    <2>2. marker' \in DbContent \cup {NoFile} /\ pending' \in File
      BY <1>10 DEF Clears
    <2> QED
      BY <1>10, <2>1, <2>2 DEF Clears
  <1>30. CASE ReadBackFails
    <2>1. app' \in App
      BY <1>30 DEF ReadBackFails
    <2>2. marker' \in DbContent \cup {NoFile} /\ pending' \in File
      BY <1>30 DEF ReadBackFails
    <2> QED
      BY <1>30, <2>1, <2>2 DEF ReadBackFails
  <1>11. CASE Opens
    BY <1>11 DEF Opens
  <1>12. CASE Rejects
    <2>1. wal' \in Wal
      BY <1>12 DEF Rejects, Wal
    <2>2. app' \in App
      BY <1>12 DEF Rejects
    <2> QED
      BY <1>12, <2>1, <2>2 DEF Rejects
  <1>13. CASE Discards
    BY <1>13 DEF Discards
  <1>14. CASE UndoesMain
    BY <1>14 DEF UndoesMain
  <1>15. CASE UndoesWal
    BY <1>15 DEF UndoesWal
  <1>16. CASE UndoesSwap
    BY <1>16 DEF UndoesSwap
  <1>17. CASE UndoesSwapWal
    BY <1>17 DEF UndoesSwapWal
  <1>18. CASE UndoesClear
    <2>1. app' \in App
      BY <1>18 DEF UndoesClear
    <2>2. marker' \in DbContent \cup {NoFile} /\ pending' \in File
      BY <1>18 DEF UndoesClear
    <2> QED
      BY <1>18, <2>1, <2>2 DEF UndoesClear
  <1>19. CASE UndoFails
    <2>1. app' \in App
      <3>1. CASE app.taken # NoFile
        BY <1>19, <3>1 DEF UndoFails
      <3>2. CASE app.taken = NoFile
        BY <1>19, <3>2 DEF UndoFails
      <3> QED
        BY <3>1, <3>2
    <2> QED
      BY <1>19, <2>1 DEF UndoFails
  <1>20. CASE BackupBegins
    BY <1>20 DEF BackupBegins
  <1>21. CASE BackupEnds
    BY <1>21 DEF BackupEnds
  <1>22. CASE StageBegins
    BY <1>22 DEF StageBegins
  <1>23. CASE StageEnds
    BY <1>23 DEF StageEnds
  <1>31. CASE StageFails
    BY <1>31 DEF StageFails
  <1>24. CASE Cancels
    BY <1>24 DEF Cancels
  <1>25. CASE Stops
    BY <1>25 DEF Stops
  <1>26. CASE Checkpoint
    BY <1>26 DEF Checkpoint
  <1>27. CASE Kills
    BY <1>27 DEF Kills
  <1>28. CASE Damage
    BY <1>28 DEF Damage
  <1>29. ASSUME NEW c \in Sound \ {Empty}, Write(c) PROVE RestoreType'
    BY <1>29, LogType DEF Write
  <1> QED
    BY <1>1, <1>2, <1>3, <1>4, <1>5, <1>6, <1>7, <1>8, <1>9, <1>10, <1>11, <1>12, <1>13, <1>14,
       <1>15, <1>16, <1>17, <1>18, <1>19, <1>20, <1>21, <1>22, <1>23, <1>24, <1>25, <1>26, <1>27, <1>28, <1>29, <1>30, <1>31
    DEF RestoreNext, Start, Rollback, User

\* What is installed was backed up: a copy that was damaged is found out.
LEMMA BackupsNext ==
    ASSUME RestoreInv, RestoreNext
    PROVE  FromBackups'
  <1> USE Names DEF RestoreInv, RestoreType, FromBackups, OwnLogs, Goes, Takes, live, staged, snapshot,
             App, Wal, Applying, RollingBack, Valid, Whole, Mixed, Removes, RemovesBoth, Open, Database, Read
  <1>1. CASE Starts
    BY <1>1 DEF Starts
  <1>2. CASE Skips
    BY <1>2 DEF Skips
  <1>3. CASE ChecksStaged
    BY <1>3 DEF ChecksStaged
  <1>4. CASE SnapshotsMain
    BY <1>4 DEF SnapshotsMain
  <1>5. CASE SnapshotsWal
    BY <1>5 DEF SnapshotsWal
  <1>6. CASE DropsWal
    BY <1>6 DEF DropsWal
  <1>7. CASE Swaps
    BY <1>7 DEF Swaps
  <1>8. CASE GivesUp
    BY <1>8 DEF GivesUp
  <1>9. CASE Validates
    BY <1>9 DEF Validates
  <1>10. CASE Clears
    BY <1>10 DEF Clears
  <1>30. CASE ReadBackFails
    BY <1>30 DEF ReadBackFails
  <1>11. CASE Opens
    BY <1>11 DEF Opens
  <1>12. CASE Rejects
    BY <1>12 DEF Rejects
  <1>13. CASE Discards
    BY <1>13 DEF Discards
  <1>14. CASE UndoesMain
    BY <1>14 DEF UndoesMain
  <1>15. CASE UndoesWal
    BY <1>15 DEF UndoesWal
  <1>16. CASE UndoesSwap
    BY <1>16 DEF UndoesSwap
  <1>17. CASE UndoesSwapWal
    BY <1>17 DEF UndoesSwapWal
  <1>18. CASE UndoesClear
    BY <1>18 DEF UndoesClear
  <1>19. CASE UndoFails
    BY <1>19 DEF UndoFails
  <1>20. CASE BackupBegins
    BY <1>20 DEF BackupBegins
  <1>21. CASE BackupEnds
    BY <1>21 DEF BackupEnds
  <1>22. CASE StageBegins
    BY <1>22 DEF StageBegins
  <1>23. CASE StageEnds
    BY <1>23 DEF StageEnds
  <1>31. CASE StageFails
    BY <1>31 DEF StageFails
  <1>24. CASE Cancels
    BY <1>24 DEF Cancels
  <1>25. CASE Stops
    BY <1>25 DEF Stops
  <1>26. CASE Checkpoint
    BY <1>26 DEF Checkpoint
  <1>27. CASE Kills
    BY <1>27 DEF Kills
  <1>28. CASE Damage
    BY <1>28 DEF Damage
  <1>29. ASSUME NEW c \in Sound \ {Empty}, Write(c) PROVE FromBackups'
    BY <1>29, LogType DEF Write
  <1> QED
    BY <1>1, <1>2, <1>3, <1>4, <1>5, <1>6, <1>7, <1>8, <1>9, <1>10, <1>11, <1>12, <1>13, <1>14,
       <1>15, <1>16, <1>17, <1>18, <1>19, <1>20, <1>21, <1>22, <1>23, <1>24, <1>25, <1>26, <1>27, <1>28, <1>29, <1>30, <1>31
    DEF RestoreNext, Start, Rollback, User

\* What a roll-back needs is there.
LEMMA LogsNext ==
    ASSUME RestoreInv, RestoreNext
    PROVE  OwnLogs'
  <1> USE Names DEF RestoreInv, RestoreType, FromBackups, OwnLogs, Saved, Goes, Takes, live, staged, snapshot,
             App, Wal, Applying, RollingBack, Valid, Whole, Mixed, MayPrepare, Removes, RemovesBoth, Open, Prepared, Database, Read
  <1>1. CASE Starts
    BY <1>1 DEF Starts
  <1>2. CASE Skips
    BY <1>2 DEF Skips
  <1>3. CASE ChecksStaged
    BY <1>3 DEF ChecksStaged
  <1>4. CASE SnapshotsMain
    BY <1>4 DEF SnapshotsMain
  <1>5. CASE SnapshotsWal
    BY <1>5 DEF SnapshotsWal
  <1>6. CASE DropsWal
    BY <1>6 DEF DropsWal
  <1>7. CASE Swaps
    BY <1>7 DEF Swaps
  <1>8. CASE GivesUp
    BY <1>8 DEF GivesUp
  <1>9. CASE Validates
    BY <1>9 DEF Validates
  <1>10. CASE Clears
    BY <1>10 DEF Clears
  <1>30. CASE ReadBackFails
    BY <1>30 DEF ReadBackFails
  <1>11. CASE Opens
    BY <1>11 DEF Opens
  <1>12. CASE Rejects
    BY <1>12 DEF Rejects
  <1>13. CASE Discards
    BY <1>13 DEF Discards
  <1>14. CASE UndoesMain
    BY <1>14 DEF UndoesMain
  <1>15. CASE UndoesWal
    BY <1>15 DEF UndoesWal
  <1>16. CASE UndoesSwap
    BY <1>16 DEF UndoesSwap
  <1>17. CASE UndoesSwapWal
    BY <1>17 DEF UndoesSwapWal
  <1>18. CASE UndoesClear
    BY <1>18 DEF UndoesClear
  <1>19. CASE UndoFails
    BY <1>19 DEF UndoFails
  <1>20. CASE BackupBegins
    BY <1>20 DEF BackupBegins
  <1>21. CASE BackupEnds
    BY <1>21 DEF BackupEnds
  <1>22. CASE StageBegins
    BY <1>22 DEF StageBegins
  <1>23. CASE StageEnds
    BY <1>23 DEF StageEnds
  <1>31. CASE StageFails
    BY <1>31 DEF StageFails
  <1>24. CASE Cancels
    BY <1>24 DEF Cancels
  <1>25. CASE Stops
    BY <1>25 DEF Stops
  <1>26. CASE Checkpoint
    BY <1>26 DEF Checkpoint
  <1>27. CASE Kills
    BY <1>27 DEF Kills
  <1>28. CASE Damage
    BY <1>28 DEF Damage
  <1>29. ASSUME NEW c \in Sound \ {Empty}, Write(c) PROVE OwnLogs'
    BY <1>29, LogType DEF Write
  <1> QED
    BY <1>1, <1>2, <1>3, <1>4, <1>5, <1>6, <1>7, <1>8, <1>9, <1>10, <1>11, <1>12, <1>13, <1>14,
       <1>15, <1>16, <1>17, <1>18, <1>19, <1>20, <1>21, <1>22, <1>23, <1>24, <1>25, <1>26, <1>27, <1>28, <1>29, <1>30, <1>31
    DEF RestoreNext, Start, Rollback, User

\* No step leaves a file beside a log that is not its own.
LEMMA CleanNext ==
    ASSUME RestoreInv, Clean, CleanLogs, RestoreNext
    PROVE  CleanLogs'
  <1> USE Names DEF RestoreInv, RestoreType, FromBackups, OwnLogs, CleanLogs, Clean, Saved, Goes, Takes, live, staged, snapshot,
             App, Wal, Applying, RollingBack, Valid, Whole, Mixed, MayPrepare, Removes, RemovesBoth, Open, Prepared, Database, Read
  <1>1. CASE Starts
    BY <1>1 DEF Starts
  <1>2. CASE Skips
    BY <1>2 DEF Skips
  <1>3. CASE ChecksStaged
    BY <1>3 DEF ChecksStaged
  <1>4. CASE SnapshotsMain
    BY <1>4 DEF SnapshotsMain
  <1>5. CASE SnapshotsWal
    BY <1>5 DEF SnapshotsWal
  <1>6. CASE DropsWal
    BY <1>6 DEF DropsWal
  <1>7. CASE Swaps
    BY <1>7 DEF Swaps
  <1>8. CASE GivesUp
    BY <1>8 DEF GivesUp
  <1>9. CASE Validates
    BY <1>9 DEF Validates
  <1>10. CASE Clears
    BY <1>10 DEF Clears
  <1>30. CASE ReadBackFails
    BY <1>30 DEF ReadBackFails
  <1>11. CASE Opens
    BY <1>11 DEF Opens
  <1>12. CASE Rejects
    BY <1>12 DEF Rejects
  <1>13. CASE Discards
    BY <1>13 DEF Discards
  <1>14. CASE UndoesMain
    BY <1>14 DEF UndoesMain
  <1>15. CASE UndoesWal
    BY <1>15 DEF UndoesWal
  <1>16. CASE UndoesSwap
    BY <1>16 DEF UndoesSwap
  <1>17. CASE UndoesSwapWal
    BY <1>17 DEF UndoesSwapWal
  <1>18. CASE UndoesClear
    BY <1>18 DEF UndoesClear
  <1>19. CASE UndoFails
    BY <1>19 DEF UndoFails
  <1>20. CASE BackupBegins
    BY <1>20 DEF BackupBegins
  <1>21. CASE BackupEnds
    BY <1>21 DEF BackupEnds
  <1>22. CASE StageBegins
    BY <1>22 DEF StageBegins
  <1>23. CASE StageEnds
    BY <1>23 DEF StageEnds
  <1>31. CASE StageFails
    BY <1>31 DEF StageFails
  <1>24. CASE Cancels
    BY <1>24 DEF Cancels
  <1>25. CASE Stops
    BY <1>25 DEF Stops
  <1>26. CASE Checkpoint
    BY <1>26 DEF Checkpoint
  <1>27. CASE Kills
    BY <1>27 DEF Kills
  <1>28. CASE Damage
    BY <1>28 DEF Damage
  <1>29. ASSUME NEW c \in Sound \ {Empty}, Write(c) PROVE CleanLogs'
    BY <1>29, LogType DEF Write
  <1> QED
    BY <1>1, <1>2, <1>3, <1>4, <1>5, <1>6, <1>7, <1>8, <1>9, <1>10, <1>11, <1>12, <1>13, <1>14,
       <1>15, <1>16, <1>17, <1>18, <1>19, <1>20, <1>21, <1>22, <1>23, <1>24, <1>25, <1>26, <1>27, <1>28, <1>29, <1>30, <1>31
    DEF RestoreNext, Start, Rollback, User

LEMMA InitInv == RestoreInit => RestoreInv
  <1>1. RestoreInit => RestoreType
    BY Names, RestoreBudgetAssumption DEF RestoreInit, RestoreType, File, Wal, App
  <1>2. RestoreInit => FromBackups /\ OwnLogs /\ CleanLogs
    BY Names DEF RestoreInit, FromBackups, OwnLogs, CleanLogs, Saved, Applying, RollingBack
  <1> QED
    BY <1>1, <1>2 DEF RestoreInv

LEMMA StepInv == RestoreInv /\ [RestoreNext]_restoreVars => RestoreInv'
  <1>1. CASE UNCHANGED restoreVars
    BY <1>1 DEF restoreVars, RestoreInv, RestoreType, FromBackups, OwnLogs, CleanLogs, Clean, Saved
  <1>2. ASSUME RestoreInv, RestoreNext PROVE RestoreInv'
    <2>1. RestoreType' /\ FromBackups' /\ OwnLogs'
      BY <1>2, TypeNext, BackupsNext, LogsNext
    <2>2. Clean' => CleanLogs'
      BY <1>2, OpsNext, CleanNext DEF Clean, RestoreInv
    <2> QED
      BY <2>1, <2>2 DEF RestoreInv
  <1> QED
    BY <1>1, <1>2

-----------------------------------------------------------------------------
(* A start that nothing breaks                                                   *)

\* The database last in use is live while nothing is swapped, and else saved; what a
\* start is to install is what is requested, and what it has installed.
Untouched == \/ app.pc \in {"down", "check", "snapshot", "snapshotWal", "recovery", "undoClear"}
             \/ app.pc = "open" /\ ~app.applied
Kept ==
    /\ Untouched => main # NoFile /\ Database = prev
    /\ Saved => Read(pre, preWal) = prev
    /\ app.pc = "undoSwapWal" => Read(main, preWal) = prev
    /\ app.pc \in Applying => app.taken = marker /\ marker # NoFile
    /\ app.pc \in {"snapshot", "snapshotWal", "dropWal", "swap"} => pending \in {app.taken, Part}
    /\ app.pc = "validate" => main \in {app.taken, Part}
    /\ app.pc = "clear" => main = app.taken
    /\ app.applied => wal = NoFile /\ app.taken # NoFile /\ main = app.taken
    /\ app.applied \/ app.pc \in {"validate", "clear"} => pending = NoFile
KeptInv == RestoreInv /\ (Unbroken => Kept)

\* Short of what breaks it, nothing is in use that was not in use before or requested.
LEMMA KeptNext ==
    ASSUME RestoreInv, Unbroken, Kept, RestoreNext
    PROVE  Kept'
  <1> USE Names DEF RestoreInv, RestoreType, FromBackups, OwnLogs, Saved, CleanLogs, Clean, Untouched, Unbroken, Breaking,
             Kept, Goes, Takes, live, staged, snapshot,
             App, Wal, Applying, RollingBack, Valid, Whole, Mixed, MayPrepare, Removes, RemovesBoth, Open, Prepared, Database, Read
  <1>1. CASE Starts
    BY <1>1 DEF Starts
  <1>2. CASE Skips
    BY <1>2 DEF Skips
  <1>3. CASE ChecksStaged
    BY <1>3 DEF ChecksStaged
  <1>4. CASE SnapshotsMain
    BY <1>4 DEF SnapshotsMain
  <1>5. CASE SnapshotsWal
    BY <1>5 DEF SnapshotsWal
  <1>6. CASE DropsWal
    BY <1>6 DEF DropsWal
  <1>7. CASE Swaps
    BY <1>7 DEF Swaps
  <1>8. CASE GivesUp
    BY <1>8 DEF GivesUp
  <1>9. CASE Validates
    BY <1>9 DEF Validates
  <1>10. CASE Clears
    BY <1>10 DEF Clears
  <1>30. CASE ReadBackFails
    BY <1>30 DEF ReadBackFails
  <1>11. CASE Opens
    BY <1>11 DEF Opens
  <1>12. CASE Rejects
    BY <1>12 DEF Rejects
  <1>13. CASE Discards
    BY <1>13 DEF Discards
  <1>14. CASE UndoesMain
    BY <1>14 DEF UndoesMain
  <1>15. CASE UndoesWal
    BY <1>15 DEF UndoesWal
  <1>16. CASE UndoesSwap
    BY <1>16 DEF UndoesSwap
  <1>17. CASE UndoesSwapWal
    BY <1>17 DEF UndoesSwapWal
  <1>18. CASE UndoesClear
    BY <1>18 DEF UndoesClear
  <1>19. CASE UndoFails
    BY <1>19 DEF UndoFails
  <1>20. CASE BackupBegins
    BY <1>20 DEF BackupBegins
  <1>21. CASE BackupEnds
    BY <1>21 DEF BackupEnds
  <1>22. CASE StageBegins
    BY <1>22 DEF StageBegins, MayStage
  <1>23. CASE StageEnds
    BY <1>23 DEF StageEnds
  <1>31. CASE StageFails
    BY <1>31 DEF StageFails
  <1>24. CASE Cancels
    BY <1>24 DEF Cancels
  <1>25. CASE Stops
    BY <1>25 DEF Stops
  <1>26. CASE Checkpoint
    BY <1>26 DEF Checkpoint
  <1>27. CASE Kills
    BY <1>27 DEF Kills
  <1>28. CASE Damage
    BY <1>28 DEF Damage
  <1>29. ASSUME NEW c \in Sound \ {Empty}, Write(c) PROVE Kept'
    BY <1>29, LogType DEF Write
  <1> QED
    BY <1>1, <1>2, <1>3, <1>4, <1>5, <1>6, <1>7, <1>8, <1>9, <1>10, <1>11, <1>12, <1>13, <1>14,
       <1>15, <1>16, <1>17, <1>18, <1>19, <1>20, <1>21, <1>22, <1>23, <1>24, <1>25, <1>26, <1>27, <1>28, <1>29, <1>30, <1>31
    DEF RestoreNext, Start, Rollback, User

LEMMA InitKept == RestoreInit => KeptInv
  <1>1. RestoreInit => Kept
    BY Names DEF RestoreInit, Kept, Saved, Untouched, Applying, Database, Read
  <1> QED
    BY <1>1, InitInv DEF KeptInv

LEMMA OpsStay == RestoreInv /\ [RestoreNext]_restoreVars => allowed'.ops = allowed.ops
  BY OpsNext DEF restoreVars

LEMMA StepKept == KeptInv /\ [RestoreNext]_restoreVars => KeptInv'
  <1>1. CASE UNCHANGED restoreVars
    <2>1. Kept => Kept'
      BY <1>1 DEF restoreVars, Kept, Saved, Untouched, Database
    <2> QED
      BY <1>1, <2>1, StepInv DEF KeptInv, Unbroken, restoreVars
  <1>2. ASSUME KeptInv, RestoreNext PROVE KeptInv'
    BY SMTT(30), <1>2, StepInv, OpsNext, KeptNext DEF KeptInv, Unbroken
  <1> QED
    BY <1>1, <1>2

-----------------------------------------------------------------------------
(* Refinement of AtomicRestore                                                   *)

\* Every step, the user's, a start's or a roll-back's, is one of AtomicRestore or none.
LEMMA StepAbstract ==
    ASSUME RestoreInv, Unbroken, Kept, RestoreNext
    PROVE  Abstract!ANext \/ UNCHANGED Abstract!avars
  <1> USE Names DEF Abstract!ANext, Abstract!Write, Abstract!Ask, Abstract!Stop, Abstract!Start, Abstract!Install,
             Abstract!avars, RestoreInv, RestoreType, FromBackups, OwnLogs, Saved,
             CleanLogs, Clean, Untouched, Unbroken, Breaking, Kept, Goes, Takes, live, staged, snapshot,
             App, Wal, Applying, RollingBack, Valid, Whole, Mixed, MayPrepare, Removes, RemovesBoth, Open, Prepared, Database, Read
  <1>1. CASE Starts
    BY <1>1 DEF Starts
  <1>2. CASE Skips
    BY <1>2 DEF Skips
  <1>3. CASE ChecksStaged
    BY <1>3 DEF ChecksStaged
  <1>4. CASE SnapshotsMain
    BY <1>4 DEF SnapshotsMain
  <1>5. CASE SnapshotsWal
    BY <1>5 DEF SnapshotsWal
  <1>6. CASE DropsWal
    BY <1>6 DEF DropsWal
  <1>7. CASE Swaps
    BY <1>7 DEF Swaps
  <1>8. CASE GivesUp
    BY <1>8 DEF GivesUp
  <1>9. CASE Validates
    BY <1>9 DEF Validates
  <1>10. CASE Clears
    BY <1>10 DEF Clears
  <1>30. CASE ReadBackFails
    BY <1>30 DEF ReadBackFails
  <1>11. CASE Opens
    <2>1. ~Mixed
      BY DEF Mixed
    <2> QED
      BY <1>11, <2>1 DEF Opens
  <1>12. CASE Rejects
    BY <1>12 DEF Rejects
  <1>13. CASE Discards
    BY <1>13 DEF Discards
  <1>14. CASE UndoesMain
    BY <1>14 DEF UndoesMain
  <1>15. CASE UndoesWal
    BY <1>15 DEF UndoesWal
  <1>16. CASE UndoesSwap
    BY <1>16 DEF UndoesSwap
  <1>17. CASE UndoesSwapWal
    BY <1>17 DEF UndoesSwapWal
  <1>18. CASE UndoesClear
    BY <1>18 DEF UndoesClear
  <1>19. CASE UndoFails
    BY <1>19 DEF UndoFails
  <1>20. CASE BackupBegins
    BY <1>20 DEF BackupBegins
  <1>21. CASE BackupEnds
    BY <1>21 DEF BackupEnds
  <1>22. CASE StageBegins
    BY <1>22 DEF StageBegins
  <1>23. CASE StageEnds
    BY <1>23 DEF StageEnds
  <1>31. CASE StageFails
    BY <1>31 DEF StageFails
  <1>24. CASE Cancels
    BY <1>24 DEF Cancels
  <1>25. CASE Stops
    BY <1>25 DEF Stops
  <1>26. CASE Checkpoint
    BY <1>26 DEF Checkpoint
  <1>27. CASE Kills
    BY <1>27 DEF Kills
  <1>28. CASE Damage
    BY <1>28 DEF Damage
  <1>29. ASSUME NEW c \in Sound \ {Empty}, Write(c) PROVE Abstract!ANext \/ UNCHANGED Abstract!avars
    BY <1>29, LogType DEF Write
  <1> QED
    BY <1>1, <1>2, <1>3, <1>4, <1>5, <1>6, <1>7, <1>8, <1>9, <1>10, <1>11, <1>12, <1>13, <1>14,
       <1>15, <1>16, <1>17, <1>18, <1>19, <1>20, <1>21, <1>22, <1>23, <1>24, <1>25, <1>26, <1>27, <1>28, <1>29, <1>30, <1>31
    DEF RestoreNext, Start, Rollback, User

LEMMA StepRefines ==
    KeptInv /\ [RestoreNext]_restoreVars => [Unbroken => Abstract!ANext]_(Abstract!avars)
  <1> SUFFICES ASSUME KeptInv, [RestoreNext]_restoreVars, Unbroken
               PROVE  Abstract!ANext \/ UNCHANGED Abstract!avars
    BY DEF Abstract!avars
  <1>1. CASE UNCHANGED restoreVars
    BY <1>1 DEF restoreVars, Abstract!avars, Database
  <1>2. CASE RestoreNext
    BY <1>2, StepAbstract DEF KeptInv
  <1> QED
    BY <1>1, <1>2

LEMMA InitRefines == RestoreInit => Abstract!AInit
  BY Names DEF RestoreInit, Abstract!AInit, Database, Read

-----------------------------------------------------------------------------
(* Theorems                                                                      *)

\* Whatever fails and whenever the program is killed, what is installed is a whole
\* backup, and no database is read through the log of another, provided that the log
\* of the replaced one can be removed.
THEOREM LogsApart == RestoreSpec => []NeverMixed
  <1>1. RestoreInv => NeverMixed
    BY DEF RestoreInv, FromBackups, CleanLogs, Clean, Mixed, NeverMixed
  <1> QED
    BY <1>1, InitInv, StepInv, PTL DEF RestoreSpec

\* A start installs the requested database as a whole or leaves the one last in use,
\* with its latest transactions, through every failure but the four of Breaking: the
\* program implements AtomicRestore.
THEOREM RestoreIsAtomic == RestoreSpec => Atomic
  BY InitKept, StepKept, InitRefines, StepRefines, PTL DEF RestoreSpec, Atomic

\* And until a restored database is opened, the previous one can be put back.
THEOREM PreviousSurvives ==
    ASSUME \A b \in RestoreBudgets : b.ops \cap Breaking = {}
    PROVE  RestoreSpec => []PreviousKept
  <1>1. RestoreInit => KeptInv /\ Unbroken
    BY InitKept DEF RestoreInit, Unbroken
  <1>2. KeptInv /\ Unbroken /\ [RestoreNext]_restoreVars => (KeptInv /\ Unbroken)'
    BY StepKept, OpsStay DEF KeptInv, Unbroken
  <1>3. KeptInv /\ Unbroken => PreviousKept
    <2> SUFFICES ASSUME KeptInv, Unbroken, app.pc \notin {"running", "discard"}
                 PROVE  prev \in {Database, Read(pre, preWal), Read(main, preWal)}
      BY DEF PreviousKept
    <2>1. Untouched \/ Saved \/ app.pc = "undoSwapWal"
      BY DEF KeptInv, RestoreInv, RestoreType, App, Applying, RollingBack, Untouched, Saved
    <2> QED
      BY <2>1 DEF KeptInv, Kept
  <1> QED
    BY <1>1, <1>2, <1>3, PTL DEF RestoreSpec
=============================================================================

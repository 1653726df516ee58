------------------------------- MODULE FaceRepair -------------------------------
(***************************************************************************)
(* The repair of fragmented face boxes (capture_face_repair_service): one  *)
(* slot for the whole program, a job that probes completed captures and    *)
(* queues again those where the probe saw more of the face, and what       *)
(* happens to the same captures meanwhile.                                 *)
(***************************************************************************)
EXTENDS Naturals, FiniteSets

CONSTANTS
    Item, Task, NoOne,
    Trusted,      \* boxes from this quality on are not probed; 0 is a missing box
    RepairBudgets       \* what disturbs the repair, and how often

RepairAssumption ==
    /\ NoOne \notin Item \cup Task
    /\ Trusted \in Nat \ {0} /\ IsFiniteSet(Item)
    /\ RepairBudgets \subseteq [ops : SUBSET STRING, left : Nat]

VARIABLES
    item,    \* capture_items
    best,    \* the box the detector finds in an image
    slot,    \* STATUS
    job,     \* the repairs that hold a Reservation
    repairBudget

repairVars == <<item, best, slot, job, repairBudget>>

Quality == 0 .. Trusted
Row == [status : {"completed", "queued", "failed"}, person : BOOLEAN, box : Quality,
        raw : BOOLEAN,      \* archived without an annotation
        here : BOOLEAN]     \* the source validates
Slot == [state : {"idle", "running", "done", "partial", "failed"}, task : Task \cup {NoOne},
         total : Nat, requeued : Nat, kept : Nat, failed : Nat]

NoJob == [pc |-> "none", at |-> NoOne, stored |-> <<>>, probe |-> {}, retry |-> {}, sent |-> {}]
Free == [state |-> "idle", task |-> NoOne, total |-> 0, requeued |-> 0, kept |-> 0, failed |-> 0]

\* Completed captures, and one whose archive failed on an old target.
RepairInit ==
    /\ best \in [Item -> Quality]
    /\ item \in [Item -> {[status |-> s, person |-> TRUE, box |-> q, raw |-> FALSE, here |-> TRUE] :
                             s \in {"completed", "failed"}, q \in Quality}]
    /\ \A i \in Item : item[i].box <= best[i]
    /\ slot = Free
    /\ job = [t \in Task |-> NoJob]
    /\ repairBudget \in RepairBudgets

Disturbs(op) == /\ op \in repairBudget.ops /\ repairBudget.left > 0
                /\ repairBudget' = [repairBudget EXCEPT !.left = @ - 1]

-----------------------------------------------------------------------------
(* The reservation *)

\* Only the holder of a running slot changes it.
Mine(t) == slot.task = t /\ slot.state = "running"
Publishes(t, s) == slot' = IF Mine(t) THEN s ELSE slot
Proceeds(t, j) == job' = [job EXCEPT ![t] = j]

\* Wrong on purpose: the slot is taken whoever has it.
Grabbing_Acquires(t) ==
    /\ job[t].pc = "none" /\ slot.task # t
    /\ slot' = [Free EXCEPT !.state = "running", !.task = t]
    /\ Proceeds(t, [NoJob EXCEPT !.pc = "preview"])
    /\ UNCHANGED <<item, best, repairBudget>>

\* Reservation::acquire, looking and taking under one lock; an identifier is new.
Acquires(t) ==
    /\ job[t].pc = "none" /\ slot.state # "running" /\ slot.task # t
    /\ slot' = [Free EXCEPT !.state = "running", !.task = t]
    /\ Proceeds(t, [NoJob EXCEPT !.pc = "preview"])
    /\ UNCHANGED <<item, best, repairBudget>>

\* Drop for Reservation
Drops(t) ==
    /\ job[t].pc = "drop"
    /\ Publishes(t, [slot EXCEPT !.state = "failed"])
    /\ Proceeds(t, NoJob)
    /\ UNCHANGED <<item, best, repairBudget>>

\* The future is dropped at an await, or panics.
Cancels(t) ==
    /\ Disturbs("cancel") /\ job[t].pc \notin {"none", "drop"}
    /\ Proceeds(t, [job[t] EXCEPT !.pc = "drop"])
    /\ UNCHANGED <<item, best, slot>>

-----------------------------------------------------------------------------
(* start *)

Candidate(i) == item[i].status = "completed" /\ item[i].person /\ item[i].here
                /\ item[i].box < Trusted

\* preview: the suspicious captures, with their boxes
Previews(t) ==
    /\ job[t].pc = "preview"
    /\ Proceeds(t, [job[t] EXCEPT !.pc = "retries",
                       !.stored = [i \in {j \in Item : Candidate(j)} |-> item[i].box]])
    /\ UNCHANGED <<item, best, slot, repairBudget>>

\* preview: the archives to be tried again. Then the settings of the engine, which
\* must be there for a probe, and the task starts.
Counts(t) ==
    LET cands == DOMAIN job[t].stored
        stuck == {i \in Item : item[i].status = "failed" /\ item[i].person /\ item[i].here}
    IN  /\ job[t].pc = "retries"
        /\ Publishes(t, [slot EXCEPT !.total = Cardinality(cands) + Cardinality(stuck)])
        /\ Proceeds(t, [job[t] EXCEPT !.pc = "settings", !.probe = cands, !.retry = stuck])
        /\ UNCHANGED <<item, best, repairBudget>>

\* A query fails, there is no engine, or the processing settings cannot be read.
Declines(t) ==
    /\ Disturbs("error") /\ job[t].pc \in {"preview", "retries", "settings"}
    /\ Publishes(t, [slot EXCEPT !.state = "failed"])
    /\ Proceeds(t, [job[t] EXCEPT !.pc = "drop"])
    /\ UNCHANGED <<item, best>>

Begins(t) ==
    /\ job[t].pc = "settings" /\ Proceeds(t, [job[t] EXCEPT !.pc = "next"])
    /\ UNCHANGED <<item, best, slot, repairBudget>>

-----------------------------------------------------------------------------
(* run *)

Tallies(t, field) == Publishes(t, [slot EXCEPT ![field] = @ + 1])

Leaves(t, i) == [job[t] EXCEPT !.pc = "next", !.at = NoOne, !.probe = @ \ {i}]

\* repair_one: a capture that changed is kept, one whose source does not validate fails.
Looks(t, i) ==
    /\ job[t].pc = "next" /\ i \in job[t].probe
    /\ IF item[i].status # "completed" \/ ~item[i].person
       THEN Tallies(t, "kept") /\ Proceeds(t, Leaves(t, i))
       ELSE IF item[i].here
       THEN UNCHANGED slot /\ Proceeds(t, [job[t] EXCEPT !.pc = "probe", !.at = i])
       ELSE Tallies(t, "failed") /\ Proceeds(t, Leaves(t, i))
    /\ UNCHANGED <<item, best, repairBudget>>

\* probe_needs_requeue
Needs(old, new) == new > old

\* probe_face_box, and what apply_probe makes of the answer
Probes(t) ==
    LET i == job[t].at IN
    /\ job[t].pc = "probe"
    /\ IF Needs(job[t].stored[i], best[i])
       THEN UNCHANGED slot /\ Proceeds(t, [job[t] EXCEPT !.pc = "requeue"])
       ELSE Tallies(t, "kept") /\ Proceeds(t, Leaves(t, i))
    /\ UNCHANGED <<item, best, repairBudget>>

Stumbles(t) ==
    /\ Disturbs("error") /\ job[t].pc = "probe"
    /\ Tallies(t, "failed") /\ Proceeds(t, Leaves(t, job[t].at))
    /\ UNCHANGED <<item, best>>

Queued(i) == [item EXCEPT ![i].status = "queued", ![i].raw = FALSE]
Sends(t, how, j) == Proceeds(t, [j EXCEPT !.sent = @ \cup {how}])

\* requeue_completed_capture, under the lock of the item
Requeues(t) ==
    LET i == job[t].at IN
    /\ job[t].pc = "requeue"
    /\ IF item[i].status = "completed" /\ item[i].here
       THEN item' = Queued(i) /\ Tallies(t, "requeued") /\ Sends(t, <<"probe", i>>, Leaves(t, i))
       ELSE UNCHANGED item /\ Tallies(t, "failed") /\ Proceeds(t, Leaves(t, i))
    /\ UNCHANGED <<best, repairBudget>>

\* Wrong on purpose: an archive that cannot be tried again is not counted.
Silent_Retries(t, i) ==
    LET j == [job[t] EXCEPT !.retry = @ \ {i}] IN
    /\ job[t].pc = "next" /\ job[t].probe = {} /\ i \in job[t].retry
    /\ IF item[i].status = "failed" /\ item[i].here
       THEN item' = Queued(i) /\ Tallies(t, "requeued") /\ Sends(t, <<"retry", i>>, j)
       ELSE UNCHANGED <<item, slot>> /\ Proceeds(t, j)
    /\ UNCHANGED <<best, repairBudget>>

\* retry_capture, under the lock of the item
Retries(t, i) ==
    LET j == [job[t] EXCEPT !.retry = @ \ {i}]
        degraded == item[i].status = "completed" /\ item[i].person /\ item[i].raw
    IN  /\ job[t].pc = "next" /\ job[t].probe = {} /\ i \in job[t].retry
        /\ IF (item[i].status = "failed" \/ degraded) /\ item[i].here
           THEN item' = Queued(i) /\ Tallies(t, "requeued") /\ Sends(t, <<"retry", i>>, j)
           ELSE UNCHANGED item /\ Tallies(t, "failed") /\ Proceeds(t, j)
        /\ UNCHANGED <<best, repairBudget>>

\* The job ends and lets the reservation go.
Finishes(t) ==
    /\ job[t].pc = "next" /\ job[t].probe = {} /\ job[t].retry = {}
    /\ Publishes(t, [slot EXCEPT !.state = IF slot.failed = 0 THEN "done"
                                           ELSE IF slot.failed = slot.total THEN "failed"
                                           ELSE "partial"])
    /\ Proceeds(t, [job[t] EXCEPT !.pc = "drop"])
    /\ UNCHANGED <<item, best, repairBudget>>

-----------------------------------------------------------------------------
(* The rest of the program *)

Others == UNCHANGED <<best, slot, job>>

\* The worker processes and archives a capture, or fails to; without an engine
\* it archives the original.
Works(i) ==
    /\ item[i].status = "queued"
    /\ \E s \in {"completed", "failed"}, raw \in BOOLEAN :
          /\ raw => s = "completed" /\ "raw" \in repairBudget.ops
          /\ s = "failed" => "error" \in repairBudget.ops
          /\ item' = [item EXCEPT ![i].status = s, ![i].raw = raw,
                                 ![i].box = IF raw \/ ~item[i].person THEN 0 ELSE best[i]]
    /\ UNCHANGED repairBudget /\ Others

\* The user labels a completed capture again, or retries a failed one.
Relabels(i) ==
    /\ Disturbs("relabel") /\ item[i].status \in {"completed", "failed"} /\ item[i].here
    /\ \E person \in BOOLEAN :
          item' = [item EXCEPT ![i].status = "queued", ![i].person = person, ![i].raw = FALSE]
    /\ Others

\* The source is moved away or comes back.
Moves(i) ==
    /\ Disturbs("move") /\ item' = [item EXCEPT ![i].here = ~@] /\ Others

Steps(t) ==
    \/ Previews(t) \/ Counts(t) \/ Begins(t) \/ Probes(t) \/ Requeues(t) \/ Finishes(t)
    \/ Drops(t) \/ \E i \in Item : Looks(t, i) \/ Retries(t, i)

RepairNext ==
    \/ \E t \in Task : Acquires(t) \/ Steps(t) \/ Cancels(t) \/ Declines(t) \/ Stumbles(t)
    \/ \E i \in Item : Works(i) \/ Relabels(i) \/ Moves(i)

RepairSpec == RepairInit /\ [][RepairNext]_repairVars

-----------------------------------------------------------------------------
(* Properties *)

Working(t) == job[t].pc \notin {"none", "drop"}

\* A job at work holds the running slot, so there is one; and a slot that runs has
\* a job at work or one whose reservation is being dropped.
OneJob ==
    /\ \A t \in Task : Working(t) => Mine(t)
    /\ slot.state = "running" => \E t \in Task : slot.task = t /\ job[t].pc # "none"

\* A task that ended by itself counted each of its captures once, and called
\* requeued what it queued; it is done when nothing failed.
CountsExact ==
    slot.state \in {"done", "partial"} =>
        /\ slot.total = slot.requeued + slot.kept + slot.failed
        /\ (slot.state = "done") = (slot.failed = 0)
        /\ \A t \in Task : slot.task = t /\ job[t].pc = "drop" =>
              Cardinality(job[t].sent) = slot.requeued
================================================================================

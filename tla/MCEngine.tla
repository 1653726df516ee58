-------------------------------- MODULE MCEngine --------------------------------
(* Instances of VisionWorker and FaceRepair.  Neither reads what the other      *)
(* keeps: a behaviour is one of the worker process or one of the repairs.       *)
EXTENDS VisionWorker, FaceRepair

CONSTANTS r1, r2, i1, i2, t1, t2, none, health

VARIABLE service

Requests == {r1, r2}
Items == {i1, i2}
Tasks == {t1, t2}

\* The process dies, babbles, does not start, is asked under other settings, shut down.
Faults == {[ops |-> {"babble", "die", "settings", "source", "shutdown", "noStart"}, left |-> 1]}

\* The user cancels, the engine fails, sources move; archives without annotation.
Undisturbed == [ops |-> {"cancel", "error", "move", "raw"}, left |-> 1]
\* The user labels the captures while they are probed.
Relabelled == [ops |-> {"relabel", "error", "cancel"}, left |-> 1]

Disturbances == {Undisturbed, Relabelled}

ASSUME EngineAssumption == VisionAssumption /\ RepairAssumption

engineVars == <<service, vars, repairVars>>

EngineInit ==
    /\ Init /\ RepairInit
    /\ \/ service = "worker" /\ repairBudget = Undisturbed
          /\ \A i \in {i1, i2} : best[i] = 0 /\ item[i].status = "completed"
       \/ service = "repair" /\ source = [r \in Request |-> "complete"]
          \* one capture to probe, and one whose archive is to be tried again
          /\ item[i1].status = "completed" /\ item[i2].status = "failed"
          /\ \A i \in {i1, i2} : item[i].box = 0 /\ best[i2] = 1

EngineNext ==
    /\ UNCHANGED service
    /\ \/ service = "worker" /\ Next /\ UNCHANGED repairVars
       \/ service = "repair" /\ RepairNext /\ UNCHANGED vars

EngineSpec ==
    /\ EngineInit /\ [][EngineNext]_engineVars
    /\ \A r \in Request :
          /\ WF_engineVars(service = "worker" /\ Request1(r) /\ UNCHANGED <<service, repairVars>>)
          /\ SF_engineVars(service = "worker" /\ TimesOut(r) /\ UNCHANGED <<service, repairVars>>)
          /\ SF_engineVars(service = "worker" /\ Locks(r) /\ UNCHANGED <<service, repairVars>>)
    /\ SF_engineVars(service = "worker" /\ ShutdownEnds /\ UNCHANGED <<service, repairVars>>)
================================================================================

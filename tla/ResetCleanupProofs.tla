--------------------------- MODULE ResetCleanupProofs ---------------------------
(* Proofs about ResetCleanup, for any captures, jobs, paths and registry size. *)
EXTENDS ResetCleanup, TLAPS

\* Where an execution is inside of an item.
Inside == {"index", "file", "remove", "fail"}
Snapshot == [classified : BOOLEAN, busy : BOOLEAN, version : Nat, owner : Job \cup {None},
             at : FilesOf]
Plans == [item : Snapshot \cup {None}, seen : [File -> Bytes]]
Jobs == [state : {"absent", "building", "preview", "running", "done"},
         delete : {None} \cup {<<b>> : b \in BOOLEAN}, network : BOOLEAN,
         status : [Item -> {"none", "ready", "skipped", "running", "failed", "succeeded"}],
         plan : [Item -> Plans]]
Runs == [pc : {"idle", "next"} \cup Inside, item : Item \cup {None}, left : SUBSET File,
         file : File, thumb : Bytes, sources : SUBSET Path, shared : SUBSET (Path \cup {None})]

ResetType ==
    /\ files \in [Path -> Bytes] /\ row \in [Item -> Row]
    /\ job \in [Job -> Jobs] /\ run \in [Job -> Runs]
    /\ removed \subseteq Path

\* The calls and faults left name captures, jobs and paths that exist.
Lawful == budget \in [ops : SUBSET STRING, left : Nat, items : SUBSET Item, jobs : SUBSET Job,
                      paths : SUBSET Path, rows : SUBSET [Item -> Row]]

\* An execution holds its item by the claim, and nothing else is claimed.
Owns(j) ==
    /\ run[j].pc # "idle" => job[j].state = "running"
    /\ run[j].pc \in Inside <=> run[j].item # None
    /\ run[j].item # None => row[run[j].item].owner = j

\* What an execution knows: which files it still has to look at, the sources of
\* the captures, and of the files of others those it has to spare, or that it never
\* saw as they are now.
Identities(j) == {Identity(j, f) : f \in File}
Spares(j, p) == p = None \/ p \in run[j].shared \/ files[p] = None \/ files[p] \notin Identities(j)
TookMain(i, f) == f = "main" /\ row[i].took = row[i].at["main"]
Knows(j) ==
    run[j].pc \in {"file", "remove"} =>
        /\ \A f \in run[j].left : row[run[j].item].at[f] # None
        /\ \A i \in Item : row[i].source \in run[j].sources
        /\ \A i \in Item \ {run[j].item}, f \in File \ {"thumb"} :
              Spares(j, row[i].at[f]) \/ TookMain(i, f)

\* A file about to be removed is what the preview showed, until another execution
\* removes it, which happens in the caches only.
About(j) ==
    LET p == Target(j) f == run[j].file
    IN  run[j].pc = "remove" =>
          /\ p \in Path \ (run[j].sources \cup run[j].shared)
          /\ Identity(j, f) # None
          /\ files[p] = Identity(j, f) \/ (files[p] = None /\ p \in CacheRoots)
          /\ IF f \in Destination THEN Deletes(j) /\ (p \in Network => job[j].network)
             ELSE p \in CacheRoots

\* Of two executions, the later one found the files of the other's capture.
Saw(j, k) == \A f \in File \ {"thumb"} : row[run[k].item].at[f] \in run[j].shared
Looking(j) == run[j].pc \in {"file", "remove"}
Mutual == \A j, k \in Job : j # k /\ Looking(j) /\ Looking(k) => Saw(j, k) \/ Saw(k, j)

\* An archive that was removed is told, or its execution is still to tell it.
Tells ==
    \A i \in Item, f \in Destination :
        LET p == row[i].at[f]
        IN  /\ p = None \/ p \notin CacheRoots
            /\ p \in removed /\ files[p] = None =>
                  \/ f \in row[i].missing \/ TookMain(i, f)
                  \/ \E j \in Job : run[j].item = i /\ Deletes(j)

ResetInv ==
    /\ ResetType
    /\ RunningRegistered
    /\ \A j \in Job : Owns(j) /\ Knows(j) /\ About(j)

-----------------------------------------------------------------------------
(* Types *)

\* A job with another status for a capture.
LEMMA StatusType ==
    ASSUME ResetType, NEW j \in Job, NEW i \in Item,
           NEW s \in {"none", "ready", "skipped", "running", "failed", "succeeded"},
           job' = [job EXCEPT ![j].status[i] = s]
    PROVE  /\ job' \in [Job -> Jobs]
           /\ \A k \in Job : /\ job'[k].state = job[k].state /\ job'[k].plan = job[k].plan
                             /\ job'[k].delete = job[k].delete
                             /\ job'[k].network = job[k].network
  <1>1. job[j] \in Jobs
    BY DEF ResetType
  <1>2. [job[j] EXCEPT !.status[i] = s] \in Jobs
    BY <1>1 DEF Jobs
  <1> QED
    BY <1>1, <1>2 DEF ResetType, Jobs

\* A row of which only the claim and the states of its files change.
LEMMA ClaimType ==
    ASSUME ResetType, NEW i \in Item, NEW o \in Job \cup {None}, NEW m \in SUBSET Destination,
           row' = [row EXCEPT ![i] = [row[i] EXCEPT !.owner = o, !.missing = m]]
    PROVE  /\ row' \in [Item -> Row]
           /\ \A k \in Item : /\ row'[k].at = row[k].at /\ row'[k].source = row[k].source
                              /\ row'[k].took = row[k].took
           /\ row'[i].owner = o /\ row'[i].missing = m
           /\ \A k \in Item \ {i} : row'[k] = row[k]
  <1>1. row[i] \in Row
    BY DEF ResetType
  <1> QED
    BY <1>1 DEF ResetType, Row

LEMMA Facts ==
    ASSUME ResetType
    PROVE  /\ \A i \in Item : /\ row[i].at \in FilesOf /\ row[i].source \in Path
                              /\ row[i].owner \in Job \cup {None}
                              /\ row[i].missing \in SUBSET Destination
                              /\ \A f \in File : row[i].at[f] \in Path \cup {None}
           /\ \A j \in Job : run[j] \in Runs /\ job[j] \in Jobs
  BY DEF ResetType, Row, FilesOf

-----------------------------------------------------------------------------
(* What an execution relies on while others step *)

\* The execution of j does not step, and its job is kept.
Same(j) ==
    /\ run'[j] = run[j]
    /\ run[j].pc # "idle" => /\ job'[j].state = "running" /\ job'[j].plan = job[j].plan
                             /\ job'[j].delete = job[j].delete
                             /\ job'[j].network = job[j].network

SameFiles ==
    /\ files' = files
    /\ \A i \in Item : /\ row'[i].at = row[i].at /\ row'[i].source = row[i].source
                       /\ row'[i].took = row[i].took

LEMMA SameIdentity ==
    ASSUME ResetInv, NEW j \in Job, Same(j), run[j].pc \in Inside
    PROVE  /\ \A f : Identity(j, f)' = Identity(j, f)
           /\ Identities(j)' = Identities(j)
           /\ Deletes(j)' = Deletes(j)
  BY DEF Same, Identity, Planned, Identities, Deletes, Inside

LEMMA Kept ==
    ASSUME ResetInv, NEW j \in Job, Same(j), SameFiles,
           run[j].item # None => row'[run[j].item].owner = j
    PROVE  (Owns(j) /\ Knows(j) /\ About(j))'
  <1>1. Owns(j) /\ Knows(j) /\ About(j)
    BY DEF ResetInv
  <1>2. Owns(j)'
    BY <1>1 DEF Owns, Same
  <1>3. CASE run[j].pc \in Inside
    <2>1. run[j].item \in Item
      BY <1>1, <1>3 DEF Owns, ResetInv, ResetType, Runs
    <2>2. Knows(j)'
      BY <1>1, <1>3, <2>1, SameIdentity DEF Knows, Same, SameFiles, Spares, TookMain
    <2>3. Target(j)' = Target(j)
      BY <2>1 DEF Target, Same, SameFiles
    <2>4. About(j)'
      BY <1>1, <1>3, <2>3, SameIdentity DEF About, Same, SameFiles
    <2> QED
      BY <1>2, <2>2, <2>4
  <1>4. CASE run[j].pc \notin Inside
    BY <1>2, <1>4 DEF Knows, About, Same, Inside
  <1> QED
    BY <1>3, <1>4

\* Steps of the registry: rows, files and executions stay.
LEMMA RegistryStep ==
    ASSUME ResetInv, job' \in [Job -> Jobs], UNCHANGED <<files, row, run, removed>>,
           \A j \in Job : job[j].state = "running" =>
              /\ job'[j].state = "running" /\ job'[j].plan = job[j].plan
              /\ job'[j].delete = job[j].delete /\ job'[j].network = job[j].network
    PROVE  ResetInv'
  <1>1. \A j \in Job : Same(j) /\ SameFiles
    BY DEF ResetInv, Owns, Same, SameFiles
  <1>2. \A j \in Job : run[j].item # None => row'[run[j].item].owner = j
    BY DEF ResetInv, Owns
  <1>3. \A j \in Job : (Owns(j) /\ Knows(j) /\ About(j))'
    BY <1>1, <1>2, Kept
  <1>4. ResetType'
    BY DEF ResetInv, ResetType
  <1>5. RunningRegistered'
    BY <1>1 DEF ResetInv, RunningRegistered, Same
  <1> QED
    BY <1>3, <1>4, <1>5 DEF ResetInv

-----------------------------------------------------------------------------
(* The registry *)

LEMMA InitInv ==
    ASSUME Init
    PROVE  ResetInv
  <1>1. row \in [Item -> Row] /\ \A i \in Item : row[i].owner = None
    BY BudgetAssumption, UnclaimedAssumption DEF Init
  <1>2. NoPlan \in Plans
    BY DEF NoPlan, Plans, Bytes
  <1>3. NoJob \in Jobs
    BY <1>2 DEF NoJob, Jobs
  <1>4. NoRun \in Runs
    BY DEF NoRun, Runs, File, Destination, Bytes
  <1>5. ResetType
    BY <1>1, <1>3, <1>4, FreshAssumption DEF ResetType, Init, Bytes
  <1>6. RunningRegistered
    BY <1>1 DEF RunningRegistered, Init, NoRun
  <1>7. \A j \in Job : Owns(j) /\ Knows(j) /\ About(j)
    BY DEF Owns, Knows, About, Init, NoRun, Inside
  <1> QED
    BY <1>5, <1>6, <1>7 DEF ResetInv

LEMMA PreviewBeginsInv ==
    ASSUME ResetInv, NEW j \in Job, PreviewBegins(j)
    PROVE  ResetInv'
  <1>1. job[j] \in Jobs
    BY DEF ResetInv, ResetType
  <1>2. [job[j] EXCEPT !.state = "building"] \in Jobs
    BY <1>1 DEF Jobs
  <1>3. job' \in [Job -> Jobs]
    BY <1>2 DEF PreviewBegins, ResetInv, ResetType
  <1>4. \A k \in Job : job[k].state = "running" => job'[k] = job[k]
    BY DEF PreviewBegins, ResetInv, ResetType
  <1> QED
    BY <1>3, <1>4, RegistryStep DEF PreviewBegins

LEMMA PreviewItemInv ==
    ASSUME ResetInv, NEW j \in Job, NEW i \in Item, PreviewItem(j, i)
    PROVE  ResetInv'
  <1> DEFINE seen == [f \in File |-> IF f = "thumb" \/ row[i].at[f] = None
                                     THEN None ELSE files[row[i].at[f]]]
             plan == [item |-> Frozen(i), seen |-> seen]
  <1>1. job[j] \in Jobs /\ row[i] \in Row /\ job \in [Job -> Jobs]
    BY DEF ResetInv, ResetType
  <1>2. seen \in [File -> Bytes]
    <2>1. ASSUME NEW f \in File, row[i].at[f] # None PROVE files[row[i].at[f]] \in Bytes
      BY <1>1, <2>1 DEF Row, FilesOf, ResetInv, ResetType
    <2> QED
      BY <2>1 DEF Bytes
  <1>3. Frozen(i) \in Snapshot
    BY <1>1 DEF Frozen, Snapshot, Row, FilesOf, File
  <1>4. plan \in Plans
    BY <1>2, <1>3 DEF Plans
  <1>5. CASE job' = [job EXCEPT ![j].status[i] = "skipped"]
    <2>1. job' \in [Job -> Jobs] /\ \A k \in Job \ {j} : job'[k] = job[k]
      BY <1>5, StatusType DEF ResetInv
    <2> QED
      BY <2>1, RegistryStep DEF PreviewItem
  <1>6. CASE job' = [job EXCEPT ![j].status[i] = "ready", ![j].plan[i] = plan]
    <2>1. job'[j] = [job[j] EXCEPT !.status = [job[j].status EXCEPT ![i] = "ready"],
                                   !.plan = [job[j].plan EXCEPT ![i] = plan]]
      BY <1>1, <1>6 DEF Jobs
    <2>2. [job[j].status EXCEPT ![i] = "ready"] \in
              [Item -> {"none", "ready", "skipped", "running", "failed", "succeeded"}]
      BY <1>1 DEF Jobs
    <2>3. [job[j].plan EXCEPT ![i] = plan] \in [Item -> Plans]
      BY <1>1, <1>4 DEF Jobs
    <2>4. job'[j] \in Jobs
      BY <1>1, <2>1, <2>2, <2>3 DEF Jobs
    <2>5. job' \in [Job -> Jobs] /\ \A k \in Job \ {j} : job'[k] = job[k]
      BY <1>1, <1>6, <2>4
    <2> QED
      BY <2>5, RegistryStep DEF PreviewItem
  <1> QED
    BY <1>5, <1>6 DEF PreviewItem

\* Making room takes jobs that are not running.
LEMMA PrunedIdle ==
    ASSUME NEW expired \in SUBSET {k \in Job : Inactive(k)}, NEW j \in Pruned(expired)
    PROVE  Inactive(j)
  BY DEF Pruned

LEMMA PreviewEndsInv ==
    ASSUME ResetInv, NEW j \in Job, PreviewEnds(j)
    PROVE  ResetInv'
  <1> PICK expired \in SUBSET {k \in Job : Inactive(k)} : Stored(j, expired)
    BY DEF PreviewEnds
  <1>1. job[j] \in Jobs /\ job \in [Job -> Jobs] /\ NoJob \in Jobs
    BY DEF ResetInv, ResetType, NoJob, NoPlan, Jobs, Plans, Bytes
  <1>2. [job[j] EXCEPT !.state = "preview"] \in Jobs
    BY <1>1 DEF Jobs
  <1>3. job' \in [Job -> Jobs]
    BY <1>1, <1>2 DEF Stored
  <1>4. \A k \in Job : job[k].state = "running" => k # j /\ k \notin Pruned(expired)
    BY PrunedIdle DEF PreviewEnds, Inactive
  <1>5. \A k \in Job : job[k].state = "running" => job'[k] = job[k]
    BY <1>4 DEF Stored
  <1> QED
    BY <1>3, <1>5, RegistryStep DEF PreviewEnds

LEMMA DiscardInv ==
    ASSUME ResetInv, NEW j \in Job, Discard(j)
    PROVE  ResetInv'
  <1>1. NoJob \in Jobs
    BY DEF NoJob, NoPlan, Jobs, Plans, Bytes
  <1>2. job' \in [Job -> Jobs] /\ \A k \in Job : job[k].state = "running" => job'[k] = job[k]
    BY <1>1 DEF Discard, ResetInv, ResetType
  <1> QED
    BY <1>2, RegistryStep DEF Discard

-----------------------------------------------------------------------------
(* Executions *)

\* Two executions never hold the same capture.
LEMMA OneHolder ==
    ASSUME ResetInv, NEW j \in Job, NEW k \in Job, run[j].item # None, run[k].item = run[j].item
    PROVE  j = k
  BY DEF ResetInv, Owns

\* A step of the execution of j that leaves the rows, the files and the job, and
\* does not let go of its capture.
LEMMA RunStep ==
    ASSUME ResetInv, NEW j \in Job, UNCHANGED <<files, row, job, removed>>,
           NEW r \in Runs, run' = [run EXCEPT ![j] = r],
           run[j].item # None, r.item = run[j].item, r.pc \in Inside,
           Knows(j)', About(j)'
    PROVE  ResetInv'
  <1>1. run'[j] = r /\ \A k \in Job \ {j} : run'[k] = run[k]
    BY DEF ResetInv, ResetType
  <1>2. \A k \in Job \ {j} : (Owns(k) /\ Knows(k) /\ About(k))'
    <2> SUFFICES ASSUME NEW k \in Job \ {j} PROVE (Owns(k) /\ Knows(k) /\ About(k))'
      OBVIOUS
    <2>1. Same(k) /\ SameFiles
      BY <1>1 DEF ResetInv, Owns, Same, SameFiles
    <2>2. run[k].item # None => row'[run[k].item].owner = k
      BY DEF ResetInv, Owns
    <2> QED
      BY <2>1, <2>2, Kept
  <1>3. Owns(j)'
    BY <1>1 DEF ResetInv, Owns, Inside
  <1>4. ResetType'
    BY DEF ResetInv, ResetType
  <1>5. RunningRegistered'
    BY <1>1, <1>2, <1>3 DEF ResetInv, RunningRegistered, Owns
  <1> QED
    BY <1>2, <1>3, <1>4, <1>5 DEF ResetInv

LEMMA ExecutesInv ==
    ASSUME ResetInv, NEW j \in Job, NEW delete \in BOOLEAN, NEW network \in BOOLEAN,
           Executes(j, delete, network)
    PROVE  ResetInv'
  <1> DEFINE status == [i \in Item |-> IF job[j].status[i] = "failed" THEN "ready"
                                       ELSE job[j].status[i]]
  <1>1. job[j] \in Jobs /\ job \in [Job -> Jobs] /\ run[j] \in Runs /\ run \in [Job -> Runs]
    BY DEF ResetInv, ResetType
  <1>2. job' = [job EXCEPT ![j] = [job[j] EXCEPT !.state = "running", !.delete = <<delete>>,
                                                 !.network = network, !.status = status]]
    BY <1>1 DEF Executes
  <1>3. status \in [Item -> {"none", "ready", "skipped", "running", "failed", "succeeded"}]
    BY <1>1 DEF Jobs
  <1>4. [job[j] EXCEPT !.state = "running", !.delete = <<delete>>, !.network = network,
                       !.status = status] \in Jobs
    BY <1>1, <1>3 DEF Jobs
  <1>5. job' \in [Job -> Jobs] /\ job'[j].state = "running"
        /\ \A k \in Job \ {j} : job'[k] = job[k]
    BY <1>1, <1>2, <1>4 DEF Jobs
  <1>6. [run[j] EXCEPT !.pc = "next"] \in Runs
    BY <1>1 DEF Runs
  <1>7. run' \in [Job -> Runs] /\ run'[j] = [run[j] EXCEPT !.pc = "next"]
        /\ \A k \in Job \ {j} : run'[k] = run[k]
    BY <1>1, <1>6 DEF Executes
  <1>8. run[j].pc = "idle" /\ run[j].item = None
    BY DEF Executes, Inactive, ResetInv, Owns, Inside
  <1>9. run'[j].pc = "next" /\ run'[j].item = None
    BY <1>1, <1>7, <1>8 DEF Runs
  <1>10. (Owns(j) /\ Knows(j) /\ About(j))'
    BY <1>5, <1>9 DEF Owns, Knows, About, Inside
  <1>11. \A k \in Job \ {j} : (Owns(k) /\ Knows(k) /\ About(k))'
    <2> SUFFICES ASSUME NEW k \in Job \ {j} PROVE (Owns(k) /\ Knows(k) /\ About(k))'
      OBVIOUS
    <2>1. Same(k) /\ SameFiles
      BY <1>5, <1>7 DEF ResetInv, Owns, Same, SameFiles, Executes
    <2>2. run[k].item # None => row'[run[k].item].owner = k
      BY DEF ResetInv, Owns, Executes
    <2> QED
      BY <2>1, <2>2, Kept
  <1>12. ResetType'
    BY <1>5, <1>7 DEF ResetInv, ResetType, Executes
  <1>13. RunningRegistered'
    <2>1. \A k \in Job : run'[k].item = run[k].item
      BY <1>7, <1>8, <1>9
    <2> QED
      BY <1>10, <1>11, <2>1, Facts DEF ResetInv, RunningRegistered, Owns, Executes
  <1> QED
    BY <1>10, <1>11, <1>12, <1>13 DEF ResetInv

LEMMA ClaimsInv ==
    ASSUME ResetInv, NEW j \in Job, NEW i \in Item, Claims(j, i)
    PROVE  ResetInv'
  <1>1. job \in [Job -> Jobs] /\ run \in [Job -> Runs] /\ run[j] \in Runs /\ row[i] \in Row
    BY DEF ResetInv, ResetType
  <1>2. job[j].state = "running" /\ run[j].item = None
    BY DEF ResetInv, Owns, Claims, Inside
  <1>3. CASE job' = [job EXCEPT ![j].status[i] = "failed"] /\ UNCHANGED <<row, run>>
    <2>1. job' \in [Job -> Jobs]
          /\ \A k \in Job : /\ job'[k].state = job[k].state /\ job'[k].plan = job[k].plan
                            /\ job'[k].delete = job[k].delete /\ job'[k].network = job[k].network
      BY <1>3, StatusType DEF ResetInv
    <2> QED
      BY <1>3, <2>1, RegistryStep DEF Claims
  <1>4. CASE /\ row[i].owner = None
             /\ row' = [row EXCEPT ![i] = [row[i] EXCEPT !.owner = j]]
             /\ job' = [job EXCEPT ![j].status[i] = "running"]
             /\ run' = [run EXCEPT ![j].pc = "index", ![j].item = i]
    <2>1. job' \in [Job -> Jobs]
          /\ \A k \in Job : /\ job'[k].state = job[k].state /\ job'[k].plan = job[k].plan
                            /\ job'[k].delete = job[k].delete /\ job'[k].network = job[k].network
      BY <1>4, StatusType DEF ResetInv
    <2>2. /\ [row[i] EXCEPT !.owner = j] \in Row
          /\ [row[i] EXCEPT !.owner = j].owner = j
          /\ [row[i] EXCEPT !.owner = j].at = row[i].at
          /\ [row[i] EXCEPT !.owner = j].source = row[i].source
          /\ [row[i] EXCEPT !.owner = j].took = row[i].took
      BY <1>1 DEF Row
    <2>3. /\ row' \in [Item -> Row] /\ row'[i].owner = j
          /\ \A k \in Item \ {i} : row'[k] = row[k]
          /\ \A k \in Item : /\ row'[k].at = row[k].at /\ row'[k].source = row[k].source
                             /\ row'[k].took = row[k].took
      BY <1>4, <2>2 DEF ResetInv, ResetType
    <2>4. run'[j] = [run[j] EXCEPT !.pc = "index", !.item = i]
      BY <1>1, <1>4 DEF Runs
    <2>5. run'[j] \in Runs /\ run'[j].pc = "index" /\ run'[j].item = i
      BY <1>1, <2>4 DEF Runs, Inside
    <2>6. run' \in [Job -> Runs] /\ \A k \in Job \ {j} : run'[k] = run[k]
      BY <1>1, <1>4, <2>5
    <2>7. i # None
      BY NoneAssumption
    <2>8. (Owns(j) /\ Knows(j) /\ About(j))'
      BY <1>2, <2>1, <2>3, <2>5, <2>7 DEF Owns, Knows, About, Inside
    <2>9. \A k \in Job \ {j} : (Owns(k) /\ Knows(k) /\ About(k))'
      <3> SUFFICES ASSUME NEW k \in Job \ {j} PROVE (Owns(k) /\ Knows(k) /\ About(k))'
        OBVIOUS
      <3>1. Same(k) /\ SameFiles
        BY <2>1, <2>3, <2>6 DEF ResetInv, Owns, Same, SameFiles, Claims
      <3>2. run[k].item # None => row'[run[k].item].owner = k
        BY <1>4, <2>3, NoneAssumption DEF ResetInv, Owns, ResetType, Runs
      <3> QED
        BY <3>1, <3>2, Kept
    <2>10. ResetType'
      BY <2>1, <2>3, <2>6 DEF ResetInv, ResetType, Claims
    <2>11. \A k \in Item : row'[k].owner # None => run'[row'[k].owner].item = k
      <3>1. \A k \in Item \ {i} : row[k].owner # None => run[row[k].owner].item = k
                                                     /\ row[k].owner \in Job \ {j}
        BY <1>2, Facts, NoneAssumption DEF ResetInv, RunningRegistered
      <3> QED
        BY <2>3, <2>5, <2>6, <3>1
    <2>12. RunningRegistered'
      BY SMTT(30), <2>8, <2>9, <2>11 DEF RunningRegistered, Owns
    <2> QED
      BY <2>8, <2>9, <2>10, <2>12 DEF ResetInv
  <1> QED
    BY <1>3, <1>4 DEF Claims, Write

LEMMA IndexesInv ==
    ASSUME ResetInv, NEW j \in Job, Indexes(j)
    PROVE  ResetInv'
  <1> DEFINE i == run[j].item
             left == {f \in File : row[i].at[f] # None}
             thumb == IF row[i].at["thumb"] = None THEN None ELSE files[row[i].at["thumb"]]
             sources == {row[k].source : k \in Item}
             shared == {row[k].at[f] : k \in Item \ {i}, f \in File \ {"thumb"}}
             r == [run[j] EXCEPT !.pc = "file", !.left = left, !.thumb = thumb,
                                 !.sources = sources, !.shared = shared]
  <1>1. run \in [Job -> Runs] /\ run[j] \in Runs /\ run[j].pc = "index"
    BY DEF ResetInv, ResetType, Indexes
  <1>2. i \in Item /\ i # None
    BY <1>1 DEF ResetInv, Owns, Inside, Runs
  <1>3. left \in SUBSET File /\ thumb \in Bytes /\ sources \in SUBSET Path
        /\ shared \in SUBSET (Path \cup {None})
    BY <1>2, Facts DEF ResetInv, ResetType, FilesOf, File, Bytes
  <1>4. run' = [run EXCEPT ![j] = r]
    BY <1>1 DEF Indexes
  <1>5. \A k \in Item : row[k].source \in sources
    OBVIOUS
  <1>6. /\ \A k \in Item \ {i}, f \in File \ {"thumb"} : row[k].at[f] \in shared
        /\ \A f \in left : row[i].at[f] # None
    OBVIOUS
  <1> HIDE DEF left, thumb, sources, shared
  <1>7. run'[j] = r
    BY <1>1, <1>4
  <1>8. r \in Runs /\ r.pc = "file" /\ r.item = i /\ r.sources = sources /\ r.shared = shared
        /\ r.left = left
    BY <1>1, <1>3 DEF Runs, Inside
  <1> HIDE DEF r, i
  <1>9. Knows(j)' /\ About(j)'
    BY <1>5, <1>6, <1>7, <1>8 DEF Knows, About, Spares, Indexes
  <1> QED
    BY <1>2, <1>4, <1>8, <1>9, RunStep DEF Indexes, Inside, i

LEMMA ChecksInv ==
    ASSUME ResetInv, NEW j \in Job, NEW f \in File, Checks(j, f)
    PROVE  ResetInv'
  <1> DEFINE i == run[j].item
             p == row[i].at[f]
             pc == IF Passed(j, f, p) THEN "file"
                   ELSE IF Refused(j, f, p) THEN "fail"
                   ELSE IF Retained(j, f, p) THEN "file"
                   ELSE IF Forbidden(j, f, p) THEN "fail" ELSE "remove"
             left == run[j].left \ {f}
             r == [run[j] EXCEPT !.file = f, !.left = left, !.pc = pc]
  <1>1. run \in [Job -> Runs] /\ run[j] \in Runs /\ run[j].pc = "file"
    BY DEF ResetInv, ResetType, Checks
  <1>2. i \in Item /\ i # None /\ p \in Path \cup {None}
    BY <1>1, Facts DEF ResetInv, Owns, Inside, Runs, FilesOf
  <1>3. pc \in {"file", "fail", "remove"} /\ left \in SUBSET File
    BY <1>1 DEF Runs
  <1>4. run' = [run EXCEPT ![j] = r]
    BY DEF Checks
  <1>5. pc = "remove" => /\ ~Passed(j, f, p) /\ ~Refused(j, f, p)
                         /\ ~Retained(j, f, p) /\ ~Forbidden(j, f, p)
    OBVIOUS
  <1> HIDE DEF pc, left
  <1>6. run'[j] = r
    BY <1>1, <1>4
  <1>7. r \in Runs /\ r.pc = pc /\ r.item = i /\ r.sources = run[j].sources
        /\ r.shared = run[j].shared /\ r.file = f /\ r.thumb = run[j].thumb /\ r.left = left
    BY <1>1, <1>3 DEF Runs, Inside
  <1> HIDE DEF r
  <1>8. /\ Deletes(j)' = Deletes(j) /\ Target(j)' = p
        /\ \A g : Identity(j, g)' = Identity(j, g)
    BY <1>6, <1>7 DEF Identity, Planned, Deletes, Target, Checks
  <1>9. Knows(j)'
    <2>1. Knows(j)
      BY DEF ResetInv
    <2>2. Identities(j)' = Identities(j)
      BY <1>8 DEF Identities
    <2>3. row' = row /\ files' = files
      BY DEF Checks
    <2>4. \A g \in r.left : row[i].at[g] # None
      BY <1>1, <1>7, <2>1 DEF Knows, left
    <2>5. \A k \in Item : row[k].source \in r.sources
      BY <1>1, <1>7, <2>1 DEF Knows
    <2>6. \A k \in Item \ {i}, g \in File \ {"thumb"} :
             Spares(j, row[k].at[g]) \/ TookMain(k, g)
      BY <1>1, <2>1 DEF Knows
    <2>7. \A q : Spares(j, q) => Spares(j, q)'
      BY <1>6, <1>7, <2>2, <2>3 DEF Spares
    <2> HIDE DEF i
    <2> QED
      BY <1>6, <1>7, <2>3, <2>4, <2>5, <2>6, <2>7 DEF Knows, TookMain
  <1>10. About(j)'
    <2> SUFFICES ASSUME pc = "remove" PROVE About(j)'
      BY <1>6, <1>7 DEF About
    <2>1. f \in Destination => Deletes(j)
      BY <1>5 DEF Passed
    <2>2. files[p] # None /\ files[p] = Identity(j, f) /\ p \notin run[j].sources
      BY <1>5 DEF Passed, Refused
    <2>3. p \notin run[j].shared /\ (f \notin Destination => p \in CacheRoots)
      BY <1>5 DEF Retained
    <2>4. f \in Destination => (p \in Network => job[j].network)
      BY <1>5 DEF Forbidden
    <2>5. p # None
      <3>1. f \in run[j].left
        BY DEF Checks, Upcoming
      <3> QED
        BY <1>1, <3>1 DEF ResetInv, Knows
    <2> QED
      BY <1>2, <1>6, <1>7, <1>8, <2>1, <2>2, <2>3, <2>4, <2>5 DEF About, Checks
  <1> HIDE DEF p, i
  <1> QED
    BY <1>2, <1>3, <1>4, <1>7, <1>9, <1>10, RunStep DEF Checks, Inside, i

\* What is spared stays spared when a file goes or gets an identity of its own.
LEMMA StillSpared ==
    ASSUME ResetInv, NEW j \in Job, run[j].pc \in Inside, NEW q \in Path, NEW c \in Bytes,
           files' = [files EXCEPT ![q] = c], c = None \/ NewIdentity(c),
           Identities(j)' = Identities(j), run'[j].shared = run[j].shared,
           NEW p \in Path \cup {None}, Spares(j, p)
    PROVE  Spares(j, p)'
  <1>1. run[j].item \in Item
    BY DEF ResetInv, ResetType, Runs, Owns
  <1>2. c = None \/ c \notin Identities(j)
    BY <1>1 DEF NewIdentity, Identities, Identity, Planned
  <1> QED
    BY <1>2 DEF Spares, ResetInv, ResetType

\* Two executions are about the same file only in the caches.
LEMMA Apart ==
    ASSUME ResetInv, Mutual, NEW j \in Job, NEW k \in Job \ {j}, run[j].pc = "remove",
           run[k].pc = "remove", Target(k) = Target(j)
    PROVE  Target(j) \in CacheRoots
  <1> DEFINE p == Target(j)
  <1>1. /\ About(j) /\ About(k) /\ run[j] \in Runs /\ run[k] \in Runs
        /\ p \notin run[j].shared /\ p \notin run[k].shared
    BY DEF ResetInv, ResetType, About
  <1>2. CASE run[j].file \notin Destination \/ run[k].file \notin Destination
    BY <1>1, <1>2 DEF About
  <1>3. CASE run[j].file \in Destination /\ run[k].file \in Destination
    <2>1. Saw(j, k) \/ Saw(k, j)
      BY DEF Mutual, Looking
    <2>2. run[j].file \in File \ {"thumb"} /\ run[k].file \in File \ {"thumb"}
      BY <1>3 DEF File, Destination
    <2> QED
      BY <1>1, <2>1, <2>2 DEF Saw, Target
  <1> QED
    BY <1>2, <1>3

LEMMA RemovesInv ==
    ASSUME ResetInv, Mutual, NEW j \in Job, Removes(j)
    PROVE  ResetInv'
  <1> DEFINE p == Target(j)
  <1>1. run \in [Job -> Runs] /\ run[j] \in Runs /\ run[j].pc = "remove"
    BY DEF ResetInv, ResetType, Removes
  <1>2. Owns(j) /\ Knows(j) /\ About(j)
    BY DEF ResetInv
  <1>3. run[j].item \in Item /\ run[j].item # None /\ p \in Path
    BY <1>1, <1>2 DEF Owns, Inside, Runs, About
  <1>4. CASE run' = [run EXCEPT ![j].pc = "fail"] /\ UNCHANGED <<files, removed>>
    <2> DEFINE r == [run[j] EXCEPT !.pc = "fail"]
    <2>1. r \in Runs /\ r.pc = "fail" /\ r.item = run[j].item /\ run' = [run EXCEPT ![j] = r]
      BY <1>1, <1>4 DEF Runs, Inside
    <2>2. Knows(j)' /\ About(j)'
      BY <1>1, <2>1 DEF Knows, About
    <2> QED
      BY <1>3, <1>4, <2>1, <2>2, RunStep DEF Inside, Removes
  <1>5. CASE /\ files' = [files EXCEPT ![p] = None] /\ removed' = removed \cup {p}
             /\ run' = [run EXCEPT ![j].pc = "file"]
    <2> DEFINE r == [run[j] EXCEPT !.pc = "file"]
    <2>1. /\ r \in Runs /\ r.pc = "file" /\ r.item = run[j].item /\ r.left = run[j].left
          /\ r.sources = run[j].sources /\ r.shared = run[j].shared /\ r.thumb = run[j].thumb
          /\ run'[j] = r
      BY <1>1, <1>5 DEF Runs, Inside
    <2>2. run' \in [Job -> Runs] /\ \A k \in Job \ {j} : run'[k] = run[k]
      BY <1>1, <1>5, <2>1
    <2> HIDE DEF r
    <2>3. row' = row /\ job' = job /\ None \in Bytes
      BY DEF Removes, Bytes
    <2>4. \A k \in Job : run[k].pc \in Inside => Identities(k)' = Identities(k)
      <3>1. \A k \in Job, f \in File : Identity(k, f)' = Identity(k, f)
        BY <2>1, <2>2, <2>3 DEF Identity, Planned
      <3> QED
        BY <3>1 DEF Identities
    <2>5. \A k \in Job, q \in Path \cup {None} :
             run[k].pc \in Inside /\ Spares(k, q) => Spares(k, q)'
      BY <1>3, <1>5, <2>1, <2>2, <2>3, <2>4, StillSpared
    <2>6. Knows(j)'
      <3>1. \A i \in Item \ {run[j].item}, f \in File \ {"thumb"} :
               Spares(j, row[i].at[f])' \/ TookMain(i, f)
        <4>1. \A i \in Item \ {run[j].item}, f \in File \ {"thumb"} :
                 /\ Spares(j, row[i].at[f]) \/ TookMain(i, f)
                 /\ row[i].at[f] \in Path \cup {None}
          BY <1>1, <1>2, Facts DEF Knows, ResetInv
        <4>2. run[j].pc \in Inside
          BY <1>1 DEF Inside
        <4>3. \A q \in Path \cup {None} : Spares(j, q) => Spares(j, q)'
          BY <2>5, <4>2
        <4> QED
          BY <2>3, <4>1, <4>3
      <3> QED
        BY <1>1, <1>2, <2>1, <2>3, <3>1 DEF Knows, TookMain
    <2>7. Owns(j)' /\ About(j)'
      BY <1>1, <1>2, <2>1, <2>3 DEF Owns, About, Inside
    <2>8. \A k \in Job \ {j} : (Owns(k) /\ Knows(k) /\ About(k))'
      <3> SUFFICES ASSUME NEW k \in Job \ {j} PROVE (Owns(k) /\ Knows(k) /\ About(k))'
        OBVIOUS
      <3>1. Owns(k) /\ Knows(k) /\ About(k) /\ Same(k)
        BY <2>2, <2>3 DEF ResetInv, Owns, Same
      <3>2. Owns(k)'
        BY <2>2, <2>3, <3>1 DEF Owns
      <3>3. Knows(k)'
        <4>1. ASSUME run[k].pc \in {"file", "remove"}
              PROVE \A i \in Item \ {run[k].item}, f \in File \ {"thumb"} :
                       Spares(k, row[i].at[f])' \/ TookMain(i, f)
          <5>1. \A i \in Item \ {run[k].item}, f \in File \ {"thumb"} :
                   /\ Spares(k, row[i].at[f]) \/ TookMain(i, f)
                   /\ row[i].at[f] \in Path \cup {None}
            BY <3>1, <4>1, Facts DEF Knows, ResetInv
          <5>2. run[k].pc \in Inside
            BY <4>1 DEF Inside
          <5>3. \A q \in Path \cup {None} : Spares(k, q) => Spares(k, q)'
            BY <2>5, <5>2
          <5> QED
            BY <2>3, <5>1, <5>3
        <4> QED
          BY <2>2, <2>3, <3>1, <4>1 DEF Knows, TookMain
      <3>4. About(k)'
        <4> SUFFICES ASSUME run[k].pc = "remove" PROVE About(k)'
          BY <2>2 DEF About
        <4>1. Target(k)' = Target(k) /\ Target(k) \in Path
          BY <2>2, <2>3, <3>1 DEF Target, About
        <4>2. Identity(k, run[k].file)' = Identity(k, run[k].file) /\ Deletes(k)' = Deletes(k)
          BY <2>2, <2>3 DEF Identity, Planned, Deletes
        <4>3. CASE Target(k) # p
          <5>1. files'[Target(k)] = files[Target(k)]
            BY <1>5, <4>1, <4>3 DEF ResetInv, ResetType
          <5> QED
            BY <2>2, <2>3, <3>1, <4>1, <4>2, <5>1 DEF About
        <4>4. CASE Target(k) = p
          <5>1. files'[Target(k)] = None /\ Target(k) \in CacheRoots
            BY <1>1, <1>5, <4>1, <4>4, Apart DEF ResetInv, ResetType
          <5> QED
            BY <2>2, <2>3, <3>1, <4>1, <4>2, <5>1 DEF About
        <4> QED
          BY <4>3, <4>4
      <3> QED
        BY <3>2, <3>3, <3>4
    <2>9. ResetType'
      BY <1>3, <1>5, <2>2, <2>3 DEF ResetInv, ResetType
    <2>10. RunningRegistered'
      <3>1. \A k \in Job : run'[k].item = run[k].item
        BY <2>1, <2>2
      <3> QED
        BY <2>3, <2>7, <2>8, <3>1, Facts DEF ResetInv, RunningRegistered, Owns
    <2> QED
      BY <2>6, <2>7, <2>8, <2>9, <2>10 DEF ResetInv
  <1> QED
    BY <1>4, <1>5 DEF Removes

\* An execution lets go of its capture, whose row keeps its source and at most
\* loses files.
LEMMA LeavesStep ==
    ASSUME ResetInv, NEW j \in Job, run[j].item # None, UNCHANGED <<files, removed>>,
           NEW r \in Row, row' = [row EXCEPT ![run[j].item] = r],
           r.owner = None, r.source = row[run[j].item].source, r.took = row[run[j].item].took,
           \A f \in File \ {"thumb"} : r.at[f] \in {row[run[j].item].at[f], None},
           NEW s \in {"failed", "succeeded"}, Leaves(j, run[j].item, s)
    PROVE  ResetInv'
  <1> DEFINE i == run[j].item
  <1>1. run \in [Job -> Runs] /\ i \in Item /\ row \in [Item -> Row]
    BY DEF ResetInv, ResetType, Runs
  <1>2. /\ job' \in [Job -> Jobs]
        /\ \A k \in Job : /\ job'[k].state = job[k].state /\ job'[k].plan = job[k].plan
                          /\ job'[k].delete = job[k].delete /\ job'[k].network = job[k].network
    BY <1>1, StatusType DEF ResetInv, Leaves
  <1>3. run' = [run EXCEPT ![j] = [NoRun EXCEPT !.pc = "next"]]
    BY DEF Leaves
  <1>4. [NoRun EXCEPT !.pc = "next"] \in Runs
    BY DEF NoRun, Runs, File, Destination, Bytes
  <1>5. run' \in [Job -> Runs] /\ run'[j].pc = "next" /\ run'[j].item = None
        /\ \A k \in Job \ {j} : run'[k] = run[k]
    BY <1>1, <1>3, <1>4 DEF NoRun
  <1>6. row' \in [Item -> Row] /\ row'[i] = r /\ \A k \in Item \ {i} : row'[k] = row[k]
    BY <1>1
  <1> HIDE DEF i
  <1>7. (Owns(j) /\ Knows(j) /\ About(j))'
    BY <1>2, <1>5 DEF Owns, Knows, About, Inside, ResetInv, i
  <1>8. \A k \in Job \ {j} : (Owns(k) /\ Knows(k) /\ About(k))'
    <2> SUFFICES ASSUME NEW k \in Job \ {j} PROVE (Owns(k) /\ Knows(k) /\ About(k))'
      OBVIOUS
    <2>1. Owns(k) /\ Knows(k) /\ About(k) /\ Same(k) /\ run[k] \in Runs
      BY <1>2, <1>5 DEF ResetInv, ResetType, Owns, Same
    <2>2. run[k].item # None => run[k].item \in Item \ {i}
      BY <2>1, OneHolder DEF Runs, i
    <2>3. Owns(k)'
      BY <1>5, <1>6, <2>1, <2>2 DEF Owns, Same
    <2> SUFFICES ASSUME run[k].pc \in {"file", "remove"} PROVE (Knows(k) /\ About(k))'
      BY <1>5, <2>3 DEF Knows, About
    <2>4. run[k].item \in Item \ {i} /\ row'[run[k].item] = row[run[k].item]
      BY <1>6, <2>1, <2>2 DEF Owns, Inside
    <2>5. /\ \A f : Identity(k, f)' = Identity(k, f)
          /\ Identities(k)' = Identities(k) /\ Deletes(k)' = Deletes(k)
      BY <2>1, SameIdentity DEF Inside
    <2>6. Target(k)' = Target(k)
      BY <1>5, <2>4 DEF Target
    <2>7. About(k)'
      BY <1>2, <1>5, <2>1, <2>5, <2>6 DEF About
    <2>8. \A p : Spares(k, p) => Spares(k, p)'
      BY <1>5, <2>5 DEF Spares
    <2>9. Spares(k, None)'
      BY DEF Spares
    <2>10. \A m \in Item \ {run[k].item}, f \in File \ {"thumb"} :
              /\ Spares(k, row[m].at[f]) \/ TookMain(m, f)
              /\ row'[m].at[f] \in {row[m].at[f], None} /\ row'[m].took = row[m].took
      BY <1>6, <2>1 DEF Knows, i
    <2>11. ASSUME NEW m \in Item \ {run[k].item}, NEW f \in File \ {"thumb"}
           PROVE  Spares(k, row[m].at[f])' \/ TookMain(m, f)'
      <3>1. CASE row'[m].at[f] = None
        BY <2>9, <3>1 DEF Spares
      <3>2. CASE row'[m].at[f] = row[m].at[f] /\ Spares(k, row[m].at[f])
        BY <2>8, <3>2 DEF Spares
      <3>3. CASE row'[m].at[f] = row[m].at[f] /\ TookMain(m, f)
        BY <2>10, <3>3 DEF TookMain
      <3> QED
        BY <2>10, <3>1, <3>2, <3>3
    <2>12. \A m \in Item : row'[m].source = row[m].source
      BY <1>6 DEF i
    <2>13. Knows(k)'
      BY <1>5, <2>1, <2>4, <2>11, <2>12 DEF Knows
    <2> QED
      BY <2>3, <2>7, <2>13
  <1>9. ResetType'
    BY <1>2, <1>5, <1>6 DEF ResetInv, ResetType
  <1>10. \A k \in Item : row'[k].owner # None => run'[row'[k].owner].item = k
    <2>1. \A k \in Item \ {i} : row[k].owner # None => /\ run[row[k].owner].item = k
                                                       /\ row[k].owner \in Job \ {j}
      BY Facts DEF ResetInv, RunningRegistered, i
    <2> QED
      BY <1>5, <1>6, <2>1
  <1>11. RunningRegistered'
    BY <1>7, <1>8, <1>10 DEF RunningRegistered, Owns
  <1> QED
    BY <1>7, <1>8, <1>9, <1>11 DEF ResetInv

LEMMA CommitsInv ==
    ASSUME ResetInv, NEW j \in Job, Commits(j)
    PROVE  ResetInv'
  <1> DEFINE i == run[j].item
             at == [f \in File |-> IF f = "thumb" THEN row[i].at[f] ELSE None]
  <1>1. i \in Item /\ i # None /\ row[i] \in Row
    BY DEF Commits, ResetInv, ResetType, Owns, Inside, Runs
  <1>2. at \in FilesOf /\ \A f \in File \ {"thumb"} : at[f] = None
    BY <1>1, Facts DEF FilesOf, ResetInv
  <1>20. Unclassified(row[i]) = [row[i] EXCEPT !.classified = FALSE, !.owner = None,
                                    !.missing = {}, !.at = at, !.version = @ + 1]
    BY DEF Unclassified
  <1> HIDE DEF at
  <1>3. /\ Unclassified(row[i]) \in Row /\ Unclassified(row[i]).owner = None
        /\ Unclassified(row[i]).source = row[i].source
        /\ Unclassified(row[i]).took = row[i].took
        /\ \A f \in File \ {"thumb"} : Unclassified(row[i]).at[f] = None
    <2>1. row[i].version + 1 \in Nat /\ {} \in SUBSET Destination
      BY <1>1 DEF Row
    <2> HIDE DEF i
    <2> QED
      BY <1>1, <1>2, <1>20, <2>1 DEF Row
  <1> QED
    BY <1>1, <1>3, LeavesStep DEF Commits, Write

LEMMA FailsInv ==
    ASSUME ResetInv, NEW j \in Job, Fails(j)
    PROVE  ResetInv'
  <1> DEFINE i == run[j].item
             r == [row[i] EXCEPT !.missing = Missing(j, i), !.owner = None]
  <1>1. i \in Item /\ i # None /\ row[i] \in Row /\ row[i].owner = j
    BY DEF Fails, ResetInv, ResetType, Owns, Inside, Runs
  <1>2. row' = [row EXCEPT ![i] = r]
    BY <1>1 DEF Fails, Write, Row
  <1>3. Missing(j, i) \in SUBSET Destination
    BY <1>1 DEF Missing, Row
  <1>4. /\ r \in Row /\ r.owner = None /\ r.source = row[i].source /\ r.at = row[i].at
        /\ r.took = row[i].took
    BY <1>1, <1>3 DEF Row
  <1> HIDE DEF r
  <1> QED
    BY <1>1, <1>2, <1>4, LeavesStep DEF Fails

LEMMA EndsInv ==
    ASSUME ResetInv, NEW j \in Job, Ends(j)
    PROVE  ResetInv'
  <1>1. run \in [Job -> Runs] /\ job \in [Job -> Jobs] /\ job[j] \in Jobs /\ run[j].item = None
    BY DEF Ends, ResetInv, ResetType, Owns, Inside
  <1>2. NoRun \in Runs /\ NoRun.pc = "idle" /\ NoRun.item = None
    BY DEF NoRun, Runs, File, Destination, Bytes
  <1>3. run' \in [Job -> Runs] /\ run'[j].pc = "idle" /\ run'[j].item = None
        /\ \A k \in Job \ {j} : run'[k] = run[k]
    BY <1>1, <1>2 DEF Ends
  <1>4. [job[j] EXCEPT !.state = "done"] \in Jobs
    BY <1>1 DEF Jobs
  <1>5. job' \in [Job -> Jobs] /\ \A k \in Job \ {j} : job'[k] = job[k]
    BY <1>1, <1>4 DEF Ends
  <1>6. (Owns(j) /\ Knows(j) /\ About(j))'
    BY <1>3 DEF Owns, Knows, About, Inside
  <1>7. \A k \in Job \ {j} : (Owns(k) /\ Knows(k) /\ About(k))'
    <2> SUFFICES ASSUME NEW k \in Job \ {j} PROVE (Owns(k) /\ Knows(k) /\ About(k))'
      OBVIOUS
    <2>1. Same(k) /\ SameFiles
      BY <1>3, <1>5 DEF Ends, ResetInv, Owns, Same, SameFiles
    <2>2. run[k].item # None => row'[run[k].item].owner = k
      BY DEF Ends, ResetInv, Owns
    <2> QED
      BY <2>1, <2>2, Kept
  <1>8. ResetType'
    BY <1>3, <1>5 DEF Ends, ResetInv, ResetType
  <1>9. RunningRegistered'
    <2>1. \A k \in Job : run'[k].item = run[k].item
      BY <1>1, <1>3
    <2> QED
      BY <1>6, <1>7, <2>1, Facts DEF Ends, ResetInv, RunningRegistered, Owns
  <1> QED
    BY <1>6, <1>7, <1>8, <1>9 DEF ResetInv

-----------------------------------------------------------------------------
(* Others *)

\* A step of a command, the archive service or the user.
LEMMA OtherStep ==
    ASSUME ResetInv, ResetType', UNCHANGED <<job, run>>,
           \A i \in Item : /\ row'[i].owner = row[i].owner /\ row'[i].source = row[i].source
                           /\ Locked(i) => row'[i] = row[i],
           \A j \in Job : run[j].pc \in {"file", "remove"} =>
              \A i \in Item \ {run[j].item}, f \in File \ {"thumb"} :
                 Spares(j, row[i].at[f])' \/ TookMain(i, f)',
           \A j \in Job : run[j].pc = "remove" => files'[Target(j)] = files[Target(j)]
    PROVE  ResetInv'
  <1>1. ASSUME NEW j \in Job PROVE (Owns(j) /\ Knows(j) /\ About(j))'
    <2>1. Owns(j) /\ Knows(j) /\ About(j) /\ run[j] \in Runs
      BY DEF ResetInv, ResetType
    <2>2. run[j].item # None => run[j].item \in Item /\ row'[run[j].item] = row[run[j].item]
      BY <2>1 DEF Runs, Locked
    <2>3. Owns(j)'
      BY <2>1, <2>2 DEF Owns
    <2> SUFFICES ASSUME run[j].pc \in {"file", "remove"} PROVE (Knows(j) /\ About(j))'
      BY <2>3 DEF Knows, About
    <2>4. run[j].item \in Item /\ row'[run[j].item] = row[run[j].item]
      BY <2>1, <2>2 DEF Owns, Inside
    <2>5. Knows(j)'
      BY <2>1, <2>4 DEF Knows
    <2>6. Target(j)' = Target(j)
      BY <2>4 DEF Target
    <2>7. /\ \A f : Identity(j, f)' = Identity(j, f)
          /\ Deletes(j)' = Deletes(j)
      BY DEF Identity, Planned, Deletes
    <2>8. About(j)'
      BY <2>1, <2>6, <2>7 DEF About
    <2> QED
      BY <2>3, <2>5, <2>8
  <1>2. RunningRegistered'
    BY DEF ResetInv, RunningRegistered
  <1> QED
    BY <1>1, <1>2 DEF ResetInv

LEMMA RelabelsInv ==
    ASSUME ResetInv, NEW i \in Item, Relabels(i)
    PROVE  ResetInv'
  <1> DEFINE r == [row[i] EXCEPT !.classified = TRUE, !.busy = TRUE, !.version = @ + 1]
  <1>1. row[i] \in Row /\ row \in [Item -> Row] /\ row' = [row EXCEPT ![i] = r]
    BY DEF ResetInv, ResetType, Relabels, Write
  <1>2. /\ r \in Row /\ r.owner = row[i].owner /\ r.source = row[i].source
        /\ r.at = row[i].at /\ r.took = row[i].took
    <2>1. row[i].version + 1 \in Nat
      BY <1>1 DEF Row
    <2> QED
      BY <1>1, <2>1 DEF Row
  <1> HIDE DEF r
  <1>3. ResetType'
    BY <1>1, <1>2 DEF ResetInv, ResetType, Relabels
  <1>4. \A k \in Item : /\ row'[k].owner = row[k].owner /\ row'[k].source = row[k].source
                        /\ row'[k].at = row[k].at /\ row'[k].took = row[k].took
                        /\ Locked(k) => row'[k] = row[k]
    BY <1>1, <1>2 DEF Relabels
  <1>5. \A j \in Job : \A p : Spares(j, p)' = Spares(j, p)
    BY DEF Relabels, Spares, Identities, Identity, Planned
  <1>6. \A j \in Job : run[j].pc \in {"file", "remove"} =>
           \A k \in Item \ {run[j].item}, f \in File \ {"thumb"} :
              Spares(j, row[k].at[f])' \/ TookMain(k, f)'
    BY <1>4, <1>5 DEF ResetInv, Knows, Spares, TookMain
  <1> QED
    BY <1>3, <1>4, <1>6, OtherStep DEF Relabels

\* An archive that was written or taken over.
LEMMA ArchivedRow ==
    ASSUME ResetInv, NEW i \in Item, NEW p \in Path, NEW t \in Path \cup {None},
           ~Locked(i), Archived(i, p, t)
    PROVE  /\ row' \in [Item -> Row] /\ row'[i].took = t
           /\ row'[i].at["main"] = p /\ row'[i].missing = row[i].missing \ {"main"}
           /\ \A f \in File \ {"main"} : row'[i].at[f] = row[i].at[f]
           /\ \A k \in Item : /\ row'[k].owner = row[k].owner /\ row'[k].source = row[k].source
                              /\ Locked(k) => row'[k] = row[k]
           /\ \A k \in Item \ {i} : row'[k] = row[k]
  <1> DEFINE at == [row[i].at EXCEPT !["main"] = p]
             r == [row[i] EXCEPT !.busy = FALSE, !.at = at, !.missing = @ \ {"main"}, !.took = t]
  <1>1. row[i] \in Row /\ row \in [Item -> Row]
    BY DEF ResetInv, ResetType
  <1>2. row' = [row EXCEPT ![i] = r]
    BY <1>1 DEF Archived, Write, Row
  <1>3. /\ at \in FilesOf /\ at["main"] = p
        /\ \A f \in File \ {"main"} : at[f] = row[i].at[f]
    BY <1>1 DEF Row, FilesOf, File, Destination
  <1> HIDE DEF at
  <1>4. /\ r \in Row /\ r.owner = row[i].owner /\ r.source = row[i].source /\ r.at = at
        /\ r.took = t /\ r.missing = row[i].missing \ {"main"}
    <2>1. row[i].missing \ {"main"} \in SUBSET Destination
      BY <1>1 DEF Row
    <2> QED
      BY <1>1, <1>3, <2>1 DEF Row
  <1> HIDE DEF r
  <1> QED
    BY <1>1, <1>2, <1>3, <1>4

LEMMA ArchivesInv ==
    ASSUME ResetInv, NEW i \in Item, NEW p \in Path, NEW c \in Fresh, Archives(i, p, c)
    PROVE  ResetInv'
  <1>1. c \in Bytes /\ c # None
    BY FreshAssumption, NoneAssumption DEF Bytes
  <1>2. files' = [files EXCEPT ![p] = c] /\ NewIdentity(c)
        /\ (files[p] = None \/ Replaceable(i, p))
    BY DEF Archives
  <1>3. /\ p \notin CacheRoots /\ UNCHANGED <<job, run>> /\ ~Locked(i) /\ Archived(i, p, None)
        /\ removed' = removed \ {p}
    BY DEF Archives
  <1>4. /\ row' \in [Item -> Row] /\ row'[i].took = None /\ row'[i].at["main"] = p
        /\ \A f \in File \ {"main"} : row'[i].at[f] = row[i].at[f]
        /\ \A k \in Item : /\ row'[k].owner = row[k].owner /\ row'[k].source = row[k].source
                           /\ Locked(k) => row'[k] = row[k]
        /\ \A k \in Item \ {i} : row'[k] = row[k]
    BY <1>3, ArchivedRow
  <1>5. ResetType'
    BY <1>1, <1>2, <1>3, <1>4 DEF Archives, ResetInv, ResetType
  <1>6. ASSUME NEW j \in Job, run[j].pc \in {"file", "remove"},
               NEW k \in Item \ {run[j].item}, NEW f \in File \ {"thumb"}
        PROVE  Spares(j, row[k].at[f])' \/ TookMain(k, f)'
    <2>1. run[j].pc \in Inside /\ Identities(j)' = Identities(j) /\ run'[j].shared = run[j].shared
      BY <1>3, <1>6 DEF Inside, Identities, Identity, Planned
    <2>2. /\ Spares(j, row[k].at[f]) \/ TookMain(k, f)
          /\ row[k].at[f] \in Path \cup {None} /\ run[j].item \in Item
      BY <1>6, <2>1, Facts DEF ResetInv, Knows, Owns, Runs
    <2>3. c \notin Identities(j)
      BY <1>1, <1>2, <2>2 DEF NewIdentity, Identities, Identity, Planned
    <2>4. files'[p] = c
      BY <1>2 DEF ResetInv, ResetType
    <2>5. CASE k = i /\ f = "main"
      BY <1>4, <2>1, <2>3, <2>4, <2>5 DEF Spares
    <2>6. CASE ~(k = i /\ f = "main")
      <3>1. row'[k].at[f] = row[k].at[f] /\ (f = "main" => row'[k] = row[k])
        BY <1>4, <2>6
      <3>2. CASE TookMain(k, f)
        BY <3>1, <3>2 DEF TookMain
      <3>3. CASE Spares(j, row[k].at[f])
        <4>1. Spares(j, row[k].at[f]) => (Spares(j, row[k].at[f]) /\ row[k].at[f] = row[k].at[f])
          OBVIOUS
        <4>2. PICK q \in Path \cup {None} : q = row[k].at[f]
          BY <2>2
        <4>3. Spares(j, q)
          BY <3>3, <4>2
        <4>4. q = None \/ q \in run[j].shared \/ files[q] = None \/ files[q] \notin Identities(j)
          BY <4>3 DEF Spares
        <4>5. q = None \/ q \in run'[j].shared \/ files'[q] = None \/ files'[q] \notin Identities(j)'
          BY <1>2, <2>1, <2>3, <4>4 DEF ResetInv, ResetType
        <4> QED
          BY <3>1, <4>2, <4>5 DEF Spares
      <3> QED
        BY <2>2, <3>2, <3>3
    <2> QED
      BY <2>5, <2>6
  <1>7. ASSUME NEW j \in Job, run[j].pc = "remove" PROVE files'[Target(j)] = files[Target(j)]
    <2>1. About(j) /\ Knows(j) /\ Owns(j) /\ run[j] \in Runs /\ files \in [Path -> Bytes]
      BY DEF ResetInv, ResetType
    <2>2. run[j].item \in Item /\ run[j].item # i /\ Target(j) \in Path
      BY <1>3, <1>7, <2>1 DEF Locked, Owns, Inside, Runs, About
    <2>3. ASSUME Target(j) = p, files[p] # None PROVE FALSE
      <3>1. Replaceable(i, p)
        BY <1>2, <2>3
      <3>2. run[j].file \notin Destination
        BY <2>2, <2>3, <3>1 DEF Replaceable, Target
      <3> QED
        BY <1>3, <1>7, <2>1, <2>3, <3>2 DEF About
    <2>4. ASSUME Target(j) = p, files[p] = None PROVE FALSE
      BY <1>3, <1>7, <2>1, <2>4, NoneAssumption DEF About
    <2> QED
      BY <1>2, <2>1, <2>2, <2>3, <2>4
  <1> QED
    BY <1>3, <1>4, <1>5, <1>6, <1>7, OtherStep

LEMMA AdoptsInv ==
    ASSUME ResetInv, NEW i \in Item, NEW p \in Path, Adopts(i, p)
    PROVE  ResetInv'
  <1>1. PICK t \in Path \cup {None} :
           /\ Archived(i, p, t)
           /\ (\E j \in Job : Looking(j)) => t = p
    BY DEF Adopts, Looking
  <1>2. ~Locked(i) /\ UNCHANGED <<files, job, run, removed>>
    BY DEF Adopts
  <1>3. /\ row' \in [Item -> Row] /\ row'[i].took = t /\ row'[i].at["main"] = p
        /\ \A f \in File \ {"main"} : row'[i].at[f] = row[i].at[f]
        /\ \A k \in Item : /\ row'[k].owner = row[k].owner /\ row'[k].source = row[k].source
                           /\ Locked(k) => row'[k] = row[k]
        /\ \A k \in Item \ {i} : row'[k] = row[k]
    BY <1>1, <1>2, ArchivedRow
  <1>4. ResetType'
    BY <1>2, <1>3 DEF ResetInv, ResetType
  <1>5. ASSUME NEW j \in Job, run[j].pc \in {"file", "remove"},
               NEW k \in Item \ {run[j].item}, NEW f \in File \ {"thumb"}
        PROVE  Spares(j, row[k].at[f])' \/ TookMain(k, f)'
    <2>1. Spares(j, row[k].at[f]) \/ TookMain(k, f)
      BY <1>5 DEF ResetInv, Knows
    <2>2. CASE k = i /\ f = "main"
      BY <1>1, <1>3, <1>5, <2>2 DEF TookMain, Looking
    <2>3. CASE ~(k = i /\ f = "main")
      <3>1. row'[k].at[f] = row[k].at[f] /\ (f = "main" => row'[k] = row[k])
        BY <1>3, <2>3
      <3>2. Identities(j)' = Identities(j)
        BY <1>2 DEF Identities, Identity, Planned
      <3>3. TookMain(k, f) => TookMain(k, f)'
        BY <3>1 DEF TookMain
      <3>4. Spares(j, row[k].at[f]) => Spares(j, row[k].at[f])'
        BY <1>2, <3>1, <3>2 DEF Spares
      <3> QED
        BY <2>1, <3>3, <3>4
    <2> QED
      BY <2>2, <2>3
  <1> QED
    BY <1>2, <1>3, <1>4, <1>5, OtherStep

LEMMA UserEditsInv ==
    ASSUME ResetInv, NEW p \in Path, NEW c \in Edits, UserEdits(p, c)
    PROVE  ResetInv'
  <1>1. c \in Bytes /\ (c = None \/ NewIdentity(c)) /\ files' = [files EXCEPT ![p] = c]
        /\ UNCHANGED <<row, job, run>>
    BY FreshAssumption DEF UserEdits
  <1>2. ResetType'
    BY <1>1 DEF ResetInv, ResetType, UserEdits
  <1>3. ASSUME NEW j \in Job, run[j].pc \in {"file", "remove"},
               NEW k \in Item \ {run[j].item}, NEW f \in File \ {"thumb"}
        PROVE  Spares(j, row[k].at[f])' \/ TookMain(k, f)'
    <2>1. run[j].pc \in Inside /\ Identities(j)' = Identities(j)
      BY <1>1, <1>3 DEF Inside, Identities, Identity, Planned
    <2>2. /\ Spares(j, row[k].at[f]) \/ TookMain(k, f)
          /\ row[k].at[f] \in Path \cup {None}
      BY <1>3, Facts DEF ResetInv, Knows
    <2>3. \A q \in Path \cup {None} : Spares(j, q) => Spares(j, q)'
      BY <1>1, <2>1, StillSpared
    <2> QED
      BY <1>1, <2>2, <2>3 DEF TookMain
  <1>4. ASSUME NEW j \in Job, run[j].pc = "remove" PROVE files'[Target(j)] = files[Target(j)]
    BY <1>1, <1>4 DEF ResetInv, ResetType, About, UserEdits
  <1> QED
    BY <1>1, <1>2, <1>3, <1>4, OtherStep

LEMMA RestartInv ==
    ASSUME ResetInv, Restart
    PROVE  ResetInv'
  <1>1. \A i \in Item : [row[i] EXCEPT !.owner = None] \in Row
                        /\ [row[i] EXCEPT !.owner = None].owner = None
    BY DEF ResetInv, ResetType, Row
  <1>2. row' \in [Item -> Row] /\ \A i \in Item : row'[i].owner = None
    BY <1>1 DEF Restart
  <1>3. NoJob \in Jobs /\ NoRun \in Runs
    BY DEF NoJob, NoPlan, Jobs, Plans, Bytes, NoRun, Runs, File, Destination
  <1>4. ResetType'
    BY <1>2, <1>3 DEF ResetInv, ResetType, Restart
  <1>5. RunningRegistered'
    BY <1>2 DEF RunningRegistered, Restart, NoRun
  <1>6. (\A j \in Job : Owns(j) /\ Knows(j) /\ About(j))'
    BY DEF Owns, Knows, About, Restart, NoRun, Inside
  <1> QED
    BY <1>4, <1>5, <1>6 DEF ResetInv

-----------------------------------------------------------------------------
(* The theorems *)

\* Whatever happens, by its actor.
LEMMA NextCases ==
    ASSUME Lawful, Next
    PROVE  \/ \E j \in Job : \/ PreviewBegins(j) \/ PreviewEnds(j) \/ Discard(j)
                             \/ \E i \in Item : PreviewItem(j, i) \/ Claims(j, i)
                             \/ \E delete, network \in BOOLEAN : Executes(j, delete, network)
                             \/ Indexes(j) \/ Removes(j) \/ Commits(j) \/ Fails(j) \/ Ends(j)
                             \/ \E f \in File : Checks(j, f)
           \/ \E i \in Item : Relabels(i) \/ (\E p \in Path : Adopts(i, p))
                              \/ (\E p \in Path, c \in Fresh : Archives(i, p, c))
           \/ \E p \in Path, c \in Edits : UserEdits(p, c)
           \/ Restart
  <1>1. budget.items \subseteq Item /\ budget.jobs \subseteq Job /\ budget.paths \subseteq Path
    BY DEF Lawful
  <1>2. CASE \E j \in budget.jobs : Preview(j) \/ Discard(j) \/ Execute(j) \/ Running(j)
    BY <1>1, <1>2 DEF Preview, Execute, Running
  <1>3. CASE Others
    BY <1>1, <1>3 DEF Others
  <1> QED
    BY <1>2, <1>3 DEF Next

LEMMA LawfulStep ==
    ASSUME Lawful, [Next]_vars
    PROVE  Lawful'
  <1>1. ASSUME NEW op, Uses(op) PROVE Lawful'
    <2>1. budget.left - 1 \in Nat
      BY <1>1 DEF Uses, Lawful
    <2> QED
      BY <1>1, <2>1 DEF Uses, Lawful
  <1>2. CASE UNCHANGED budget
    BY <1>2 DEF Lawful
  <1>3. CASE UNCHANGED vars
    BY <1>2, <1>3 DEF vars
  <1>4. CASE Next
    <2>1. \A j \in Job : PreviewBegins(j) => Uses("preview")
      BY DEF PreviewBegins
    <2>2. \A j \in Job, delete, network \in BOOLEAN : Executes(j, delete, network) => Uses("execute")
      BY DEF Executes
    <2>3. \A i \in Item : Relabels(i) => Uses("relabel")
      BY DEF Relabels
    <2>4. \A p \in Path, c \in Edits : UserEdits(p, c) => Uses("edit")
      BY DEF UserEdits
    <2>5. Restart => Uses("crash")
      BY DEF Restart
    <2>6. \A j \in Job : PreviewEnds(j) \/ Discard(j) \/ Indexes(j) \/ Removes(j) \/ Commits(j)
                         \/ Fails(j) \/ Ends(j) => UNCHANGED budget
      <3> SUFFICES ASSUME NEW j \in Job
                   PROVE  PreviewEnds(j) \/ Discard(j) \/ Indexes(j) \/ Removes(j) \/ Commits(j)
                          \/ Fails(j) \/ Ends(j) => UNCHANGED budget
        OBVIOUS
      <3>1. PreviewEnds(j) \/ Discard(j) \/ Indexes(j) => UNCHANGED budget
        BY DEF PreviewEnds, Discard, Indexes
      <3>2. Removes(j) \/ Ends(j) => UNCHANGED budget
        BY DEF Removes, Ends
      <3>3. Commits(j) \/ Fails(j) => UNCHANGED budget
        BY DEF Commits, Fails
      <3> QED
        BY <3>1, <3>2, <3>3
    <2>7. \A j \in Job, i \in Item : PreviewItem(j, i) \/ Claims(j, i) => UNCHANGED budget
      BY DEF PreviewItem, Claims
    <2>8. \A j \in Job, f \in File : Checks(j, f) => UNCHANGED budget
      BY DEF Checks
    <2>9. /\ \A i \in Item, p \in Path, c \in Fresh : Archives(i, p, c) => UNCHANGED budget
          /\ \A i \in Item, p \in Path : Adopts(i, p) => UNCHANGED budget
      BY DEF Archives, Adopts
    <2> QED
      BY <1>1, <1>2, <1>4, <2>1, <2>2, <2>3, <2>4, <2>5, <2>6, <2>7, <2>8, <2>9, NextCases
  <1> QED
    BY <1>3, <1>4

\* Executions that go on keep their capture, its files, and what they have read.
LEMMA MutualKept ==
    ASSUME Mutual,
           \A j \in Job : Looking(j)' =>
              /\ Looking(j) /\ run'[j].item = run[j].item /\ run'[j].shared = run[j].shared
              /\ row'[run[j].item].at = row[run[j].item].at
    PROVE  Mutual'
  <1> SUFFICES ASSUME NEW j \in Job, NEW k \in Job \ {j}, Looking(j)', Looking(k)'
               PROVE  Saw(j, k)' \/ Saw(k, j)'
    BY DEF Mutual
  <1>1. Saw(j, k) \/ Saw(k, j)
    BY DEF Mutual
  <1> QED
    BY <1>1 DEF Saw

LEMMA MutualStep ==
    ASSUME Lawful, ResetInv, Mutual, [Next]_vars
    PROVE  Mutual'
  <1>1. /\ run \in [Job -> Runs] /\ row \in [Item -> Row]
        /\ \A j \in Job : Looking(j) => run[j].item \in Item
    BY DEF ResetInv, ResetType, Owns, Looking, Inside, Runs
  <1>2. ASSUME UNCHANGED run, \A i \in Item : Locked(i) => row'[i].at = row[i].at
        PROVE  Mutual'
    BY <1>1, <1>2, MutualKept DEF Looking, Locked
  <1>3. ASSUME UNCHANGED row, NEW j \in Job, \A k \in Job \ {j} : run'[k] = run[k],
               Looking(j)' => /\ Looking(j) /\ run'[j].item = run[j].item
                              /\ run'[j].shared = run[j].shared
        PROVE  Mutual'
    <2>1. \A k \in Job \ {j} : Looking(k)' => Looking(k)
      BY <1>3 DEF Looking
    <2> QED
      BY <1>3, <2>1, MutualKept
  <1>4. CASE UNCHANGED vars
    BY <1>2, <1>4 DEF vars
  <1>5. ASSUME NEW j \in Job, PreviewBegins(j) \/ PreviewEnds(j) \/ Discard(j)
                              \/ \E i \in Item : PreviewItem(j, i)
        PROVE  Mutual'
    <2>1. UNCHANGED <<run, row>>
      BY <1>5 DEF PreviewBegins, PreviewEnds, Discard, PreviewItem
    <2> QED
      BY <1>2, <2>1
  <1>6. ASSUME NEW j \in Job, \E delete, network \in BOOLEAN : Executes(j, delete, network)
        PROVE  Mutual'
    <2>1. UNCHANGED row /\ run' = [run EXCEPT ![j].pc = "next"]
      BY <1>6 DEF Executes
    <2>2. run'[j].pc = "next" /\ \A k \in Job \ {j} : run'[k] = run[k]
      BY <1>1, <2>1 DEF Runs
    <2> QED
      BY <1>3, <2>1, <2>2 DEF Looking
  <1>7. ASSUME NEW j \in Job, NEW i \in Item, Claims(j, i) PROVE Mutual'
    <2>1. \/ UNCHANGED <<run, row>>
          \/ /\ row' = [row EXCEPT ![i] = [row[i] EXCEPT !.owner = j]]
             /\ run' = [run EXCEPT ![j].pc = "index", ![j].item = i]
      BY <1>7 DEF Claims, Write
    <2>2. CASE UNCHANGED <<run, row>>
      BY <1>2, <2>2
    <2>3. CASE /\ row' = [row EXCEPT ![i] = [row[i] EXCEPT !.owner = j]]
               /\ run' = [run EXCEPT ![j].pc = "index", ![j].item = i]
      <3>1. \A m \in Item : row'[m].at = row[m].at
        BY <1>1, <2>3 DEF Row
      <3>2. run'[j].pc = "index" /\ \A k \in Job \ {j} : run'[k] = run[k]
        BY <1>1, <2>3 DEF Runs
      <3>3. \A k \in Job : Looking(k)' => k # j
        BY <3>2 DEF Looking
      <3>4. \A k \in Job \ {j} : Looking(k)' => Looking(k)
        BY <3>2 DEF Looking
      <3> QED
        BY <1>1, <3>1, <3>2, <3>3, <3>4, MutualKept
    <2> QED
      BY <2>1, <2>2, <2>3
  <1>8. ASSUME NEW j \in Job, Indexes(j) PROVE Mutual'
    <2> DEFINE i == run[j].item
    <2>1. /\ UNCHANGED row /\ run[j].pc = "index"
          /\ \A k \in Job \ {j} : run'[k] = run[k]
          /\ run'[j].shared = {row[k].at[f] : k \in Item \ {i}, f \in File \ {"thumb"}}
      BY <1>1, <1>8 DEF Indexes, Runs
    <2>2. ASSUME NEW k \in Job \ {j}, Looking(k)' PROVE Saw(j, k)'
      <3>1. Looking(k) /\ run'[k].item = run[k].item /\ run[k].item \in Item
        BY <1>1, <2>1, <2>2 DEF Looking
      <3>2. run[k].item # i
        BY <1>1, <2>1, <3>1, OneHolder DEF ResetInv, Owns, Inside, Runs
      <3> QED
        BY <2>1, <3>1, <3>2 DEF Saw
    <2>3. ASSUME NEW k \in Job \ {j}, NEW m \in Job \ {j, k}, Looking(k)', Looking(m)'
          PROVE  Saw(k, m)' \/ Saw(m, k)'
      <3>1. Looking(k) /\ Looking(m)
        BY <2>1, <2>3 DEF Looking
      <3>2. Saw(k, m) \/ Saw(m, k)
        BY <3>1 DEF Mutual
      <3> QED
        BY <2>1, <3>2 DEF Saw
    <2> QED
      BY <2>2, <2>3 DEF Mutual
  <1>9. ASSUME NEW j \in Job, Removes(j) \/ \E f \in File : Checks(j, f) PROVE Mutual'
    <2>1. UNCHANGED row /\ Looking(j)
      BY <1>9 DEF Removes, Checks, Looking
    <2>2. /\ \A k \in Job \ {j} : run'[k] = run[k]
          /\ run'[j].item = run[j].item /\ run'[j].shared = run[j].shared
      <3>1. CASE Removes(j)
        <4>1. \E pc \in {"file", "fail"} : run' = [run EXCEPT ![j].pc = pc]
          BY <3>1 DEF Removes
        <4> QED
          BY <1>1, <4>1 DEF Runs
      <3>2. ASSUME NEW f \in File, Checks(j, f)
            PROVE  /\ \A k \in Job \ {j} : run'[k] = run[k]
                   /\ run'[j].item = run[j].item /\ run'[j].shared = run[j].shared
        BY <1>1, <3>2 DEF Checks, Runs
      <3> QED
        BY <1>9, <3>1, <3>2
    <2> QED
      BY SMTT(30), <1>3, <2>1, <2>2
  <1>10. ASSUME NEW j \in Job, Commits(j) \/ Fails(j) PROVE Mutual'
    <2> DEFINE i == run[j].item
    <2>1. i \in Item /\ i # None /\ \A m \in Item \ {i} : row'[m] = row[m]
      <3>1. i \in Item /\ i # None
        BY <1>1, <1>10 DEF Commits, Fails, ResetInv, Owns, Inside, Runs
      <3>2. \E r : row' = [row EXCEPT ![i] = r]
        BY <1>10 DEF Commits, Fails, Write
      <3> QED
        BY <1>1, <3>1, <3>2
    <2>2. run'[j].pc = "next" /\ \A k \in Job \ {j} : run'[k] = run[k]
      <3>1. \E s \in {"failed", "succeeded"} : Leaves(j, i, s)
        BY <1>10 DEF Commits, Fails
      <3> QED
        BY <1>1, <3>1 DEF Leaves, NoRun
    <2>3. ASSUME NEW k \in Job, Looking(k)' PROVE k # j /\ Looking(k) /\ run[k].item \in Item \ {i}
      <3>1. k # j /\ run'[k] = run[k]
        BY <2>2, <2>3 DEF Looking
      <3>2. Looking(k) /\ run[k].item \in Item
        BY <1>1, <2>3, <3>1 DEF Looking
      <3> QED
        BY <2>1, <3>1, <3>2, OneHolder
    <2> QED
      BY <2>1, <2>2, <2>3, MutualKept
  <1>11. ASSUME NEW j \in Job, Ends(j) PROVE Mutual'
    <2>1. UNCHANGED row /\ run' = [run EXCEPT ![j] = NoRun]
      BY <1>11 DEF Ends
    <2>2. run'[j].pc = "idle" /\ \A k \in Job \ {j} : run'[k] = run[k]
      BY <1>1, <2>1 DEF NoRun
    <2> QED
      BY <1>3, <2>1, <2>2 DEF Looking
  <1>12. ASSUME NEW i \in Item, Relabels(i) PROVE Mutual'
    <2>1. UNCHANGED run /\ \A m \in Item : row'[m].at = row[m].at
      BY <1>1, <1>12 DEF Relabels, Write, Row
    <2> QED
      BY <1>2, <2>1
  <1>13. ASSUME NEW i \in Item, NEW p \in Path,
                Adopts(i, p) \/ \E c \in Fresh : Archives(i, p, c)
         PROVE  Mutual'
    <2>1. UNCHANGED run /\ ~Locked(i) /\ \E t \in Path \cup {None} : Archived(i, p, t)
      BY <1>13 DEF Adopts, Archives
    <2> QED
      BY <1>2, <2>1, ArchivedRow
  <1>14. ASSUME NEW p \in Path, NEW c \in Edits, UserEdits(p, c) PROVE Mutual'
    BY <1>2, <1>14 DEF UserEdits
  <1>15. CASE Restart
    <2>1. \A j \in Job : run'[j].pc = "idle"
      BY <1>15 DEF Restart, NoRun
    <2> QED
      BY <2>1 DEF Mutual, Looking
  <1>16. CASE Next
    BY <1>5, <1>6, <1>7, <1>8, <1>9, <1>10, <1>11, <1>12, <1>13, <1>14, <1>15, <1>16, NextCases
  <1> QED
    BY <1>4, <1>16

LEMMA StepInv ==
    ASSUME Lawful, ResetInv, Mutual, [Next]_vars
    PROVE  ResetInv'
  <1>1. CASE UNCHANGED vars
    <2>1. ResetType' /\ RunningRegistered'
      BY <1>1 DEF ResetInv, ResetType, RunningRegistered, vars
    <2>2. \A j \in Job : Same(j) /\ SameFiles /\ (run[j].item # None => row'[run[j].item].owner = j)
      BY <1>1 DEF ResetInv, Owns, Same, SameFiles, vars
    <2> QED
      BY <2>1, <2>2, Kept DEF ResetInv
  <1>2. CASE Next
    BY <1>2, NextCases, PreviewBeginsInv, PreviewItemInv, PreviewEndsInv, DiscardInv,
       ExecutesInv, ClaimsInv, IndexesInv, ChecksInv, RemovesInv, CommitsInv, FailsInv,
       EndsInv, RelabelsInv, ArchivesInv, AdoptsInv, UserEditsInv, RestartInv
  <1> QED
    BY <1>1, <1>2

LEMMA ResetInvariant == Spec => [](Lawful /\ ResetInv)
  <1>1. Init => Lawful /\ ResetInv /\ Mutual
    BY InitInv, BudgetAssumption DEF Init, Lawful, Mutual, Looking, NoRun
  <1>2. Lawful /\ ResetInv /\ Mutual /\ [Next]_vars => (Lawful /\ ResetInv /\ Mutual)'
    BY LawfulStep, StepInv, MutualStep
  <1> QED
    BY <1>1, <1>2, PTL DEF Spec

\* capture_reset_service store and prune: room for a new preview is never made by
\* dropping a job that is executing, so that every claim has a job to release it.
THEOREM ClaimsReleased == Spec => []RunningRegistered
  <1>1. Lawful /\ ResetInv => RunningRegistered
    BY DEF ResetInv
  <1> QED
    BY <1>1, ResetInvariant, PTL

\* Only an execution and the user take a file away.
LEMMA WhoRemoves ==
    ASSUME Lawful, ResetInv, [Next]_vars, NEW p \in Path, Removed(p), ~UserStep
    PROVE  \E j \in Job : Removes(j) /\ p = Target(j)
  <1>1. \A c \in Fresh : c # None
    BY FreshAssumption, NoneAssumption
  <1>2. CASE \E j \in Job : Removes(j)
    <2> PICK j \in Job : Removes(j)
      BY <1>2
    <2>1. files' = [files EXCEPT ![Target(j)] = None] \/ files' = files
      BY DEF Removes
    <2> QED
      BY <2>1 DEF Removed, ResetInv, ResetType
  <1>3. CASE UNCHANGED files
    BY <1>3 DEF Removed
  <1>4. CASE \E i \in Item, q \in Path, c \in Fresh : Archives(i, q, c)
    BY <1>1, <1>4 DEF Archives, Removed, ResetInv, ResetType
  <1>5. CASE Next
    <2>1. \A j \in Job : PreviewBegins(j) \/ PreviewEnds(j) \/ Discard(j) \/ Indexes(j)
                         \/ Commits(j) \/ Fails(j) \/ Ends(j) => UNCHANGED files
      <3> SUFFICES ASSUME NEW j \in Job
                   PROVE  PreviewBegins(j) \/ PreviewEnds(j) \/ Discard(j) \/ Indexes(j)
                          \/ Commits(j) \/ Fails(j) \/ Ends(j) => UNCHANGED files
        OBVIOUS
      <3>1. PreviewBegins(j) \/ PreviewEnds(j) \/ Discard(j) \/ Indexes(j) => UNCHANGED files
        BY DEF PreviewBegins, PreviewEnds, Discard, Indexes
      <3>2. Commits(j) \/ Fails(j) \/ Ends(j) => UNCHANGED files
        BY DEF Commits, Fails, Ends
      <3> QED
        BY <3>1, <3>2
    <2>2. \A j \in Job, i \in Item : PreviewItem(j, i) \/ Claims(j, i) => UNCHANGED files
      BY DEF PreviewItem, Claims
    <2>3. \A j \in Job, f \in File : Checks(j, f) => UNCHANGED files
      BY DEF Checks
    <2>4. \A j \in Job, delete, network \in BOOLEAN : Executes(j, delete, network) => UNCHANGED files
      BY DEF Executes
    <2>5. /\ \A i \in Item : Relabels(i) => UNCHANGED files
          /\ \A i \in Item, q \in Path : Adopts(i, q) => UNCHANGED files
          /\ Restart => UNCHANGED files
      BY DEF Relabels, Adopts, Restart
    <2> QED
      BY <1>2, <1>3, <1>4, <1>5, <2>1, <2>2, <2>3, <2>4, <2>5, NextCases DEF UserStep
  <1> QED
    BY <1>3, <1>5 DEF vars

\* The file that goes is the one of the preview, and was asked for.
LEMMA RemovedSeen ==
    ASSUME ResetInv, NEW j \in Job, Removes(j), files[Target(j)] # None
    PROVE  /\ run[j].item \in Item /\ row[run[j].item].owner = j /\ run[j].file \in File
           /\ Target(j) \in Path \ (run[j].sources \cup run[j].shared)
           /\ files[Target(j)] = Identity(j, run[j].file)
           /\ run[j].file \in Destination =>
                 Deletes(j) /\ (Target(j) \in Network => job[j].network)
  <1>1. Owns(j) /\ About(j) /\ run[j] \in Runs /\ run[j].pc = "remove"
    BY DEF ResetInv, ResetType, Removes
  <1> QED
    BY <1>1 DEF Owns, About, Inside, Runs

\* capture_reset_service clean_and_commit: what a reset removes is what the preview
\* showed, as it was then, and an archive only if the user asked for it.
THEOREM RemovesPreviewed == Spec => RemovesOnlyPreviewed
  <1>1. ASSUME Lawful, ResetInv, [Next]_vars, NEW p \in Path, Removed(p), ~UserStep
        PROVE  \E j \in Job, i \in Item, f \in File :
                  /\ run[j].item = i /\ row[i].owner = j /\ row[i].at[f] = p
                  /\ files[p] = Identity(j, f)
                  /\ f \in Destination => Deletes(j) /\ (p \in Network => job[j].network)
    <2> PICK j \in Job : Removes(j) /\ p = Target(j)
      BY <1>1, WhoRemoves
    <2>1. files[Target(j)] # None
      BY <1>1 DEF Removed
    <2>2. row[run[j].item].at[run[j].file] = p
      BY DEF Target
    <2>3. /\ run[j].item \in Item /\ row[run[j].item].owner = j /\ run[j].file \in File
          /\ files[p] = Identity(j, run[j].file)
          /\ run[j].file \in Destination => Deletes(j) /\ (p \in Network => job[j].network)
      BY <1>1, <2>1, RemovedSeen
    <2> QED
      BY <2>2, <2>3
  <1>2. Lawful /\ ResetInv /\ [Next]_vars =>
          [\A p \in Path : Removed(p) =>
             \/ UserStep
             \/ \E j \in Job, i \in Item, f \in File :
                   /\ run[j].item = i /\ row[i].owner = j /\ row[i].at[f] = p
                   /\ files[p] = Identity(j, f)
                   /\ f \in Destination => Deletes(j) /\ (p \in Network => job[j].network)
          ]_vars
    BY <1>1
  <1> QED
    BY <1>2, ResetInvariant, PTL DEF Spec, RemovesOnlyPreviewed

\* capture_reset_service ReferenceIndex: no reset removes the source of a capture or
\* a file another capture names, whatever was archived or relabelled meanwhile, except
\* what a capture took over, because it was identical, after the references were read.
THEOREM SparesOthers == Spec => OthersFilesKept
  <1>1. ASSUME ResetInv, NEW p \in Path, NEW j \in Job, Removed(p), Removes(j), NEW i \in Item
        PROVE  /\ p # row[i].source
               /\ i # run[j].item =>
                     \A f \in File \ {"thumb"} :
                        row[i].at[f] = p => f = "main" /\ row[i].took = p
    <2>1. p = Target(j) /\ files[p] # None
      BY <1>1 DEF Removed, Removes, ResetInv, ResetType
    <2>2. run[j].pc = "remove" /\ Knows(j)
      BY <1>1 DEF Removes, ResetInv
    <2>3. p \notin run[j].sources /\ p \notin run[j].shared /\ files[p] \in Identities(j)
      BY <1>1, <2>1, RemovedSeen DEF Identities
    <2>4. p # row[i].source
      BY <2>2, <2>3 DEF Knows
    <2>5. ~Spares(j, p)
      BY <1>1, <2>1, <2>3, NoneAssumption DEF Spares
    <2>6. ASSUME i # run[j].item, NEW f \in File \ {"thumb"}, row[i].at[f] = p
          PROVE  f = "main" /\ row[i].took = p
      <3>1. Spares(j, row[i].at[f]) \/ TookMain(i, f)
        BY <2>2, <2>6 DEF Knows
      <3> QED
        BY <2>5, <2>6, <3>1 DEF TookMain
    <2> QED
      BY <2>4, <2>6
  <1>2. Lawful /\ ResetInv /\ [Next]_vars =>
          [\A p \in Path, j \in Job : Removed(p) /\ Removes(j) =>
             \A i \in Item :
                /\ p # row[i].source
                /\ i # run[j].item =>
                      \A f \in File \ {"thumb"} :
                         row[i].at[f] = p => f = "main" /\ row[i].took = p]_vars
    BY <1>1
  <1> QED
    BY <1>2, ResetInvariant, PTL DEF Spec, OthersFilesKept

-----------------------------------------------------------------------------
(* Removed archives are told, where the archives lie outside of the caches *)

Outside == \A b \in Budgets : \A r \in b.rows, i \in Item, f \in Destination :
               r[i].at[f] = None \/ r[i].at[f] \notin CacheRoots

\* Steps that remove nothing, forget no missing file, and leave executions their
\* capture and their choice.
LEMMA TellsKept ==
    ASSUME Tells, UNCHANGED <<files, removed>>,
           \A i \in Item : /\ row'[i].at = row[i].at /\ row'[i].took = row[i].took
                           /\ row[i].missing \subseteq row'[i].missing,
           \A j \in Job : run[j].item # None => run'[j].item = run[j].item
                                                /\ (Deletes(j) => Deletes(j)')
    PROVE  Tells'
  <1> SUFFICES ASSUME NEW i \in Item, NEW f \in Destination
               PROVE  /\ row[i].at[f] = None \/ row[i].at[f] \notin CacheRoots
                      /\ row[i].at[f] \in removed /\ files[row[i].at[f]] = None =>
                            \/ f \in row'[i].missing \/ TookMain(i, f)
                            \/ \E j \in Job : run'[j].item = i /\ Deletes(j)'
    BY DEF Tells, TookMain
  <1>1. i # None
    BY NoneAssumption
  <1> QED
    BY <1>1 DEF Tells

LEMMA RemovesTells ==
    ASSUME ResetInv, Tells, NEW j \in Job, Removes(j)
    PROVE  Tells'
  <1> DEFINE p == Target(j)
  <1>1. run \in [Job -> Runs] /\ row' = row /\ job' = job
    BY DEF Removes, ResetInv, ResetType
  <1>2. \A k \in Job : run'[k].item = run[k].item /\ Deletes(k)' = Deletes(k)
    <2>1. \E pc \in {"file", "fail"} : run' = [run EXCEPT ![j].pc = pc]
      BY DEF Removes
    <2> QED
      BY <1>1, <2>1 DEF Runs, Deletes
  <1>3. CASE UNCHANGED <<files, removed>>
    BY <1>1, <1>2, <1>3, TellsKept
  <1>4. CASE files' = [files EXCEPT ![p] = None] /\ removed' = removed \cup {p}
    <2>1. run[j].pc = "remove" /\ About(j) /\ Knows(j) /\ p \in Path /\ run[j] \in Runs
      BY <1>1 DEF Removes, ResetInv, About
    <2>2. ASSUME NEW i \in Item, NEW f \in Destination, row[i].at[f] = p, ~TookMain(i, f)
          PROVE  run[j].item = i /\ Deletes(j)
      <3>1. p \notin CacheRoots /\ p # None
        BY <2>1, <2>2, NoneAssumption DEF Tells
      <3>2. files[p] = Identity(j, run[j].file) /\ files[p] # None /\ p \notin run[j].shared
            /\ Deletes(j)
        BY <2>1, <3>1 DEF About
      <3>3. ~Spares(j, p)
        BY <2>1, <3>1, <3>2 DEF Spares, Identities, Runs
      <3>4. f \in File \ {"thumb"}
        BY DEF File, Destination
      <3> QED
        BY <2>1, <2>2, <3>2, <3>3, <3>4 DEF Knows
    <2>3. ASSUME NEW i \in Item, NEW f \in Destination, row[i].at[f] \in removed',
                 files'[row[i].at[f]] = None
          PROVE  \/ f \in row[i].missing \/ TookMain(i, f)
                 \/ \E k \in Job : run[k].item = i /\ Deletes(k)
      <3>1. CASE row[i].at[f] = p
        BY <2>2, <3>1
      <3>2. CASE row[i].at[f] # p
        <4>1. row[i].at[f] \in removed /\ files[row[i].at[f]] = None
          BY <1>4, <2>3, <3>2 DEF ResetInv, ResetType
        <4> QED
          BY <4>1 DEF Tells
      <3> QED
        BY <3>1, <3>2
    <2> QED
      BY <1>1, <1>2, <2>3 DEF Tells, TookMain
  <1> QED
    BY <1>3, <1>4 DEF Removes

LEMMA LeavesTells ==
    ASSUME ResetInv, Tells, NEW j \in Job, Commits(j) \/ Fails(j)
    PROVE  Tells'
  <1> DEFINE i == run[j].item
  <1>1. i \in Item /\ i # None /\ row \in [Item -> Row] /\ row[i] \in Row /\ run \in [Job -> Runs]
        /\ row[i].owner = j
    BY DEF Commits, Fails, ResetInv, ResetType, Owns, Inside, Runs
  <1>2. PICK s \in {"failed", "succeeded"} : Leaves(j, i, s)
    BY DEF Commits, Fails
  <1>3. \A k \in Job : Deletes(k)' = Deletes(k)
    BY <1>1, <1>2, StatusType DEF Leaves, Deletes, ResetInv
  <1>4. \A k \in Job \ {j} : run'[k].item = run[k].item
    BY <1>1, <1>2 DEF Leaves
  <1>5. UNCHANGED <<files, removed>> /\ removed \subseteq Path
    BY DEF Commits, Fails, ResetInv, ResetType
  <1>6. ASSUME NEW m \in Item \ {i}, row'[m] = row[m], NEW f \in Destination
        PROVE  /\ row'[m].at[f] = None \/ row'[m].at[f] \notin CacheRoots
               /\ row'[m].at[f] \in removed /\ files[row'[m].at[f]] = None =>
                     \/ f \in row'[m].missing \/ TookMain(m, f)'
                     \/ \E k \in Job : run'[k].item = m /\ Deletes(k)'
    BY <1>3, <1>4, <1>6 DEF Tells, TookMain
  <1>7. CASE Commits(j)
    <2>1. row' = [row EXCEPT ![i] = Unclassified(row[i])]
      BY <1>7 DEF Commits, Write
    <2>2. \A f \in Destination : row'[i].at[f] = None
      BY <1>1, <2>1 DEF Unclassified, Row, File, Destination
    <2>3. None \notin removed
      BY <1>5, NoneAssumption
    <2> QED
      BY <1>1, <1>5, <1>6, <2>1, <2>2, <2>3 DEF Tells
  <1>8. CASE Fails(j)
    <2>1. row' = [row EXCEPT ![i] = [row[i] EXCEPT !.missing = Missing(j, i), !.owner = None]]
      BY <1>1, <1>8 DEF Fails, Write, Row
    <2>2. /\ row'[i].at = row[i].at /\ row'[i].missing = Missing(j, i)
          /\ row'[i].took = row[i].took
      BY <1>1, <2>1 DEF Row
    <2>3. ASSUME NEW f \in Destination, row[i].at[f] \in removed, files[row[i].at[f]] = None,
                 ~TookMain(i, f)
          PROVE  f \in Missing(j, i)
      <3>1. f \in row[i].missing \/ Deletes(j)
        BY <1>1, <2>3, OneHolder DEF Tells
      <3>2. row[i].at[f] # None
        BY <1>5, <2>3, NoneAssumption
      <3> QED
        BY <2>3, <3>1, <3>2 DEF Missing
    <2> QED
      BY <1>1, <1>5, <1>6, <2>1, <2>2, <2>3 DEF Tells, TookMain
  <1> QED
    BY <1>7, <1>8

LEMMA ArchivesTells ==
    ASSUME ResetInv, Tells, NEW i \in Item, NEW p \in Path,
           Adopts(i, p) \/ \E c \in Fresh : Archives(i, p, c)
    PROVE  Tells'
  <1>1. /\ ~Locked(i) /\ \E t \in Path \cup {None} : Archived(i, p, t)
        /\ p \notin CacheRoots /\ UNCHANGED <<job, run>>
    BY DEF Adopts, Archives
  <1>2. files'[p] # None /\ \A q \in removed' : q # p => q \in removed /\ files'[q] = files[q]
    BY FreshAssumption, NoneAssumption DEF Adopts, Archives, ResetInv, ResetType
  <1>3. /\ row'[i].at["main"] = p /\ row'[i].missing = row[i].missing \ {"main"}
        /\ \A f \in File \ {"main"} : row'[i].at[f] = row[i].at[f]
        /\ \A m \in Item \ {i} : row'[m] = row[m]
    BY <1>1, ArchivedRow
  <1>4. \A k \in Job : Deletes(k)' = Deletes(k)
    BY <1>1 DEF Deletes
  <1> SUFFICES ASSUME NEW m \in Item, NEW f \in Destination
               PROVE  /\ row'[m].at[f] = None \/ row'[m].at[f] \notin CacheRoots
                      /\ row'[m].at[f] \in removed' /\ files'[row'[m].at[f]] = None =>
                            \/ f \in row'[m].missing \/ TookMain(m, f)'
                            \/ \E k \in Job : run'[k].item = m /\ Deletes(k)'
    BY DEF Tells
  <1>5. CASE m = i /\ f = "main"
    BY <1>1, <1>2, <1>3, <1>5
  <1>6. CASE ~(m = i /\ f = "main")
    <2>1. /\ row'[m].at[f] = row[m].at[f] /\ (f = "main" => row'[m] = row[m])
          /\ f \in row[m].missing => f \in row'[m].missing
      <3>1. CASE m = i
        BY <1>3, <1>6, <3>1 DEF File
      <3>2. CASE m # i
        BY <1>3, <3>2
      <3> QED
        BY <3>1, <3>2
    <2>2. TookMain(m, f) => TookMain(m, f)'
      BY <2>1 DEF TookMain
    <2>3. row[m].at[f] \in removed' /\ files'[row[m].at[f]] = None =>
             row[m].at[f] \in removed /\ files[row[m].at[f]] = None
      BY <1>2
    <2> QED
      BY <1>1, <1>4, <2>1, <2>2, <2>3 DEF Tells
  <1> QED
    BY <1>5, <1>6

LEMMA UserEditsTells ==
    ASSUME ResetInv, Tells, NEW p \in Path, NEW c \in Edits, UserEdits(p, c)
    PROVE  Tells'
  <1>1. files' = [files EXCEPT ![p] = c] /\ removed' = removed \ {p} /\ UNCHANGED <<row, job, run>>
    BY DEF UserEdits
  <1>2. \A q \in removed' : q \in removed /\ files'[q] = files[q]
    BY <1>1 DEF ResetInv, ResetType
  <1>3. \A k \in Job : Deletes(k)' = Deletes(k)
    BY <1>1 DEF Deletes
  <1> QED
    BY <1>1, <1>2, <1>3 DEF Tells, TookMain

LEMMA TellsStep ==
    ASSUME Lawful, ResetInv, Tells, [Next]_vars
    PROVE  Tells'
  <1>1. CASE UNCHANGED vars
    BY <1>1, TellsKept DEF vars, Deletes
  <1>2. ASSUME UNCHANGED <<files, row, run, removed>>,
               \A j \in Job : job[j].state = "running" => job'[j].delete = job[j].delete
        PROVE  Tells'
    BY <1>2, TellsKept DEF Deletes, ResetInv, Owns, Inside
  <1>3. CASE Restart
    <2>1. removed' = {} /\ \A i \in Item : row'[i].at = row[i].at
      BY <1>3 DEF Restart, ResetInv, ResetType, Row
    <2> QED
      BY <2>1 DEF Tells
  <1>4. CASE \E i \in Item : Relabels(i)
    <2>1. \A i \in Item : /\ row'[i].at = row[i].at /\ row'[i].missing = row[i].missing
                          /\ row'[i].took = row[i].took
      BY <1>4 DEF Relabels, Write, ResetInv, ResetType, Row
    <2>2. UNCHANGED <<files, removed, job, run>>
      BY <1>4 DEF Relabels
    <2> QED
      BY <2>1, <2>2, TellsKept DEF Deletes
  <1>5. ASSUME NEW j \in Job,
               PreviewBegins(j) \/ PreviewEnds(j) \/ Discard(j)
               \/ \E i \in Item : PreviewItem(j, i)
        PROVE  Tells'
    <2>1. job \in [Job -> Jobs] /\ job[j] \in Jobs
      BY DEF ResetInv, ResetType
    <2>2. ASSUME NEW k \in Job, job[k].state = "running" PROVE job'[k] = job[k]
      <3>1. CASE PreviewBegins(j)
        BY <2>1, <2>2, <3>1 DEF PreviewBegins
      <3>2. CASE PreviewEnds(j)
        <4> PICK expired \in SUBSET {m \in Job : Inactive(m)} : Stored(j, expired)
          BY <3>2 DEF PreviewEnds
        <4>1. k # j /\ k \notin Pruned(expired)
          BY <2>2, <3>2, PrunedIdle DEF PreviewEnds, Inactive
        <4> QED
          BY <4>1 DEF Stored
      <3>3. CASE Discard(j)
        BY <2>1, <2>2, <3>3 DEF Discard
      <3>4. CASE \E i \in Item : PreviewItem(j, i)
        BY <2>1, <2>2, <3>4 DEF PreviewItem
      <3> QED
        BY <1>5, <3>1, <3>2, <3>3, <3>4
    <2>3. UNCHANGED <<files, row, run, removed>>
      BY <1>5 DEF PreviewBegins, PreviewEnds, Discard, PreviewItem
    <2> QED
      BY <1>2, <2>2, <2>3
  <1>6. ASSUME NEW j \in Job, Ends(j) PROVE Tells'
    <2>1. run \in [Job -> Runs] /\ job \in [Job -> Jobs] /\ run[j].item = None
      BY <1>6 DEF Ends, ResetInv, ResetType, Owns, Inside
    <2>2. \A k \in Job : run[k].item # None => run'[k] = run[k] /\ job'[k] = job[k]
      BY <1>6, <2>1 DEF Ends
    <2>3. UNCHANGED <<files, row, removed>>
      BY <1>6 DEF Ends
    <2> QED
      BY <2>2, <2>3, TellsKept DEF Deletes
  <1>7. ASSUME NEW j \in Job, Indexes(j) \/ \E f \in File : Checks(j, f) PROVE Tells'
    <2>1. run \in [Job -> Runs] /\ run[j] \in Runs
      BY DEF ResetInv, ResetType
    <2>2. CASE Indexes(j)
      <3>1. UNCHANGED <<files, row, job, removed>>
        BY <2>2 DEF Indexes
      <3>2. \A k \in Job : run'[k].item = run[k].item
        BY <2>1, <2>2 DEF Indexes, Runs
      <3> QED
        BY <3>1, <3>2, TellsKept DEF Deletes
    <2>3. CASE \E f \in File : Checks(j, f)
      <3>1. UNCHANGED <<files, row, job, removed>>
        BY <2>3 DEF Checks
      <3>2. \A k \in Job : run'[k].item = run[k].item
        BY <2>1, <2>3 DEF Checks, Runs
      <3> QED
        BY <3>1, <3>2, TellsKept DEF Deletes
    <2> QED
      BY <1>7, <2>2, <2>3
  <1>8. ASSUME NEW j \in Job, \E delete, network \in BOOLEAN : Executes(j, delete, network)
        PROVE  Tells'
    <2>1. run \in [Job -> Runs] /\ job \in [Job -> Jobs] /\ run[j].item = None
      BY <1>8 DEF Executes, Inactive, ResetInv, ResetType, Owns, Inside
    <2>2. \A k \in Job \ {j} : run'[k] = run[k] /\ job'[k] = job[k]
      BY <1>8, <2>1 DEF Executes
    <2>3. UNCHANGED <<files, row, removed>>
      BY <1>8 DEF Executes
    <2> QED
      BY <2>1, <2>2, <2>3, TellsKept DEF Deletes
  <1>9. ASSUME NEW j \in Job, NEW i \in Item, Claims(j, i) PROVE Tells'
    <2>1. run \in [Job -> Runs] /\ run[j].item = None /\ row \in [Item -> Row]
      BY <1>9 DEF Claims, ResetInv, ResetType, Owns, Inside
    <2>2. \A k \in Job \ {j} : run'[k] = run[k]
      BY <1>9, <2>1 DEF Claims
    <2>3. \A k \in Job : Deletes(k)' = Deletes(k)
      BY <1>9, StatusType DEF Claims, Deletes, ResetInv
    <2>4. \A k \in Item : /\ row'[k].at = row[k].at /\ row'[k].missing = row[k].missing
                          /\ row'[k].took = row[k].took
      BY <1>9, <2>1 DEF Claims, Write, Row
    <2>5. UNCHANGED <<files, removed>>
      BY <1>9 DEF Claims
    <2> QED
      BY <2>1, <2>2, <2>3, <2>4, <2>5, TellsKept
  <1>10. CASE Next
    BY <1>3, <1>4, <1>5, <1>6, <1>7, <1>8, <1>9, <1>10, NextCases, RemovesTells, LeavesTells,
       ArchivesTells, UserEditsTells
  <1> QED
    BY <1>1, <1>10

\* capture_reset_service mark_missing_targets: where no archive lies in a cache, an
\* archive that a reset removed is never shown as available, however the reset failed.
THEOREM RemovedIsTold == ASSUME Outside PROVE Spec => []ArchiveTruth
  <1>1. Init => Tells
    BY Outside, BudgetAssumption DEF Init, Tells, Outside
  <1>2. Lawful /\ ResetInv /\ Tells /\ [Next]_vars => Tells'
    BY TellsStep
  <1>3. Tells => ArchiveTruth
    BY DEF Tells, TookMain, ArchiveTruth, Locked
  <1> QED
    BY <1>1, <1>2, <1>3, ResetInvariant, PTL DEF Spec

=============================================================================

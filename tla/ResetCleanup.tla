---------------------------- MODULE ResetCleanup ----------------------------
(***************************************************************************)
(* capture_reset_service: a preview freezes rows and file identities in    *)
(* memory, an execution cleans the files of each previewed capture one by  *)
(* one and takes its classification back.  The registry of jobs is bounded *)
(* and only the claim in the row is durable.                               *)
(*                                                                         *)
(* Beside it run the other commands, which relabel and archive captures,   *)
(* the user, who edits files, and the crash.  CaptureLifecycle has the row *)
(* in full; here a row is what a reset compares and cleans.                *)
(*                                                                         *)
(* The identity of a file (canonical path, hash, length, time) is its      *)
(* content: another content is another identity.  Paths have no links.     *)
(***************************************************************************)
EXTENDS Naturals, FiniteSets, Sequences

CONSTANTS
    Item, Job, Path, None,
    Content,     \* identities of files
    Fresh,       \* identities of new archives
    Edits,       \* what the user may put at a path, None included
    Network,     \* UNC paths
    CacheRoots,  \* paths inside the application's cache roots
    MaxJobs,
    Budgets      \* what may happen, how often, to which captures, with which
                 \* jobs and paths, and the rows it begins with

Destination == {"main", "avatar"}
File == Destination \cup {"annotated", "thumb"}
Bytes == Content \cup {None}
FilesOf == [File -> Path \cup {None}]

\* busy: queued, processing or archive_pending.  missing: destinations whose
\* file state is 'missing'.  took: an archive that was there already and that the
\* capture took for its own after a reset had read the references (history).
Row == [classified : BOOLEAN, busy : BOOLEAN, version : Nat,
        at : FilesOf, missing : SUBSET Destination, owner : Job \cup {None},
        source : Path, hash : Content, took : Path \cup {None}]

ASSUME NoneAssumption == None \notin Content \cup Path \cup Job \cup Item
ASSUME BudgetAssumption ==
    Budgets \subseteq [ops : SUBSET STRING, left : Nat, items : SUBSET Item, jobs : SUBSET Job,
                       paths : SUBSET Path, rows : SUBSET [Item -> Row]]
\* recover_interrupted has cleared the claims before the first command.
ASSUME UnclaimedAssumption == \A b \in Budgets : \A r \in b.rows, i \in Item : r[i].owner = None
ASSUME FreshAssumption == Fresh \subseteq Content /\ Edits \subseteq Bytes \ Fresh
ASSUME MaxJobsAssumption == MaxJobs \in Nat \ {0}

VARIABLES
    files,   \* content of every path
    row,     \* the capture_items rows
    job,     \* job[j]: JobState; "absent" when not in the registry
    order,   \* the registry, by creation or by the end of the last execution
    run,     \* run[j]: what the execution of j is doing
    removed, \* destinations that resets removed since the start (history)
    budget   \* calls and faults left

vars == <<files, row, job, order, run, removed, budget>>

\* The columns of the snapshot; the file states are not among them, and the
\* current source path is taken over.
Frozen(i) == [classified |-> row[i].classified, busy |-> row[i].busy,
              version |-> row[i].version, owner |-> row[i].owner,
              at |-> [row[i].at EXCEPT !["thumb"] = None]]

NoPlan == [item |-> None, seen |-> [f \in File |-> None]]
NoJob == [state |-> "absent", delete |-> None, network |-> FALSE,
          status |-> [i \in Item |-> "none"], plan |-> [i \in Item |-> NoPlan]]
NoRun == [pc |-> "idle", item |-> None, left |-> {}, file |-> "main",
          thumb |-> None, sources |-> {}, shared |-> {}]

Init ==
    /\ budget \in Budgets
    /\ row \in budget.rows
    /\ files \in {f \in [Path -> (Bytes \ (Fresh \cup Edits)) \cup {None}] :
                    /\ \A i \in Item : f[row[i].source] = row[i].hash
                    /\ \A p \in Path : \/ f[p] = None \/ p \in budget.paths
                                      \/ \E i \in Item : row[i].source = p}
    /\ job = [j \in Job |-> NoJob]
    /\ order = <<>>
    /\ run = [j \in Job |-> NoRun]
    /\ removed = {}

-----------------------------------------------------------------------------
Uses(op) == op \in budget.ops /\ budget.left > 0 /\ budget' = [budget EXCEPT !.left = @ - 1]

Locked(i)      == \E j \in Job : run[j].item = i
SourceValid(i) == files[row[i].source] = row[i].hash
Eligible(i)    == row[i].classified /\ ~row[i].busy /\ row[i].owner = None
Write(i, r)    == row' = [row EXCEPT ![i] = r]

Inactive(j) == job[j].state \in {"preview", "done"}

\* prune, before a job is inserted: any inactive job may have aged out, then
\* the oldest inactive ones make room.
Pruned(expired) ==
    LET kept  == {n \in DOMAIN order : order[n] \notin expired}
        idle  == {n \in kept : Inactive(order[n])}
        goes(n) == Cardinality({m \in idle : m < n}) + MaxJobs <= Cardinality(kept)
    IN  expired \cup {order[n] : n \in {m \in idle : goes(m)}}

-----------------------------------------------------------------------------
(* preview, discard                                                        *)

PreviewBegins(j) ==
    /\ Uses("preview")
    /\ job[j].state = "absent"
    /\ job' = [job EXCEPT ![j].state = "building"]
    /\ UNCHANGED <<files, row, order, run, removed>>

\* Under the item lock: an eligible row with its original source is frozen with
\* the identity of each of its files, any other is listed as skipped.
PreviewItem(j, i) ==
    /\ job[j].state = "building"
    /\ job[j].status[i] = "none"
    /\ row[i].classified
    /\ ~Locked(i)
    /\ LET seen == [f \in File |-> IF f = "thumb" \/ row[i].at[f] = None
                                   THEN None ELSE files[row[i].at[f]]]
       IN job' = IF Eligible(i) /\ SourceValid(i)
                 THEN [job EXCEPT ![j].status[i] = "ready",
                                  ![j].plan[i] = [item |-> Frozen(i), seen |-> seen]]
                 ELSE [job EXCEPT ![j].status[i] = "skipped"]
    /\ UNCHANGED <<files, row, order, run, removed, budget>>

\* Wrong on purpose: the oldest job goes, running or not.
Blunt_Stored(j, expired) ==
    LET gone == expired \cup (IF Len(order) + 1 > MaxJobs THEN {Head(order)} ELSE {})
    IN  /\ order' = Append(SelectSeq(order, LAMBDA k : k \notin gone), j)
        /\ job' = [k \in Job |-> IF k \in gone THEN NoJob
                                 ELSE IF k = j THEN [job[j] EXCEPT !.state = "preview"]
                                 ELSE job[k]]

Stored(j, expired) ==
    LET gone == Pruned(expired)
    IN  /\ order' = Append(SelectSeq(order, LAMBDA k : k \notin gone), j)
        /\ job' = [k \in Job |-> IF k \in gone THEN NoJob
                                 ELSE IF k = j THEN [job[j] EXCEPT !.state = "preview"]
                                 ELSE job[k]]

PreviewEnds(j) ==
    /\ job[j].state = "building"
    /\ \E expired \in SUBSET {k \in Job : Inactive(k)} : Stored(j, expired)
    /\ UNCHANGED <<files, row, run, removed, budget>>

\* Only a preview that was never executed can be discarded.
Discard(j) ==
    /\ job[j].state = "preview"
    /\ job' = [job EXCEPT ![j] = NoJob]
    /\ order' = SelectSeq(order, LAMBDA k : k # j)
    /\ UNCHANGED <<files, row, run, removed, budget>>

-----------------------------------------------------------------------------
(* execute, one job                                                        *)

\* The choices of the first execution bind every retry.
Executes(j, delete, network) ==
    /\ Uses("execute")
    /\ Inactive(j)
    /\ job[j].delete \in {None, <<delete>>}
    /\ job[j].delete # None => job[j].network = network
    /\ job' = [job EXCEPT
          ![j].state = "running", ![j].delete = <<delete>>, ![j].network = network,
          ![j].status = [i \in Item |-> IF @[i] = "failed" THEN "ready" ELSE @[i]]]
    /\ run' = [run EXCEPT ![j].pc = "next"]
    /\ UNCHANGED <<files, row, order, removed>>

Deletes(j) == job[j].delete = <<TRUE>>
Planned(j) == job[j].plan[run[j].item]

\* execute_item compares the row with its snapshot.
Unchanged(j, i) == Frozen(i) = job[j].plan[i].item

\* The item lock is taken, the row compared and claimed, or the item fails.
Claims(j, i) ==
    /\ run[j].pc = "next"
    /\ job[j].status[i] = "ready"
    /\ ~Locked(i)
    /\ IF Unchanged(j, i) /\ SourceValid(i) /\ row[i].owner = None
       THEN /\ Write(i, [row[i] EXCEPT !.owner = j])
            /\ job' = [job EXCEPT ![j].status[i] = "running"]
            /\ run' = [run EXCEPT ![j].pc = "index", ![j].item = i]
       ELSE /\ job' = [job EXCEPT ![j].status[i] = "failed"]
            /\ UNCHANGED <<row, run>>
    /\ UNCHANGED <<files, order, removed, budget>>

\* The thumbnail is identified now, then the references of all captures are
\* read once for this item.
Indexes(j) ==
    LET i == run[j].item
        others == Item \ {i}
    IN  /\ run[j].pc = "index"
        /\ run' = [run EXCEPT ![j] = [@ EXCEPT
              !.pc = "file",
              !.left = {f \in File : row[i].at[f] # None},
              !.thumb = IF row[i].at["thumb"] = None THEN None
                        ELSE files[row[i].at["thumb"]],
              !.sources = {row[k].source : k \in Item},
              !.shared = {row[k].at[f] : k \in others, f \in File \ {"thumb"}}]]
        /\ UNCHANGED <<files, row, job, order, removed, budget>>

\* Destinations come first.
Upcoming(j, f) ==
    /\ f \in run[j].left
    /\ run[j].left \cap Destination # {} => f \in Destination

Identity(j, f) == IF f = "thumb" THEN run[j].thumb ELSE Planned(j).seen[f]

\* Nothing to do: not asked for, or already gone.
Passed(j, f, p) == (f \in Destination /\ ~Deletes(j)) \/ files[p] = None

\* Wrong on purpose: whatever is at the path now is what was previewed.
Trusting_Refused(j, f, p) == p \in run[j].sources

\* Another file than the one previewed, or the source of a capture.
Refused(j, f, p) == files[p] # Identity(j, f) \/ p \in run[j].sources

\* Wrong on purpose: what other captures name may go.
Greedy_Retained(j, f, p) == f \notin Destination /\ p \notin CacheRoots

\* Left alone: other captures name it, or it is outside of the cache roots.
Retained(j, f, p) ==
    p \in run[j].shared \/ (f \notin Destination /\ p \notin CacheRoots)

\* The original source must be in place; a UNC path needs its own permission.
Forbidden(j, f, p) ==
    \/ ~SourceValid(run[j].item)
    \/ f \in Destination /\ p \in Network /\ ~job[j].network

Checks(j, f) ==
    LET p == row[run[j].item].at[f]
    IN  /\ run[j].pc = "file"
        /\ Upcoming(j, f)
        /\ run' = [run EXCEPT ![j] = [@ EXCEPT
              !.file = f,
              !.left = run[j].left \ {f},
              !.pc = IF Passed(j, f, p) THEN "file"
                     ELSE IF Refused(j, f, p) THEN "fail"
                     ELSE IF Retained(j, f, p) THEN "file"
                     ELSE IF Forbidden(j, f, p) THEN "fail" ELSE "remove"]]
        /\ UNCHANGED <<files, row, job, order, removed, budget>>

Target(j) == row[run[j].item].at[run[j].file]

\* The recycle bin or the file system may refuse, and does when the file is gone.
Removes(j) ==
    /\ run[j].pc = "remove"
    /\ \/ /\ files[Target(j)] # None
          /\ files' = [files EXCEPT ![Target(j)] = None]
          /\ removed' = removed \cup {Target(j)}
          /\ run' = [run EXCEPT ![j].pc = "file"]
       \/ /\ run' = [run EXCEPT ![j].pc = "fail"]
          /\ UNCHANGED <<files, removed>>
    /\ UNCHANGED <<row, job, order, budget>>

\* The classification and everything derived from it go; the row stays.
Unclassified(r) ==
    [r EXCEPT !.classified = FALSE, !.owner = None, !.missing = {},
              !.at = [f \in File |-> IF f = "thumb" THEN r.at[f] ELSE None],
              !.version = @ + 1]

Leaves(j, i, status) ==
    /\ job' = [job EXCEPT ![j].status[i] = status]
    /\ run' = [run EXCEPT ![j] = [NoRun EXCEPT !.pc = "next"]]

\* The final update is guarded by claim and version.
CommitHolds(j) ==
    LET i == run[j].item
    IN  SourceValid(i) /\ row[i].owner = j /\ row[i].version = Planned(j).item.version

Commits(j) ==
    /\ run[j].pc = "file" /\ run[j].left = {}
    /\ CommitHolds(j)
    /\ Write(run[j].item, Unclassified(row[run[j].item]))
    /\ Leaves(j, run[j].item, "succeeded")
    /\ UNCHANGED <<files, order, removed, budget>>

\* Wrong on purpose: the states of removed archives stay as they were.
Silent_Missing(j, i) == row[i].missing

\* mark_missing_targets: what the failed attempt removed is written down.
Missing(j, i) ==
    row[i].missing \cup
        {f \in Destination : Deletes(j) /\ row[i].at[f] # None
                             /\ files[row[i].at[f]] = None}

\* Any error after the claim; the claim is released.
Fails(j) ==
    LET i == run[j].item
    IN  /\ \/ run[j].pc = "fail"
           \/ run[j].pc = "file" /\ run[j].left = {} /\ ~CommitHolds(j)
        /\ Write(i, [row[i] EXCEPT !.missing = Missing(j, i),
                        !.owner = IF @ = j THEN None ELSE @])
        /\ Leaves(j, i, "failed")
        /\ UNCHANGED <<files, order, removed, budget>>

Ends(j) ==
    /\ run[j].pc = "next"
    /\ \A i \in Item : job[j].status[i] # "ready"
    /\ job' = [job EXCEPT ![j].state = "done"]
    /\ order' = Append(SelectSeq(order, LAMBDA k : k # j), j)
    /\ run' = [run EXCEPT ![j] = NoRun]
    /\ UNCHANGED <<files, row, removed, budget>>

-----------------------------------------------------------------------------
(* Others.                                                                 *)

\* Any command that changes the row takes its lock and leaves a claim alone.
Relabels(i) ==
    /\ Uses("relabel")
    /\ ~Locked(i) /\ row[i].owner = None /\ ~row[i].busy
    /\ Write(i, [row[i] EXCEPT !.classified = TRUE, !.busy = TRUE,
                               !.version = @ + 1])
    /\ UNCHANGED <<files, job, order, run, removed>>

\* A file that is written has an identity no job has seen (its time differs).
NewIdentity(c) ==
    \A j \in Job : /\ c # run[j].thumb
                    /\ \A i \in Item, f \in File : c # job[j].plan[i].seen[f]

\* A previous archive may be replaced: its fingerprint says that it is the
\* capture's own, and no other capture names it.
Replaceable(i, p) ==
    /\ p = row[i].at["main"] /\ files[p] \notin Edits
    /\ \A k \in Item : row[k].source # p
    /\ \A k \in Item \ {i}, f \in Destination : row[k].at[f] # p

Archived(i, p, took) ==
    Write(i, [row[i] EXCEPT !.busy = FALSE, !.at["main"] = p, !.missing = @ \ {"main"},
                            !.took = took])

\* An archive is written where nothing is, or over the capture's own (ArchivePromotion).
Archives(i, p, c) ==
    /\ row[i].busy /\ ~Locked(i)
    /\ files[p] = None \/ Replaceable(i, p)
    /\ p \notin CacheRoots /\ NewIdentity(c)
    /\ files' = [files EXCEPT ![p] = c]
    /\ removed' = removed \ {p}
    /\ Archived(i, p, None)
    /\ UNCHANGED <<job, order, run, budget>>

\* Or one that is there already, and is identical, is taken for the capture's own.
Adopts(i, p) ==
    /\ "adopt" \in budget.ops
    /\ row[i].busy /\ ~Locked(i)
    /\ files[p] # None /\ p \notin CacheRoots
    /\ Archived(i, p, IF \E j \in Job : run[j].pc \in {"file", "remove"} THEN p ELSE None)
    /\ UNCHANGED <<files, job, order, run, removed, budget>>

\* Not between the last check of a file and its removal.
UserEdits(p, c) ==
    /\ Uses("edit")
    /\ files[p] # c /\ (c = None \/ NewIdentity(c))
    /\ \A j \in Job : run[j].pc = "remove" => Target(j) # p
    /\ files' = [files EXCEPT ![p] = c]
    /\ removed' = removed \ {p}
    /\ UNCHANGED <<row, job, order, run>>

\* Jobs and previews are lost; recover_interrupted clears the claims.
Restart ==
    /\ Uses("crash")
    /\ job' = [j \in Job |-> NoJob]
    /\ order' = <<>>
    /\ run' = [j \in Job |-> NoRun]
    /\ row' = [i \in Item |-> [row[i] EXCEPT !.owner = None]]
    /\ removed' = {}
    /\ UNCHANGED files

Preview(j) == PreviewBegins(j) \/ PreviewEnds(j) \/ \E i \in Item : PreviewItem(j, i)
Execute(j) == \E delete, network \in BOOLEAN : Executes(j, delete, network)
Running(j) ==
    \/ \E i \in Item : Claims(j, i)
    \/ Indexes(j) \/ Removes(j) \/ Commits(j) \/ Fails(j) \/ Ends(j)
    \/ \E f \in File : Checks(j, f)
Others ==
    \/ \E i \in budget.items :
          \/ Relabels(i)
          \/ \E p \in budget.paths : Adopts(i, p) \/ \E c \in Fresh : Archives(i, p, c)
    \/ \E p \in budget.paths, c \in Edits : UserEdits(p, c)

Next ==
    \/ \E j \in budget.jobs : Preview(j) \/ Discard(j) \/ Execute(j) \/ Running(j)
    \/ Others
    \/ Restart

Spec == Init /\ [][Next]_vars

-----------------------------------------------------------------------------
(* Properties.                                                             *)

\* The registry never drops a job that is executing, however many previews are
\* opened beside it: its claim always has a job that will release it.
RunningRegistered ==
    /\ \A j \in Job : run[j].pc # "idle" => job[j].state = "running"
    /\ \A i \in Item : row[i].owner # None => run[row[i].owner].item = i

UserStep == \E p \in Path, c \in Edits : UserEdits(p, c)
Removed(p) == files[p] # None /\ files'[p] = None

\* A reset removes what its preview showed and nothing else: neither a file that
\* replaced the previewed one, nor one that was missing at the preview and came
\* back, nor an archive the user chose to keep.
RemovesOnlyPreviewed ==
    [][\A p \in Path : Removed(p) =>
          \/ UserStep
          \/ \E j \in Job, i \in Item, f \in File :
                /\ run[j].item = i /\ row[i].owner = j /\ row[i].at[f] = p
                /\ files[p] = Identity(j, f)
                /\ f \in Destination => Deletes(j) /\ (p \in Network => job[j].network)
      ]_vars

\* A reset never removes a source, nor a file another capture names, even one
\* archived while the reset was running; but for a file that lay there already and
\* that the other capture took over after the references were read.
OthersFilesKept ==
    [][\A p \in Path, j \in Job : Removed(p) /\ Removes(j) =>
          \A i \in Item :
             /\ p # row[i].source
             /\ i # run[j].item =>
                   \A f \in File \ {"thumb"} : row[i].at[f] = p => f = "main" /\ row[i].took = p]_vars

\* An archive a reset removed is never shown as available: the row was reset,
\* or says that it is missing (after a crash the file check says so instead). Only a
\* capture that took the file over while the reset ran still shows it.
ArchiveTruth ==
    \A i \in Item, f \in Destination :
        LET p == row[i].at[f]
        IN  p \in removed /\ files[p] = None /\ ~Locked(i) =>
               f \in row[i].missing \/ (f = "main" /\ row[i].took = p)
=============================================================================

------------------------------ MODULE RenpyBridge ------------------------------
(***************************************************************************)
(* The Ren'Py bridge in one game directory: two projects that may install, *)
(* uninstall and inspect it (renpy_bridge_service), the screenshot policy  *)
(* the bridge reads (renpy_screenshot_settings_service), and the game and  *)
(* the user, who write the same files.                                     *)
(***************************************************************************)
EXTENDS Naturals, FiniteSets

CONSTANTS
    Project, Client, None,
    Everyone,     \* stands for the global setting
    Budgets       \* which commands, edits and failures may happen, and how often

File == {"rpy", "json", "rpyc"}
Manifest == [File -> Nat \cup {None}]   \* the hashes of what an install has written

BridgeAssumption ==
    /\ {None, Everyone} \cap (Project \cup Client \cup BOOLEAN \cup Nat) = {} /\ None # Everyone
    /\ None \notin Manifest
    /\ Budgets \subseteq [ops : SUBSET STRING, left : Nat]

VARIABLES
    disk,    \* the .rpy, the .json and the .rpyc in the game directory
    version, \* of the bundled bridge
    serial,  \* every configuration written is another one
    alive,   \* projects
    choice,  \* whether to hide the interface: for everyone, and what projects override
    row,     \* project_engine_integrations, with the hashes of the manifest
    policy,  \* the file the installed bridges read
    call,    \* commands under way
    locks,   \* who holds BRIDGE_MUTATION_LOCK and POLICY_MUTATION_LOCK
    budget   \* what may still happen

vars == <<disk, version, serial, alive, choice, row, policy, call, locks, budget>>
db   == <<alive, choice, row>>
env  == <<version, serial>>

Theirs == 0  \* of the user; ours are numbered from 1
Ours(bytes) == bytes \notin {None, Theirs}
Absent == [f \in File |-> None]
Idle == [pc |-> "idle"]
NoLocks == [bridge |-> None, policy |-> None]

Uses(op) == op \in budget.ops /\ budget.left > 0 /\ budget' = [budget EXCEPT !.left = @ - 1]
Goes(c, k) == call' = [call EXCEPT ![c] = k]

Init ==
    /\ disk \in {Absent, [Absent EXCEPT !["rpy"] = Theirs]}
    /\ version = 1 /\ serial = 1
    /\ alive = Project /\ choice = [t \in Project \cup {Everyone} |-> IF t = Everyone THEN TRUE ELSE None]
    /\ row = [p \in Project |-> None]
    /\ policy = [p \in Project |-> None]
    /\ call = [c \in Client |-> Idle]
    /\ locks = NoLocks
    /\ budget \in Budgets

\* snapshot: what the installed bridges should do
Resolved(ch, p) == IF ch[p] = None THEN ch[Everyone] ELSE ch[p]
Snapshot(r, ch) == [p \in Project |-> IF r[p] = None THEN None ELSE Resolved(ch, p)]

-----------------------------------------------------------------------------
(* install *)

Begins(c, p) ==
    /\ Uses("install") /\ call[c] = Idle /\ p \in alive /\ locks = NoLocks
    /\ locks' = [bridge |-> c, policy |-> c]
    /\ Goes(c, [pc |-> "check", p |-> p])
    /\ UNCHANGED <<disk, policy>> /\ UNCHANGED db /\ UNCHANGED env

Releases(c) == locks' = [l \in DOMAIN locks |-> IF locks[l] = c THEN None ELSE locks[l]]

Ends(c) == Releases(c) /\ Goes(c, Idle)

\* Wrong on purpose: any file that is recorded may be replaced.
Trusting_IsOurs(f, prev) == disk[f] = None \/ prev # None

\* ensure_target_is_ours
IsOurs(f, prev) == disk[f] = None \/ (prev # None /\ disk[f] = prev[f])

\* The owner, the row and its manifest are read, both targets are verified and
\* their bytes kept. A recorded artifact that is still ours goes with the old
\* source; one that changed stays registered as it was.
Checks(c) ==
    LET p == call[c].p
        prev == row[p]
        same == prev # None /\ prev["rpyc"] # None /\ disk["rpyc"] = prev["rpyc"]
    IN  /\ call[c].pc = "check"
        /\ IF (\E q \in Project \ {p} : row[q] # None)
              \/ ~(IsOurs("rpy", prev) /\ IsOurs("json", prev))
           THEN Ends(c)
           ELSE /\ UNCHANGED locks
                /\ Goes(c, [pc |-> "rpy", p |-> p, new |-> prev = None, stale |-> same,
                            backup |-> disk,
                            row |-> [f \in File |->
                                IF f = "rpy" THEN version
                                ELSE IF f = "json" THEN serial
                                ELSE IF prev = None \/ same \/ disk["rpyc"] = None THEN None
                                ELSE prev["rpyc"]]])
        /\ UNCHANGED <<disk, policy, serial, version, budget>> /\ UNCHANGED db

\* write_atomic for the source and then the configuration
Writes(c, f, next) ==
    /\ call[c].pc = f
    /\ disk' = [disk EXCEPT ![f] = call[c].row[f]]
    /\ serial' = IF f = "json" THEN serial + 1 ELSE serial
    /\ Goes(c, [call[c] EXCEPT !.pc = next])
    /\ UNCHANGED <<policy, locks, version, budget>> /\ UNCHANGED db

\* The row is written in the transaction: an update of a row that is gone changes
\* nothing, an insertion for a project that is gone fails.
Persists(c) ==
    LET p == call[c].p IN
    /\ call[c].pc = "persist"
    /\ Goes(c, [call[c] EXCEPT !.pc = IF call[c].new /\ p \notin alive THEN "undo rpy"
                                      ELSE "stage"])
    /\ UNCHANGED <<disk, policy, locks, budget>> /\ UNCHANGED db /\ UNCHANGED env

After(c) ==
    LET p == call[c].p
    IN  IF call[c].new \/ row[p] # None THEN [row EXCEPT ![p] = call[c].row] ELSE row

\* stage_snapshot: the policy of the open transaction
Stages(c) ==
    /\ call[c].pc = "stage"
    /\ policy' = Snapshot(After(c), choice)
    /\ Goes(c, [pc |-> "commit", p |-> call[c].p, new |-> call[c].new, stale |-> call[c].stale,
                backup |-> call[c].backup, row |-> call[c].row, old |-> policy])
    /\ UNCHANGED <<disk, locks, budget>> /\ UNCHANGED db /\ UNCHANGED env

Commits(c) ==
    /\ call[c].pc = "commit"
    /\ row' = After(c)
    /\ Goes(c, [call[c] EXCEPT !.pc = "compiled"])
    /\ UNCHANGED <<disk, policy, locks, alive, choice, budget>> /\ UNCHANGED env

\* The artifact of the old source goes, unless that fails.
DropsCompiled(c) ==
    /\ call[c].pc = "compiled"
    /\ disk' \in IF call[c].stale THEN {disk, [disk EXCEPT !["rpyc"] = None]} ELSE {disk}
    /\ Ends(c)
    /\ UNCHANGED <<policy, budget>> /\ UNCHANGED db /\ UNCHANGED env

\* Any of these steps may fail: the files are restored one by one, and the policy.
Fails(c) ==
    /\ Uses("fail") /\ call[c].pc \in {"rpy", "json", "persist", "stage", "commit"}
    /\ Goes(c, [call[c] EXCEPT !.pc = "undo rpy"])
    /\ UNCHANGED <<disk, policy, locks>> /\ UNCHANGED db /\ UNCHANGED env

\* Wrong on purpose: only the source is restored.
Half_Undoes(c) ==
    /\ call[c].pc = "undo rpy"
    /\ disk' = [disk EXCEPT !["rpy"] = call[c].backup["rpy"]]
    /\ Goes(c, [call[c] EXCEPT !.pc = "undo policy"])
    /\ UNCHANGED <<policy, locks, budget>> /\ UNCHANGED db /\ UNCHANGED env

\* restore_backups
Undoes(c) ==
    /\ \E f \in {"rpy", "json"} :
          /\ call[c].pc = IF f = "rpy" THEN "undo rpy" ELSE "undo json"
          /\ disk' \in {[disk EXCEPT ![f] = call[c].backup[f]]}
                       \cup IF "writeFails" \in budget.ops THEN {disk} ELSE {}
          /\ Goes(c, [call[c] EXCEPT !.pc = IF f = "rpy" THEN "undo json" ELSE "undo policy"])
    /\ UNCHANGED <<policy, locks, budget>> /\ UNCHANGED db /\ UNCHANGED env

\* restore_snapshot, when the policy was staged
Unstages(c) ==
    /\ call[c].pc = "undo policy"
    /\ policy' \in {IF "old" \in DOMAIN call[c] THEN call[c].old ELSE policy}
                   \cup IF "writeFails" \in budget.ops THEN {policy} ELSE {}
    /\ Ends(c)
    /\ UNCHANGED <<disk, budget>> /\ UNCHANGED db /\ UNCHANGED env

-----------------------------------------------------------------------------
(* uninstall and status *)

\* record_compiled_hash: beside our own source, and with our marker in it
Recorded(r) ==
    IF r["rpyc"] = None /\ disk["rpy"] = r["rpy"] /\ Ours(disk["rpyc"])
    THEN [r EXCEPT !["rpyc"] = disk["rpyc"]] ELSE r

Uninstalls(c, p) ==
    /\ Uses("uninstall") /\ call[c] = Idle /\ locks = NoLocks /\ row[p] # None
    /\ locks' = [bridge |-> c, policy |-> c]
    /\ Goes(c, [pc |-> "record", p |-> p])
    /\ UNCHANGED <<disk, policy>> /\ UNCHANGED db /\ UNCHANGED env

\* The manifest that decides is the one just recorded, whatever becomes of the row.
Records(c) ==
    LET p == call[c].p IN
    /\ call[c].pc = "record"
    /\ IF row[p] = None THEN Ends(c) /\ UNCHANGED row
       ELSE /\ row' = [row EXCEPT ![p] = Recorded(row[p])]
            /\ Goes(c, [pc |-> "remove", p |-> p, row |-> Recorded(row[p]), todo |-> File,
                        kept |-> {}])
            /\ UNCHANGED locks
    /\ UNCHANGED <<disk, policy, alive, choice, budget>> /\ UNCHANGED env

\* remove_verified_files: in the order of the manifest, the artifact last
Removes(c, f) ==
    LET ours == call[c].row[f] # None /\ disk[f] = call[c].row[f] IN
    /\ call[c].pc = "remove" /\ f \in call[c].todo
    /\ f = "json" => "rpy" \notin call[c].todo
    /\ f = "rpyc" => call[c].todo = {"rpyc"}
    /\ disk' = IF ours THEN [disk EXCEPT ![f] = None] ELSE disk
    /\ Goes(c, [call[c] EXCEPT !.todo = @ \ {f},
                               !.kept = IF ours \/ disk[f] = None THEN @ ELSE @ \cup {f}])
    /\ UNCHANGED <<policy, locks, budget>> /\ UNCHANGED db /\ UNCHANGED env

\* A file cannot be read or removed: the row stays for another try.
Stops(c) ==
    /\ Uses("fail") /\ call[c].pc = "remove" /\ call[c].todo # {} /\ Ends(c)
    /\ UNCHANGED <<disk, policy>> /\ UNCHANGED db /\ UNCHANGED env

\* Nothing was kept: the row goes, and the policy is published.
Forgets(c) ==
    /\ call[c].pc = "remove" /\ call[c].todo = {}
    /\ IF call[c].kept = {}
       THEN /\ row' = [row EXCEPT ![call[c].p] = None]
            /\ Goes(c, [call[c] EXCEPT !.pc = "publish"]) /\ UNCHANGED locks
       ELSE UNCHANGED row /\ Ends(c)
    /\ UNCHANGED <<disk, policy, alive, choice, budget>> /\ UNCHANGED env

Publishes(c) ==
    /\ call[c].pc = "publish"
    /\ policy' \in {Snapshot(row, choice)} \cup (IF "writeFails" \in budget.ops THEN {policy} ELSE {})
    /\ Ends(c)
    /\ UNCHANGED <<disk, budget>> /\ UNCHANGED db /\ UNCHANGED env

\* status records artifacts too, under the lock of the bridge alone.
Inspects(p) ==
    /\ locks.bridge = None /\ row[p] # None /\ Recorded(row[p]) # row[p]
    /\ row' = [row EXCEPT ![p] = Recorded(row[p])]
    /\ UNCHANGED <<disk, policy, alive, choice, call, locks, budget>> /\ UNCHANGED env

-----------------------------------------------------------------------------
(* The setting *)

\* apply: the policy of the transaction is in place before the commit.
Chooses(c, t, b) ==
    /\ Uses("choose") /\ call[c] = Idle /\ t \in alive \cup {Everyone} /\ locks.policy = None
    /\ t = Everyone => b # None
    /\ locks' = [locks EXCEPT !.policy = c]
    /\ Goes(c, [pc |-> "save", t |-> t, b |-> b, old |-> policy])
    /\ policy' = Snapshot(row, [choice EXCEPT ![t] = b])
    /\ UNCHANGED disk /\ UNCHANGED db /\ UNCHANGED env

Saves(c) ==
    /\ call[c].pc = "save"
    /\ choice' = [choice EXCEPT ![call[c].t] = call[c].b]
    /\ Ends(c) /\ UNCHANGED <<disk, policy, row, alive, budget>> /\ UNCHANGED env

Unsaves(c) ==
    /\ Uses("fail") /\ call[c].pc = "save"
    /\ Goes(c, [call[c] EXCEPT !.pc = "undo policy"])
    /\ UNCHANGED <<disk, policy, locks>> /\ UNCHANGED db /\ UNCHANGED env

-----------------------------------------------------------------------------
(* Others *)

Writing == \E c \in Client : call[c].pc \in {"stage", "commit", "save"}

\* delete_project: the rows go with it; the write waits for an open transaction.
Deletes(p) ==
    /\ Uses("deleteProject") /\ p \in alive /\ ~Writing
    /\ alive' = alive \ {p} /\ row' = [row EXCEPT ![p] = None]
    /\ UNCHANGED <<disk, policy, choice, call, locks>> /\ UNCHANGED env

\* The game compiles the source it finds.
Compiles ==
    /\ disk["rpy"] # None /\ disk["rpyc"] # disk["rpy"]
    /\ disk' = [disk EXCEPT !["rpyc"] = disk["rpy"]]
    /\ UNCHANGED <<policy, call, locks, budget>> /\ UNCHANGED db /\ UNCHANGED env

\* The user replaces or removes a file while no command looks at it.
Edits(f) ==
    /\ Uses("edit") /\ locks.bridge = None
    /\ \E b \in {Theirs, None} : disk' = [disk EXCEPT ![f] = b]
    /\ UNCHANGED <<policy, call, locks>> /\ UNCHANGED db /\ UNCHANGED env

\* The program ends and starts again, maybe with another bridge, and publishes.
Restarts ==
    /\ \/ Uses("crash") /\ version' = version
       \/ Uses("upgrade") /\ (\A c \in Client : call[c] = Idle) /\ version' = version + 1
    /\ call' = [c \in Client |-> Idle] /\ locks' = NoLocks
    /\ policy' = Snapshot(row, choice)
    /\ UNCHANGED <<disk, serial>> /\ UNCHANGED db

Next ==
    \/ \E c \in Client, p \in Project : Begins(c, p) \/ Uninstalls(c, p)
    \/ \E c \in Client, t \in Project \cup {Everyone}, b \in BOOLEAN \cup {None} : Chooses(c, t, b)
    \/ \E c \in Client :
          \/ Checks(c) \/ Writes(c, "rpy", "json") \/ Writes(c, "json", "persist")
          \/ Persists(c) \/ Stages(c) \/ Commits(c) \/ DropsCompiled(c)
          \/ Fails(c) \/ Undoes(c) \/ Unstages(c)
          \/ Records(c) \/ (\E f \in File : Removes(c, f)) \/ Stops(c) \/ Forgets(c) \/ Publishes(c)
          \/ Saves(c) \/ Unsaves(c)
    \/ \E p \in Project : Inspects(p) \/ Deletes(p)
    \/ \E f \in File : Edits(f)
    \/ Compiles \/ Restarts

Spec == Init /\ [][Next]_vars

-----------------------------------------------------------------------------
(* Properties *)

\* A source and a configuration of ours are those some project has recorded, so
\* it can replace and remove them: every failed command put back what it found. A
\* deleted project and a killed install leave files no project can replace. And
\* while nobody changes the setting or an install, the bridges of the projects that
\* are left are told what is saved.
Orphaned == alive # Project \/ budget.ops \cap {"crash", "writeFails"} # {}
BridgeOwned ==
    /\ locks.bridge = None /\ ~Orphaned =>
          \A f \in {"rpy", "json"} : Ours(disk[f]) =>
              \E p \in Project : row[p] # None /\ row[p][f] = disk[f]
    /\ locks.policy = None /\ "writeFails" \notin budget.ops =>
          \A p \in alive : policy[p] = Snapshot(row, choice)[p]

\* What the user wrote is never replaced or removed by a command, and an
\* uninstalled bridge leaves nothing behind, not even what the game made of it.
UninstallExact ==
    [][/\ \A f \in File : disk[f] = Theirs /\ disk'[f] # Theirs =>
             \/ budget' # budget /\ locks.bridge = None
             \/ f = "rpyc" /\ disk'[f] = disk["rpy"]
       /\ \A c \in Client : Forgets(c) /\ row' # row => disk = Absent]_vars
================================================================================

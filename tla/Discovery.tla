------------------------------- MODULE Discovery -------------------------------
(***************************************************************************)
(* How screenshots become capture_items: the poll of the source            *)
(* directories, the file check of a session, the import dialog and         *)
(* register_capture, beside a game that writes files, a worker that        *)
(* validates sources, a user who deletes captures, and sessions that start *)
(* and end.                                                                *)
(*                                                                         *)
(* One project; every path lies in a source directory of its own.  A       *)
(* content stands for its hash: rows are indexed by it, which is the       *)
(* unique index idx_capture_items_project_hash.                            *)
(***************************************************************************)
EXTENDS Naturals, FiniteSets

CONSTANTS
    Path, Whole,  \* files, and contents of complete images
    Half,         \* contents of an image still being written, by size
    None,
    Dirs,         \* project_source_directories to begin with
    Pass,         \* discover calls and imports that may run at a time
    Budgets,      \* what may happen to files and rows, and how often
    MaxNow,       \* the clock
    Rounding,     \* by how much a file system rounds a modification time down
    Tolerance     \* BACKFILL_MTIME_TOLERANCE

Content == Whole \cup Half
File == [c : Content, s : 0 .. MaxNow, b : 0 .. MaxNow]
Stat == ({0} \cup Half) \X (0 .. MaxNow)

ASSUME DiscoveryAssumption ==
    /\ None \notin Content \cup Path \cup File \cup Stat
    /\ Half \subseteq Nat \ {0} /\ Whole \cap Half = {}
    /\ Dirs \subseteq [Path -> {"on", "off", "none"}]
    /\ {MaxNow, Rounding, Tolerance} \subseteq Nat /\ MaxNow > 0
    /\ Budgets \subseteq [ops : SUBSET STRING, left : Nat]

VARIABLES
    disk,     \* disk[p]: the file there; b is when it was really written
    rows,     \* capture_items of the project by content
    births,   \* rows ever created for a content: their identities
    ignored,  \* ignored_capture_contents
    dirs,     \* project_source_directories
    sess,     \* the latest capture session, its directories and its baseline;
              \* was is a history of the files a directory was attached with
              \* and nobody has imported since
    pass,     \* the discover calls and imports under way
    worker,   \* one validate_source_identity under way
    start,    \* the baselines start_session has taken
    now, budget

vars == <<disk, rows, births, ignored, dirs, sess, pass, worker, start, now, budget>>

Row == [n : Nat, path : Path, stat : Stat, archived : BOOLEAN, deferred : BOOLEAN,
        state : {"available", "missing", "replaced"}]
Idle == [pc |-> "idle"]

StatOf(f) == <<IF f.c \in Half THEN f.c ELSE 0, f.s>>
Present(p) == disk[p] # None
At(table, p) == {c \in Content : table[c] # None /\ table[c].path = p}
Watched == {p \in Path : sess.watch[p]}
Snapshot == [p \in Path |-> IF Present(p) THEN StatOf(disk[p]) ELSE None]
\* Rows in status processing; a source is validated before an archive and before
\* a suggestion as well, in other states.
Busy == IF worker = None \/ ~worker.processing THEN {} ELSE {worker.c}

Init ==
    /\ disk \in [Path -> {None} \cup {[c |-> c, s |-> 0, b |-> 0] : c \in Whole}]
    /\ rows = [c \in Content |-> None]
    /\ births = [c \in Content |-> 0]
    /\ ignored = {}
    /\ dirs \in Dirs
    /\ sess = [n |-> 0, active |-> FALSE, at |-> 0, watch |-> [p \in Path |-> FALSE],
               base |-> [p \in Path |-> None], was |-> [p \in Path |-> None]]
    /\ pass = [a \in Pass |-> Idle]
    /\ worker = None /\ start = None
    /\ now = 1 /\ budget \in Budgets

Uses(op) == op \in budget.ops /\ budget.left > 0 /\ budget' = [budget EXCEPT !.left = @ - 1]

\* quiet is a history of a file check: nothing but the pass itself has changed files or rows.
Loud == pass' = [a \in Pass |->
                    IF pass[a] = Idle THEN Idle ELSE [pass[a] EXCEPT !.quiet = FALSE]]

-----------------------------------------------------------------------------
(* Files *)

\* A file system may round the time of a file down.
Stamps == IF "round" \in budget.ops THEN {t \in 0 .. now : t + Rounding >= now} ELSE {now}
Written(c) == {[c |-> c, s |-> s, b |-> now] : s \in Stamps}
\* What a writer starts with: an image is complete at once, or it grows.
Started == IF "grow" \in budget.ops THEN Content ELSE Whole
Puts(p, files) == \E f \in files : disk' = [disk EXCEPT ![p] = f]
FileStep == Loud /\ UNCHANGED <<rows, births, ignored, dirs, sess, worker, start, now>>

Creates(p) ==
    /\ Uses("create") /\ ~Present(p)
    /\ \E c \in Started : Puts(p, Written(c))
    /\ FileStep

Rewrites(p) ==
    /\ Uses("rewrite") /\ Present(p) /\ disk[p].c \in Whole
    /\ \E c \in Started \ {disk[p].c} : Puts(p, Written(c))
    /\ FileStep

\* A copy keeps the modification time of its original.
Copies(p) ==
    /\ Uses("copy") /\ ~Present(p)
    /\ \E c \in Whole : Puts(p, {[c |-> c, s |-> 0, b |-> 0]})
    /\ FileStep

\* A file being written goes on until it is complete.
Grows(p) ==
    /\ Present(p) /\ disk[p].c \in Half
    /\ \E c \in Whole \cup {k \in Half : k > disk[p].c} : Puts(p, Written(c))
    /\ FileStep
    /\ UNCHANGED budget

Removes(p) ==
    /\ Uses("remove") /\ Present(p)
    /\ disk' = [disk EXCEPT ![p] = None]
    /\ FileStep

Ticks ==
    /\ "tick" \in budget.ops /\ now < MaxNow /\ now' = now + 1
    /\ UNCHANGED <<disk, rows, births, ignored, dirs, sess, pass, worker, start, budget>>

-----------------------------------------------------------------------------
(* Sessions and directories *)

\* start_session looks at the enabled directories first. The first session is
\* not counted.
TakesBaseline ==
    /\ (sess.n = 0 /\ UNCHANGED budget) \/ Uses("start")
    /\ start = None
    /\ \E p \in Path : dirs[p] = "on"
    /\ start' = [base |-> [p \in Path |-> IF dirs[p] = "on" THEN Snapshot[p] ELSE None],
                 watch |-> [p \in Path |-> dirs[p] = "on"]]
    /\ UNCHANGED <<disk, rows, births, ignored, dirs, sess, pass, worker, now>>

\* Its transaction ends any other active session.
StartsSession ==
    /\ start # None /\ start' = None
    /\ sess' = [n |-> sess.n + 1, active |-> TRUE, at |-> now,
                watch |-> start.watch, base |-> start.base, was |-> start.base]
    /\ UNCHANGED <<disk, rows, births, ignored, dirs, pass, worker, now, budget>>

EndsSession ==
    /\ Uses("end") /\ sess.active
    /\ sess' = [sess EXCEPT !.active = FALSE]
    /\ UNCHANGED <<disk, rows, births, ignored, dirs, pass, worker, start, now>>

\* add_source_directory; the interface refuses set_source_directory_enabled
\* and remove_source_directory while a session runs.
AddsDirectory(p) ==
    /\ Uses("directory") /\ dirs[p] = "none"
    /\ dirs' = [dirs EXCEPT ![p] = "on"]
    /\ UNCHANGED <<disk, rows, births, ignored, sess, pass, worker, start, now>>

-----------------------------------------------------------------------------
(* Rows, by others *)

\* Deleting a capture and ignoring its content are one transaction.
Deletes(c) ==
    /\ Uses("delete") /\ rows[c] # None /\ (worker # None => worker.c # c)
    /\ rows' = [rows EXCEPT ![c] = None]
    /\ ignored' = ignored \cup {c}
    /\ Loud
    /\ UNCHANGED <<disk, births, dirs, sess, worker, start, now>>

Archives(c) ==
    /\ Uses("archive") /\ rows[c] # None /\ ~rows[c].archived
    /\ rows' = [rows EXCEPT ![c].archived = TRUE]
    /\ Loud
    /\ UNCHANGED <<disk, births, ignored, dirs, sess, worker, start, now>>

\* The sweep of the worker removes what was never archived and has no source.
Sweeps(c) ==
    /\ rows[c] # None /\ ~rows[c].archived /\ c \notin Busy /\ ~Present(rows[c].path)
    /\ rows' = [rows EXCEPT ![c] = None]
    /\ Loud
    /\ UNCHANGED <<disk, births, ignored, dirs, sess, worker, start, now, budget>>

\* validate_source_identity reads and hashes the file of a claimed row ...
Validates(c) ==
    /\ Uses("validate") /\ worker = None /\ rows[c] # None
    /\ \E processing \in BOOLEAN :
          worker' = [c |-> c, n |-> rows[c].n, found |-> disk[rows[c].path],
                     processing |-> processing]
    /\ UNCHANGED <<disk, rows, births, ignored, dirs, sess, pass, start, now>>

Verdict(found, c) ==
    IF found = None THEN "missing" ELSE IF found.c = c THEN "available" ELSE "replaced"

\* ... and records what it found, whatever happened meanwhile.
Records ==
    LET c == worker.c
        verdict == Verdict(worker.found, c)
    IN  /\ worker # None /\ worker' = None
        /\ rows' = IF rows[c] = None \/ rows[c].n # worker.n THEN rows
                   ELSE IF verdict = "missing" /\ ~rows[c].archived
                   THEN [rows EXCEPT ![c] = None]
                   ELSE [rows EXCEPT ![c].state = verdict, ![c].stat =
                            IF verdict = "available" THEN StatOf(worker.found) ELSE @]
        /\ Loud
        /\ UNCHANGED <<disk, births, ignored, dirs, sess, start, now, budget>>

-----------------------------------------------------------------------------
(* discover_with_options, import_directory_captures and register_capture *)

Active(a) == sess.active /\ sess.n = pass[a].sess
Moves(a, changes) == pass' = [pass EXCEPT ![a] = changes]
Stops(a) == Moves(a, Idle)
Tells(a, changes) ==
    pass' = [b \in Pass |-> IF b = a THEN changes ELSE IF pass[b] = Idle THEN Idle
                            ELSE [pass[b] EXCEPT !.quiet = FALSE]]
PassStep == UNCHANGED <<disk, births, ignored, dirs, worker, start, now, budget>>

New(mode) == [pc |-> "scan", mode |-> mode, sess |-> sess.n, cand |-> [p \in Path |-> None],
              known |-> rows, watch |-> sess.watch, todo |-> {}, p |-> None, deferred |-> FALSE,
              read |-> None, quiet |-> mode = "check", ign |-> ignored, busy |-> Busy]

\* sync_session_source_directories: a directory of the project that the session
\* does not watch yet is attached with a baseline of its own.
Attached ==
    LET new == {p \in Path : dirs[p] # "none" /\ ~sess.watch[p]}
    IN  [sess EXCEPT !.watch = [p \in Path |-> @[p] \/ p \in new],
                     !.base = [p \in Path |-> IF p \in new THEN Snapshot[p] ELSE @[p]]]

\* The poll, a file check and an import know nothing of each other.
Callable(a) ==
    /\ pass[a] = Idle
    /\ "overlap" \in budget.ops \/ \A b \in Pass : pass[b] = Idle

\* poll_active_sessions_once
Polls(a) ==
    /\ Callable(a) /\ sess.active
    /\ sess' = [Attached EXCEPT !.was = [p \in Path |->
                   IF dirs[p] # "none" /\ ~sess.watch[p] THEN Snapshot[p] ELSE @[p]]]
    /\ Moves(a, New("poll"))
    /\ PassStep /\ UNCHANGED rows

Checks(a) ==
    /\ "check" \in budget.ops /\ Callable(a) /\ sess.active
    /\ Moves(a, New("check"))
    /\ PassStep /\ UNCHANGED <<rows, sess>>

\* Neither an import nor register_capture scans; an import does not wait either.
Imports(a, p) ==
    /\ "import" \in budget.ops /\ Callable(a) /\ sess.active /\ p \in Watched /\ Present(p)
    /\ Moves(a, [New("import") EXCEPT !.pc = "read", !.p = p, !.deferred = TRUE])
    /\ PassStep /\ UNCHANGED <<rows, sess>>

\* matches_discovery_baseline: a row of the baseline holds a path, a size and a
\* time. Another session has a baseline of its own.
InBaseline(n, p, f) == n = sess.n /\ sess.base[p] = StatOf(f)

StartsRegister(a, p) ==
    /\ "register" \in budget.ops /\ Callable(a) /\ sess.active /\ p \in Watched /\ Present(p)
    /\ ~InBaseline(sess.n, p, disk[p])
    /\ Moves(a, [New("register") EXCEPT !.pc = "wait", !.todo = {p},
                                        !.cand[p] = disk[p]])
    /\ PassStep /\ UNCHANGED <<rows, sess>>

\* A known file with the recorded size and time is not read, unless forced.
Unchanged(p) == \E c \in At(rows, p) :
                    rows[c].stat = StatOf(disk[p]) /\ rows[c].state = "available"

Scans(a) ==
    /\ pass[a] # Idle /\ pass[a].pc = "scan"
    /\ LET todo == {p \in Watched : Present(p) /\ (pass[a].mode = "check" \/ ~Unchanged(p))}
       IN  IF ~Active(a) THEN Stops(a)
           ELSE Moves(a, [pass[a] EXCEPT !.pc = "wait", !.known = rows, !.watch = sess.watch,
                    !.todo = todo, !.quiet = pass[a].mode = "check", !.ign = ignored, !.busy = Busy,
                    !.cand = [p \in Path |-> IF p \in todo THEN disk[p] ELSE None]])
    /\ PassStep /\ UNCHANGED <<rows, sess>>

\* ASSUMED: during the stability delay a writer gets on, so a file found half
\* written is another file afterwards. The code takes one whose writer stalls for
\* the whole delay (250 ms unless set otherwise, at most 2 s) for complete.
Waits(a) ==
    /\ pass[a] # Idle /\ pass[a].pc = "wait"
    /\ \A p \in pass[a].todo : pass[a].cand[p].c \in Half => disk[p] # pass[a].cand[p]
    /\ IF Active(a) THEN Moves(a, [pass[a] EXCEPT !.pc = "next"]) ELSE Stops(a)
    /\ PassStep /\ UNCHANGED <<rows, sess>>

\* Wrong on purpose: only the size and time of the scan are trusted.
Trusting_Stable(a, p) == Present(p)

\* The second sample. register_capture compares sizes and times only, which
\* tells a file being written as well.
Stable(a, p) ==
    /\ Present(p) /\ StatOf(disk[p]) = StatOf(pass[a].cand[p])
    /\ pass[a].mode # "register" => disk[p].c = pass[a].cand[p].c

Resamples(a, p) ==
    /\ pass[a] # Idle /\ pass[a].pc = "next" /\ p \in pass[a].todo
    /\ Moves(a,
         IF ~Stable(a, p) THEN [pass[a] EXCEPT !.todo = @ \ {p}]
         ELSE [pass[a] EXCEPT !.todo = @ \ {p}, !.p = p, !.cand[p] = disk[p],
                              !.pc = IF @ = "next" /\ pass[a].mode = "register"
                                     THEN "read" ELSE "decide"])
    /\ PassStep /\ UNCHANGED <<rows, sess>>

\* Wrong on purpose: no allowance for rounded modification times.
Strict_Backfill(f) == f.s < sess.at

\* Written before the session began: it waits for the user.
Backfill(f) == f.s + Tolerance < sess.at

\* Wrong on purpose: older generations keep their state.
Kept_Retired(table, p, keep) == table

\* Every other generation at a path is marked replaced.
Retired(table, p, keep) ==
    [c \in Content |-> IF c \in At(table, p) \ {keep}
                       THEN [table[c] EXCEPT !.state = "replaced"] ELSE table[c]]

\* A file nobody knows: not if ignored or part of the baseline.
Decides(a) ==
    LET p == pass[a].p
        f == pass[a].cand[p]
        wanted == f.c \notin ignored /\ ~InBaseline(pass[a].sess, p, f)
    IN  /\ pass[a] # Idle /\ pass[a].pc = "decide" /\ At(pass[a].known, p) = {}
        /\ Moves(a, [pass[a] EXCEPT !.pc = IF wanted THEN "read" ELSE "next",
                                    !.deferred = Backfill(f)])
        /\ PassStep /\ UNCHANGED <<rows, sess>>

\* The file still is, or again is, the one a known row was made from.
Refreshes(a) ==
    LET p == pass[a].p
        f == pass[a].cand[p]
        old == pass[a].known[f.c]
        same == rows[f.c] # None /\ rows[f.c].n = old.n
        fresh == IF same THEN [rows EXCEPT ![f.c].stat = StatOf(f), ![f.c].state = "available"]
                 ELSE rows
    IN  /\ pass[a] # Idle /\ pass[a].pc = "decide" /\ f.c \in At(pass[a].known, p)
        /\ rows' = Retired(fresh, p, f.c)
        /\ Tells(a, [pass[a] EXCEPT !.pc = "next"])
        /\ PassStep /\ UNCHANGED sess

\* The path holds another content: every generation is replaced, and the new
\* one is registered unless a row was being processed when the scan was made.
Replaces(a) ==
    LET p == pass[a].p
        f == pass[a].cand[p]
        gens == At(pass[a].known, p)
    IN  /\ pass[a] # Idle /\ pass[a].pc = "decide" /\ gens # {} /\ f.c \notin gens
        /\ rows' = Retired(rows, p, None)
        /\ Tells(a, [pass[a] EXCEPT
                       !.pc = IF f.c \in ignored \/ gens \cap pass[a].busy # {} THEN "next" ELSE "read",
                       !.deferred = Backfill(f)])
        /\ PassStep /\ UNCHANGED sess

\* Wrong on purpose: the content read may be an ignored one.
Unguarded_Reads(a) ==
    LET f == disk[pass[a].p]
    IN  /\ pass[a] # Idle /\ pass[a].pc = "read"
        /\ IF ~Active(a) \/ f = None THEN Stops(a)
           ELSE Moves(a, [pass[a] EXCEPT !.pc = "insert", !.read = f])
        /\ PassStep /\ UNCHANGED <<rows, sess>>

\* register_eligible_path reads the file once more; an ignored content is
\* skipped by an import and an error for the others, like a file that is gone.
Reads(a) ==
    LET f == disk[pass[a].p]
    IN  /\ pass[a] # Idle /\ pass[a].pc = "read"
        /\ IF ~Active(a) \/ f = None \/ f.c \in ignored THEN Stops(a)
           ELSE Moves(a, [pass[a] EXCEPT !.pc = "insert", !.read = f])
        /\ PassStep /\ UNCHANGED <<rows, sess>>

Registered(a) ==
    LET f == pass[a].read
    IN  Retired([rows EXCEPT ![f.c] =
                    [n |-> births[f.c] + 1, path |-> pass[a].p, stat |-> StatOf(f),
                     archived |-> FALSE, state |-> "available", deferred |-> pass[a].deferred]],
                pass[a].p, f.c)

\* An imported file leaves the baseline.
Inserted(a) ==
    /\ sess' = IF pass[a].mode = "import" /\ pass[a].sess = sess.n
               THEN [sess EXCEPT !.base[pass[a].p] = None, !.was[pass[a].p] = None] ELSE sess
    /\ IF pass[a].mode \in {"poll", "check"}
       THEN Tells(a, [pass[a] EXCEPT !.pc = "next", !.read = None]) ELSE Tells(a, Idle)
InsertStep == UNCHANGED <<disk, ignored, dirs, worker, start, now, budget>>

\* Wrong on purpose: the INSERT does not look at the session.
Unguarded_Inserts(a) ==
    LET c == pass[a].read.c
    IN  /\ pass[a] # Idle /\ pass[a].pc = "insert"
        /\ rows' = IF rows[c] # None THEN rows ELSE Registered(a)
        /\ births' = IF rows[c] # None THEN births ELSE [births EXCEPT ![c] = @ + 1]
        /\ Inserted(a)
        /\ InsertStep

\* A content of the project has one row: another file with it registers nothing.
\* The INSERT itself requires the session to be active.
Inserts(a) ==
    LET c == pass[a].read.c
    IN  /\ pass[a] # Idle /\ pass[a].pc = "insert"
        /\ \/ /\ rows[c] # None
              /\ UNCHANGED <<rows, births>>
              /\ Inserted(a)
           \/ /\ rows[c] = None /\ Active(a)
              /\ rows' = Registered(a)
              /\ births' = [births EXCEPT ![c] = @ + 1]
              /\ Inserted(a)
           \/ /\ rows[c] = None /\ ~Active(a)
              /\ Stops(a)
              /\ UNCHANGED <<rows, births, sess>>
        /\ InsertStep

\* At the end, archived rows of the scanned directories whose file is gone are
\* marked missing, as the scan knew them.
Closes(a) ==
    LET gone == {c \in Content :
                   LET old == pass[a].known[c]
                   IN  /\ old # None /\ rows[c] # None /\ old.n = rows[c].n
                       /\ old.archived /\ old.state = "available"
                       /\ pass[a].watch[old.path] /\ ~Present(old.path)}
    IN  /\ pass[a] # Idle /\ pass[a].pc = "next" /\ pass[a].todo = {}
        /\ rows' = [c \in Content |-> IF c \in gone /\ pass[a].mode # "register"
                                      THEN [rows[c] EXCEPT !.state = "missing"] ELSE rows[c]]
        /\ Tells(a, Idle)
        /\ PassStep /\ UNCHANGED sess

Poll(a) ==
    \/ Polls(a) \/ Scans(a) \/ Waits(a) \/ Decides(a) \/ Refreshes(a) \/ Replaces(a)
    \/ Reads(a) \/ Inserts(a) \/ Closes(a) \/ \E p \in Path : Resamples(a, p)

Next ==
    \/ \E p \in Path : Creates(p) \/ Rewrites(p) \/ Copies(p) \/ Grows(p) \/ Removes(p)
                      \/ AddsDirectory(p)
    \/ Ticks \/ TakesBaseline \/ StartsSession \/ EndsSession
    \/ \E c \in Content : Deletes(c) \/ Archives(c) \/ Sweeps(c) \/ Validates(c)
    \/ Records
    \/ \E a \in Pass : Poll(a) \/ Checks(a)
                      \/ \E p \in Path : Imports(a, p) \/ StartsRegister(a, p)

Spec == Init /\ [][Next]_vars

-----------------------------------------------------------------------------
\* Whether a pass creates a row in this step, and which
Creating(a, c) == /\ pass[a] # Idle /\ pass[a].pc = "insert" /\ pass'[a].pc # "insert"
                  /\ rows[c] = None /\ rows'[c] # None
Discovering(a) == pass[a].mode \in {"poll", "check"}

\* Ending a session, or starting the next one, stops what still runs for it: no
\* row is created for it afterwards, however far a call had got (comment at
\* capture_discovery_service.rs:275).
CreatesActive == \A a \in Pass, c \in Content : Creating(a, c) => Active(a)
NoneAfterEnd == [][CreatesActive]_vars

\* A content the user removed before a call looked for files is not registered
\* again by that call, even if the file appears under another name meanwhile.
CreatesWanted == \A a \in Pass, c \in Content : Creating(a, c) => c \notin pass[a].ign
RemovedBefore == [][CreatesWanted]_vars

\* "so a half-written screenshot is never indexed" (capture_discovery_service.rs:199)
WholeOnly == \A c \in Half : rows[c] = None

\* A screenshot taken during the session is processed without the user asking,
\* whatever the file system made of its time; one written before waits. Of a file
\* that is replaced between the second sample and the last read the former was weighed.
DefersOld ==
    \A a \in Pass, c \in Content :
      Creating(a, c) /\ Discovering(a) /\ pass[a].read = pass[a].cand[pass[a].p] =>
        /\ pass[a].read.b >= sess.at => ~rows'[c].deferred
        /\ pass[a].read.s + Tolerance < sess.at => rows'[c].deferred

\* Files a session found when it began, or when their directory was attached, are
\* registered by nothing but an import, as long as nobody touches them.
CreatesNew ==
    \A a \in Pass, c \in Content :
        {"rewrite", "remove"} \cap budget.ops = {} /\ Creating(a, c) /\ Discovering(a)
        /\ At(pass[a].known, pass[a].p) = {}
            => sess.was[pass[a].p] # StatOf(pass[a].read)
\* Together: what is older than the session is left alone until the user asks.
OldWaits == [][CreatesNew /\ DefersOld]_vars

\* A file check that nobody disturbed leaves the truth: in a watched directory
\* exactly the rows whose content lies at their path are available.
ChecksTruly ==
    \A a \in Pass :
        pass[a] # Idle /\ pass'[a] = Idle /\ pass[a].pc = "next" /\ pass[a].mode = "check"
        /\ pass[a].quiet
            => \A c \in Content :
                  rows'[c] # None /\ pass[a].watch[rows'[c].path]
                  /\ (rows'[c].archived \/ Present(rows'[c].path))
                  => (rows'[c].state = "available"
                          <=> Present(rows'[c].path) /\ disk[rows'[c].path].c = c)
CheckTells == [][ChecksTruly]_vars
================================================================================

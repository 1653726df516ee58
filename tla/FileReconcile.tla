----------------------------- MODULE FileReconcile -----------------------------
(***************************************************************************)
(* The file checks of a project and of a session (project_file_reconcile_  *)
(* service, the targets part of reconcile_files, file_relink): every row is *)
(* compared with the files, a missing source or target is bound to the only *)
(* file that can be it, and the verdicts are stored under the condition     *)
(* that the row still names what was looked at.                             *)
(*                                                                          *)
(* A file operation is a step, so files move, shares go away and captures   *)
(* are archived again in the middle of a check.  The registration of new    *)
(* files that a session check begins with is in Discovery, the steps of an  *)
(* archive are in ArchivePromotion.                                         *)
(***************************************************************************)
EXTENDS Naturals, FiniteSets

CONSTANTS
    Captures, Paths, Root, None, Other,
    RootOf,    \* the directory a path is in
    NameOf,    \* of a source: its file name
    TokenOf,   \* of a target: the capture and the output its name tells of
    ByteCopy,  \* targets in BYTE_COPY_DIRECTORIES
    Homes,     \* directories of Root a project may archive to
    Budgets    \* what may happen, how often, with which captures, paths, checks and
               \* destinations, and whether there are archives without a fingerprint

Output == {"main", "avatar"}
SourceRoots == Root \ Homes

ASSUME ReconcileAssumption ==
    /\ None \notin Captures \cup Paths \cup (Captures \X Nat) /\ Other \notin Captures
    /\ RootOf \in [Paths -> Root] /\ Homes \subseteq Root
    /\ TokenOf \in [{p \in Paths : RootOf[p] \in Homes} -> Captures \X Output]
    /\ DOMAIN NameOf = {p \in Paths : RootOf[p] \notin Homes}
    /\ ByteCopy \subseteq DOMAIN TokenOf
    /\ Budgets \subseteq [ops : SUBSET STRING, left : Nat, items : SUBSET Captures,
                           paths : SUBSET Paths, checks : Nat, homes : SUBSET Homes,
                           legacy : SUBSET BOOLEAN]

VARIABLES
    file,    \* what is on the disks
    up,      \* directories that answer
    project, \* its destination and the source directories that are enabled;
             \* history: what was the destination, what was disabled
    row,     \* capture_items
    prints,  \* capture_archive_fingerprints
    asset,   \* the path of the asset of a capture
    taken,   \* paths of assets of others
    chk,     \* the file checks
    held,    \* history: which content was ever at which path
    gone,    \* history: paths where there was no file
    budget   \* calls and faults left

vars == <<file, up, project, row, prints, asset, taken, chk, held, gone, budget>>
disks == <<file, up, held, gone>>
tables == <<project, row, prints, asset, taken>>

Item == budget.items
Path == budget.paths
Check == 1 .. budget.checks
Sources == {p \in Path : RootOf[p] \notin Homes}
Targets == Path \ Sources

\* The content of a source is its capture; an archive is made for a generation
\* of it, and a byte copy is the same in all.
Made(i, p, gen) == IF p \in ByteCopy THEN i ELSE <<i, gen>>
Outputs(i, gen) == {i, <<i, gen>>}
Row == [src : Sources, state : {"available", "missing", "replaced"}, busy : BOOLEAN,
        target : [Output -> Path \cup {None}],
        found : [Output -> {"none", "available", "missing", "unavailable"}],
        gen : Nat,         \* archived_at
        last : Nat,       \* history: the number of archives
        legacy : BOOLEAN]
Idle == [pc |-> "idle"]

Archived(i) == row[i].target["main"] # None
NoTarget == [k \in Output |-> None]
Of(i, k) == {p \in Targets : TokenOf[p] = <<i, k>>}

\* Every capture has its source; it may be archived, with or without an avatar.
Init ==
    /\ budget \in Budgets
    /\ \E r \in budget.homes :
          project = [dest |-> r, dests |-> {r}, enabled |-> SourceRoots, disabled |-> {}]
    /\ \E src \in [Item -> Sources], target \in [Item -> [Output -> Targets \cup {None}]],
          legacy \in [Item -> budget.legacy], n \in [Item -> {0, 1}] :
          /\ \A i, j \in Item : src[i] = src[j] => i = j
          /\ \A i \in Item : \A k \in Output :
                target[i][k] # None => /\ target[i][k] \in Of(i, k) /\ target[i]["main"] # None
                                       /\ RootOf[target[i][k]] = project.dest
          /\ \A i \in Item : n[i] = 0 <=> target[i]["main"] = None
          /\ file = [p \in Path |->
                IF \E i \in Item : src[i] = p THEN CHOOSE i \in Item : src[i] = p
                ELSE IF \E i \in Item, k \in Output : target[i][k] = p
                THEN Made(TokenOf[p][1], p, 1) ELSE None]
          /\ row = [i \in Item |-> [src |-> src[i], state |-> "available", busy |-> FALSE,
                target |-> target[i], gen |-> n[i], last |-> n[i], legacy |-> legacy[i] /\ n[i] = 1,
                found |-> [k \in Output |-> IF target[i][k] = None THEN "none" ELSE "available"]]]
          /\ prints = [i \in Item |-> [p \in Targets |->
                IF ~legacy[i] /\ \E k \in Output : target[i][k] = p THEN Made(i, p, 1) ELSE None]]
          /\ asset = [i \in Item |-> target[i]["main"]]
    /\ up = Root /\ taken = {}
    /\ chk = [c \in Check |-> Idle]
    /\ held = {<<p, file[p]>> : p \in Path} /\ gone = {p \in Path : file[p] = None}

Uses(op) == op \in budget.ops /\ budget.left > 0 /\ budget' = [budget EXCEPT !.left = @ - 1]

-----------------------------------------------------------------------------
(* Files and shares *)

Disk(f) ==
    /\ file' = f
    /\ held' = held \cup {<<p, f[p]>> : p \in Path}
    /\ gone' = gone \cup {p \in Path : f[p] = None}

Moves(p, q) ==
    /\ Uses("move") /\ {RootOf[p], RootOf[q]} \subseteq up
    /\ file[p] # None /\ file[q] = None /\ (p \in Sources <=> q \in Sources)
    /\ Disk([file EXCEPT ![q] = file[p], ![p] = None])
    /\ UNCHANGED <<up, tables, chk>>

Removes(p) ==
    /\ Uses("remove") /\ RootOf[p] \in up /\ file[p] # None
    /\ Disk([file EXCEPT ![p] = None])
    /\ UNCHANGED <<up, tables, chk>>

\* Another file takes the name.
Replaces(p) ==
    /\ Uses("replace") /\ RootOf[p] \in up /\ file[p] # Other
    /\ Disk([file EXCEPT ![p] = Other])
    /\ UNCHANGED <<up, tables, chk>>

\* A directory goes offline: for as long as checks take, or for a moment.
Downs(r) ==
    /\ r \in up
    /\ Uses("flap") \/ (Uses("down") /\ \A c \in Check : chk[c] = Idle)
    /\ up' = up \ {r}
    /\ UNCHANGED <<file, held, gone, tables, chk>>

Ups(r) ==
    /\ r \notin up
    /\ "flap" \in budget.ops \/ \A c \in Check : chk[c] = Idle
    /\ up' = up \cup {r}
    /\ UNCHANGED <<file, held, gone, tables, chk, budget>>

-----------------------------------------------------------------------------
(* The other commands *)

\* set_source_directory_enabled
Enables(r) ==
    /\ Uses("disable") /\ r \in SourceRoots
    /\ project' = [project EXCEPT
          !.enabled = IF r \in @ THEN @ \ {r} ELSE @ \cup {r}, !.disabled = @ \cup {r}]
    /\ UNCHANGED <<disks, row, prints, asset, taken, chk>>

\* set_destination_directory: what is archived stays where it is.
Redirects(r) ==
    /\ Uses("redirect") /\ r \in budget.homes \ {project.dest}
    /\ project' = [project EXCEPT !.dest = r, !.dests = @ \cup {r}]
    /\ UNCHANGED <<disks, row, prints, asset, taken, chk>>

\* A corrected label, or processing again: the item is queued.
Queues(i) ==
    /\ Uses("archive") /\ ~row[i].busy
    /\ row' = [row EXCEPT ![i].busy = TRUE]
    /\ UNCHANGED <<disks, project, prints, asset, taken, chk>>

\* persist_completed_archive, in the destination that was read when it began. The
\* old target goes when it is still what was archived; its fingerprint stays.
Archives(i) ==
    /\ row[i].busy
    /\ \E r \in project.dests \cap up :
       \E p \in {d \in Of(i, "main") : RootOf[d] = r},
          q \in {d \in Of(i, "avatar") : RootOf[d] = r} \cup {None} :
         LET gen == row[i].last + 1
             new == {p, q} \ {None}
             old == {row[i].target[k] : k \in Output} \ (new \cup {None})
             \* can_retire_previous_archive
             retired == {d \in old : RootOf[d] \in up /\ file[d] # None /\ file[d] = prints[i][d]}
         IN /\ "rename" \in budget.ops \/ \A d \in new, e \in Targets :
                  TokenOf[d] = TokenOf[e] /\ prints[i][e] # None => e = d
            /\ \A d \in new : file[d] = None \/ file[d] = prints[i][d]
            /\ Disk([d \in Path |-> IF d \in new THEN Made(i, d, gen)
                                    ELSE IF d \in retired THEN None ELSE file[d]])
            /\ prints' = [prints EXCEPT ![i] =
                  [d \in Targets |-> IF d \in new THEN Made(i, d, gen) ELSE @[d]]]
            /\ row' = [row EXCEPT ![i].busy = FALSE, ![i].gen = gen, ![i].last = gen,
                  ![i].legacy = FALSE,
                  ![i].target = [k \in Output |-> IF k = "main" THEN p ELSE q],
                  ![i].found = [k \in Output |->
                      IF k = "avatar" /\ q = None THEN "none" ELSE "available"]]
            /\ asset' = [asset EXCEPT ![i] = p]
    /\ UNCHANGED <<up, project, taken, chk, budget>>

\* A reset removes the targets that are what was archived, and everything about them.
Resets(i) ==
    /\ Uses("reset") /\ ~row[i].busy /\ Archived(i)
    /\ \A k \in Output : row[i].target[k] # None => RootOf[row[i].target[k]] \in up
    /\ Disk([p \in Path |-> IF /\ \E k \in Output : row[i].target[k] = p
                               /\ file[p] # None /\ file[p] = prints[i][p]
                            THEN None ELSE file[p]])
    /\ row' = [row EXCEPT ![i].target = NoTarget, ![i].legacy = FALSE, ![i].gen = 0,
                          ![i].found = [k \in Output |-> "none"]]
    /\ prints' = [prints EXCEPT ![i] = [p \in Targets |-> None]]
    /\ asset' = [asset EXCEPT ![i] = None]
    /\ UNCHANGED <<up, project, taken, chk>>

\* The poll, or a worker that validates the source, compares it with the row.
Rescans(i) ==
    /\ Uses("discover") /\ RootOf[row[i].src] \in up /\ file[row[i].src] # None
    /\ row' = [row EXCEPT ![i].state = IF file[row[i].src] = i THEN "available" ELSE "replaced"]
    /\ UNCHANGED <<disks, project, prints, asset, taken, chk>>

\* An import registers a file of the archive as an asset of its own.
Imports(p) ==
    /\ Uses("import") /\ file[p] # None /\ p \in Targets
    /\ p \notin taken /\ \A i \in Item : asset[i] # p
    /\ taken' = taken \cup {p}
    /\ UNCHANGED <<disks, project, row, prints, asset, chk>>

-----------------------------------------------------------------------------
(* A check, up to the sources *)

Goes(c, s) == chk' = [chk EXCEPT ![c] = s]
Reads(c) == UNCHANGED <<disks, tables, budget>>

\* What a look at a path may tell. A path on a share that is away is reported
\* as missing or as an error.
Looks(p) ==
    IF RootOf[p] \in up THEN {IF file[p] = None THEN "missing" ELSE "file"}
    ELSE {"missing", "error"}
\* sha256_file: Other stands for any other content, None for a failure.
HashOf(p) == IF RootOf[p] \in up THEN file[p] ELSE None

\* The destination, the directories that are enabled and the rows are read once.
Begins(c) ==
    /\ Uses("check") /\ chk[c] = Idle
    /\ \E whole \in BOOLEAN :
         Goes(c, [pc |-> IF ~whole THEN "target"
                         ELSE IF project.enabled = {} THEN "source" ELSE "scan",
                  whole |-> whole, rows |-> row, dest |-> project.dest,
                  roots |-> project.enabled, lost |-> FALSE, cands |-> {}, hash |-> {},
                  todo |-> IF whole /\ project.enabled # {} THEN {} ELSE Item,
                  at |-> None, scanned |-> FALSE, arch |-> {}, missing |-> {}, src |-> [i \in Item |-> None],
                  tgt |-> [i \in Item |-> [target |-> row[i].target, found |-> row[i].found]],
                  kind |-> "main"])
    /\ UNCHANGED <<disks, tables>>

\* scan_roots, one directory
Scans(c, r) ==
    LET s == chk[c] IN
    /\ s.pc = "scan" /\ r \in s.roots
    /\ Goes(c, [s EXCEPT
          !.roots = @ \ {r},
          !.lost = @ \/ r \notin up,
          !.cands = @ \cup {p \in Sources : r \in up /\ RootOf[p] = r /\ file[p] # None},
          !.pc = IF s.roots = {r} THEN "source" ELSE "scan",
          !.todo = IF s.roots = {r} THEN Item ELSE {}])
    /\ Reads(c)

\* The state of a source that is not there. A directory that is disabled was not
\* asked.
Missing(s, i) ==
    IF s.rows[i].state = "replaced" THEN "replaced"
    ELSE IF s.lost THEN s.rows[i].state ELSE "missing"

\* metadata of the source of a row, and its hash in a step of its own
ChecksSource(c, i) ==
    LET s == chk[c]  p == s.rows[i].src IN
    /\ s.pc = "source" /\ s.at = None /\ i \in s.todo
    /\ \E look \in Looks(p) :
         Goes(c, CASE look = "file" -> [s EXCEPT !.at = i]
                 [] look = "error" -> [s EXCEPT !.todo = @ \ {i},
                        !.src[i] = [path |-> None, state |-> s.rows[i].state]]
                 [] OTHER -> [s EXCEPT !.todo = @ \ {i},
                        !.src[i] = [path |-> None, state |-> Missing(s, i)],
                        !.missing = IF s.rows[i].busy THEN @ ELSE @ \cup {i}])
    /\ Reads(c)

HashesSource(c) ==
    LET s == chk[c]  i == s.at  p == s.rows[i].src  h == HashOf(p) IN
    /\ s.pc = "source" /\ s.at # None
    /\ Goes(c, [s EXCEPT !.todo = @ \ {i}, !.at = None,
          !.src[i] = IF h = None THEN [path |-> None, state |-> s.rows[i].state]
                     ELSE IF h = i THEN [path |-> p, state |-> "available"]
                     ELSE [path |-> None, state |-> "replaced"]])
    /\ Reads(c)

\* Files that may be a missing source: no row names them, and the name is wanted.
Wanted(s) == {p \in s.cands : /\ \A i \in Item : s.rows[i].src # p
                              /\ \E i \in s.missing : NameOf[s.rows[i].src] = NameOf[p]}

HashesCandidate(c, p) ==
    LET s == chk[c] IN
    /\ s.pc = "source" /\ s.todo = {} /\ p \in Wanted(s) \ {h[1] : h \in s.hash}
    /\ Goes(c, [s EXCEPT !.hash = @ \cup {<<p, HashOf(p)>>}])
    /\ Reads(c)

\* The candidates with the name and the content of a missing source
Matches(s, i) ==
    {h[1] : h \in {k \in s.hash : NameOf[k[1]] = NameOf[s.rows[i].src] /\ k[2] = i}}

\* A hash belongs to one row of a project, so one row at most wants a file.
Resolves(c) ==
    LET s == chk[c]
        Unique(i) == i \in s.missing /\ Cardinality(Matches(s, i)) = 1
    IN  /\ s.pc = "source" /\ s.todo = {} /\ Wanted(s) \subseteq {h[1] : h \in s.hash}
        /\ Goes(c, [s EXCEPT !.pc = "target", !.todo = {i \in Item : ~s.rows[i].busy},
              !.src = [i \in Item |->
                  IF Unique(i) THEN [path |-> CHOOSE p \in Matches(s, i) : TRUE,
                                     state |-> "available"] ELSE @[i]]])
        /\ Reads(c)

-----------------------------------------------------------------------------
(* The targets *)

\* check_target_state: the path, the destination of the project when it is not
\* there, then the content
Verdict(s, i, v) ==
    LET done == [s EXCEPT !.tgt[i].found[s.kind] = v]
    IN  IF s.kind = "main" THEN [done EXCEPT !.pc = "target", !.kind = "avatar", !.at = i]
        ELSE [done EXCEPT !.kind = "main", !.at = i,
                 !.pc = IF ~s.whole THEN "store"
                        ELSE IF \E k \in Output : done.tgt[i].found[k] = "missing"
                        THEN IF s.scanned THEN "relink" ELSE "archive"
                        ELSE "next"]

ChecksTarget(c, i) ==
    LET s == chk[c]  p == s.rows[i].target[s.kind] IN
    /\ s.pc = "target" /\ i \in s.todo /\ s.at \in {None, i}
    /\ IF p = None THEN Goes(c, Verdict(s, i, "none"))
       ELSE \E look \in Looks(p) :
              Goes(c, CASE look = "file" -> [s EXCEPT !.pc = "hash", !.at = i]
                      [] look = "missing" -> [s EXCEPT !.pc = "root", !.at = i]
                      [] OTHER -> Verdict(s, i, "unavailable"))
    /\ Reads(c)

ChecksRoot(c) ==
    LET s == chk[c] IN
    /\ s.pc = "root"
    /\ Goes(c, Verdict(s, s.at, IF s.dest \in up THEN "missing" ELSE "unavailable"))
    /\ Reads(c)

ChecksPrint(c) ==
    LET s == chk[c]  p == s.rows[s.at].target[s.kind]  expected == prints[s.at][p] IN
    /\ s.pc = "hash"
    /\ Goes(c, Verdict(s, s.at, IF expected \in {None, HashOf(p)} THEN "available"
                                ELSE "unavailable"))
    /\ Reads(c)

\* archive_search_directory, which the user may name, or the destination
ScansArchive(c, r) ==
    LET s == chk[c] IN
    /\ s.pc = "archive" /\ r \in budget.homes
    /\ Goes(c, [s EXCEPT !.pc = "relink", !.scanned = TRUE,
          !.arch = {p \in Targets : r \in up /\ RootOf[p] = r /\ file[p] # None}])
    /\ Reads(c)

\* Wrong on purpose: the identifier in the name is enough.
Trusting_Proves(s, i, k, p) == TRUE

\* The recorded fingerprint, or for an old archive what can be told without one
Proves(s, i, k, p) ==
    LET expected == prints[i][s.rows[i].target[k]]
    IN  IF expected # None THEN HashOf(p) = expected
        ELSE k = "avatar" \/ p \notin ByteCopy \/ HashOf(p) = i

\* One output after the other
Relinks(c) ==
    LET s == chk[c]  i == s.at  k == s.kind
        cands == {p \in s.arch : TokenOf[p] = <<i, k>>}
        links == /\ s.tgt[i].found[k] = "missing" /\ Cardinality(cands) = 1
                 /\ \A p \in cands : Proves(s, i, k, p)
        next  == IF k = "main" THEN [s EXCEPT !.kind = "avatar"]
                 ELSE [s EXCEPT !.kind = "main", !.pc = "next"]
    IN  /\ s.pc = "relink"
        /\ Goes(c, IF links
                   THEN [next EXCEPT !.tgt[i] =
                            [target |-> [@.target EXCEPT ![k] = CHOOSE p \in cands : TRUE],
                             found  |-> [@.found EXCEPT ![k] = "available"]]]
                   ELSE next)
        /\ Reads(c)

NextRow(c) ==
    LET s == chk[c] IN
    /\ s.pc = "next"
    /\ Goes(c, [s EXCEPT !.todo = @ \ {s.at}, !.at = None, !.pc = "target"])
    /\ Reads(c)

-----------------------------------------------------------------------------
(* What is stored *)

\* destination_path IS ?, destination_avatar_path IS ?, archived_at IS ?
Unchanged(s, i) == row[i].target = s.rows[i].target /\ row[i].gen = s.rows[i].gen

\* Wrong on purpose: the fingerprints stay where they were.
Left_Migrated(p, old, new) == p

\* migrate_relocated_fingerprints: one at the new path is kept, the old one goes.
Migrated(p, old, new) ==
    LET Step(f, k) ==
          IF old[k] = None \/ new[k] = None \/ old[k] = new[k] THEN f
          ELSE [f EXCEPT ![new[k]] = IF @ = None THEN f[old[k]] ELSE @, ![old[k]] = None]
    IN  Step(Step(p, "main"), "avatar")

\* Wrong on purpose: a moved target does not reach the asset.
Lazy_Synced(i, p) == asset[i]

\* sync_relocated_asset
Synced(i, p) ==
    IF asset[i] = None \/ p = None \/ p \in taken \/ \E j \in Item \ {i} : asset[j] = p
    THEN asset[i] ELSE p

\* One transaction for all rows; image facts and the manifest follow.
Commits(c) ==
    LET s == chk[c]
        source(i) == s.src[i] # None /\ row[i].src = s.rows[i].src
        target(i) == ~s.rows[i].busy /\ Unchanged(s, i)
        moved(i)  == target(i) /\ s.tgt[i].target # s.rows[i].target
    IN  /\ s.pc = "target" /\ s.todo = {} /\ s.whole
        /\ row' = [i \in Item |-> [row[i] EXCEPT
              !.src = IF source(i) /\ s.src[i].path # None THEN s.src[i].path ELSE @,
              !.state = IF source(i) THEN s.src[i].state ELSE @,
              !.target = IF target(i) THEN s.tgt[i].target ELSE @,
              !.found = IF target(i) THEN s.tgt[i].found ELSE @]]
        /\ prints' = [i \in Item |-> IF moved(i)
              THEN Migrated(prints[i], s.rows[i].target, s.tgt[i].target) ELSE prints[i]]
        /\ asset' = [i \in Item |-> IF moved(i) THEN Synced(i, s.tgt[i].target["main"])
                                    ELSE asset[i]]
        /\ Goes(c, Idle)
        /\ UNCHANGED <<disks, project, taken, budget>>

\* reconcile_files stores the verdict on a row before it looks at the next.
Stores(c) ==
    LET s == chk[c]  i == s.at IN
    /\ s.pc = "store"
    /\ row' = IF Unchanged(s, i) THEN [row EXCEPT ![i].found = s.tgt[i].found] ELSE row
    /\ Goes(c, IF s.todo = {i} THEN Idle
               ELSE [s EXCEPT !.todo = @ \ {i}, !.at = None, !.pc = "target"])
    /\ UNCHANGED <<disks, project, prints, asset, taken, budget>>

-----------------------------------------------------------------------------
Environment ==
    \/ \E p, q \in Path : Moves(p, q)
    \/ \E p \in Path : Removes(p) \/ Replaces(p) \/ Imports(p)
    \/ \E r \in Root : Downs(r) \/ Ups(r) \/ Enables(r) \/ Redirects(r)
    \/ \E i \in Item : Queues(i) \/ Archives(i) \/ Resets(i) \/ Rescans(i)

Checks(c) ==
    \/ Begins(c) \/ HashesSource(c) \/ Resolves(c) \/ ChecksRoot(c) \/ ChecksPrint(c)
    \/ Relinks(c) \/ NextRow(c) \/ Commits(c) \/ Stores(c)
    \/ \E r \in Root : Scans(c, r) \/ ScansArchive(c, r)
    \/ \E i \in Item : ChecksSource(c, i) \/ ChecksTarget(c, i)
    \/ \E p \in Path : HashesCandidate(c, p)

Next == Environment \/ \E c \in Check : Checks(c)

Spec == Init /\ [][Next]_vars

-----------------------------------------------------------------------------
(* Properties *)

\* A source that is said to be available was, at some time, the very image that
\* was captured: a check binds a row to nothing else, whatever moves meanwhile.
\* A target with a fingerprint held the output of the last archive, neither an
\* older output nor a file of somebody else; an archive under another name leaves
\* an old fingerprint that proves the wrong file, and a second check may take away
\* the fingerprint the first one looks for. Missing is said only of what was
\* missing, unless a share goes away or comes back within a check ("flap"), of a
\* source whose directory was always enabled and of a target in the only destination
\* there has been: a check asks no other directory whether it is there.
VerdictsTrue ==
    /\ \A i \in Item :
          /\ row[i].state = "available" => <<row[i].src, i>> \in held
          /\ /\ row[i].state = "missing" /\ "flap" \notin budget.ops
             /\ RootOf[row[i].src] \notin project.disabled
             => row[i].src \in gone
    /\ \A i \in Item : \A k \in Output :
          /\ /\ row[i].found[k] = "available" /\ ~row[i].legacy
             /\ "rename" \notin budget.ops /\ budget.checks = 1
             => \E o \in Outputs(i, row[i].gen) : <<row[i].target[k], o>> \in held
          /\ /\ row[i].found[k] = "missing" /\ "flap" \notin budget.ops
             /\ project.dests = {RootOf[row[i].target[k]]}
             => row[i].target[k] \in gone

\* The fingerprint of an output is found under the path the row names, so that
\* the file can be proved again after the next move. An archive that takes
\* another name leaves the old fingerprint behind, and is left out.
PrintFollows ==
    \A i \in Item : "rename" \notin budget.ops /\ Archived(i) /\ ~row[i].legacy =>
        \A k \in Output : row[i].target[k] # None =>
            prints[i][row[i].target[k]] \in Outputs(i, row[i].gen)

\* The asset of a capture shows the target the row names, unless the path is
\* the asset of somebody else.
AssetFollows ==
    \A i \in Item : asset[i] # None =>
        asset[i] = row[i].target["main"] \/ row[i].target["main"] \in taken
================================================================================

---------------------------- MODULE ArchiveManifest ----------------------------
(***************************************************************************)
(* The rating manifest of the archived person images of a project          *)
(* (archive_manifest_service): requests that wait for a quiet period, the  *)
(* background writer, a rebuild the user asks for, and the commands that   *)
(* change what a manifest should say.                                      *)
(***************************************************************************)
EXTENDS Naturals, FiniteSets

CONSTANTS
    Item, Char, None,
    Dir,         \* PERSON_DIRECTORIES
    Scenes,      \* a directory for everything else
    Background,  \* run_background
    Users,       \* rebuild commands under way
    Budgets      \* what users and faults may do, and how often

Proc == Users \cup {Background}
ManifestAssumption ==
    /\ Scenes \notin Dir /\ None \notin Item \cup Char \cup Dir \cup {Scenes}
    /\ Background \notin Users /\ None \notin {"fresh", "due"}
    /\ Budgets \subseteq [ops : SUBSET STRING, left : Nat]

VARIABLES
    row,       \* capture_items: where an item is archived, and as whom
    name,      \* the name of a character, by how often it changed
    files,     \* archived files, as pairs of directory and item
    manifest,  \* the project.json of a directory, or None
    pending,   \* PENDING: None, "fresh" or "due"
    auto,      \* archive_manifest_auto_write
    online,    \* the archive directory answers
    call,      \* rebuilds under way
    budget

vars == <<row, name, files, manifest, pending, auto, online, call, budget>>

Row == [done : BOOLEAN, dir : Dir \cup {None, Scenes}, char : Char \cup {None},
        missing : BOOLEAN]
Idle == [pc |-> "idle"]
Uses(op) == op \in budget.ops /\ budget.left > 0 /\ budget' = [budget EXCEPT !.left = @ - 1]

Init ==
    /\ row \in [Item -> {[done |-> TRUE, dir |-> d, char |-> c, missing |-> FALSE] :
                            d \in Dir, c \in Char}
                        \cup {[done |-> FALSE, dir |-> None, char |-> None, missing |-> FALSE]}]
    /\ name = [c \in Char |-> 0]
    /\ files = {<<row[i].dir, i>> : i \in {j \in Item : row[j].done}}
    /\ manifest = [d \in Dir |-> None]
    /\ pending = None /\ auto = TRUE /\ online = TRUE
    /\ call = [p \in Proc |-> IF p = Background THEN [pc |-> "start"] ELSE Idle]
    /\ budget \in Budgets

\* request_rebuild: a new request starts the quiet period again.
Requests == pending' = "fresh"
Quietly  == UNCHANGED pending

-----------------------------------------------------------------------------
(* What changes an archive *)

Rest == UNCHANGED <<manifest, auto, online, call>>

\* A label, or a corrected one: the archived file stays until the next archive.
Labels(i) ==
    /\ Uses("label")
    /\ \E c \in Char \cup {None} :
          /\ c = None => "scene" \in budget.ops
          /\ row' = [row EXCEPT ![i].done = FALSE, ![i].char = c]
    /\ Quietly /\ UNCHANGED <<name, files>> /\ Rest

\* persist_completed_archive
Archives(i) ==
    /\ ~row[i].done /\ (row[i].char # None \/ row[i].dir \in Dir) /\ online
    /\ \E d \in IF row[i].char = None THEN {Scenes} ELSE Dir :
          /\ row' = [row EXCEPT ![i].done = TRUE, ![i].dir = d, ![i].missing = FALSE]
          /\ files' = (files \ {<<row[i].dir, i>>}) \cup {<<d, i>>}
          /\ IF d \in Dir THEN Requests ELSE Quietly
    /\ UNCHANGED <<name, budget>> /\ Rest

\* Undoing a classification, or deleting: the row goes, and the file if so asked.
Resets(i) ==
    /\ Uses("reset") /\ row[i].done /\ online
    /\ row' = [row EXCEPT ![i] = [done |-> FALSE, dir |-> None, char |-> None,
                                  missing |-> FALSE]]
    /\ files' \in {files, files \ {<<row[i].dir, i>>}}
    /\ Requests /\ UNCHANGED name /\ Rest

\* Either of them fails once the file is gone: the row stays, says so, and nothing
\* is requested.
FailsPartly(i) ==
    /\ Uses("partly") /\ row[i].done /\ online
    /\ row' = [row EXCEPT ![i].missing = TRUE]
    /\ files' = files \ {<<row[i].dir, i>>}
    /\ Quietly /\ UNCHANGED name /\ Rest

\* Wrong on purpose: a rename does not reach the manifests.
Silent_Renames(c) ==
    /\ Uses("rename") /\ name' = [name EXCEPT ![c] = @ + 1]
    /\ Quietly /\ UNCHANGED <<row, files>> /\ Rest

Renames(c) ==
    /\ Uses("rename") /\ name' = [name EXCEPT ![c] = @ + 1]
    /\ Requests /\ UNCHANGED <<row, files>> /\ Rest

Merges(c, d) ==
    /\ Uses("merge") /\ c # d
    /\ row' = [i \in Item |-> IF row[i].char = c THEN [row[i] EXCEPT !.char = d] ELSE row[i]]
    /\ Requests /\ UNCHANGED <<name, files>> /\ Rest

\* The user removes a file by hand, or puts it back.
Removes(i) ==
    /\ Uses("remove") /\ row[i].done /\ online /\ <<row[i].dir, i>> \in files
    /\ files' = files \ {<<row[i].dir, i>>}
    /\ Quietly /\ UNCHANGED <<row, name>> /\ Rest

Restores(i) ==
    /\ Uses("restore") /\ row[i].done /\ online /\ <<row[i].dir, i>> \notin files
    /\ files' = files \cup {<<row[i].dir, i>>}
    /\ Quietly /\ UNCHANGED <<row, name>> /\ Rest

\* A check of the files, which requests whatever it found.
Notices(i) ==
    LET gone == <<row[i].dir, i>> \notin files IN
    /\ row[i].done /\ online /\ row[i].missing # gone
    /\ row' = [row EXCEPT ![i].missing = gone]
    /\ Requests /\ UNCHANGED <<name, files, budget>> /\ Rest

\* note_destination_state: the image is opened; only a file that is gone requests.
Looks(i) ==
    LET gone == <<row[i].dir, i>> \notin files IN
    /\ Uses("look") /\ row[i].done /\ online
    /\ row' = [row EXCEPT ![i].missing = gone]
    /\ IF gone THEN Requests ELSE Quietly
    /\ UNCHANGED <<name, files>> /\ Rest

-----------------------------------------------------------------------------
(* The writer *)

Goes(p, c) == call' = [call EXCEPT ![p] = c]
Same == UNCHANGED <<row, name, files, auto, online, budget>>
Listed(i, d) == row[i].done /\ row[i].dir = d /\ ~row[i].missing

\* enqueue_missing, once, when the program starts
Starts ==
    /\ call[Background].pc = "start"
    /\ IF auto /\ \E d \in Dir : /\ \E i \in Item : Listed(i, d)
                                 /\ manifest[d] = None \/ ~online
       THEN Requests ELSE Quietly
    /\ Goes(Background, Idle)
    /\ UNCHANGED manifest /\ Same

\* The quiet period is over.
Ages ==
    /\ pending = "fresh" /\ pending' = "due"
    /\ UNCHANGED <<manifest, call>> /\ Same

\* take_due; what is due is dropped while automatic writing is off.
Takes ==
    /\ call[Background] = Idle /\ pending = "due"
    /\ pending' = None
    /\ Goes(Background, IF auto THEN [pc |-> "rows"] ELSE Idle)
    /\ UNCHANGED manifest /\ Same

\* rebuild_archive_manifest
Asks(p) ==
    /\ Uses("rebuild") /\ call[p] = Idle
    /\ Goes(p, [pc |-> "rows"])
    /\ UNCHANGED <<row, name, files, manifest, pending, auto, online>>

\* The rows, and the names of their characters, are read once.
Reads(p) ==
    /\ call[p].pc = "rows"
    /\ Goes(p, [pc |-> "dirs", todo |-> Dir,
                rows |-> {<<row[i].dir, i, row[i].char,
                            IF row[i].char = None THEN 0 ELSE name[row[i].char]>> :
                             i \in {j \in Item : row[j].dir \in Dir /\ Listed(j, row[j].dir)}}])
    /\ Quietly /\ UNCHANGED manifest /\ Same

Entries(p, d) == {r \in call[p].rows : r[1] = d}

\* A directory that does not answer is skipped.
Lists(p, d) ==
    LET found == {<<r[2], r[3], r[4]>> : r \in {s \in Entries(p, d) : <<d, s[2]>> \in files}}
    IN  /\ call[p].pc = "dirs" /\ d \in call[p].todo
        /\ Goes(p, IF online \/ Entries(p, d) = {}
                   THEN [pc |-> "write", todo |-> call[p].todo, rows |-> call[p].rows,
                         at |-> d, found |-> found]
                   ELSE [call[p] EXCEPT !.todo = @ \ {d}])
        /\ Quietly /\ UNCHANGED manifest /\ Same

\* write_manifest, or the removal of one that has nothing to say
Writes(p) ==
    LET d == call[p].at IN
    /\ call[p].pc = "write"
    /\ manifest' = IF ~online THEN manifest
                   ELSE [manifest EXCEPT ![d] = IF call[p].found = {} THEN None ELSE call[p].found]
    /\ Goes(p, [pc |-> "dirs", todo |-> call[p].todo \ {d}, rows |-> call[p].rows])
    /\ Quietly /\ Same

Ends(p) ==
    /\ call[p].pc = "dirs" /\ call[p].todo = {}
    /\ Goes(p, Idle)
    /\ Quietly /\ UNCHANGED manifest /\ Same

-----------------------------------------------------------------------------
Switches ==
    /\ Uses("switch") /\ auto' = ~auto
    /\ UNCHANGED <<row, name, files, manifest, pending, online, call>>

Downs ==
    /\ Uses("down") /\ online /\ online' = FALSE
    /\ UNCHANGED <<row, name, files, manifest, pending, auto, call>>

Ups ==
    /\ ~online /\ online' = TRUE
    /\ UNCHANGED <<row, name, files, manifest, pending, auto, call, budget>>

\* The requests are in memory only.
Crashes ==
    /\ Uses("crash") /\ pending' = None
    /\ call' = [p \in Proc |-> IF p = Background THEN [pc |-> "start"] ELSE Idle]
    /\ UNCHANGED <<row, name, files, manifest, auto, online>>

Rebuilds(p) == Reads(p) \/ (\E d \in Dir : Lists(p, d)) \/ Writes(p) \/ Ends(p)

Next ==
    \/ \E i \in Item : Labels(i) \/ Archives(i) \/ Resets(i) \/ FailsPartly(i) \/ Removes(i)
                       \/ Restores(i) \/ Notices(i) \/ Looks(i)
    \/ \E c \in Char : Renames(c) \/ \E d \in Char : Merges(c, d)
    \/ Starts \/ Ages \/ Takes \/ Switches \/ Downs \/ Ups \/ Crashes
    \/ \E p \in Users : Asks(p)
    \/ \E p \in Proc : Rebuilds(p)

Spec == Init /\ [][Next]_vars

-----------------------------------------------------------------------------
(* Properties *)

Described(d) ==
    {<<i, row[i].char, IF row[i].char = None THEN 0 ELSE name[row[i].char]>> :
        i \in {j \in Item : Listed(j, d) /\ <<d, j>> \in files}}

\* Nothing is under way or waiting: no rebuild, no request, no archive, and no
\* file that a check has yet to miss.
Settled ==
    /\ pending = None /\ \A p \in Proc : call[p] = Idle
    /\ \A i \in Item : row[i].done => row[i].missing = (<<row[i].dir, i>> \notin files)
    /\ \A i \in Item : ~row[i].done => row[i].char = None

\* Once nothing is under way, the manifests say what is archived and under which
\* names: a change during a rebuild causes another. Left out, for they break it:
\* a person image that becomes a scene, two rebuilds beside each other, a file that
\* comes back, a directory that is away, requests lost with the program, automatic
\* writing switched off, and a deletion or a reset that fails after the file went.
ManifestTrue ==
    Settled /\ budget.ops \cap {"scene", "rebuild", "restore", "down", "crash", "switch",
                                "partly"} = {} =>
        \A d \in Dir : manifest[d] = IF Described(d) = {} THEN None ELSE Described(d)
================================================================================

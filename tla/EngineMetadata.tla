----------------------------- MODULE EngineMetadata -----------------------------
(***************************************************************************)
(* What a game says about its screenshots (engine_metadata_service): the   *)
(* bridge writes a sidecar beside its cache after the engine saved the     *)
(* picture; discovery and a periodic pass give it to the capture it        *)
(* describes, once, and discard what can describe nothing any more.        *)
(***************************************************************************)
EXTENDS Naturals, FiniteSets

CONSTANTS
    Game, Outer,  \* installs; the directory of Outer may contain the others
    Name,         \* of screenshots: games number theirs alike
    Image,        \* contents
    Caller, None,
    Budgets       \* what games and users do, how often, and whether games are nested

Path == Game \X Name
Capture == [path : Path, told : Image \cup {None}]

MetadataAssumption ==
    /\ Outer \in Game /\ None \notin Game \cup Image \cup Capture
    /\ Budgets \subseteq [ops : SUBSET STRING, left : Nat, nested : BOOLEAN]

VARIABLES
    disk,      \* screenshots, by game directory and name
    due,       \* sidecars the bridge is about to write
    sidecar,   \* metadata files: one directory for each install
    row,       \* captures by content: path and metadata
    ignored,   \* contents the user deleted
    installed, \* project_engine_integrations
    call,      \* discovery and the periodic pass
    budget

vars == <<disk, due, sidecar, row, ignored, installed, call, budget>>
files == <<disk, due, sidecar>>
data == <<row, ignored, installed>>

Idle == [pc |-> "idle"]
Goes(c, k) == call' = [call EXCEPT ![c] = k]
Uses(op) == op \in budget.ops /\ budget.left > 0 /\ budget' = [budget EXCEPT !.left = @ - 1]

Init ==
    /\ disk = [p \in Path |-> None] /\ due = disk /\ sidecar = disk
    /\ row = [i \in Image |-> None]
    /\ ignored = {}
    /\ call = [c \in Caller |-> Idle]
    /\ budget \in Budgets
    \* nested games both have the bridge (see SidecarsExact)
    /\ installed \in {Game} \cup IF budget.nested THEN {} ELSE {{Outer}}

\* Wrong on purpose: a capture outside of every install belongs to the only one.
Only_Resolved(games, p) ==
    IF p[1] \in games THEN p[1]
    ELSE IF Cardinality(games) = 1 THEN CHOOSE g \in games : TRUE ELSE None

\* The install whose directory is the longest prefix of the path
Resolved(games, p) ==
    IF p[1] \in games THEN p[1]
    ELSE IF budget.nested /\ Outer \in games THEN Outer ELSE None

-----------------------------------------------------------------------------
(* Games and users *)

\* The engine saves a screenshot; an installed bridge describes it afterwards. A
\* name is used once (see SidecarsExact).
Shoots(p, i) ==
    /\ Uses("shoot") /\ disk[p] = None
    /\ disk' = [disk EXCEPT ![p] = i]
    /\ due' = IF p[1] \in installed THEN [due EXCEPT ![p] = i] ELSE due
    /\ UNCHANGED <<sidecar, call>> /\ UNCHANGED data

\* A newer bridge writes what this program cannot read.
Describes(p) ==
    /\ due[p] # None
    /\ due' = [due EXCEPT ![p] = None]
    /\ \E ok \in {TRUE} \cup {"newer" \notin budget.ops} :
          sidecar' = [sidecar EXCEPT ![p] = [of |-> due[p], ok |-> ok]]
    /\ UNCHANGED <<disk, call, budget>> /\ UNCHANGED data

Deletes(i) ==
    /\ Uses("delete") /\ row[i] # None
    /\ row' = [row EXCEPT ![i] = None] /\ ignored' = ignored \cup {i}
    /\ UNCHANGED <<installed, call>> /\ UNCHANGED files

\* uninstall, with remove_metadata_directory; a running game may write once more
Uninstalls(g) ==
    /\ Uses("uninstall") /\ g \in installed
    /\ installed' = installed \ {g}
    /\ sidecar' = [p \in Path |-> IF p[1] = g THEN None ELSE sidecar[p]]
    /\ UNCHANGED <<disk, due, row, ignored, call>>

-----------------------------------------------------------------------------
(* try_attach *)

\* Discovery registers a new content and looks for its metadata at once.
Registers(c, p) ==
    LET i == disk[p] IN
    /\ call[c] = Idle /\ i # None /\ row[i] = None /\ i \notin ignored
    /\ row' = [row EXCEPT ![i] = [path |-> p, told |-> None]]
    /\ Goes(c, [pc |-> "attach", i |-> i, then |-> Idle])
    /\ UNCHANGED <<ignored, installed, budget>> /\ UNCHANGED files

\* What is left of a capture that has its metadata is removed.
Looks(c) ==
    LET k == call[c]
        p == row[k.i].path
        s == <<Resolved(installed, p), p[2]>>
    IN  /\ k.pc = "attach"
        /\ IF row[k.i] = None \/ s[1] = None
           THEN Goes(c, k.then) /\ UNCHANGED sidecar
           ELSE IF row[k.i].told # None
           THEN Goes(c, k.then) /\ sidecar' = [sidecar EXCEPT ![s] = None]
           ELSE /\ Goes(c, IF sidecar[s] = None \/ ~sidecar[s].ok THEN k.then
                           ELSE [pc |-> "insert", i |-> k.i, s |-> s, of |-> sidecar[s].of,
                                 then |-> k.then])
                /\ UNCHANGED sidecar
        /\ UNCHANGED <<disk, due, budget>> /\ UNCHANGED data

\* The first answer stays; the row of a deleted capture cannot be referred to.
Inserts(c) ==
    LET k == call[c] IN
    /\ k.pc = "insert"
    /\ IF row[k.i] = None THEN Goes(c, k.then) /\ UNCHANGED row
       ELSE /\ row' = [row EXCEPT ![k.i].told = IF @ = None THEN k.of ELSE @]
            /\ Goes(c, [k EXCEPT !.pc = "consume"])
    /\ UNCHANGED <<ignored, installed, budget>> /\ UNCHANGED files

Consumes(c) ==
    /\ call[c].pc = "consume"
    /\ sidecar' = [sidecar EXCEPT ![call[c].s] = None]
    /\ Goes(c, call[c].then)
    /\ UNCHANGED <<disk, due, budget>> /\ UNCHANGED data

-----------------------------------------------------------------------------
(* retry_pending *)

\* The directories are listed first, then installs and captures are read.
Lists(c) ==
    LET seen == {s \in Path : s[1] \in installed /\ sidecar[s] # None} IN
    /\ call[c] = Idle /\ seen # {}
    /\ Goes(c, [pc |-> "list", seen |-> seen])
    /\ UNCHANGED budget /\ UNCHANGED files /\ UNCHANGED data

Pending(seen) ==
    {i \in Image : /\ row[i] # None /\ row[i].told = None
                   /\ <<Resolved(installed, row[i].path), row[i].path[2]>> \in seen}

Retries(c) ==
    /\ call[c].pc = "list"
    /\ Goes(c, [pc |-> "next", todo |-> Pending(call[c].seen), left |-> call[c].seen,
                games |-> installed])
    /\ UNCHANGED budget /\ UNCHANGED files /\ UNCHANGED data

NextCapture(c) ==
    /\ call[c].pc = "next"
    /\ \E i \in call[c].todo :
          Goes(c, [pc |-> "attach", i |-> i, then |-> [call[c] EXCEPT !.todo = @ \ {i}]])
    /\ UNCHANGED budget /\ UNCHANGED files /\ UNCHANGED data

\* A sidecar that no capture waits for: its content was registered under another
\* name or has its metadata, or it was deleted.
Redundant(i, p) ==
    IF row[i] = None THEN i \in ignored ELSE row[i].told # None \/ row[i].path # p

\* discard_redundant_metadata: the one screenshot the file may describe
NextFile(c) ==
    LET k == call[c] IN
    /\ k.pc = "next" /\ k.todo = {}
    /\ \E s \in k.left :
          LET rest == [k EXCEPT !.left = @ \ {s}]
              sources == {p \in Path : /\ p[2] = s[2] /\ disk[p] # None
                                       /\ Resolved(k.games, p) = s[1]}
              p == CHOOSE q \in sources : TRUE
          IN  Goes(c, IF sidecar[s] # None /\ sidecar[s].ok /\ (\E q \in sources : sources = {q})
                      THEN [pc |-> "weigh", s |-> s, p |-> p, i |-> disk[p],
                            of |-> sidecar[s].of, then |-> rest]
                      ELSE rest)
    /\ UNCHANGED budget /\ UNCHANGED files /\ UNCHANGED data

\* Its row is looked up by content; then picture and sidecar are read again.
Weighs(c) ==
    LET k == call[c] IN
    /\ k.pc = "weigh"
    /\ Goes(c, IF Redundant(k.i, k.p) THEN [k EXCEPT !.pc = "confirm"] ELSE k.then)
    /\ UNCHANGED budget /\ UNCHANGED files /\ UNCHANGED data

Confirms(c) ==
    LET k == call[c] IN
    /\ k.pc = "confirm"
    /\ Goes(c, IF disk[k.p] = k.i /\ sidecar[k.s] # None /\ sidecar[k.s].of = k.of
               THEN [k EXCEPT !.pc = "discard"] ELSE k.then)
    /\ UNCHANGED budget /\ UNCHANGED files /\ UNCHANGED data

Discards(c) ==
    /\ call[c].pc = "discard"
    /\ sidecar' = [sidecar EXCEPT ![call[c].s] = None]
    /\ Goes(c, call[c].then)
    /\ UNCHANGED <<disk, due, budget>> /\ UNCHANGED data

Ends(c) ==
    /\ call[c].pc = "next" /\ call[c].todo = {} /\ call[c].left = {}
    /\ Goes(c, Idle)
    /\ UNCHANGED budget /\ UNCHANGED files /\ UNCHANGED data

Next ==
    \/ \E p \in Path, i \in Image : Shoots(p, i)
    \/ \E p \in Path : Describes(p)
    \/ \E i \in Image : Deletes(i)
    \/ \E g \in Game : Uninstalls(g)
    \/ \E c \in Caller :
          \/ (\E p \in Path : Registers(c, p)) \/ Looks(c) \/ Inserts(c) \/ Consumes(c)
          \/ Lists(c) \/ Retries(c) \/ NextCapture(c)
          \/ NextFile(c) \/ Weighs(c) \/ Confirms(c) \/ Discards(c) \/ Ends(c)

Spec == Init /\ [][Next]_vars

-----------------------------------------------------------------------------
\* A capture is told only what was said about its own picture, although games use
\* the same names.  And a sidecar goes when its picture has it, or is known
\* under another name or as deleted: never one whose picture is still to come
\* ("the cache copy is consumed exactly once"; "Unregistered new images,
\* ambiguous paths and future schemas stay pending", engine_metadata_service.rs:359).
\* Two things the code does not promise are left out of these instances: a game
\* without the bridge inside the directory of one that has it is taken for that
\* one, and a name that is used again before its first metadata was used is told
\* or loses the metadata of the wrong picture.
ToldOwn == \A i \in Image : row[i] # None => row[i].told \in {None, i}
KnownGoes ==
    \A s \in Path : sidecar[s] # None /\ sidecar'[s] = None /\ installed' = installed =>
        /\ sidecar[s].ok
        /\ LET i == sidecar[s].of
           IN i \in ignored \/ (row[i] # None /\ (row[i].told = i \/ row[i].path # s))
SidecarsExact == [][ToldOwn' /\ KnownGoes]_vars
================================================================================

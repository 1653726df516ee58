-------------------------- MODULE FileReconcileProofs --------------------------
(***************************************************************************)
(* Proofs about FileReconcile, for any captures, paths, directories, checks *)
(* and faults: what a check binds and says is true, the fingerprints go with*)
(* the targets, and so do the assets.                                       *)
(***************************************************************************)
EXTENDS FileReconcile, FiniteSetTheorems, TLAPS

\* What the budget leaves out.
Steadily == "flap" \notin budget.ops
OneName  == "rename" \notin budget.ops
OneCheck == budget.checks = 1

Budget == [ops : SUBSET STRING, left : Nat, items : SUBSET Captures, paths : SUBSET Paths,
           checks : Nat, homes : SUBSET Homes, legacy : SUBSET BOOLEAN]
State == {"available", "missing", "replaced"}
Found == {"none", "available", "missing", "unavailable"}
Content == Captures \cup (Captures \X Nat) \cup {Other, None}
Verdicts == [path : Sources \cup {None}, state : State]
Links == [target : [Output -> Path \cup {None}], found : [Output -> Found]]
Job == [pc : {"scan", "source", "target", "hash", "root", "archive", "relink", "next", "store"},
        whole : BOOLEAN, rows : [Item -> Row], dest : Homes, roots : SUBSET SourceRoots, lost : BOOLEAN,
        cands : SUBSET Sources, hash : SUBSET (Sources \X Content), todo : SUBSET Item,
        at : Item \cup {None}, scanned : BOOLEAN, arch : SUBSET Targets, missing : SUBSET Item,
        src : [Item -> Verdicts \cup {None}], tgt : [Item -> Links], kind : Output]

ProjectType ==
    /\ project \in [dest : Homes, dests : SUBSET Homes, enabled : SUBSET SourceRoots,
                    disabled : SUBSET SourceRoots]
    /\ project.dest \in project.dests
    /\ SourceRoots \ project.enabled \subseteq project.disabled

ReconcileType ==
    /\ budget \in Budget
    /\ ProjectType
    /\ file \in [Path -> Content]
    /\ up \subseteq Root
    /\ row \in [Item -> Row]
    /\ prints \in [Item -> [Targets -> Content]]
    /\ asset \in [Item -> Path \cup {None}]
    /\ chk \in [Check -> Job \cup {Idle}]

-----------------------------------------------------------------------------
(* What rows and checks say *)

\* Targets are where their output may be, and are judged when there is one.
Linked(i, t) == \A k \in Output : /\ t.target[k] # None => t.target[k] \in Of(i, k)
                                  /\ t.found[k] = "none" <=> t.target[k] = None

\* An output of the generation was at every target.
Held(i, target, gen) ==
    \A k \in Output : target[k] # None => \E o \in Outputs(i, gen) : <<target[k], o>> \in held

\* Missing is what was missing, where the directories that tell were asked.
SourceGone(p) == Steadily /\ RootOf[p] \notin project.disabled => p \in gone
TargetGone(p) == Steadily /\ project.dests = {RootOf[p]} => p \in gone
Lost(t) == \A k \in Output : t.found[k] = "missing" => TargetGone(t.target[k])

\* What is true of a row, now or when a check read it
RowTrue(i, r) ==
    /\ Linked(i, r)
    /\ r.target["main"] = None => r.target["avatar"] = None
    /\ r.gen = 0 <=> r.target["main"] = None
    /\ r.gen <= r.last
    /\ r.legacy => r.gen # 0
    /\ r.state = "available" => <<r.src, i>> \in held
    /\ r.state = "missing" => SourceGone(r.src)
    /\ Lost(r)
    /\ OneName /\ OneCheck /\ ~r.legacy => Held(i, r.target, r.gen)

\* The row a check has read is an earlier one: unless it was archived or reset since,
\* and no other check has moved its targets, it still names them.
Earlier(i, r) ==
    /\ r.gen <= row[i].last
    /\ r.gen = row[i].gen => /\ r.legacy = row[i].legacy
                             /\ OneCheck => r.target = row[i].target

\* What a check has found out about a source
SourceTrue(s, i) ==
    s.src[i] # None =>
        /\ s.src[i].path # None => s.src[i].state = "available" /\ <<s.src[i].path, i>> \in held
        /\ s.src[i].path = None /\ s.src[i].state = "available" => <<s.rows[i].src, i>> \in held
        /\ s.src[i].state = "missing" => SourceGone(s.rows[i].src)

\* What it has found out about targets, as long as the row is of the same generation
TargetTrue(s, i) ==
    /\ Linked(i, s.tgt[i])
    /\ \A k \in Output : s.tgt[i].target[k] = None <=> s.rows[i].target[k] = None
    /\ Lost(s.tgt[i])
    /\ OneName /\ OneCheck /\ ~s.rows[i].legacy /\ s.rows[i].gen = row[i].gen
          => Held(i, s.tgt[i].target, s.rows[i].gen)
    \* a target is bound after both were judged
    /\ s.tgt[i].target # s.rows[i].target =>
          /\ s.whole /\ s.pc \notin {"scan", "source", "store"}
          /\ i \in s.todo => s.at = i /\ s.pc \in {"relink", "next"}

\* Where it is
Placed(s) ==
    /\ s.pc \in {"hash", "root", "archive", "relink", "next", "store"} => s.at \in s.todo
    /\ s.pc \in {"source", "target"} /\ s.at # None => s.at \in s.todo
    /\ s.pc = "scan" => s.at = None
    /\ s.pc \in {"hash", "root"} => s.rows[s.at].target[s.kind] # None
    /\ s.pc = "root" /\ Steadily /\ RootOf[s.rows[s.at].target[s.kind]] \in up
          => s.rows[s.at].target[s.kind] \in gone
    /\ s.dest \in project.dests
    /\ s.pc = "source" => s.roots = {}
    /\ s.pc \in {"scan", "source", "archive", "relink", "next"} => s.whole
    /\ s.pc = "store" => ~s.whole
    \* directories that answered still do
    /\ Steadily /\ ~s.lost => SourceRoots \ s.roots \subseteq up \cup project.disabled
    /\ \A h \in s.hash : h[2] # None => h \in held

JobTrue(s) ==
    /\ Placed(s)
    /\ \A i \in Item : /\ RowTrue(i, s.rows[i]) /\ Earlier(i, s.rows[i])
                       /\ SourceTrue(s, i) /\ TargetTrue(s, i)

-----------------------------------------------------------------------------
(* The invariant *)

Witnessed == \A p \in Path : <<p, file[p]>> \in held /\ (file[p] = None => p \in gone)

\* A token has one fingerprint, and it is the one of the target.
Printed(i) ==
    OneName =>
      /\ \A d, e \in Targets :
            prints[i][d] # None /\ prints[i][e] # None /\ TokenOf[d] = TokenOf[e] => d = e
      /\ ~row[i].legacy => \A k \in Output : row[i].target[k] # None =>
             prints[i][row[i].target[k]] \in Outputs(i, row[i].gen)

Shown(i) ==
    asset[i] # None => /\ asset[i] \in Of(i, "main")
                       /\ row[i].target["main"] \in {asset[i]} \cup taken

ReconcileInv ==
    /\ ReconcileType
    /\ Witnessed
    /\ \A i \in Item : RowTrue(i, row[i]) /\ Printed(i) /\ Shown(i)
    /\ \A c \in Check : chk[c] # Idle => JobTrue(chk[c])

-----------------------------------------------------------------------------
(* Constants *)

LEMMA Places ==
    ASSUME budget \in Budget
    PROVE  /\ None \notin Path /\ None \notin Item /\ Item \subseteq Captures
           /\ Sources \subseteq Path /\ Targets \subseteq Path /\ Sources \cap Targets = {}
           /\ \A p \in Sources : RootOf[p] \in SourceRoots
           /\ \A p \in Targets : RootOf[p] \in Homes
           /\ \A i, k : Of(i, k) \subseteq Targets
           /\ \A i, j, k, l : \A p \in Of(i, k) \cap Of(j, l) : i = j /\ k = l
  <1>1. Path \subseteq Paths /\ Item \subseteq Captures
    BY DEF Budget, Path, Item
  <1>2. \A p \in Path : /\ p \in Sources <=> RootOf[p] \notin Homes
                        /\ p \in Targets <=> RootOf[p] \in Homes
    BY DEF Sources, Targets
  <1>3. None \notin Path /\ None \notin Item
    BY <1>1, ReconcileAssumption
  <1>4. \A p \in Sources : RootOf[p] \in SourceRoots
    BY <1>1, <1>2, ReconcileAssumption DEF Sources, SourceRoots
  <1>5. \A i, j, k, l : \A p \in Of(i, k) \cap Of(j, l) : i = j /\ k = l
    BY DEF Of
  <1> QED
    BY <1>1, <1>2, <1>3, <1>4, <1>5 DEF Of, Sources, Targets

\* What an archive makes is an output of its generation, and something.
LEMMA Outcome ==
    ASSUME NEW i \in Captures, NEW gen \in Nat
    PROVE  /\ \A p : Made(i, p, gen) \in Outputs(i, gen)
           /\ Outputs(i, gen) \subseteq Content /\ None \notin Outputs(i, gen)
  BY ReconcileAssumption DEF Made, Outputs, Content

\* The instance never changes.
Fixed ==
    /\ budget' \in Budget
    /\ budget'.ops = budget.ops /\ budget'.items = budget.items
    /\ budget'.paths = budget.paths /\ budget'.checks = budget.checks

LEMMA UsesFixed ==
    ASSUME budget \in Budget, \/ budget' = budget \/ \E op : Uses(op)
    PROVE  Fixed
  BY DEF Fixed, Uses, Budget

LEMMA AllFixed ==
    ASSUME budget \in Budget, [Next]_vars
    PROVE  Fixed
  <1>1. CASE Environment
    BY <1>1, UsesFixed DEF Environment, Moves, Removes, Replaces, Imports, Downs, Ups, Enables, Redirects, Queues,
       Archives, Resets, Rescans
  <1>2. ASSUME NEW c \in Check, Checks(c)
        PROVE  Fixed
    BY <1>2, UsesFixed DEF Checks, Begins, HashesSource, Resolves, ChecksRoot, ChecksPrint,
       ScansArchive, Relinks, NextRow, Commits, Stores, Scans, ChecksSource, ChecksTarget,
       HashesCandidate, Reads
  <1>3. CASE UNCHANGED vars
    BY <1>3, UsesFixed DEF vars
  <1> QED
    BY SMTT(30), <1>1, <1>2, <1>3 DEF Next

LEMMA FixedSets ==
    ASSUME Fixed
    PROVE  /\ Item' = Item /\ Path' = Path /\ Check' = Check
           /\ Sources' = Sources /\ Targets' = Targets /\ Row' = Row
           /\ Verdicts' = Verdicts /\ Links' = Links /\ Job' = Job
           /\ \A i, k : Of(i, k)' = Of(i, k)
           /\ Steadily' = Steadily /\ OneName' = OneName /\ OneCheck' = OneCheck
  <1>1. Item' = Item /\ Path' = Path /\ Check' = Check
    BY DEF Fixed, Item, Path, Check
  <1>2. Sources' = Sources /\ Targets' = Targets
    BY <1>1 DEF Sources, Targets
  <1>3. Row' = Row /\ Verdicts' = Verdicts /\ Links' = Links
    BY <1>1, <1>2 DEF Row, Verdicts, Links
  <1>4. Job' = Job
    BY <1>1, <1>2, <1>3 DEF Job
  <1>5. \A i, k : Of(i, k)' = Of(i, k)
    BY <1>2 DEF Of
  <1> QED
    BY <1>1, <1>2, <1>3, <1>4, <1>5 DEF Fixed, Steadily, OneName, OneCheck
-----------------------------------------------------------------------------
(* What stays true *)

\* The histories grow.
Grown ==
    /\ held \subseteq held' /\ gone \subseteq gone'
    /\ project.disabled \subseteq project'.disabled
    /\ project.dests # {} /\ project.dests \subseteq project'.dests

LEMMA GoneStays ==
    ASSUME Fixed, Grown, NEW p
    PROVE  /\ SourceGone(p) => SourceGone(p)'
           /\ TargetGone(p) => TargetGone(p)'
  <1>1. project'.dests = {RootOf[p]} => project.dests = {RootOf[p]}
    BY DEF Grown
  <1> QED
    BY <1>1, FixedSets DEF Grown, SourceGone, TargetGone

LEMMA SameProject ==
    ASSUME ReconcileInv, held \subseteq held', gone \subseteq gone', project' = project
    PROVE  Grown /\ ProjectType'
  BY DEF Grown, ReconcileInv, ReconcileType, ProjectType

\* A row is archived again under a new generation, or has none; else it stays what
\* it was, and where it was unless a check moves it.
Onward ==
    row' \in [Item -> Row] /\
    \A i \in Item :
        /\ row'[i].last >= row[i].last
        /\ \/ /\ row'[i].gen = row[i].gen /\ row'[i].legacy = row[i].legacy
              /\ OneCheck => row'[i].target = row[i].target
           \/ row'[i].gen > row[i].last
           \/ row'[i].gen = 0 /\ row'[i].legacy = FALSE /\ row'[i].target = NoTarget

LEMMA RowStays ==
    ASSUME Fixed, Grown, NEW i, NEW r, RowTrue(i, r)
    PROVE  RowTrue(i, r)'
  <1>1. Linked(i, r)'
    BY FixedSets DEF RowTrue, Linked
  <1>2. (r.state = "missing" => SourceGone(r.src)') /\ Lost(r)'
    BY GoneStays DEF RowTrue, Lost
  <1>3. OneName' /\ OneCheck' /\ ~r.legacy => Held(i, r.target, r.gen)'
    BY FixedSets DEF RowTrue, Held, Grown
  <1> QED
    BY <1>1, <1>2, <1>3 DEF RowTrue, Grown

LEMMA EarlierStays ==
    ASSUME Fixed, Onward, ReconcileType, NEW i \in Item, NEW r \in Row, RowTrue(i, r), Earlier(i, r)
    PROVE  Earlier(i, r)'
  <1>1. /\ row[i].last \in Nat /\ row[i].gen \in Nat /\ r.gen \in Nat
        /\ row'[i].last \in Nat /\ row'[i].gen \in Nat /\ row'[i].last >= row[i].last
    BY DEF ReconcileType, Row, Onward
  <1>2. CASE /\ row'[i].gen = row[i].gen /\ row'[i].legacy = row[i].legacy
             /\ OneCheck => row'[i].target = row[i].target
    BY <1>1, <1>2, FixedSets DEF Earlier
  <1>3. CASE row'[i].gen > row[i].last
    BY <1>1, <1>3 DEF Earlier
  <1>4. CASE row'[i].gen = 0 /\ row'[i].legacy = FALSE /\ row'[i].target = NoTarget
    <2>1. ASSUME r.gen = 0
          PROVE  r.legacy = FALSE /\ r.target = NoTarget
      <3>1. r.target["main"] = None /\ r.target["avatar"] = None /\ ~r.legacy
        BY <2>1 DEF RowTrue
      <3> QED
        BY <3>1 DEF Row, NoTarget, Output
    <2>2. r.gen <= row'[i].last
      BY <1>1 DEF Earlier
    <2>3. r.gen = row'[i].gen => r.legacy = row'[i].legacy /\ r.target = row'[i].target
      BY <1>4, <2>1
    <2> QED
      BY <2>2, <2>3 DEF Earlier
  <1> QED
    BY <1>2, <1>3, <1>4 DEF Onward

LEMMA TargetStays ==
    ASSUME Fixed, Grown, Onward, ReconcileType, NEW s \in Job, NEW i \in Item,
           RowTrue(i, s.rows[i]), Earlier(i, s.rows[i]), TargetTrue(s, i)
    PROVE  TargetTrue(s, i)'
  <1>1. Linked(i, s.tgt[i])' /\ Lost(s.tgt[i])'
    BY GoneStays, FixedSets DEF TargetTrue, Linked, Lost
  <1>2. ASSUME OneName, OneCheck, ~s.rows[i].legacy, s.rows[i].gen = row'[i].gen
        PROVE  Held(i, s.tgt[i].target, s.rows[i].gen)'
    <2>1. row[i].last \in Nat /\ row'[i].gen \in Nat /\ s.rows[i].gen \in Nat
      BY DEF ReconcileType, Row, Job, Onward
    <2>2. CASE s.rows[i].gen = row[i].gen
      BY <1>2, <2>2 DEF TargetTrue, Held, Grown
    <2>3. CASE row'[i].gen > row[i].last
      BY <1>2, <2>1, <2>3 DEF Earlier
    <2>4. CASE row'[i].gen = 0
      <3>1. s.rows[i].target["main"] = None /\ s.rows[i].target["avatar"] = None
        BY <1>2, <2>4 DEF RowTrue
      <3>2. \A k \in Output : s.tgt[i].target[k] = None
        BY <3>1 DEF TargetTrue, Output
      <3> QED
        BY <3>2 DEF Held
    <2> QED
      BY <1>2, <2>2, <2>3, <2>4 DEF Onward
  <1> QED
    BY <1>1, <1>2, FixedSets DEF TargetTrue

LEMMA JobStays ==
    ASSUME Fixed, Grown, Onward, ReconcileType, Steadily => up' = up, NEW s \in Job, JobTrue(s)
    PROVE  JobTrue(s)'
  <1>1. Placed(s)'
    BY FixedSets DEF JobTrue, Placed, Grown
  <1>2. ASSUME NEW i \in Item
        PROVE  /\ RowTrue(i, s.rows[i])' /\ Earlier(i, s.rows[i])'
               /\ SourceTrue(s, i)' /\ TargetTrue(s, i)'
    <2>1. s.rows[i] \in Row /\ RowTrue(i, s.rows[i]) /\ Earlier(i, s.rows[i])
      BY DEF JobTrue, Job
    <2>2. SourceTrue(s, i)'
      BY GoneStays DEF JobTrue, SourceTrue, Grown
    <2>3. TargetTrue(s, i)'
      BY <2>1, TargetStays DEF JobTrue
    <2> QED
      BY <2>1, <2>2, <2>3, RowStays, EarlierStays
  <1> QED
    BY <1>1, <1>2, FixedSets DEF JobTrue
\* A row that is left as it is
LEMMA SameRow ==
    ASSUME Fixed, Grown, NEW i \in Item, RowTrue(i, row[i]), row'[i] = row[i]
    PROVE  RowTrue(i, row[i])'
  <1>1. PICK r : r = row[i]
    OBVIOUS
  <1>2. RowTrue(i, r)'
    BY <1>1, RowStays
  <1> QED
    BY <1>1, <1>2

\* Others than checks: the checks go on with what they have.
LEMMA Beside ==
    ASSUME ReconcileInv, Fixed, Grown, Onward, chk' = chk,
           Steadily => up' = up \/ \A c \in Check : chk[c] = Idle,
           ProjectType', up' \subseteq Root, file' \in [Path -> Content],
           prints' \in [Item -> [Targets -> Content]], asset' \in [Item -> Path \cup {None}],
           Witnessed', \A i \in Item : RowTrue(i, row[i])' /\ Printed(i)' /\ Shown(i)'
    PROVE  ReconcileInv'
  <1>1. ReconcileType'
    BY FixedSets DEF ReconcileInv, ReconcileType, Fixed, Onward
  <1>2. ASSUME NEW c \in Check, chk'[c] # Idle
        PROVE  JobTrue(chk[c])'
    <2>1. PICK s : s = chk[c]
      OBVIOUS
    <2>2. s \in Job /\ JobTrue(s)
      BY <1>2, <2>1 DEF ReconcileInv, ReconcileType
    <2>3. JobTrue(s)'
      BY <1>2, <2>2, JobStays DEF ReconcileInv
    <2> QED
      BY <2>1, <2>3
  <1> QED
    BY <1>1, <1>2, FixedSets DEF ReconcileInv

\* A check that goes on, or ends and has moved targets: then there is no other that
\* is told to find them
LEMMA CheckSaves ==
    ASSUME ReconcileInv, Fixed, NEW c \in Check, NEW s, s \in Job \cup {Idle},
           s # Idle => JobTrue(s) /\ Onward, Onward \/ OneCheck,
           Goes(c, s), UNCHANGED <<disks, project, taken>>, row' \in [Item -> Row],
           prints' \in [Item -> [Targets -> Content]], asset' \in [Item -> Path \cup {None}],
           \A i \in Item : RowTrue(i, row[i])' /\ Printed(i)' /\ Shown(i)'
    PROVE  ReconcileInv'
  <1>1. Grown /\ up' = up /\ ProjectType'
    BY SameProject DEF disks
  <1>2. ReconcileType'
    BY <1>1, FixedSets DEF ReconcileInv, ReconcileType, Fixed, Goes, disks
  <1>3. Witnessed'
    BY FixedSets DEF ReconcileInv, Witnessed, disks
  <1>4. ASSUME NEW d \in Check, chk'[d] # Idle
        PROVE  JobTrue(chk[d])'
    <2>1. PICK j : j = chk'[d]
      OBVIOUS
    <2>2. j \in Job /\ JobTrue(j)
      BY <1>4, <2>1 DEF ReconcileInv, ReconcileType, Goes
    <2>3. d = c => s # Idle
      BY <1>4 DEF Goes, ReconcileInv, ReconcileType
    <2>4. OneCheck => d = c
      BY DEF OneCheck, Check
    <2>5. Onward
      BY <2>3, <2>4
    <2>6. JobTrue(j)'
      BY <1>1, <2>2, <2>5, JobStays DEF ReconcileInv
    <2> QED
      BY <2>1, <2>6
  <1> QED
    BY <1>2, <1>3, <1>4, FixedSets DEF ReconcileInv

\* A check that goes on, and has changed nothing yet
LEMMA CheckGoes ==
    ASSUME ReconcileInv, Fixed, NEW c \in Check, NEW s, s \in Job \cup {Idle},
           s # Idle => JobTrue(s), Goes(c, s), UNCHANGED <<disks, tables>>
    PROVE  ReconcileInv'
  <1>1. Grown /\ Onward /\ row' = row /\ UNCHANGED <<disks, project, taken>>
    BY SameProject DEF disks, tables, Onward, ReconcileInv, ReconcileType, Row
  <1>2. /\ row' \in [Item -> Row] /\ prints' \in [Item -> [Targets -> Content]]
        /\ asset' \in [Item -> Path \cup {None}]
    BY DEF ReconcileInv, ReconcileType, tables
  <1>3. ASSUME NEW i \in Item
        PROVE  RowTrue(i, row[i])' /\ Printed(i)' /\ Shown(i)'
    <2>1. RowTrue(i, row[i])'
      BY <1>1, SameRow DEF ReconcileInv
    <2>2. Printed(i)' /\ Shown(i)'
      BY FixedSets DEF ReconcileInv, Printed, Shown, tables
    <2> QED
      BY <2>1, <2>2
  <1> QED
    BY <1>1, <1>2, <1>3, CheckSaves
-----------------------------------------------------------------------------
(* One row *)

\* When one row changes the others stay
LEMMA OneRow ==
    ASSUME ReconcileInv, Fixed, Grown, NEW i \in Item, NEW r \in Row, RowTrue(i, r)',
           row' = [row EXCEPT ![i] = r], r.last >= row[i].last,
           \/ /\ r.gen = row[i].gen /\ r.legacy = row[i].legacy
              /\ OneCheck => r.target = row[i].target
           \/ r.gen > row[i].last
           \/ r.gen = 0 /\ r.legacy = FALSE /\ r.target = NoTarget,
           \A j \in Item \ {i} : prints'[j] = prints[j] /\ asset'[j] = asset[j],
           taken' = taken, Printed(i)', Shown(i)'
    PROVE  Onward /\ \A j \in Item : RowTrue(j, row[j])' /\ Printed(j)' /\ Shown(j)'
  <1>1. row \in [Item -> Row]
    BY DEF ReconcileInv, ReconcileType
  <1>2. row'[i] = r /\ \A j \in Item \ {i} : row'[j] = row[j]
    BY <1>1
  <1>3. Onward
    <2>1. row' \in [Item -> Row]
      BY <1>1
    <2>2. ASSUME NEW j \in Item \ {i}
          PROVE  /\ row'[j].last >= row[j].last
                 /\ row'[j].gen = row[j].gen /\ row'[j].legacy = row[j].legacy
                 /\ row'[j].target = row[j].target
      <3>1. row'[j] = row[j] /\ row[j].last \in Nat
        BY <1>1, <1>2 DEF Row
      <3> QED
        BY <3>1
    <2>3. ASSUME NEW j \in Item
          PROVE  /\ row'[j].last >= row[j].last
                 /\ \/ /\ row'[j].gen = row[j].gen /\ row'[j].legacy = row[j].legacy
                       /\ OneCheck => row'[j].target = row[j].target
                    \/ row'[j].gen > row[j].last
                    \/ row'[j].gen = 0 /\ row'[j].legacy = FALSE /\ row'[j].target = NoTarget
      <3>1. CASE j = i
        BY <1>2, <3>1
      <3>2. CASE j # i
        BY <2>2, <3>2
      <3> QED
        BY <3>1, <3>2
    <2> QED
      BY <2>1, <2>3 DEF Onward
  <1>4. RowTrue(i, row[i])'
    BY <1>2
  <1>5. ASSUME NEW j \in Item, j # i
        PROVE  RowTrue(j, row[j])' /\ Printed(j)' /\ Shown(j)'
    <2>1. /\ row'[j] = row[j] /\ prints'[j] = prints[j] /\ asset'[j] = asset[j]
          /\ RowTrue(j, row[j]) /\ Printed(j) /\ Shown(j)
      BY <1>2, <1>5 DEF ReconcileInv
    <2>2. RowTrue(j, row[j])'
      BY <2>1, SameRow
    <2>3. row'[j].target = row[j].target /\ row'[j].gen = row[j].gen
          /\ row'[j].legacy = row[j].legacy
      BY <2>1
    <2>4. Printed(j)'
      <3>1. PICK f, s : f = prints[j] /\ s = row[j]
        OBVIOUS
      <3>2. prints'[j] = f /\ row'[j] = s
        BY <2>1, <3>1
      <3>3. ASSUME OneName
            PROVE  /\ \A d, e \in Targets :
                         f[d] # None /\ f[e] # None /\ TokenOf[d] = TokenOf[e] => d = e
                   /\ ~s.legacy => \A k \in Output : s.target[k] # None =>
                          f[s.target[k]] \in Outputs(j, s.gen)
        BY <2>1, <3>1, <3>3 DEF Printed
      <3> QED
        BY <3>2, <3>3, FixedSets DEF Printed
    <2>5. Shown(j)'
      BY <2>1, <2>3, FixedSets DEF Shown
    <2> QED
      BY <2>2, <2>4, <2>5
  <1> QED
    BY <1>3, <1>4, <1>5

-----------------------------------------------------------------------------
(* A check, up to the sources *)

LEMMA JobAt ==
    ASSUME ReconcileInv, NEW c \in Check, chk[c].pc # "idle"
    PROVE  chk[c] \in Job /\ JobTrue(chk[c])
  BY DEF ReconcileInv, ReconcileType, Idle

LEMMA CheckBegins ==
    ASSUME ReconcileInv, Fixed, NEW c \in Check, Begins(c)
    PROVE  ReconcileInv'
  <1>1. PICK whole \in BOOLEAN :
         Goes(c, [pc |-> IF ~whole THEN "target"
                         ELSE IF project.enabled = {} THEN "source" ELSE "scan",
                  whole |-> whole, rows |-> row, dest |-> project.dest,
                  roots |-> project.enabled, lost |-> FALSE, cands |-> {}, hash |-> {},
                  todo |-> IF whole /\ project.enabled # {} THEN {} ELSE Item,
                  at |-> None, scanned |-> FALSE, arch |-> {}, missing |-> {}, src |-> [i \in Item |-> None],
                  tgt |-> [i \in Item |-> [target |-> row[i].target, found |-> row[i].found]],
                  kind |-> "main"])
    BY DEF Begins
  <1>2. PICK k : k = [pc |-> IF ~whole THEN "target"
                         ELSE IF project.enabled = {} THEN "source" ELSE "scan",
                  whole |-> whole, rows |-> row, dest |-> project.dest,
                  roots |-> project.enabled, lost |-> FALSE, cands |-> {}, hash |-> {},
                  todo |-> IF whole /\ project.enabled # {} THEN {} ELSE Item,
                  at |-> None, scanned |-> FALSE, arch |-> {}, missing |-> {}, src |-> [i \in Item |-> None],
                  tgt |-> [i \in Item |-> [target |-> row[i].target, found |-> row[i].found]],
                  kind |-> "main"]
    OBVIOUS
  <1>3. row \in [Item -> Row] /\ \A i \in Item : RowTrue(i, row[i])
    BY DEF ReconcileInv, ReconcileType
  <1>4. k \in Job
    <2>1. [i \in Item |-> [target |-> row[i].target, found |-> row[i].found]] \in [Item -> Links]
      <3>1. ASSUME NEW i \in Item
            PROVE  [target |-> row[i].target, found |-> row[i].found] \in Links
        <4>1. row[i] \in Row
          BY <1>3
        <4>2. row[i].target \in [Output -> Path \cup {None}] /\ row[i].found \in [Output -> Found]
          BY <4>1 DEF Row, Found
        <4> QED
          BY <4>2 DEF Links
      <3> QED
        BY <3>1
    <2>2. project.dest \in Homes /\ project.enabled \subseteq SourceRoots
      BY DEF ReconcileInv, ReconcileType, ProjectType
    <2>3. PICK pc, todo : /\ pc = IF ~whole THEN "target"
                                  ELSE IF project.enabled = {} THEN "source" ELSE "scan"
                          /\ todo = IF whole /\ project.enabled # {} THEN {} ELSE Item
      OBVIOUS
    <2>4. pc \in {"target", "source", "scan"} /\ todo \subseteq Item
      BY <2>3
    <2>5. k = [pc |-> pc, whole |-> whole, rows |-> row, dest |-> project.dest,
               roots |-> project.enabled, lost |-> FALSE, cands |-> {}, hash |-> {}, todo |-> todo,
               at |-> None, scanned |-> FALSE, arch |-> {}, missing |-> {},
               src |-> [i \in Item |-> None],
               tgt |-> [i \in Item |-> [target |-> row[i].target, found |-> row[i].found]],
               kind |-> "main"]
      BY <1>2, <2>3
    <2> QED
      BY <1>3, <2>1, <2>2, <2>4, <2>5 DEF Job, Output
  <1>5. Placed(k)
    <2>1. project.dest \in project.dests /\ SourceRoots \ project.enabled \subseteq project.disabled
      BY DEF ReconcileInv, ReconcileType, ProjectType
    <2> QED
      BY <1>2, <2>1 DEF Placed
  <1>6. ASSUME NEW i \in Item
        PROVE  /\ RowTrue(i, k.rows[i]) /\ Earlier(i, k.rows[i])
               /\ SourceTrue(k, i) /\ TargetTrue(k, i)
    <2>1. k.rows[i] = row[i] /\ k.src[i] = None
          /\ k.tgt[i].target = row[i].target /\ k.tgt[i].found = row[i].found
      BY <1>2
    <2>2. RowTrue(i, k.rows[i]) /\ Earlier(i, k.rows[i])
      BY <1>3, <2>1 DEF RowTrue, Earlier
    <2>3. SourceTrue(k, i)
      BY <2>1 DEF SourceTrue
    <2>4. TargetTrue(k, i)
      <3>1. RowTrue(i, row[i])
        BY <1>3
      <3>2. Linked(i, k.tgt[i]) /\ Lost(k.tgt[i])
        BY <2>1, <3>1 DEF RowTrue, Linked, Lost
      <3>3. OneName /\ OneCheck /\ ~k.rows[i].legacy => Held(i, k.tgt[i].target, k.rows[i].gen)
        BY <2>1, <3>1 DEF RowTrue
      <3> QED
        BY <2>1, <3>2, <3>3 DEF TargetTrue
    <2> QED
      BY <2>2, <2>3, <2>4
  <1>7. JobTrue(k)
    BY <1>5, <1>6 DEF JobTrue
  <1>8. Goes(c, k) /\ UNCHANGED <<disks, tables>>
    BY <1>1, <1>2 DEF Begins
  <1> QED
    BY <1>4, <1>7, <1>8, CheckGoes

\* What a check keeps of its rows and targets while it looks at sources
LEMMA SameTargets ==
    ASSUME NEW s, NEW k, NEW i, TargetTrue(s, i), k.tgt = s.tgt, k.rows = s.rows,
           k.whole = s.whole, s.pc \in {"scan", "source"}
    PROVE  TargetTrue(k, i)
  BY DEF TargetTrue

LEMMA CheckScans ==
    ASSUME ReconcileInv, Fixed, NEW c \in Check, NEW r \in Root, Scans(c, r)
    PROVE  ReconcileInv'
  <1>1. PICK s : s = chk[c]
    OBVIOUS
  <1>2. s \in Job /\ JobTrue(s) /\ s.pc = "scan" /\ r \in s.roots
    BY <1>1, JobAt DEF Scans
  <1>3. PICK k : k = [s EXCEPT
          !.roots = @ \ {r},
          !.lost = @ \/ r \notin up,
          !.cands = @ \cup {p \in Sources : r \in up /\ RootOf[p] = r /\ file[p] # None},
          !.pc = IF s.roots = {r} THEN "source" ELSE "scan",
          !.todo = IF s.roots = {r} THEN Item ELSE {}]
    OBVIOUS
  <1>4. Goes(c, k) /\ UNCHANGED <<disks, tables>>
    BY <1>1, <1>3 DEF Scans, Reads
  <1>5. k \in Job
    BY ZenonT(60), <1>2, <1>3 DEF Job
  <1>6. Placed(k)
    BY <1>2, <1>3 DEF Placed, JobTrue, Job
  <1>7. k.rows = s.rows /\ k.src = s.src /\ k.tgt = s.tgt /\ k.whole = s.whole
    BY <1>2, <1>3 DEF Job
  <1>8. JobTrue(k)
    BY <1>2, <1>6, <1>7, SameTargets DEF JobTrue, SourceTrue
  <1> QED
    BY <1>4, <1>5, <1>8, CheckGoes

\* What is found out about one source
LEMMA SourceKnown ==
    ASSUME ReconcileInv, NEW s \in Job, JobTrue(s), s.pc = "source", NEW i \in Item,
           NEW v \in Verdicts, NEW missing \in SUBSET Item, NEW k,
           k = [s EXCEPT !.todo = @ \ {i}, !.at = None, !.src[i] = v, !.missing = missing],
           v.path # None => v.state = "available" /\ <<v.path, i>> \in held,
           v.path = None /\ v.state = "available" => <<s.rows[i].src, i>> \in held,
           v.state = "missing" => SourceGone(s.rows[i].src)
    PROVE  k \in Job /\ JobTrue(k)
  <1>1. k \in Job
    BY DEF Job
  <1>2. Placed(k)
    BY DEF Placed, JobTrue, Job
  <1>3. k.rows = s.rows /\ k.tgt = s.tgt /\ k.whole = s.whole /\ k.src = [s.src EXCEPT ![i] = v]
    BY DEF Job
  <1>4. ASSUME NEW j \in Item
        PROVE  SourceTrue(k, j)
    <2>1. SourceTrue(s, j) /\ s.src \in [Item -> Verdicts \cup {None}]
      BY DEF JobTrue, Job
    <2> QED
      BY <1>3, <2>1 DEF SourceTrue
  <1>5. JobTrue(k)
    BY <1>2, <1>3, <1>4, SameTargets DEF JobTrue
  <1> QED
    BY <1>1, <1>5

LEMMA CheckLooks ==
    ASSUME ReconcileInv, Fixed, NEW c \in Check, NEW i \in Item, ChecksSource(c, i)
    PROVE  ReconcileInv'
  <1>1. PICK s : s = chk[c]
    OBVIOUS
  <1>2. s \in Job /\ JobTrue(s) /\ s.pc = "source" /\ s.at = None /\ i \in s.todo
    BY <1>1, JobAt DEF ChecksSource
  <1>3. UNCHANGED <<disks, tables>>
    BY DEF ChecksSource, Reads
  <1>4. s.rows[i] \in Row /\ RowTrue(i, s.rows[i]) /\ s.src \in [Item -> Verdicts \cup {None}]
    BY <1>2 DEF JobTrue, Job
  <1>5. PICK look \in Looks(s.rows[i].src) :
         Goes(c, CASE look = "file" -> [s EXCEPT !.at = i]
                 [] look = "error" -> [s EXCEPT !.todo = @ \ {i},
                        !.src[i] = [path |-> None, state |-> s.rows[i].state]]
                 [] OTHER -> [s EXCEPT !.todo = @ \ {i},
                        !.src[i] = [path |-> None, state |-> Missing(s, i)],
                        !.missing = IF s.rows[i].busy THEN @ ELSE @ \cup {i}])
    BY <1>1 DEF ChecksSource
  <1>6. CASE look = "file"
    <2>1. PICK k : k = [s EXCEPT !.at = i]
      OBVIOUS
    <2>2. k \in Job /\ Placed(k)
      BY <1>2, <2>1 DEF Job, JobTrue, Placed
    <2>3. k.rows = s.rows /\ k.src = s.src /\ k.tgt = s.tgt /\ k.whole = s.whole
      BY <1>2, <2>1 DEF Job
    <2>4. JobTrue(k)
      BY <1>2, <2>2, <2>3, SameTargets DEF JobTrue, SourceTrue
    <2> QED
      BY <1>3, <1>5, <1>6, <2>1, <2>2, <2>4, CheckGoes
  <1>7. CASE look = "error"
    <2>1. PICK v : v = [path |-> None, state |-> s.rows[i].state]
      OBVIOUS
    <2>2. v \in Verdicts
      BY <1>4, <2>1 DEF Verdicts, Row, State
    <2>3. PICK k : k = [s EXCEPT !.todo = @ \ {i}, !.at = None, !.src[i] = v, !.missing = s.missing]
      OBVIOUS
    <2>4. k = [s EXCEPT !.todo = @ \ {i}, !.src[i] = v]
      BY <1>2, <2>3 DEF Job
    <2>5. k \in Job /\ JobTrue(k)
      <3>1. s.missing \in SUBSET Item
        BY <1>2 DEF Job
      <3>2. v.path = None /\ (v.state = "available" => <<s.rows[i].src, i>> \in held)
            /\ (v.state = "missing" => SourceGone(s.rows[i].src))
        BY <1>4, <2>1 DEF RowTrue
      <3> QED
        BY <1>2, <2>2, <2>3, <3>1, <3>2, SourceKnown
    <2> QED
      BY <1>3, <1>5, <1>7, <2>1, <2>4, <2>5, CheckGoes
  <1>8. CASE look \notin {"file", "error"}
    <2>1. PICK v : v = [path |-> None, state |-> Missing(s, i)]
      OBVIOUS
    <2>2. v \in Verdicts
      BY <1>4, <2>1 DEF Verdicts, Row, State, Missing
    <2>3. PICK m \in SUBSET Item : m = IF s.rows[i].busy THEN s.missing ELSE s.missing \cup {i}
      BY <1>2 DEF Job
    <2>4. PICK k : k = [s EXCEPT !.todo = @ \ {i}, !.at = None, !.src[i] = v, !.missing = m]
      OBVIOUS
    <2>5. k = [s EXCEPT !.todo = @ \ {i}, !.src[i] = v,
                        !.missing = IF s.rows[i].busy THEN @ ELSE @ \cup {i}]
      BY <1>2, <2>3, <2>4 DEF Job
    <2>6. v.state = "missing" => SourceGone(s.rows[i].src)
      <3>1. SUFFICES ASSUME Steadily, ~s.lost, s.rows[i].state # "missing",
                            RootOf[s.rows[i].src] \notin project.disabled
                     PROVE  s.rows[i].src \in gone
        BY <1>4, <2>1 DEF Missing, RowTrue, SourceGone
      <3>2. s.rows[i].src \in Sources /\ RootOf[s.rows[i].src] \in SourceRoots
        BY <1>4, Places DEF Row, ReconcileInv, ReconcileType
      <3>3. RootOf[s.rows[i].src] \in up
        BY <1>2, <3>1, <3>2 DEF JobTrue, Placed
      <3>4. file[s.rows[i].src] = None
        BY <1>5, <1>8, <3>2, <3>3 DEF Looks
      <3> QED
        BY <3>2, <3>4, Places DEF ReconcileInv, ReconcileType, Witnessed
    <2>7. v.state = "available" => <<s.rows[i].src, i>> \in held
      BY <1>4, <2>1 DEF Missing, RowTrue
    <2>8. v.path = None
      BY <2>1
    <2>9. k \in Job /\ JobTrue(k)
      BY <1>2, <2>2, <2>4, <2>6, <2>7, <2>8, SourceKnown
    <2> QED
      BY <1>3, <1>5, <1>8, <2>1, <2>5, <2>9, CheckGoes
  <1> QED
    BY <1>6, <1>7, <1>8

LEMMA CheckHashes ==
    ASSUME ReconcileInv, Fixed, NEW c \in Check, HashesSource(c)
    PROVE  ReconcileInv'
  <1>1. PICK s : s = chk[c]
    OBVIOUS
  <1>2. s \in Job /\ JobTrue(s) /\ s.pc = "source" /\ s.at # None
    BY <1>1, JobAt DEF HashesSource
  <1>3. PICK i \in Item : i = s.at
    BY <1>2 DEF Job
  <1>4. PICK h : h = HashOf(s.rows[i].src)
    OBVIOUS
  <1>5. PICK v : v = IF h = None THEN [path |-> None, state |-> s.rows[i].state]
                     ELSE IF h = i THEN [path |-> s.rows[i].src, state |-> "available"]
                     ELSE [path |-> None, state |-> "replaced"]
    OBVIOUS
  <1>6. s.rows[i] \in Row /\ RowTrue(i, s.rows[i])
    BY <1>2 DEF JobTrue, Job
  <1>7. s.rows[i].src \in Sources /\ s.rows[i].src \in Path
    BY <1>6, Places DEF Row, ReconcileInv, ReconcileType
  <1>8. v \in Verdicts
    BY <1>5, <1>6, <1>7 DEF Verdicts, Row, State
  <1>9. PICK k : k = [s EXCEPT !.todo = @ \ {i}, !.at = None, !.src[i] = v, !.missing = s.missing]
    BY SMTT(30)
  <1>10. Goes(c, k) /\ UNCHANGED <<disks, tables>>
    <2>1. k = [s EXCEPT !.todo = @ \ {i}, !.at = None, !.src[i] = v]
      BY <1>2, <1>9 DEF Job
    <2> QED
      BY <1>1, <1>3, <1>4, <1>5, <2>1 DEF HashesSource, Reads
  <1>11. h = i => <<s.rows[i].src, i>> \in held
    <2>1. i # None
      BY Places DEF ReconcileInv, ReconcileType
    <2> QED
      BY <1>4, <1>7, <2>1 DEF HashOf, ReconcileInv, Witnessed
  <1>12. /\ v.path # None => v.state = "available" /\ <<v.path, i>> \in held
         /\ v.path = None /\ v.state = "available" => <<s.rows[i].src, i>> \in held
         /\ v.state = "missing" => SourceGone(s.rows[i].src)
    BY <1>5, <1>6, <1>11 DEF RowTrue
  <1>13. s.missing \in SUBSET Item
    BY <1>2 DEF Job
  <1>14. k \in Job /\ JobTrue(k)
    BY <1>2, <1>8, <1>9, <1>12, <1>13, SourceKnown
  <1> QED
    BY <1>10, <1>14, CheckGoes

LEMMA CandidateHashes ==
    ASSUME ReconcileInv, Fixed, NEW c \in Check, NEW p \in Path, HashesCandidate(c, p)
    PROVE  ReconcileInv'
  <1>1. PICK s : s = chk[c]
    OBVIOUS
  <1>2. s \in Job /\ JobTrue(s) /\ s.pc = "source" /\ p \in s.cands
    BY <1>1, JobAt DEF HashesCandidate, Wanted
  <1>3. PICK h : h = HashOf(p)
    OBVIOUS
  <1>4. h \in Content /\ (h # None => <<p, h>> \in held)
    BY <1>3 DEF HashOf, Content, ReconcileInv, ReconcileType, Witnessed
  <1>5. PICK k : k = [s EXCEPT !.hash = @ \cup {<<p, h>>}]
    OBVIOUS
  <1>6. Goes(c, k) /\ UNCHANGED <<disks, tables>>
    BY <1>1, <1>3, <1>5 DEF HashesCandidate, Reads
  <1>7. k \in Job
    BY <1>2, <1>4, <1>5 DEF Job
  <1>8. Placed(k)
    <2>1. \A g \in k.hash : g[2] # None => g \in held
      BY <1>2, <1>4, <1>5 DEF Job, JobTrue, Placed
    <2> QED
      BY <1>2, <1>5, <2>1 DEF Job, JobTrue, Placed
  <1>9. k.rows = s.rows /\ k.src = s.src /\ k.tgt = s.tgt /\ k.whole = s.whole
    BY <1>2, <1>5 DEF Job
  <1>10. JobTrue(k)
    BY <1>2, <1>8, <1>9, SameTargets DEF JobTrue, SourceTrue
  <1> QED
    BY <1>6, <1>7, <1>10, CheckGoes

LEMMA CheckResolves ==
    ASSUME ReconcileInv, Fixed, NEW c \in Check, Resolves(c)
    PROVE  ReconcileInv'
  <1>1. PICK s : s = chk[c]
    OBVIOUS
  <1>2. s \in Job /\ JobTrue(s) /\ s.pc = "source" /\ s.todo = {}
    BY <1>1, JobAt DEF Resolves
  <1>3. PICK src : src = [i \in Item |->
            IF i \in s.missing /\ Cardinality(Matches(s, i)) = 1
            THEN [path |-> CHOOSE p \in Matches(s, i) : TRUE, state |-> "available"]
            ELSE s.src[i]]
    OBVIOUS
  <1>4. PICK k : k = [s EXCEPT !.pc = "target", !.todo = {i \in Item : ~s.rows[i].busy},
                               !.src = src]
    OBVIOUS
  <1>5. Goes(c, k) /\ UNCHANGED <<disks, tables>>
    BY <1>1, <1>3, <1>4 DEF Resolves, Reads
  <1>6. ASSUME NEW i \in Item, Cardinality(Matches(s, i)) = 1
        PROVE  \E p \in Sources : /\ p = CHOOSE q \in Matches(s, i) : TRUE
                                  /\ p # None /\ <<p, i>> \in held
    <2>1. Matches(s, i) # {}
      BY <1>6, FS_EmptySet
    <2>2. PICK p : p \in Matches(s, i) /\ p = CHOOSE q \in Matches(s, i) : TRUE
      BY <2>1
    <2>3. PICK h \in s.hash : h[1] = p /\ h[2] = i
      BY <2>2 DEF Matches
    <2>4. h \in Sources \X Content /\ i # None
      BY <1>2, <2>3, Places DEF Job, ReconcileInv, ReconcileType
    <2>5. h = <<p, i>> /\ p \in Sources
      BY <2>3, <2>4
    <2>6. <<p, i>> \in held
      BY <1>2, <2>3, <2>4, <2>5 DEF JobTrue, Placed
    <2> QED
      BY <2>2, <2>5, <2>6, Places DEF ReconcileInv, ReconcileType
  <1>7. src \in [Item -> Verdicts \cup {None}]
    <2>1. ASSUME NEW i \in Item
          PROVE  src[i] \in Verdicts \cup {None}
      <3>1. s.src[i] \in Verdicts \cup {None}
        BY <1>2 DEF Job
      <3> QED
        BY <1>3, <1>6, <3>1 DEF Verdicts, State
    <2> QED
      BY <1>3, <2>1
  <1>8. k \in Job
    <2>1. {i \in Item : ~s.rows[i].busy} \subseteq Item
      OBVIOUS
    <2> QED
      BY <1>2, <1>4, <1>7, <2>1 DEF Job
  <1>9. Placed(k)
    BY <1>2, <1>4 DEF Placed, JobTrue, Job
  <1>10. k.rows = s.rows /\ k.tgt = s.tgt /\ k.whole = s.whole /\ k.src = src /\ k.pc = "target"
    BY <1>2, <1>4 DEF Job
  <1>11. ASSUME NEW i \in Item
         PROVE  SourceTrue(k, i) /\ TargetTrue(k, i)
    <2>1. SourceTrue(s, i) /\ TargetTrue(s, i)
      BY <1>2 DEF JobTrue
    <2>2. TargetTrue(k, i)
      BY <1>2, <1>10, <2>1 DEF TargetTrue
    <2>3. CASE i \in s.missing /\ Cardinality(Matches(s, i)) = 1
      <3>1. PICK p \in Sources : p = (CHOOSE q \in Matches(s, i) : TRUE)
                                /\ p # None /\ <<p, i>> \in held
        BY <1>6, <2>3
      <3>2. k.src[i] = [path |-> p, state |-> "available"]
        BY <1>3, <1>10, <2>3, <3>1
      <3> QED
        BY <2>2, <3>1, <3>2 DEF SourceTrue
    <2>4. CASE ~(i \in s.missing /\ Cardinality(Matches(s, i)) = 1)
      BY <1>3, <1>10, <2>1, <2>2, <2>4 DEF SourceTrue
    <2> QED
      BY <2>3, <2>4
  <1>12. JobTrue(k)
    BY <1>2, <1>9, <1>10, <1>11 DEF JobTrue
  <1> QED
    BY <1>5, <1>8, <1>12, CheckGoes
-----------------------------------------------------------------------------
(* The targets *)

\* What is found out about one target
LEMMA VerdictGoes ==
    ASSUME ReconcileInv, NEW s \in Job, JobTrue(s), s.pc \in {"target", "hash", "root"},
           NEW i \in s.todo, s.at \in {None, i}, NEW v \in Found,
           v = "none" <=> s.rows[i].target[s.kind] = None,
           v = "missing" => TargetGone(s.rows[i].target[s.kind])
    PROVE  Verdict(s, i, v) \in Job /\ JobTrue(Verdict(s, i, v))
  <1>1. i \in Item /\ s.kind \in Output /\ s.tgt \in [Item -> Links] /\ i # None
    BY Places DEF Job, ReconcileInv, ReconcileType
  <1>2. PICK t : t = [s.tgt EXCEPT ![i].found[s.kind] = v]
    OBVIOUS
  <1>3. t \in [Item -> Links]
    BY <1>1, <1>2 DEF Links
  <1>4. \E pc \in {"target", "store", "archive", "relink", "next"}, kind \in Output :
           /\ Verdict(s, i, v) = [s EXCEPT !.tgt = t, !.pc = pc, !.at = i, !.kind = kind]
           /\ pc = "store" => ~s.whole
           /\ pc \in {"archive", "relink", "next"} => s.whole
    <2>1. [s EXCEPT !.tgt[i].found[s.kind] = v] = [s EXCEPT !.tgt = t]
      BY <1>1, <1>2 DEF Job
    <2>2. CASE s.kind = "main"
      <3>1. Verdict(s, i, v) = [s EXCEPT !.tgt = t, !.pc = "target", !.at = i, !.kind = "avatar"]
        BY <2>1, <2>2 DEF Verdict, Job
      <3> QED
        BY <3>1 DEF Output
    <2>3. CASE s.kind # "main"
      <3>1. PICK done : done = [s EXCEPT !.tgt[i].found[s.kind] = v]
        OBVIOUS
      <3>2. PICK pc : pc = IF ~s.whole THEN "store"
                           ELSE IF \E k \in Output : done.tgt[i].found[k] = "missing"
                           THEN IF s.scanned THEN "relink" ELSE "archive"
                           ELSE "next"
        OBVIOUS
      <3>3. Verdict(s, i, v) = [done EXCEPT !.kind = "main", !.at = i, !.pc = pc]
        BY <2>3, <3>1, <3>2 DEF Verdict
      <3>4. Verdict(s, i, v) = [s EXCEPT !.tgt = t, !.pc = pc, !.at = i, !.kind = "main"]
        BY <2>1, <3>1, <3>3 DEF Job
      <3>5. /\ pc \in {"store", "archive", "relink", "next"}
            /\ pc = "store" => ~s.whole
            /\ pc \in {"archive", "relink", "next"} => s.whole
        BY <3>2
      <3> QED
        BY <3>4, <3>5 DEF Output
    <2> QED
      BY <2>2, <2>3
  <1>5. PICK pc \in {"target", "store", "archive", "relink", "next"}, kind \in Output :
           /\ Verdict(s, i, v) = [s EXCEPT !.tgt = t, !.pc = pc, !.at = i, !.kind = kind]
           /\ pc = "store" => ~s.whole
           /\ pc \in {"archive", "relink", "next"} => s.whole
    BY <1>4
  <1>6. PICK k : k = Verdict(s, i, v)
    OBVIOUS
  <1>7. k \in Job
    BY <1>1, <1>3, <1>5, <1>6 DEF Job
  <1>8. /\ k.rows = s.rows /\ k.src = s.src /\ k.whole = s.whole /\ k.todo = s.todo
        /\ k.tgt = t /\ k.pc = pc /\ k.at = i
    BY <1>5, <1>6 DEF Job
  <1>9. Placed(k)
    BY <1>1, <1>5, <1>6 DEF Placed, JobTrue, Job
  <1>10. ASSUME NEW j \in Item
         PROVE  TargetTrue(k, j)
    <2>1. TargetTrue(s, j)
      BY DEF JobTrue
    <2>2. t[j].target = s.tgt[j].target
      BY <1>1, <1>2 DEF Links
    <2>3. CASE j = i
      <3>1. s.tgt[i].target = s.rows[i].target
        BY <2>1, <2>3 DEF TargetTrue
      <3>2. t[i].found = [s.tgt[i].found EXCEPT ![s.kind] = v]
        BY <1>1, <1>2 DEF Links
      <3>3. Linked(i, t[i])
        BY <1>1, <2>1, <2>2, <2>3, <3>1, <3>2 DEF TargetTrue, Linked, Links
      <3>4. Lost(t[i])
        BY <1>1, <2>1, <2>2, <2>3, <3>1, <3>2 DEF TargetTrue, Lost, Links
      <3> QED
        BY <1>8, <2>1, <2>2, <2>3, <3>1, <3>3, <3>4 DEF TargetTrue
    <2>4. CASE j # i
      <3>1. t[j] = s.tgt[j]
        BY <1>2, <2>4, <1>1
      <3>2. s.tgt[j].target # s.rows[j].target => s.whole /\ j \notin s.todo
        BY <2>1 DEF TargetTrue
      <3> QED
        BY <1>5, <1>8, <2>1, <3>1, <3>2 DEF TargetTrue
    <2> QED
      BY <2>3, <2>4
  <1>11. JobTrue(k)
    BY <1>8, <1>9, <1>10 DEF JobTrue, SourceTrue
  <1> QED
    BY <1>6, <1>7, <1>11

\* A check that goes on and changes nothing it knows
LEMMA Onwards ==
    ASSUME NEW s \in Job, JobTrue(s), NEW k, k \in Job, Placed(k),
           k.rows = s.rows, k.src = s.src, k.tgt = s.tgt, k.whole = s.whole, k.todo = s.todo,
           k.pc \notin {"scan", "source", "store"},
           s.at \in s.todo /\ s.pc \in {"relink", "next"}
              => k.at = s.at /\ k.pc \in {"relink", "next"}
    PROVE  JobTrue(k)
  <1>1. ASSUME NEW i \in Item
        PROVE  TargetTrue(k, i)
    BY DEF JobTrue, TargetTrue
  <1> QED
    BY <1>1 DEF JobTrue, SourceTrue

LEMMA CheckTargets ==
    ASSUME ReconcileInv, Fixed, NEW c \in Check, NEW i \in Item, ChecksTarget(c, i)
    PROVE  ReconcileInv'
  <1>1. PICK s : s = chk[c]
    OBVIOUS
  <1>2. /\ s \in Job /\ JobTrue(s) /\ s.pc = "target" /\ i \in s.todo /\ s.at \in {None, i}
    BY <1>1, JobAt DEF ChecksTarget
  <1>3. UNCHANGED <<disks, tables>>
    BY DEF ChecksTarget, Reads
  <1>4. PICK p : p = s.rows[i].target[s.kind]
    OBVIOUS
  <1>5. CASE p = None
    <2>1. Goes(c, Verdict(s, i, "none"))
      BY <1>1, <1>4, <1>5 DEF ChecksTarget
    <2>2. Verdict(s, i, "none") \in Job /\ JobTrue(Verdict(s, i, "none"))
      BY <1>2, <1>4, <1>5, VerdictGoes DEF Found
    <2> QED
      BY <1>3, <2>1, <2>2, CheckGoes
  <1>6. CASE p # None
    <2>1. PICK look \in Looks(p) :
              Goes(c, CASE look = "file" -> [s EXCEPT !.pc = "hash", !.at = i]
                      [] look = "missing" -> [s EXCEPT !.pc = "root", !.at = i]
                      [] OTHER -> Verdict(s, i, "unavailable"))
      BY <1>1, <1>4, <1>6 DEF ChecksTarget
    <2>2. p \in Path
      <3>1. s.rows[i] \in Row /\ s.kind \in Output
        BY <1>2 DEF Job
      <3>2. p \in Of(i, s.kind)
        BY <1>2, <1>4, <1>6, <3>1 DEF JobTrue, RowTrue, Linked
      <3> QED
        BY <3>2, Places DEF ReconcileInv, ReconcileType
    <2>3. CASE look = "file"
      <3>1. PICK k : k = [s EXCEPT !.pc = "hash", !.at = i]
        OBVIOUS
      <3>2. k \in Job /\ Placed(k)
        BY <1>2, <1>4, <1>6, <3>1 DEF Job, JobTrue, Placed
      <3>3. JobTrue(k)
        BY <1>2, <3>1, <3>2, Onwards DEF Job
      <3> QED
        BY <1>3, <2>1, <2>3, <3>1, <3>2, <3>3, CheckGoes
    <2>4. CASE look = "missing"
      <3>1. PICK k : k = [s EXCEPT !.pc = "root", !.at = i]
        OBVIOUS
      <3>2. RootOf[p] \in up => p \in gone
        BY <2>1, <2>2, <2>4 DEF Looks, ReconcileInv, Witnessed
      <3>3. k \in Job /\ Placed(k)
        BY <1>2, <1>4, <1>6, <3>1, <3>2 DEF Job, JobTrue, Placed
      <3>4. JobTrue(k)
        BY <1>2, <3>1, <3>3, Onwards DEF Job
      <3> QED
        BY <1>3, <2>1, <2>4, <3>1, <3>3, <3>4, CheckGoes
    <2>5. CASE look \notin {"file", "missing"}
      <3>1. Goes(c, Verdict(s, i, "unavailable"))
        BY <2>1, <2>5
      <3>2. Verdict(s, i, "unavailable") \in Job /\ JobTrue(Verdict(s, i, "unavailable"))
        BY <1>2, <1>4, <1>6, VerdictGoes DEF Found
      <3> QED
        BY <1>3, <3>1, <3>2, CheckGoes
    <2> QED
      BY <2>3, <2>4, <2>5
  <1> QED
    BY <1>5, <1>6

LEMMA CheckRoots ==
    ASSUME ReconcileInv, Fixed, NEW c \in Check, ChecksRoot(c)
    PROVE  ReconcileInv'
  <1>1. PICK s : s = chk[c]
    OBVIOUS
  <1>2. s \in Job /\ JobTrue(s) /\ s.pc = "root"
    BY <1>1, JobAt DEF ChecksRoot
  <1>3. PICK i \in s.todo : i = s.at /\ s.rows[i].target[s.kind] # None
    BY <1>2 DEF JobTrue, Placed
  <1>4. PICK v \in Found : v = IF s.dest \in up THEN "missing" ELSE "unavailable"
    BY DEF Found
  <1>5. v = "missing" => TargetGone(s.rows[i].target[s.kind])
    BY <1>2, <1>3, <1>4 DEF JobTrue, Placed, TargetGone
  <1>6. Verdict(s, i, v) \in Job /\ JobTrue(Verdict(s, i, v))
    BY <1>2, <1>3, <1>4, <1>5, VerdictGoes
  <1>7. Goes(c, Verdict(s, i, v)) /\ UNCHANGED <<disks, tables>>
    BY SMTT(30), <1>1, <1>3, <1>4 DEF ChecksRoot, Reads
  <1> QED
    BY <1>6, <1>7, CheckGoes

LEMMA CheckPrints ==
    ASSUME ReconcileInv, Fixed, NEW c \in Check, ChecksPrint(c)
    PROVE  ReconcileInv'
  <1>1. PICK s : s = chk[c]
    OBVIOUS
  <1>2. s \in Job /\ JobTrue(s) /\ s.pc = "hash"
    BY <1>1, JobAt DEF ChecksPrint
  <1>3. PICK i \in s.todo : i = s.at /\ s.rows[i].target[s.kind] # None
    BY <1>2 DEF JobTrue, Placed
  <1>4. PICK p : p = s.rows[i].target[s.kind]
    OBVIOUS
  <1>5. PICK v \in Found : v = IF prints[i][p] \in {None, HashOf(p)} THEN "available"
                               ELSE "unavailable"
    BY DEF Found
  <1>6. Verdict(s, i, v) \in Job /\ JobTrue(Verdict(s, i, v))
    BY SMTT(30), <1>2, <1>3, <1>5, VerdictGoes
  <1>7. Goes(c, Verdict(s, i, v)) /\ UNCHANGED <<disks, tables>>
    BY <1>1, <1>3, <1>4, <1>5 DEF ChecksPrint, Reads
  <1> QED
    BY <1>6, <1>7, CheckGoes

LEMMA ArchiveScans ==
    ASSUME ReconcileInv, Fixed, NEW c \in Check, NEW r \in Root, ScansArchive(c, r)
    PROVE  ReconcileInv'
  <1>1. PICK s : s = chk[c]
    OBVIOUS
  <1>2. s \in Job /\ JobTrue(s) /\ s.pc = "archive"
    BY <1>1, JobAt DEF ScansArchive
  <1>3. PICK arch \in SUBSET Targets : 
              arch = {p \in Targets : r \in up /\ RootOf[p] = r /\ file[p] # None}
    OBVIOUS
  <1>4. PICK k : k = [s EXCEPT !.pc = "relink", !.scanned = TRUE, !.arch = arch]
    OBVIOUS
  <1>5. k \in Job /\ Placed(k)
    BY <1>2, <1>4 DEF Job, JobTrue, Placed
  <1>6. JobTrue(k)
    BY <1>2, <1>4, <1>5, Onwards DEF Job
  <1>7. Goes(c, k) /\ UNCHANGED <<disks, tables>>
    BY <1>1, <1>3, <1>4 DEF ScansArchive, Reads
  <1> QED
    BY <1>5, <1>6, <1>7, CheckGoes

LEMMA RowDone ==
    ASSUME ReconcileInv, Fixed, NEW c \in Check, NextRow(c)
    PROVE  ReconcileInv'
  <1>1. PICK s : s = chk[c]
    OBVIOUS
  <1>2. s \in Job /\ JobTrue(s) /\ s.pc = "next"
    BY <1>1, JobAt DEF NextRow
  <1>3. PICK k : k = [s EXCEPT !.todo = @ \ {s.at}, !.at = None, !.pc = "target"]
    OBVIOUS
  <1>4. k \in Job /\ Placed(k)
    BY <1>2, <1>3 DEF Job, JobTrue, Placed
  <1>5. /\ k.rows = s.rows /\ k.src = s.src /\ k.tgt = s.tgt /\ k.whole = s.whole
        /\ k.todo = s.todo \ {s.at} /\ k.pc = "target"
    BY <1>2, <1>3 DEF Job
  <1>6. ASSUME NEW i \in Item
        PROVE  TargetTrue(k, i)
    BY <1>2, <1>5 DEF JobTrue, TargetTrue
  <1>7. JobTrue(k)
    BY <1>2, <1>4, <1>5, <1>6 DEF JobTrue, SourceTrue
  <1>8. Goes(c, k) /\ UNCHANGED <<disks, tables>>
    BY <1>1, <1>3 DEF NextRow, Reads
  <1> QED
    BY <1>4, <1>7, <1>8, CheckGoes

\* The files a target may be bound to, and whether it is
Cands(s) == {p \in s.arch : TokenOf[p] = <<s.at, s.kind>>}
Binds(s) == /\ s.tgt[s.at].found[s.kind] = "missing" /\ Cardinality(Cands(s)) = 1
            /\ \A p \in Cands(s) : Proves(s, s.at, s.kind, p)

LEMMA CheckRelinks ==
    ASSUME ReconcileInv, Fixed, NEW c \in Check, Relinks(c)
    PROVE  ReconcileInv'
  <1>1. PICK s : s = chk[c]
    OBVIOUS
  <1>2. s \in Job /\ JobTrue(s) /\ s.pc = "relink"
    BY <1>1, JobAt DEF Relinks
  <1>3. UNCHANGED <<disks, tables>>
    BY DEF Relinks, Reads
  <1>4. PICK n : n = IF s.kind = "main" THEN [s EXCEPT !.kind = "avatar"]
                     ELSE [s EXCEPT !.kind = "main", !.pc = "next"]
    OBVIOUS
  <1>5. n \in Job /\ Placed(n) /\ n.pc \in {"relink", "next"} /\ n.at = s.at
        /\ n.rows = s.rows /\ n.src = s.src /\ n.tgt = s.tgt /\ n.whole = s.whole
        /\ n.todo = s.todo
    BY <1>2, <1>4 DEF Job, JobTrue, Placed, Output
  <1>6. JobTrue(n)
    BY <1>2, <1>5, Onwards
  <1>7. PICK i \in s.todo : i = s.at
    BY <1>2 DEF JobTrue, Placed
  <1>8. PICK o \in Output : o = s.kind
    BY <1>2 DEF Job
  <1>9. CASE ~Binds(s)
    <2>1. Goes(c, n)
      BY <1>1, <1>4, <1>9 DEF Relinks, Binds, Cands
    <2> QED
      BY <1>3, <1>5, <1>6, <2>1, CheckGoes
  <1>10. CASE Binds(s)
    <2>1. i \in Item /\ s.tgt[i] \in Links /\ TargetTrue(s, i) /\ RowTrue(i, s.rows[i])
          /\ Earlier(i, s.rows[i])
      BY <1>2, <1>7 DEF Job, JobTrue
    <2>2. PICK p : p \in Cands(s) /\ p = CHOOSE q \in Cands(s) : TRUE
      <3>1. Cands(s) # {}
        BY <1>10, FS_EmptySet DEF Binds
      <3> QED
        BY <3>1
    <2>3. p \in Of(i, o) /\ p \in Targets /\ p \in Path /\ p # None
      <3>1. p \in Targets /\ TokenOf[p] = <<i, o>>
        BY <1>2, <1>7, <1>8, <2>2 DEF Cands, Job
      <3> QED
        BY <3>1, Places DEF Of, ReconcileInv, ReconcileType
    <2>4. PICK l : l = [target |-> [s.tgt[i].target EXCEPT ![o] = p],
                        found |-> [s.tgt[i].found EXCEPT ![o] = "available"]]
      OBVIOUS
    <2>5. l \in Links
      BY <2>1, <2>3, <2>4 DEF Links, Found
    <2>6. PICK k : k = [n EXCEPT !.tgt = [s.tgt EXCEPT ![i] = l]]
      OBVIOUS
    <2>7. Goes(c, k)
      <3>1. p = CHOOSE q \in {d \in s.arch : TokenOf[d] = <<s.at, s.kind>>} : TRUE
        BY <2>2 DEF Cands
      <3>2. /\ s.tgt[s.at].found[s.kind] = "missing"
            /\ Cardinality({d \in s.arch : TokenOf[d] = <<s.at, s.kind>>}) = 1
            /\ \A d \in {d \in s.arch : TokenOf[d] = <<s.at, s.kind>>} :
                  Proves(s, s.at, s.kind, d)
        BY SMTT(30), <1>10 DEF Cands, Binds
      <3>3. Goes(c, [n EXCEPT !.tgt[s.at] =
                        [target |-> [@.target EXCEPT ![s.kind] = p],
                         found |-> [@.found EXCEPT ![s.kind] = "available"]]])
        BY <1>1, <1>4, <3>1, <3>2 DEF Relinks
      <3> QED
        BY <1>5, <1>7, <1>8, <2>4, <2>6, <3>3 DEF Job
    <2>8. k \in Job /\ Placed(k)
      BY <1>2, <1>5, <2>1, <2>5, <2>6 DEF Job, Placed
    <2>9. /\ k.rows = s.rows /\ k.src = s.src /\ k.whole = s.whole /\ k.todo = s.todo
          /\ k.at = s.at /\ k.pc \in {"relink", "next"} /\ k.tgt = [s.tgt EXCEPT ![i] = l]
      BY <1>5, <2>6 DEF Job
    <2>10. s.tgt[i].target[o] # None /\ s.rows[i].target[o] # None
      <3>1. s.tgt[i].found[o] # "none"
        BY <1>7, <1>8, <1>10 DEF Binds
      <3> QED
        BY <2>1, <3>1 DEF TargetTrue, Linked
    <2>11. ASSUME OneName, OneCheck, ~s.rows[i].legacy, s.rows[i].gen = row[i].gen
           PROVE  \E m \in Outputs(i, s.rows[i].gen) : <<p, m>> \in held
      <3>1. row[i].target = s.rows[i].target /\ ~row[i].legacy
        BY <2>1, <2>11 DEF Earlier
      <3>2. PICK m \in Outputs(i, s.rows[i].gen) : m = prints[i][s.rows[i].target[o]]
        BY <2>1, <2>10, <2>11, <3>1 DEF ReconcileInv, Printed
      <3>3. m # None
        <4>1. s.rows[i] \in Row /\ i \in Captures
          BY <1>2, <2>1, Places DEF ReconcileInv, ReconcileType, Job
        <4>2. s.rows[i].gen \in Nat
          BY SMTT(30), <4>1 DEF Row
        <4> QED
          BY <3>2, <4>1, <4>2, Outcome
      <3>4. HashOf(p) = m
        BY <1>7, <1>8, <1>10, <2>2, <3>2, <3>3 DEF Binds, Proves
      <3>5. m = file[p]
        BY <3>3, <3>4 DEF HashOf
      <3> QED
        BY <2>3, <3>2, <3>5 DEF ReconcileInv, Witnessed
    <2>12. ASSUME NEW j \in Item
           PROVE  TargetTrue(k, j)
      <3>1. TargetTrue(s, j)
        BY <1>2 DEF JobTrue
      <3>2. CASE j = i
        <4>1. k.tgt[i] = l /\ l.target = [s.tgt[i].target EXCEPT ![o] = p]
              /\ l.found = [s.tgt[i].found EXCEPT ![o] = "available"]
          BY <1>2, <2>1, <2>4, <2>9 DEF Job
        <4>2. Linked(i, l)
          BY <2>1, <2>3, <4>1 DEF TargetTrue, Linked, Links
        <4>3. \A e \in Output : l.target[e] = None <=> s.rows[i].target[e] = None
          BY <2>1, <2>3, <2>10, <4>1 DEF TargetTrue, Links
        <4>4. Lost(l)
          BY <2>1, <4>1 DEF TargetTrue, Lost, Links
        <4>5. ASSUME OneName, OneCheck, ~s.rows[i].legacy, s.rows[i].gen = row[i].gen
              PROVE  Held(i, l.target, s.rows[i].gen)
          <5>1. Held(i, s.tgt[i].target, s.rows[i].gen)
            BY <2>1, <4>5 DEF TargetTrue
          <5>2. \E m \in Outputs(i, s.rows[i].gen) : <<p, m>> \in held
            BY <2>11, <4>5
          <5>3. ASSUME NEW e \in Output, l.target[e] # None
                PROVE  \E m \in Outputs(i, s.rows[i].gen) : <<l.target[e], m>> \in held
            <6>1. l.target[e] = IF e = o THEN p ELSE s.tgt[i].target[e]
              BY <2>1, <4>1 DEF Links
            <6>2. CASE e = o
              BY <5>2, <6>1, <6>2
            <6>3. CASE e # o
              BY <5>1, <5>3, <6>1, <6>3 DEF Held
            <6> QED
              BY <6>2, <6>3
          <5> QED
            BY <5>3 DEF Held
        <4> QED
          <5>1. s.whole
            BY <1>2 DEF JobTrue, Placed
          <5>2. TargetTrue(k, i)
            <6>1. OneName /\ OneCheck /\ ~k.rows[i].legacy /\ k.rows[i].gen = row[i].gen
                  => Held(i, k.tgt[i].target, k.rows[i].gen)
              BY <2>9, <4>1, <4>5
            <6>2. k.tgt[i].target # k.rows[i].target
                  => /\ k.whole /\ k.pc \notin {"scan", "source", "store"}
                     /\ i \in k.todo => k.at = i /\ k.pc \in {"relink", "next"}
              BY <1>7, <2>9, <5>1
            <6>3. /\ Linked(i, k.tgt[i]) /\ Lost(k.tgt[i])
                  /\ \A e \in Output : k.tgt[i].target[e] = None <=> k.rows[i].target[e] = None
              BY <2>9, <4>1, <4>2, <4>3, <4>4
            <6> QED
              BY <6>1, <6>2, <6>3 DEF TargetTrue
          <5> QED
            BY <3>2, <5>2
      <3>3. CASE j # i
        <4>1. k.tgt[j] = s.tgt[j]
          BY <2>9, <3>3, <1>2 DEF Job
        <4> QED
          BY <1>2, <1>7, <2>9, <3>1, <3>3, <4>1 DEF TargetTrue
      <3> QED
        BY <3>2, <3>3
    <2>13. JobTrue(k)
      BY <1>2, <2>8, <2>9, <2>12 DEF JobTrue, SourceTrue
    <2> QED
      BY <1>3, <2>7, <2>8, <2>13, CheckGoes
  <1> QED
    BY SMTT(30), <1>9, <1>10
-----------------------------------------------------------------------------
(* What is stored *)

\* One fingerprint goes with its target
Carried(f, a, b) ==
    IF a = None \/ b = None \/ a = b THEN f
    ELSE [f EXCEPT ![b] = IF @ = None THEN f[a] ELSE @, ![a] = None]

Alike(S) == \A d, e \in S : TokenOf[d] = TokenOf[e]
Beyond(S, f, g) == \A d \in Targets \ S : g[d] = f[d]
Prints(f) == f \in [Targets -> Content]
OnePrint(f) ==
    \A d, e \in Targets : f[d] # None /\ f[e] # None /\ TokenOf[d] = TokenOf[e] => d = e

LEMMA CarriedRight ==
    ASSUME NEW f, Prints(f), NEW S, S \subseteq Targets, None \notin Targets,
           Alike(S),
           NEW a, NEW b, a \in S \cup {None}, b \in S \cup {None},
           NEW g, g = Carried(f, a, b)
    PROVE  /\ Prints(g)
           /\ Beyond(S, f, g)
           /\ OnePrint(f) => OnePrint(g)
           /\ OnePrint(f) /\ b # None /\ a # None /\ f[a] # None => g[b] = f[a]
  <1>1. CASE a = None \/ b = None \/ a = b
    BY <1>1 DEF Carried, Beyond
  <1>2. CASE ~(a = None \/ b = None \/ a = b)
    <2>1. a \in Targets /\ b \in Targets /\ a \in S /\ b \in S /\ a # b
      BY <1>2
    <2>3. g = [d \in Targets |-> IF d = a THEN None
                                 ELSE IF d = b THEN IF f[b] = None THEN f[a] ELSE f[b]
                                 ELSE f[d]]
      BY <1>2, <2>1 DEF Carried, Prints
    <2>4. Prints(g)
      BY <2>1, <2>3 DEF Content, Prints
    <2>5. Beyond(S, f, g)
      BY <2>1, <2>3 DEF Beyond
    <2>6. TokenOf[a] = TokenOf[b]
      BY <2>1 DEF Alike
    <2>7. ASSUME OnePrint(f)
          PROVE  OnePrint(g)
      <3>1. SUFFICES ASSUME NEW d \in Targets, NEW e \in Targets, g[d] # None, g[e] # None,
                            TokenOf[d] = TokenOf[e]
                     PROVE  d = e
        BY DEF OnePrint
      <3>2. d # a /\ e # a
        BY <2>3, <3>1
      <3>3. d = b \/ (d # b /\ f[d] # None /\ g[d] = f[d])
        BY <2>3, <3>1, <3>2
      <3>4. e = b \/ (e # b /\ f[e] # None /\ g[e] = f[e])
        BY <2>3, <3>1, <3>2
      <3>5. f[a] # None \/ f[b] # None \/ g[b] = None
        BY <2>1, <2>3
      <3> QED
        BY <2>1, <2>6, <2>7, <3>1, <3>2, <3>3, <3>4, <3>5 DEF OnePrint
    <2>8. OnePrint(f) /\ f[a] # None => g[b] = f[a]
      BY <2>1, <2>3, <2>6 DEF OnePrint
    <2> QED
      BY <2>4, <2>5, <2>7, <2>8
  <1> QED
    BY <1>1, <1>2

LEMMA MigratedRight ==
    ASSUME budget \in Budget, NEW f, Prints(f), NEW i, NEW old, NEW new,
           \A k \in Output : old[k] # None => old[k] \in Of(i, k),
           \A k \in Output : new[k] # None => new[k] \in Of(i, k)
    PROVE  /\ Prints(Migrated(f, old, new))
           /\ OnePrint(f) => OnePrint(Migrated(f, old, new))
           /\ \A k \in Output : OnePrint(f) /\ new[k] # None /\ old[k] # None /\ f[old[k]] # None
                 => Migrated(f, old, new)[new[k]] = f[old[k]]
  <1>1. PICK g : g = Carried(f, old["main"], new["main"])
    OBVIOUS
  <1>2. PICK h : h = Carried(g, old["avatar"], new["avatar"])
    OBVIOUS
  <1>3. h = Migrated(f, old, new)
    BY <1>1, <1>2 DEF Migrated, Carried
  <1>4. /\ old["main"] \in Of(i, "main") \cup {None} /\ new["main"] \in Of(i, "main") \cup {None}
        /\ old["avatar"] \in Of(i, "avatar") \cup {None}
        /\ new["avatar"] \in Of(i, "avatar") \cup {None}
    BY DEF Output
  <1>5. /\ Of(i, "main") \subseteq Targets \ Of(i, "avatar")
        /\ Of(i, "avatar") \subseteq Targets \ Of(i, "main")
        /\ Of(i, "main") \subseteq Targets /\ Of(i, "avatar") \subseteq Targets
        /\ Alike(Of(i, "main")) /\ Alike(Of(i, "avatar"))
        /\ None \notin Targets
    <2>1. Of(i, "main") \cap Of(i, "avatar") = {}
      BY DEF Of
    <2> QED
      BY <2>1, Places DEF Of, Alike
  <1>6. /\ Prints(g) /\ (OnePrint(f) => OnePrint(g))
        /\ Beyond(Of(i, "main"), f, g)
        /\ OnePrint(f) /\ new["main"] # None /\ old["main"] # None /\ f[old["main"]] # None
              => g[new["main"]] = f[old["main"]]
    BY <1>4, <1>5, <1>1, CarriedRight
  <1>7. /\ Prints(h) /\ (OnePrint(g) => OnePrint(h))
        /\ Beyond(Of(i, "avatar"), g, h)
        /\ OnePrint(g) /\ new["avatar"] # None /\ old["avatar"] # None /\ g[old["avatar"]] # None
              => h[new["avatar"]] = g[old["avatar"]]
    BY <1>6, <1>4, <1>5, <1>2, CarriedRight
  <1>8. OnePrint(f) /\ new["main"] # None /\ old["main"] # None /\ f[old["main"]] # None
           => h[new["main"]] = f[old["main"]]
    BY <1>4, <1>6, <1>7, <1>5 DEF Beyond
  <1>9. OnePrint(f) /\ new["avatar"] # None /\ old["avatar"] # None /\ f[old["avatar"]] # None
           => h[new["avatar"]] = f[old["avatar"]]
    BY <1>4, <1>6, <1>7, <1>5 DEF Beyond
  <1> QED
    BY <1>3, <1>6, <1>7, <1>8, <1>9 DEF Output

\* What a check stores about a row, and when
SourceSaved(s, i) == s.src[i] # None /\ row[i].src = s.rows[i].src
TargetSaved(s, i) == ~s.rows[i].busy /\ Unchanged(s, i)
Carries(s, i) == TargetSaved(s, i) /\ s.tgt[i].target # s.rows[i].target
RowSaved(s, i) ==
    [row[i] EXCEPT
       !.src = IF SourceSaved(s, i) /\ s.src[i].path # None THEN s.src[i].path ELSE @,
       !.state = IF SourceSaved(s, i) THEN s.src[i].state ELSE @,
       !.target = IF TargetSaved(s, i) THEN s.tgt[i].target ELSE @,
       !.found = IF TargetSaved(s, i) THEN s.tgt[i].found ELSE @]

LEMMA RowSavedRight ==
    ASSUME ReconcileInv, NEW s \in Job, JobTrue(s), NEW i \in Item, NEW r, r = RowSaved(s, i)
    PROVE  r \in Row /\ RowTrue(i, r)
  <1>1. row[i] \in Row /\ RowTrue(i, row[i]) /\ TargetTrue(s, i) /\ SourceTrue(s, i)
        /\ Earlier(i, s.rows[i])
    BY DEF ReconcileInv, ReconcileType, JobTrue
  <1>2. s.src[i] \in Verdicts \cup {None} /\ s.tgt[i] \in Links
    BY DEF Job
  <1>3. /\ r.src = IF SourceSaved(s, i) /\ s.src[i].path # None THEN s.src[i].path ELSE row[i].src
        /\ r.state = IF SourceSaved(s, i) THEN s.src[i].state ELSE row[i].state
        /\ r.target = IF TargetSaved(s, i) THEN s.tgt[i].target ELSE row[i].target
        /\ r.found = IF TargetSaved(s, i) THEN s.tgt[i].found ELSE row[i].found
        /\ r.gen = row[i].gen /\ r.last = row[i].last /\ r.legacy = row[i].legacy
    BY <1>1 DEF RowSaved, Row
  <1>4. r \in Row
    <2>1. /\ r.src \in Sources /\ r.state \in State
          /\ r.target \in [Output -> Path \cup {None}] /\ r.found \in [Output -> Found]
      <3>1. SourceSaved(s, i) => s.src[i] \in Verdicts
        BY <1>2 DEF SourceSaved
      <3>2. row[i].src \in Sources /\ row[i].state \in State
            /\ row[i].target \in [Output -> Path \cup {None}] /\ row[i].found \in [Output -> Found]
        BY <1>1 DEF Row, State, Found
      <3>3. s.tgt[i].target \in [Output -> Path \cup {None}] /\ s.tgt[i].found \in [Output -> Found]
        BY <1>2 DEF Links
      <3>4. r.src \in Sources
        BY <1>3, <3>1, <3>2 DEF Verdicts
      <3>5. r.state \in State
        BY <1>3, <3>1, <3>2 DEF Verdicts
      <3> QED
        BY <1>3, <3>2, <3>3, <3>4, <3>5
    <2>2. r = [row[i] EXCEPT !.src = r.src, !.state = r.state, !.target = r.target,
                             !.found = r.found]
      BY <1>1, <1>3 DEF RowSaved, Row
    <2> QED
      BY <1>1, <2>1, <2>2 DEF Row, State, Found
  <1>5. /\ r.state = "available" => <<r.src, i>> \in held
        /\ r.state = "missing" => SourceGone(r.src)
    <2>1. CASE SourceSaved(s, i)
      <3>1. s.src[i] # None /\ s.rows[i].src = row[i].src
        BY <2>1 DEF SourceSaved
      <3>2. CASE s.src[i].path # None
        BY <1>1, <1>3, <2>1, <3>1, <3>2 DEF SourceTrue
      <3>3. CASE s.src[i].path = None
        BY <1>1, <1>3, <2>1, <3>1, <3>3 DEF SourceTrue
      <3> QED
        BY <3>2, <3>3
    <2>2. CASE ~SourceSaved(s, i)
      BY <1>1, <1>3, <2>2 DEF RowTrue
    <2> QED
      BY <2>1, <2>2
  <1>6. /\ Linked(i, r)
        /\ r.target["main"] = None => r.target["avatar"] = None
        /\ r.gen = 0 <=> r.target["main"] = None
        /\ Lost(r)
        /\ OneName /\ OneCheck /\ ~r.legacy => Held(i, r.target, r.gen)
    <2>1. CASE TargetSaved(s, i)
      <3>1. /\ r.target = s.tgt[i].target /\ r.found = s.tgt[i].found
            /\ row[i].target = s.rows[i].target /\ row[i].gen = s.rows[i].gen
            /\ r.gen = s.rows[i].gen /\ s.rows[i].legacy = row[i].legacy
        BY <1>1, <1>3, <2>1 DEF TargetSaved, Unchanged, Earlier
      <3>2. Linked(i, r)
        BY <1>1, <3>1 DEF TargetTrue, Linked
      <3>3. /\ r.target["main"] = None => r.target["avatar"] = None
            /\ r.gen = 0 <=> r.target["main"] = None
        BY <1>1, <1>3, <3>1 DEF TargetTrue, RowTrue, Output
      <3>4. Lost(r)
        BY <1>1, <3>1 DEF TargetTrue, Lost
      <3>5. OneName /\ OneCheck /\ ~r.legacy => Held(i, r.target, r.gen)
        <4>1. r.legacy => s.rows[i].legacy
          BY <1>3, <3>1
        <4>2. s.rows[i].legacy => r.legacy
          BY <1>3, <3>1
        <4> QED
          BY <1>1, <1>3, <3>1, <4>1, <4>2 DEF TargetTrue
      <3> QED
        BY <3>2, <3>3, <3>4, <3>5
    <2>2. CASE ~TargetSaved(s, i)
      <3>1. r.target = row[i].target /\ r.found = row[i].found /\ r.gen = row[i].gen
            /\ (r.legacy <=> row[i].legacy)
        BY <1>3, <2>2
      <3> QED
        BY <1>1, <3>1 DEF RowTrue, Linked, Lost
    <2> QED
      BY <2>1, <2>2
  <1>7. r.gen <= r.last /\ (r.legacy => r.gen # 0)
    BY <1>1, <1>3 DEF RowTrue
  <1> QED
    BY <1>4, <1>5, <1>6, <1>7 DEF RowTrue

\* The fingerprints and the asset of a row that a check stores
LEMMA PrintSaved ==
    ASSUME ReconcileInv, Fixed, NEW s \in Job, JobTrue(s), NEW i \in Item,
           row'[i] = RowSaved(s, i),
           prints'[i] = IF Carries(s, i)
                        THEN Migrated(prints[i], s.rows[i].target, s.tgt[i].target)
                        ELSE prints[i]
    PROVE  Printed(i)' /\ Prints(prints'[i])
  <1>1. row[i] \in Row /\ RowTrue(i, row[i]) /\ TargetTrue(s, i) /\ Printed(i)
        /\ Prints(prints[i]) /\ budget \in Budget
    BY DEF ReconcileInv, ReconcileType, JobTrue, Prints
  <1>2. PICK new : new = IF TargetSaved(s, i) THEN s.tgt[i].target ELSE row[i].target
    OBVIOUS
  <1>3. row'[i].target = new /\ row'[i].gen = row[i].gen /\ row'[i].legacy = row[i].legacy
    BY <1>1, <1>2 DEF RowSaved, Row
  <1>4. CASE ~Carries(s, i)
    <2>1. new = row[i].target /\ prints'[i] = prints[i]
      BY <1>2, <1>4 DEF Carries, TargetSaved, Unchanged
    <2>2. row'[i].target = row[i].target
      BY <1>3, <2>1
    <2> QED
      BY <1>1, <1>3, <2>1, <2>2, FixedSets DEF Printed
  <1>5. CASE Carries(s, i)
    <2>1. PICK f, old : f = prints[i] /\ old = row[i].target
      OBVIOUS
    <2>2. new = s.tgt[i].target /\ old = s.rows[i].target
      BY <1>2, <1>5, <2>1 DEF Carries, TargetSaved, Unchanged
    <2>3. PICK g : g = Migrated(f, old, new)
      OBVIOUS
    <2>4. prints'[i] = g
      BY <1>5, <2>1, <2>2, <2>3
    <2>5. /\ \A k \in Output : old[k] # None => old[k] \in Of(i, k)
          /\ \A k \in Output : new[k] # None => new[k] \in Of(i, k)
          /\ \A k \in Output : new[k] = None <=> old[k] = None
      BY <1>1, <2>1, <2>2 DEF RowTrue, Linked, TargetTrue
    <2>6. /\ Prints(g) /\ (OnePrint(f) => OnePrint(g))
          /\ \A k \in Output : OnePrint(f) /\ new[k] # None /\ old[k] # None /\ f[old[k]] # None
                => g[new[k]] = f[old[k]]
      <3>1. Prints(f) /\ budget \in Budget
        BY <1>1, <2>1
      <3>2. /\ Prints(Migrated(f, old, new))
            /\ OnePrint(f) => OnePrint(Migrated(f, old, new))
            /\ \A k \in Output :
                  OnePrint(f) /\ new[k] # None /\ old[k] # None /\ f[old[k]] # None
                  => Migrated(f, old, new)[new[k]] = f[old[k]]
        BY <2>5, <3>1, MigratedRight
      <3> QED
        BY <2>3, <3>2, Zenon
    <2>7. ASSUME OneName
          PROVE  /\ OnePrint(g)
                 /\ ~row[i].legacy => \A k \in Output : new[k] # None =>
                       g[new[k]] \in Outputs(i, row[i].gen)
      <3>1. OnePrint(f)
        BY <1>1, <2>1, <2>7 DEF Printed, OnePrint
      <3>2. ASSUME ~row[i].legacy, NEW k \in Output, new[k] # None
            PROVE  g[new[k]] \in Outputs(i, row[i].gen)
        <4>1. old[k] # None
          BY <2>5, <3>2
        <4>2. f[old[k]] \in Outputs(i, row[i].gen)
          BY <1>1, <2>1, <2>7, <3>2, <4>1 DEF Printed
        <4>3. f[old[k]] # None
          <5>1. i \in Captures /\ row[i].gen \in Nat
            BY <1>1, Places DEF Row
          <5> QED
            BY <4>2, <5>1, Outcome
        <4> QED
          BY <2>6, <3>1, <3>2, <4>1, <4>2, <4>3
      <3> QED
        BY <2>6, <3>1, <3>2
    <2>8. Printed(i)'
      <3>1. ASSUME OneName'
            PROVE  /\ OnePrint(prints'[i])
                   /\ ~row'[i].legacy => \A k \in Output : row'[i].target[k] # None =>
                         prints'[i][row'[i].target[k]] \in Outputs(i, row'[i].gen)
        BY <1>3, <2>4, <2>7, <3>1, FixedSets
      <3> QED
        BY <3>1, FixedSets DEF Printed, OnePrint
    <2> QED
      BY <2>4, <2>6, <2>8
  <1> QED
    BY <1>4, <1>5

LEMMA AssetSaved ==
    ASSUME ReconcileInv, Fixed, NEW s \in Job, JobTrue(s), NEW i \in Item, taken' = taken,
           row'[i] = RowSaved(s, i),
           asset'[i] = IF Carries(s, i) THEN Synced(i, s.tgt[i].target["main"]) ELSE asset[i]
    PROVE  Shown(i)' /\ asset'[i] \in Path \cup {None}
  <1>1. row[i] \in Row /\ RowTrue(i, row[i]) /\ TargetTrue(s, i) /\ Shown(i)
        /\ asset[i] \in Path \cup {None} /\ budget \in Budget
    BY DEF ReconcileInv, ReconcileType, JobTrue
  <1>2. PICK new : new = IF TargetSaved(s, i) THEN s.tgt[i].target ELSE row[i].target
    OBVIOUS
  <1>3. row'[i].target = new
    BY <1>1, <1>2 DEF RowSaved, Row
  <1>4. CASE ~Carries(s, i)
    <2>1. new = row[i].target /\ asset'[i] = asset[i]
      BY <1>2, <1>4 DEF Carries, TargetSaved, Unchanged
    <2>2. row'[i].target = row[i].target
      BY <1>3, <2>1
    <2> QED
      BY <1>1, <2>1, <2>2, FixedSets DEF Shown
  <1>5. CASE Carries(s, i)
    <2>1. new = s.tgt[i].target /\ row[i].target = s.rows[i].target
      BY <1>2, <1>5 DEF Carries, TargetSaved, Unchanged
    <2>2. PICK p : p = new["main"]
      OBVIOUS
    <2>3. asset'[i] = Synced(i, p) /\ row'[i].target["main"] = p
      BY <1>3, <1>5, <2>1, <2>2
    <2>4. /\ p = None <=> row[i].target["main"] = None
          /\ p # None => p \in Of(i, "main") /\ p \in Path
      <3>1. p # None => p \in Of(i, "main")
        BY <1>1, <2>1, <2>2 DEF TargetTrue, Linked, Output
      <3> QED
        BY <1>1, <2>1, <2>2, <3>1, Places DEF TargetTrue, Output
    <2>5. p # None => \A j \in Item \ {i} : asset[j] # p
      <3>1. ASSUME p # None, NEW j \in Item, asset[j] = p
            PROVE  j = i
        <4>1. p \in Of(j, "main")
          BY <3>1 DEF ReconcileInv, Shown
        <4> QED
          BY <1>1, <2>4, <3>1, <4>1, Places
      <3> QED
        BY <3>1
    <2>6. CASE asset[i] = None \/ p = None \/ p \in taken
      <3>1. asset'[i] = asset[i]
        BY <2>3, <2>6 DEF Synced
      <3> QED
        BY <1>1, <2>3, <2>4, <2>6, <3>1, FixedSets DEF Shown
    <2>7. CASE ~(asset[i] = None \/ p = None \/ p \in taken)
      <3>1. asset'[i] = p
        BY <2>3, <2>5, <2>7 DEF Synced
      <3> QED
        BY <2>3, <2>4, <2>7, <3>1, FixedSets DEF Shown
    <2> QED
      BY <2>6, <2>7
  <1> QED
    BY <1>4, <1>5

LEMMA CheckCommits ==
    ASSUME ReconcileInv, Fixed, NEW c \in Check, Commits(c)
    PROVE  ReconcileInv'
  <1>1. PICK s : s = chk[c]
    OBVIOUS
  <1>2. s \in Job /\ JobTrue(s) /\ s.pc = "target"
    BY <1>1, JobAt DEF Commits
  <1>3. /\ row' = [i \in Item |-> RowSaved(s, i)]
        /\ prints' = [i \in Item |-> IF Carries(s, i)
              THEN Migrated(prints[i], s.rows[i].target, s.tgt[i].target) ELSE prints[i]]
        /\ asset' = [i \in Item |-> IF Carries(s, i) THEN Synced(i, s.tgt[i].target["main"])
                                    ELSE asset[i]]
        /\ Goes(c, Idle) /\ UNCHANGED <<disks, project, taken>>
    BY <1>1 DEF Commits, RowSaved, Carries, SourceSaved, TargetSaved
  <1>4. Grown
    BY <1>3, SameProject DEF disks
  <1>5. ASSUME NEW i \in Item
        PROVE  /\ row'[i] \in Row /\ RowTrue(i, row[i])' /\ Printed(i)' /\ Shown(i)'
               /\ Prints(prints'[i]) /\ asset'[i] \in Path \cup {None}
    <2>1. PICK r : r = RowSaved(s, i)
      OBVIOUS
    <2>2. row'[i] = r
      BY <1>3, <2>1
    <2>3. r \in Row /\ RowTrue(i, r)
      BY <1>2, <2>1, RowSavedRight
    <2>4. RowTrue(i, r)'
      BY <1>4, <2>3, RowStays
    <2>5. Printed(i)' /\ Prints(prints'[i])
      BY <1>2, <1>3, <2>1, <2>2, PrintSaved
    <2>6. Shown(i)' /\ asset'[i] \in Path \cup {None}
      BY <1>2, <1>3, <2>1, <2>2, AssetSaved
    <2> QED
      BY <2>2, <2>3, <2>4, <2>5, <2>6
  <1>6. Onward \/ OneCheck
    <2>1. ASSUME ~OneCheck, NEW i \in Item
          PROVE  /\ row'[i].last >= row[i].last
                 /\ row'[i].gen = row[i].gen /\ row'[i].legacy = row[i].legacy
      <3>1. row[i] \in Row /\ row'[i] = RowSaved(s, i)
        BY <1>3 DEF ReconcileInv, ReconcileType
      <3> QED
        BY <3>1 DEF RowSaved, Row
    <2>2. row' \in [Item -> Row]
      BY <1>3, <1>5
    <2> QED
      BY <2>1, <2>2 DEF Onward
  <1>7. /\ row' \in [Item -> Row] /\ prints' \in [Item -> [Targets -> Content]]
        /\ asset' \in [Item -> Path \cup {None}]
    BY <1>3, <1>5 DEF Prints
  <1> QED
    BY <1>3, <1>5, <1>6, <1>7, CheckSaves

LEMMA CheckStores ==
    ASSUME ReconcileInv, Fixed, NEW c \in Check, Stores(c)
    PROVE  ReconcileInv'
  <1>1. PICK s : s = chk[c]
    OBVIOUS
  <1>2. s \in Job /\ JobTrue(s) /\ s.pc = "store" /\ ~s.whole
    BY <1>1, JobAt DEF Stores, JobTrue, Placed
  <1>3. PICK i \in s.todo : i = s.at
    BY <1>2 DEF JobTrue, Placed
  <1>4. i \in Item /\ row[i] \in Row /\ RowTrue(i, row[i]) /\ TargetTrue(s, i)
    BY <1>2, <1>3 DEF Job, ReconcileInv, ReconcileType, JobTrue
  <1>5. UNCHANGED <<disks, project, prints, asset, taken>>
    BY DEF Stores
  <1>6. PICK r : r = IF Unchanged(s, i) THEN [row[i] EXCEPT !.found = s.tgt[i].found] ELSE row[i]
    OBVIOUS
  <1>7. row' = [row EXCEPT ![i] = r]
    <2>1. row \in [Item -> Row]
      BY DEF ReconcileInv, ReconcileType
    <2>2. row' = IF Unchanged(s, i) THEN [row EXCEPT ![i].found = s.tgt[i].found] ELSE row
      BY <1>1, <1>3 DEF Stores
    <2> QED
      BY <1>4, <1>6, <2>1, <2>2
  <1>8. r \in Row /\ RowTrue(i, r)
    <2>1. CASE ~Unchanged(s, i)
      BY <1>4, <1>6, <2>1
    <2>2. CASE Unchanged(s, i)
      <3>1. s.tgt[i] \in Links
        BY <1>2, <1>4 DEF Job
      <3>2. s.tgt[i].target = row[i].target
        BY <1>2, <1>4, <2>2 DEF TargetTrue, Unchanged
      <3>3. r = [row[i] EXCEPT !.found = s.tgt[i].found]
        BY <1>6, <2>2
      <3>4. r \in Row
        BY <1>4, <3>1, <3>3 DEF Links, Row, Found
      <3>5. /\ r.src = row[i].src /\ r.state = row[i].state /\ r.target = row[i].target
            /\ r.gen = row[i].gen /\ r.last = row[i].last /\ r.legacy = row[i].legacy
            /\ r.found = s.tgt[i].found
        BY <1>4, <3>3 DEF Row
      <3>6. Linked(i, r) /\ Lost(r)
        BY <1>4, <3>2, <3>5 DEF TargetTrue, Linked, Lost
      <3>7. r.target["main"] = None => r.target["avatar"] = None
        BY <1>4, <3>5 DEF RowTrue
      <3>8. /\ r.gen = 0 <=> r.target["main"] = None
            /\ r.gen <= r.last
            /\ r.legacy => r.gen # 0
            /\ r.state = "available" => <<r.src, i>> \in held
            /\ r.state = "missing" => SourceGone(r.src)
        BY <1>4, <3>5 DEF RowTrue
      <3>9. OneName /\ OneCheck /\ ~r.legacy => Held(i, r.target, r.gen)
        BY <1>4, <3>5 DEF RowTrue
      <3> QED
        BY <3>4, <3>6, <3>7, <3>8, <3>9 DEF RowTrue
    <2> QED
      BY <2>1, <2>2
  <1>9. /\ r.target = row[i].target /\ r.gen = row[i].gen /\ r.last = row[i].last
        /\ r.legacy = row[i].legacy
    BY <1>4, <1>6 DEF Row
  <1>10. row' \in [Item -> Row]
    BY <1>4, <1>7, <1>8 DEF ReconcileInv, ReconcileType
  <1>11. Grown
    BY <1>5, SameProject DEF disks
  <1>12. Onward /\ \A j \in Item : RowTrue(j, row[j])' /\ Printed(j)' /\ Shown(j)'
    <2>1. RowTrue(i, r)'
      BY <1>8, <1>11, RowStays
    <2>2. row'[i] = r
      BY <1>4, <1>7 DEF ReconcileInv, ReconcileType
    <2>3. Printed(i) /\ Shown(i)
      BY <1>4 DEF ReconcileInv
    <2>4. Printed(i)' /\ Shown(i)'
      BY <1>5, <1>9, <2>2, <2>3, FixedSets DEF Printed, Shown
    <2>5. r.last >= row[i].last
      BY <1>4, <1>9 DEF Row
    <2> QED
      BY <1>4, <1>5, <1>7, <1>8, <1>9, <1>11, <2>1, <2>4, <2>5, OneRow
  <1>13. prints' \in [Item -> [Targets -> Content]] /\ asset' \in [Item -> Path \cup {None}]
    BY <1>5 DEF ReconcileInv, ReconcileType
  <1>14. CASE s.todo = {i}
    <2>1. Goes(c, Idle)
      BY <1>1, <1>3, <1>14 DEF Stores
    <2> QED
      BY <1>5, <1>10, <1>11, <1>12, <1>13, <2>1, CheckSaves
  <1>15. CASE s.todo # {i}
    <2>1. PICK k : k = [s EXCEPT !.todo = @ \ {i}, !.at = None, !.pc = "target"]
      OBVIOUS
    <2>2. Goes(c, k)
      BY <1>1, <1>3, <1>15, <2>1 DEF Stores
    <2>3. k \in Job /\ Placed(k)
      BY <1>2, <2>1 DEF Job, JobTrue, Placed
    <2>4. /\ k.rows = s.rows /\ k.src = s.src /\ k.tgt = s.tgt /\ k.whole = s.whole
          /\ k.todo = s.todo \ {i} /\ k.pc = "target"
      BY <1>2, <2>1 DEF Job
    <2>5. ASSUME NEW j \in Item
          PROVE  TargetTrue(k, j)
      BY <1>2, <2>4 DEF JobTrue, TargetTrue
    <2>6. JobTrue(k)
      BY <1>2, <2>3, <2>4, <2>5 DEF JobTrue, SourceTrue
    <2> QED
      BY <1>5, <1>10, <1>11, <1>12, <1>13, <2>2, <2>3, <2>6, CheckSaves
  <1> QED
    BY SMTT(30), <1>14, <1>15
-----------------------------------------------------------------------------
(* Files, shares and the other commands *)

LEMMA DiskGoes ==
    ASSUME ReconcileInv, Fixed, NEW f \in [Path -> Content], Disk(f), project' = project
    PROVE  Grown /\ ProjectType' /\ Witnessed' /\ file' \in [Path -> Content]
           /\ \A p \in Path : <<p, f[p]>> \in held'
  BY SameProject, FixedSets DEF Disk, Witnessed

\* The rows rest.
LEMMA RowsRest ==
    ASSUME ReconcileInv, Fixed, Grown, UNCHANGED <<row, prints, asset>>, taken \subseteq taken'
    PROVE  /\ Onward /\ prints' \in [Item -> [Targets -> Content]]
           /\ asset' \in [Item -> Path \cup {None}]
           /\ \A i \in Item : RowTrue(i, row[i])' /\ Printed(i)' /\ Shown(i)'
  <1>1. row \in [Item -> Row]
    BY DEF ReconcileInv, ReconcileType
  <1>2. Onward
    BY <1>1 DEF Onward, Row
  <1>3. ASSUME NEW i \in Item
        PROVE  RowTrue(i, row[i])' /\ Printed(i)' /\ Shown(i)'
    <2>1. RowTrue(i, row[i]) /\ Printed(i) /\ Shown(i)
      BY DEF ReconcileInv
    <2>2. RowTrue(i, row[i])'
      BY <2>1, SameRow
    <2>3. Printed(i)' /\ Shown(i)'
      BY <2>1, FixedSets DEF Printed, Shown
    <2> QED
      BY <2>2, <2>3
  <1> QED
    BY <1>2, <1>3 DEF ReconcileInv, ReconcileType

LEMMA FilesMove ==
    ASSUME ReconcileInv, Fixed, \E p, q \in Path : Moves(p, q) \/ Removes(p) \/ Replaces(p)
    PROVE  ReconcileInv'
  <1>1. PICK f : Disk(f) /\ f \in [Path -> Content] /\ UNCHANGED <<up, tables, chk>>
    BY DEF Moves, Removes, Replaces, ReconcileInv, ReconcileType, Content
  <1>2. Grown /\ ProjectType' /\ Witnessed' /\ file' \in [Path -> Content]
    BY <1>1, DiskGoes DEF tables
  <1>3. UNCHANGED <<row, prints, asset>> /\ taken' = taken
    BY <1>1 DEF tables
  <1>4. up' = up /\ up' \subseteq Root /\ chk' = chk
    BY <1>1 DEF ReconcileInv, ReconcileType
  <1> QED
    BY <1>2, <1>3, <1>4, RowsRest, Beside

LEMMA SharesGo ==
    ASSUME ReconcileInv, Fixed, NEW r \in Root, Downs(r) \/ Ups(r)
    PROVE  ReconcileInv'
  <1>1. UNCHANGED <<file, held, gone, tables, chk>> /\ up' \subseteq Root
    BY DEF Downs, Ups, ReconcileInv, ReconcileType
  <1>2. Steadily => \A c \in Check : chk[c] = Idle
    BY DEF Downs, Ups, Steadily, Uses
  <1>3. Grown /\ ProjectType' /\ Witnessed' /\ file' \in [Path -> Content]
    BY <1>1, SameProject, FixedSets DEF tables, ReconcileInv, ReconcileType, Witnessed
  <1>4. UNCHANGED <<row, prints, asset, chk>> /\ taken' = taken
    BY <1>1 DEF tables
  <1> QED
    BY <1>1, <1>2, <1>3, <1>4, RowsRest, Beside

LEMMA AssetImported ==
    ASSUME ReconcileInv, Fixed, NEW p \in Path, Imports(p)
    PROVE  ReconcileInv'
  <1>1. UNCHANGED <<file, up, held, gone, project, row, prints, asset, chk>>
        /\ taken \subseteq taken'
    BY DEF Imports, disks
  <1>2. Grown /\ ProjectType' /\ Witnessed' /\ file' \in [Path -> Content] /\ up' \subseteq Root
    BY <1>1, SameProject, FixedSets DEF ReconcileInv, ReconcileType, Witnessed
  <1> QED
    BY <1>1, <1>2, RowsRest, Beside

\* Directories are enabled or disabled, or the destination is another.
LEMMA ProjectSet ==
    ASSUME ReconcileInv, Fixed, NEW r \in Root, Enables(r) \/ Redirects(r)
    PROVE  ReconcileInv'
  <1>1. UNCHANGED <<file, up, held, gone, row, prints, asset, taken, chk>>
    BY DEF Enables, Redirects, disks
  <1>2. budget.homes \subseteq Homes
    BY DEF ReconcileInv, ReconcileType, Budget
  <1>3. ProjectType
    BY DEF ReconcileInv, ReconcileType
  <1>4. Grown /\ ProjectType'
    <2>1. CASE Enables(r)
      <3>1. PICK on : on = IF r \in project.enabled THEN project.enabled \ {r}
                           ELSE project.enabled \cup {r}
        OBVIOUS
      <3>2. r \in SourceRoots
            /\ project' = [project EXCEPT !.enabled = on, !.disabled = @ \cup {r}]
        BY <2>1, <3>1 DEF Enables
      <3>3. /\ project'.enabled = on /\ project'.disabled = project.disabled \cup {r}
            /\ project'.dest = project.dest /\ project'.dests = project.dests
        BY <1>3, <3>2 DEF ProjectType
      <3>4. on \subseteq SourceRoots /\ SourceRoots \ on \subseteq project.disabled \cup {r}
        BY <1>3, <3>1, <3>2 DEF ProjectType
      <3>5. ProjectType'
        BY <1>3, <3>2, <3>3, <3>4 DEF ProjectType
      <3> QED
        BY <1>1, <1>3, <3>3, <3>5 DEF Grown, ProjectType
    <2>2. CASE Redirects(r)
      <3>1. r \in Homes /\ project' = [project EXCEPT !.dest = r, !.dests = @ \cup {r}]
        BY <1>2, <2>2 DEF Redirects
      <3>2. /\ project'.dest = r /\ project'.dests = project.dests \cup {r}
            /\ project'.enabled = project.enabled /\ project'.disabled = project.disabled
        BY <1>3, <3>1 DEF ProjectType
      <3>3. ProjectType'
        BY <1>3, <3>1, <3>2 DEF ProjectType
      <3> QED
        BY <1>1, <1>3, <3>2, <3>3 DEF Grown, ProjectType
    <2> QED
      BY <2>1, <2>2
  <1>5. Witnessed' /\ file' \in [Path -> Content] /\ up' \subseteq Root /\ taken \subseteq taken'
    BY <1>1, FixedSets DEF ReconcileInv, ReconcileType, Witnessed
  <1> QED
    BY <1>1, <1>4, <1>5, RowsRest, Beside

\* The row is queued, or compared with its source.
LEMMA RowTold ==
    ASSUME ReconcileInv, Fixed, NEW i \in Item, Queues(i) \/ Rescans(i)
    PROVE  ReconcileInv'
  <1>1. row[i] \in Row /\ RowTrue(i, row[i]) /\ row \in [Item -> Row]
    BY DEF ReconcileInv, ReconcileType
  <1>2. UNCHANGED <<disks, project, prints, asset, taken, chk>>
    BY DEF Queues, Rescans
  <1>3. PICK r : /\ row' = [row EXCEPT ![i] = r] /\ r \in Row
                 /\ r.src = row[i].src /\ r.target = row[i].target /\ r.found = row[i].found
                 /\ r.gen = row[i].gen /\ r.last = row[i].last /\ r.legacy = row[i].legacy
                 /\ \/ r.state = row[i].state
                    \/ r.state = "available" /\ file[r.src] = i
                    \/ r.state = "replaced"
    <2>1. CASE Queues(i)
      <3>1. PICK r : r = [row[i] EXCEPT !.busy = TRUE]
        OBVIOUS
      <3>2. row' = [row EXCEPT ![i] = r]
        BY <2>1, <3>1 DEF Queues
      <3>3. r \in Row
        BY <1>1, <3>1 DEF Row
      <3>4. /\ r.src = row[i].src /\ r.target = row[i].target /\ r.found = row[i].found
            /\ r.gen = row[i].gen /\ r.last = row[i].last /\ r.legacy = row[i].legacy
            /\ r.state = row[i].state
        BY <1>1, <3>1 DEF Row
      <3> QED
        BY <3>2, <3>3, <3>4
    <2>2. CASE Rescans(i)
      <3>1. PICK v : v = IF file[row[i].src] = i THEN "available" ELSE "replaced"
        OBVIOUS
      <3>2. PICK r : r = [row[i] EXCEPT !.state = v]
        OBVIOUS
      <3>3. row' = [row EXCEPT ![i] = r]
        BY <2>2, <3>1, <3>2 DEF Rescans
      <3>4. r \in Row
        BY <1>1, <3>1, <3>2 DEF Row
      <3>5. /\ r.src = row[i].src /\ r.target = row[i].target /\ r.found = row[i].found
            /\ r.gen = row[i].gen /\ r.last = row[i].last /\ r.legacy = row[i].legacy
        BY <1>1, <3>2 DEF Row
      <3>6. (r.state = "available" /\ file[r.src] = i) \/ r.state = "replaced"
        BY <1>1, <3>1, <3>2, <3>5 DEF Row
      <3> QED
        BY <3>3, <3>4, <3>5, <3>6
    <2> QED
      BY <2>1, <2>2
  <1>4. <<r.src, file[r.src]>> \in held
    <2>1. r.src \in Path
      BY <1>3, Places DEF Row, ReconcileInv, ReconcileType
    <2> QED
      BY <2>1 DEF ReconcileInv, Witnessed
  <1>5. RowTrue(i, r)
    <2>1. /\ r.state = "available" => <<r.src, i>> \in held
          /\ r.state = "missing" => SourceGone(r.src)
      BY <1>1, <1>3, <1>4 DEF RowTrue
    <2>2. Linked(i, r) /\ Lost(r)
      BY <1>1, <1>3 DEF RowTrue, Linked, Lost
    <2>3. /\ r.target["main"] = None => r.target["avatar"] = None
          /\ r.gen = 0 <=> r.target["main"] = None
          /\ r.gen <= r.last
          /\ r.legacy => r.gen # 0
      BY <1>1, <1>3 DEF RowTrue
    <2>4. OneName /\ OneCheck /\ ~r.legacy => Held(i, r.target, r.gen)
      BY <1>1, <1>3 DEF RowTrue
    <2> QED
      BY <2>1, <2>2, <2>3, <2>4 DEF RowTrue
  <1>6. Grown /\ ProjectType' /\ Witnessed' /\ file' \in [Path -> Content] /\ up' \subseteq Root
        /\ up' = up
    BY <1>2, SameProject, FixedSets DEF disks, ReconcileInv, ReconcileType, Witnessed
  <1>7. RowTrue(i, r)'
    BY <1>5, <1>6, RowStays
  <1>8. Printed(i)' /\ Shown(i)'
    <2>1. row'[i] = r /\ Printed(i) /\ Shown(i)
      BY <1>1, <1>3 DEF ReconcileInv
    <2> QED
      BY <1>2, <1>3, <2>1, FixedSets DEF Printed, Shown
  <1>9. r.last >= row[i].last
    BY <1>1, <1>3 DEF Row
  <1>10. Onward /\ \A j \in Item : RowTrue(j, row[j])' /\ Printed(j)' /\ Shown(j)'
    BY <1>2, <1>3, <1>6, <1>7, <1>8, <1>9, OneRow
  <1>11. prints' \in [Item -> [Targets -> Content]] /\ asset' \in [Item -> Path \cup {None}]
    BY <1>2 DEF ReconcileInv, ReconcileType
  <1> QED
    BY <1>2, <1>6, <1>10, <1>11, Beside

LEMMA RowReset ==
    ASSUME ReconcileInv, Fixed, NEW i \in Item, Resets(i)
    PROVE  ReconcileInv'
  <1>1. row[i] \in Row /\ RowTrue(i, row[i]) /\ row \in [Item -> Row]
    BY DEF ReconcileInv, ReconcileType
  <1>2. PICK r : r = [row[i] EXCEPT !.target = NoTarget, !.legacy = FALSE, !.gen = 0,
                                    !.found = [k \in Output |-> "none"]]
    OBVIOUS
  <1>3. PICK f : f = [p \in Path |-> IF /\ \E k \in Output : row[i].target[k] = p
                                         /\ file[p] # None /\ file[p] = prints[i][p]
                                      THEN None ELSE file[p]]
    OBVIOUS
  <1>4. /\ Disk(f) /\ row' = [row EXCEPT ![i] = r]
        /\ prints' = [prints EXCEPT ![i] = [p \in Targets |-> None]]
        /\ asset' = [asset EXCEPT ![i] = None] /\ UNCHANGED <<up, project, taken, chk>>
    BY <1>2, <1>3 DEF Resets
  <1>5. f \in [Path -> Content]
    BY <1>3 DEF ReconcileInv, ReconcileType, Content
  <1>6. Grown /\ ProjectType' /\ Witnessed' /\ file' \in [Path -> Content] /\ up' \subseteq Root
        /\ up' = up
    BY <1>4, <1>5, DiskGoes DEF ReconcileInv, ReconcileType
  <1>7. r \in Row
    <2>1. NoTarget \in [Output -> Path \cup {None}]
          /\ [k \in Output |-> "none"] \in [Output -> Found]
      BY DEF NoTarget, Found
    <2> QED
      BY <1>1, <1>2, <2>1 DEF Row, Found
  <1>8. /\ r.src = row[i].src /\ r.state = row[i].state /\ r.last = row[i].last
        /\ r.gen = 0 /\ r.target = NoTarget /\ r.found = [k \in Output |-> "none"]
    BY <1>1, <1>2 DEF Row
  <1>9. r.legacy = FALSE
    BY <1>1, <1>2 DEF Row
  <1>10. RowTrue(i, r)
    <2>1. \A k \in Output : r.target[k] = None /\ r.found[k] = "none"
      BY <1>8 DEF NoTarget
    <2>2. Linked(i, r) /\ Lost(r) /\ Held(i, r.target, r.gen)
      BY <2>1 DEF Linked, Lost, Held
    <2>3. r.gen <= r.last
      BY <1>1, <1>8 DEF Row
    <2>4. /\ r.state = "available" => <<r.src, i>> \in held
          /\ r.state = "missing" => SourceGone(r.src)
      BY <1>1, <1>8 DEF RowTrue
    <2> QED
      BY <1>8, <1>9, <2>1, <2>2, <2>3, <2>4 DEF RowTrue, Output
  <1>11. RowTrue(i, r)'
    BY <1>6, <1>10, RowStays
  <1>12. row'[i] = r /\ prints'[i] = [p \in Targets |-> None] /\ asset'[i] = None
    BY <1>1, <1>4 DEF ReconcileInv, ReconcileType
  <1>13. Printed(i)' /\ Shown(i)'
    <2>1. \A k \in Output : row'[i].target[k] = None
      BY <1>8, <1>12 DEF NoTarget
    <2>2. \A p \in Targets : prints'[i][p] = None
      BY <1>12
    <2>3. Printed(i)'
      BY <2>1, <2>2, FixedSets DEF Printed
    <2> QED
      BY <1>12, <2>3 DEF Shown
  <1>14. r.last >= row[i].last
    BY <1>1, <1>8 DEF Row
  <1>15. \A j \in Item \ {i} : prints'[j] = prints[j] /\ asset'[j] = asset[j]
    BY <1>4 DEF ReconcileInv, ReconcileType
  <1>16. Onward /\ \A j \in Item : RowTrue(j, row[j])' /\ Printed(j)' /\ Shown(j)'
    BY <1>4, <1>6, <1>7, <1>8, <1>9, <1>11, <1>13, <1>14, <1>15, OneRow
  <1>17. prints' \in [Item -> [Targets -> Content]] /\ asset' \in [Item -> Path \cup {None}]
    BY <1>4 DEF ReconcileInv, ReconcileType, Content
  <1> QED
    BY <1>4, <1>6, <1>16, <1>17, Beside

LEMMA RowArchived ==
    ASSUME ReconcileInv, Fixed, NEW i \in Item, Archives(i)
    PROVE  ReconcileInv'
  <1>1. row[i] \in Row /\ RowTrue(i, row[i]) /\ row \in [Item -> Row] /\ i \in Captures
    BY Places DEF ReconcileInv, ReconcileType
  <1>2. PICK gen \in Nat : gen = row[i].last + 1 /\ gen > row[i].last /\ gen # 0
    BY <1>1 DEF Row
  <1> DEFINE Mains(s)   == {d \in Of(i, "main") : RootOf[d] = s}
             Avatars(s) == {d \in Of(i, "avatar") : RootOf[d] = s} \cup {None}
             \* what Archives does once its targets are chosen
             Puts(p, q) ==
         LET g == row[i].last + 1
             n == {p, q} \ {None}
             old == {row[i].target[k] : k \in Output} \ (n \cup {None})
             off == {d \in old : RootOf[d] \in up /\ file[d] # None /\ file[d] = prints[i][d]}
         IN /\ "rename" \in budget.ops \/ \A d \in n, e \in Targets :
                  TokenOf[d] = TokenOf[e] /\ prints[i][e] # None => e = d
            /\ \A d \in n : file[d] = None \/ file[d] = prints[i][d]
            /\ Disk([d \in Path |-> IF d \in n THEN Made(i, d, g)
                                    ELSE IF d \in off THEN None ELSE file[d]])
            /\ prints' = [prints EXCEPT ![i] =
                  [d \in Targets |-> IF d \in n THEN Made(i, d, g) ELSE @[d]]]
            /\ row' = [row EXCEPT ![i].busy = FALSE, ![i].gen = g, ![i].last = g,
                  ![i].legacy = FALSE,
                  ![i].target = [k \in Output |-> IF k = "main" THEN p ELSE q],
                  ![i].found = [k \in Output |->
                      IF k = "avatar" /\ q = None THEN "none" ELSE "available"]]
            /\ asset' = [asset EXCEPT ![i] = p]
  <1>a. PICK s \in project.dests \cap up : \E p \in Mains(s), q \in Avatars(s) : Puts(p, q)
    BY Zenon DEF Archives
  <1>b. PICK p \in Mains(s), q \in Avatars(s) : Puts(p, q)
    BY <1>a, Zenon
  <1>3. p \in Of(i, "main") /\ q \in Of(i, "avatar") \cup {None} /\ Puts(p, q)
    BY <1>b
  <1>4. PICK new, retired :
            /\ new = {p, q} \ {None}
            /\ retired = {d \in {row[i].target[k] : k \in Output} \ (new \cup {None}) :
                             RootOf[d] \in up /\ file[d] # None /\ file[d] = prints[i][d]}
    OBVIOUS
  <1>5. PICK target : target = [k \in Output |-> IF k = "main" THEN p ELSE q]
    OBVIOUS
  <1>6. PICK found : found = [k \in Output |->
                         IF k = "avatar" /\ q = None THEN "none" ELSE "available"]
    OBVIOUS
  <1>7. PICK f : f = [d \in Path |-> IF d \in new THEN Made(i, d, gen)
                                     ELSE IF d \in retired THEN None ELSE file[d]]
    OBVIOUS
  <1>8. PICK r : r = [row[i] EXCEPT !.busy = FALSE, !.gen = gen, !.last = gen, !.legacy = FALSE,
                                    !.target = target, !.found = found]
    OBVIOUS
  <1>9. /\ Disk(f) /\ row' = [row EXCEPT ![i] = r]
        /\ prints' = [prints EXCEPT ![i] =
              [d \in Targets |-> IF d \in new THEN Made(i, d, gen) ELSE @[d]]]
        /\ asset' = [asset EXCEPT ![i] = p] /\ UNCHANGED <<up, project, taken, chk>>
    <2>1. row' = [row EXCEPT ![i].busy = FALSE, ![i].gen = gen, ![i].last = gen,
                     ![i].legacy = FALSE, ![i].target = target, ![i].found = found]
      BY <1>2, <1>3, <1>5, <1>6
    <2>2. row' = [row EXCEPT ![i] = r]
      BY <1>1, <1>8, <2>1
    <2>3. UNCHANGED <<up, project, taken, chk>>
      BY DEF Archives
    <2> QED
      BY <1>2, <1>3, <1>4, <1>7, <2>2, <2>3
  <1>10. /\ p \in Targets /\ p \in Path /\ p # None /\ new \subseteq Targets
         /\ q # None => q \in Of(i, "avatar") /\ q \in Path
         /\ p \in new /\ (q # None => q \in new) /\ \A d \in new : d = p \/ d = q
         /\ q = None \/ TokenOf[p] # TokenOf[q]
    <2>1. p \in Targets /\ p \in Path /\ p # None
      BY Places DEF ReconcileInv, ReconcileType
    <2>2. q # None => q \in Of(i, "avatar") /\ q \in Targets /\ q \in Path
      BY Places DEF ReconcileInv, ReconcileType
    <2>3. q = None \/ TokenOf[p] # TokenOf[q]
      BY <2>2 DEF Of
    <2> QED
      BY <1>4, <2>1, <2>2, <2>3
  <1>11. \A d : Made(i, d, gen) \in Outputs(i, gen) /\ Made(i, d, gen) \in Content
                /\ Made(i, d, gen) # None
    BY <1>1, Outcome
  <1>12. f \in [Path -> Content]
    BY <1>7, <1>11 DEF ReconcileInv, ReconcileType, Content
  <1>13. Grown /\ ProjectType' /\ Witnessed' /\ file' \in [Path -> Content] /\ up' \subseteq Root /\ up' = up
         /\ \A d \in Path : <<d, f[d]>> \in held'
    BY <1>9, <1>12, DiskGoes DEF ReconcileInv, ReconcileType
  <1>14. r \in Row
    <2>1. target \in [Output -> Path \cup {None}] /\ found \in [Output -> Found]
      BY <1>5, <1>6, <1>10 DEF Found
    <2> QED
      BY <1>1, <1>8, <2>1 DEF Row, Found
  <1>15. /\ r.src = row[i].src /\ r.state = row[i].state /\ r.last = gen
         /\ r.gen = gen /\ r.target = target /\ r.found = found
    BY <1>1, <1>8 DEF Row
  <1>16. r.legacy = FALSE
    BY <1>1, <1>8 DEF Row
  <1>17. target["main"] = p /\ target["avatar"] = q
         /\ found["main"] = "available" /\ found["avatar"] = IF q = None THEN "none" ELSE "available"
    BY <1>5, <1>6 DEF Output
  <1>18. RowTrue(i, r)'
    <2>1. Linked(i, r)'
      BY <1>10, <1>15, <1>17, FixedSets DEF Linked, Output
    <2>2. Lost(r)'
      BY <1>15, <1>17 DEF Lost, Output
    <2>3. Held(i, r.target, r.gen)'
      <3>1. ASSUME NEW k \in Output, target[k] # None
            PROVE  <<target[k], Made(i, target[k], gen)>> \in held'
        <4>1. target[k] \in new /\ target[k] \in Path
          BY <1>10, <1>17, <3>1 DEF Output
        <4>2. f[target[k]] = Made(i, target[k], gen)
          BY <1>7, <4>1
        <4> QED
          BY <1>13, <4>1, <4>2
      <3> QED
        BY <1>11, <1>15, <3>1 DEF Held
    <2>4. /\ r.state = "available" => <<r.src, i>> \in held'
          /\ r.state = "missing" => SourceGone(r.src)'
      BY <1>1, <1>13, <1>15, GoneStays DEF RowTrue, Grown
    <2>5. /\ r.target["main"] # None /\ r.gen # 0 /\ r.gen <= r.last
      BY <1>2, <1>10, <1>15, <1>17
    <2> QED
      BY <1>16, <2>1, <2>2, <2>3, <2>4, <2>5 DEF RowTrue
  <1>19. row'[i] = r /\ asset'[i] = p
         /\ prints'[i] = [d \in Targets |-> IF d \in new THEN Made(i, d, gen) ELSE prints[i][d]]
    BY <1>1, <1>9 DEF ReconcileInv, ReconcileType
  <1>20. Printed(i)'
    <2>1. ASSUME OneName
          PROVE  \A d, e \in Targets : prints'[i][d] # None /\ prints'[i][e] # None
                    /\ TokenOf[d] = TokenOf[e] => d = e
      <3>1. SUFFICES ASSUME NEW d \in Targets, NEW e \in Targets, prints'[i][d] # None,
                            prints'[i][e] # None, TokenOf[d] = TokenOf[e]
                     PROVE  d = e
        OBVIOUS
      <3>2. \A a \in new, b \in Targets : TokenOf[a] = TokenOf[b] /\ prints[i][b] # None => b = a
        <4>1. "rename" \notin budget.ops
          BY <2>1 DEF OneName
        <4>2. \A a \in {p, q} \ {None}, b \in Targets :
                 TokenOf[a] = TokenOf[b] /\ prints[i][b] # None => b = a
          BY <1>3, <4>1, Zenon
        <4> QED
          BY <1>4, <4>2
      <3>3. CASE d \in new /\ e \in new
        <4>1. (d = p \/ d = q) /\ (e = p \/ e = q) /\ d # None /\ e # None
          BY <1>4, <3>3
        <4> QED
          BY <1>10, <3>1, <4>1
      <3>4. CASE d \in new /\ e \notin new
        <4>1. prints[i][e] # None
          BY <1>19, <3>1, <3>4
        <4> QED
          BY <3>1, <3>2, <3>4, <4>1
      <3>5. CASE d \notin new /\ e \in new
        <4>1. prints[i][d] # None
          BY <1>19, <3>1, <3>5
        <4> QED
          BY <3>1, <3>2, <3>5, <4>1
      <3>6. CASE d \notin new /\ e \notin new
        <4>1. prints[i][d] # None /\ prints[i][e] # None
          BY <1>19, <3>1, <3>6
        <4> QED
          BY <2>1, <3>1, <4>1 DEF ReconcileInv, Printed
      <3> QED
        BY <3>3, <3>4, <3>5, <3>6
    <2>2. ASSUME NEW k \in Output, target[k] # None
          PROVE  prints'[i][target[k]] \in Outputs(i, gen)
      <3>1. target[k] \in new /\ target[k] \in Targets
        BY <1>10, <1>17, <2>2 DEF Output
      <3> QED
        BY <1>11, <1>19, <3>1
    <2>3. row'[i].target = target /\ row'[i].gen = gen
      BY <1>15, <1>19
    <2> QED
      BY <2>1, <2>2, <2>3, FixedSets DEF Printed
  <1>21. Shown(i)'
    <2>1. row'[i].target["main"] = p
      BY <1>15, <1>17, <1>19
    <2> QED
      BY <1>19, <2>1, FixedSets DEF Shown
  <1>22. \A j \in Item \ {i} : prints'[j] = prints[j] /\ asset'[j] = asset[j]
    BY <1>9 DEF ReconcileInv, ReconcileType
  <1>23. r.last >= row[i].last /\ r.gen > row[i].last
    BY <1>1, <1>2, <1>15 DEF Row
  <1>24. Onward /\ \A j \in Item : RowTrue(j, row[j])' /\ Printed(j)' /\ Shown(j)'
    BY <1>9, <1>13, <1>14, <1>18, <1>20, <1>21, <1>22, <1>23, OneRow
  <1>25. prints' \in [Item -> [Targets -> Content]] /\ asset' \in [Item -> Path \cup {None}]
    <2>1. prints'[i] \in [Targets -> Content]
      BY <1>11, <1>19 DEF ReconcileInv, ReconcileType
    <2>2. prints' = [prints EXCEPT ![i] = prints'[i]]
      BY <1>9, <1>19
    <2>3. asset' \in [Item -> Path \cup {None}]
      BY <1>9, <1>10 DEF ReconcileInv, ReconcileType
    <2> QED
      BY <2>1, <2>2, <2>3 DEF ReconcileInv, ReconcileType
  <1> QED
    BY <1>9, <1>13, <1>24, <1>25, Beside
-----------------------------------------------------------------------------
(* The theorems *)

LEMMA InitRight ==
    ASSUME Init
    PROVE  ReconcileInv
  <1>1. /\ budget \in Budget /\ up = Root /\ taken = {} /\ chk = [c \in Check |-> Idle]
        /\ held = {<<p, file[p]>> : p \in Path} /\ gone = {p \in Path : file[p] = None}
    BY ReconcileAssumption DEF Init, Budget
  <1>2. PICK src \in [Item -> Sources], target \in [Item -> [Output -> Targets \cup {None}]],
             legacy \in [Item -> budget.legacy], n \in [Item -> {0, 1}] :
          /\ \A i, j \in Item : src[i] = src[j] => i = j
          /\ \A i \in Item : \A k \in Output :
                target[i][k] # None => /\ target[i][k] \in Of(i, k) /\ target[i]["main"] # None
                                       /\ RootOf[target[i][k]] = project.dest
          /\ \A i \in Item : n[i] = 0 <=> target[i]["main"] = None
          /\ file = [p \in Path |->
                IF \E i \in Item : src[i] = p THEN CHOOSE i \in Item : src[i] = p
                ELSE IF \E i \in Item, k \in Output : target[i][k] = p
                THEN Made(TokenOf[p][1], p, 1) ELSE None]
          /\ row = [i \in Item |-> [src |-> src[i], state |-> "available", busy |-> FALSE,
                target |-> target[i], gen |-> n[i], last |-> n[i], legacy |-> legacy[i] /\ n[i] = 1,
                found |-> [k \in Output |-> IF target[i][k] = None THEN "none" ELSE "available"]]]
          /\ prints = [i \in Item |-> [p \in Targets |->
                IF ~legacy[i] /\ \E k \in Output : target[i][k] = p THEN Made(i, p, 1) ELSE None]]
          /\ asset = [i \in Item |-> target[i]["main"]]
    BY Zenon DEF Init
  <1>3. /\ None \notin Path /\ None \notin Item /\ Item \subseteq Captures
        /\ Sources \subseteq Path /\ Targets \subseteq Path /\ Sources \cap Targets = {}
        /\ \A i, k : Of(i, k) \subseteq Targets
    BY <1>1, Places
  <1>4. ASSUME NEW i \in Item
        PROVE  \A d : Made(i, d, 1) \in Outputs(i, 1) /\ Made(i, d, 1) \in Content
                         /\ Made(i, d, 1) # None
    BY <1>3, Outcome
  <1>5. ASSUME NEW p \in Path, ~\E i \in Item : src[i] = p,
               NEW j \in Item, NEW k \in Output, target[j][k] = p
        PROVE  file[p] = Made(j, p, 1)
    <2>1. p \in Of(j, k)
      BY <1>2, <1>3, <1>5
    <2>2. TokenOf[p] = <<j, k>>
      BY <2>1 DEF Of
    <2> QED
      BY <1>2, <1>5, <2>2
  <1>6. file \in [Path -> Content]
    <2>1. ASSUME NEW p \in Path
          PROVE  file[p] \in Content
      <3>1. CASE \E i \in Item : src[i] = p
        <4>1. file[p] \in Item
          BY <1>2, <3>1
        <4> QED
          BY <1>3, <4>1 DEF Content
      <3>2. CASE ~(\E i \in Item : src[i] = p) /\ \E i \in Item, k \in Output : target[i][k] = p
        BY <1>4, <1>5, <3>2
      <3>3. CASE ~(\E i \in Item : src[i] = p) /\ ~\E i \in Item, k \in Output : target[i][k] = p
        BY <1>2, <3>3 DEF Content
      <3> QED
        BY <3>1, <3>2, <3>3
    <2> QED
      BY <1>2, <2>1
  <1>7. ASSUME NEW i \in Item
        PROVE  /\ row[i] \in Row /\ prints[i] \in [Targets -> Content]
               /\ asset[i] \in Path \cup {None} /\ RowTrue(i, row[i])
               /\ Printed(i) /\ Shown(i)
    <2>1. /\ row[i].src = src[i] /\ row[i].state = "available" /\ row[i].target = target[i]
          /\ row[i].gen = n[i] /\ row[i].last = n[i]
          /\ row[i].found = [k \in Output |-> IF target[i][k] = None THEN "none" ELSE "available"]
          /\ (row[i].legacy <=> legacy[i] /\ n[i] = 1)
      BY <1>2
    <2>2. /\ target[i] \in [Output -> Targets \cup {None}] /\ src[i] \in Sources
          /\ n[i] \in {0, 1} /\ legacy[i] \in BOOLEAN
      BY <1>1, <1>2 DEF Budget
    <2>3. \A k \in Output : target[i][k] # None =>
             target[i][k] \in Of(i, k) /\ target[i]["main"] # None /\ target[i][k] \in Targets
      BY <1>2, <1>3
    <2>4. row[i] \in Row
      <3>1. [k \in Output |-> IF target[i][k] = None THEN "none" ELSE "available"]
              \in [Output -> {"none", "available", "missing", "unavailable"}]
        OBVIOUS
      <3>2. PICK old, found :
               /\ row[i] = [src |-> src[i], state |-> "available", busy |-> FALSE,
                    target |-> target[i], gen |-> n[i], last |-> n[i], legacy |-> old,
                    found |-> found]
               /\ old \in BOOLEAN
               /\ found \in [Output -> {"none", "available", "missing", "unavailable"}]
        <4>1. PICK found :
                 found = [k \in Output |-> IF target[i][k] = None THEN "none" ELSE "available"]
          OBVIOUS
        <4>2. row[i] = [src |-> src[i], state |-> "available", busy |-> FALSE,
                target |-> target[i], gen |-> n[i], last |-> n[i],
                legacy |-> legacy[i] /\ n[i] = 1, found |-> found]
          BY <1>2, <4>1, Zenon
        <4>3. CASE legacy[i] /\ n[i] = 1
          <5>1. (legacy[i] /\ n[i] = 1) = TRUE
            BY <4>3
          <5> QED
            BY <3>1, <4>1, <4>2, <5>1
        <4>4. CASE ~(legacy[i] /\ n[i] = 1)
          <5>1. (legacy[i] /\ n[i] = 1) = FALSE
            BY <4>4
          <5> QED
            BY <3>1, <4>1, <4>2, <5>1
        <4> QED
          BY <4>3, <4>4
      <3>3. target[i] \in [Output -> Path \cup {None}]
        BY <1>3, <2>2
      <3> QED
        <4>1. PICK goal, s, g : goal = target[i] /\ s = src[i] /\ g = n[i]
          OBVIOUS
        <4>2. goal \in [Output -> Path \cup {None}] /\ s \in Sources /\ g \in Nat
          BY <2>2, <3>3, <4>1
        <4>3. row[i] = [src |-> s, state |-> "available", busy |-> FALSE, target |-> goal,
                        gen |-> g, last |-> g, legacy |-> old, found |-> found]
          BY <3>2, <4>1
        <4> QED
          BY <3>2, <4>2, <4>3 DEF Row
    <2>5. prints[i] = [p \in Targets |->
             IF ~legacy[i] /\ \E k \in Output : target[i][k] = p THEN Made(i, p, 1) ELSE None]
      BY <1>2
    <2>6. prints[i] \in [Targets -> Content]
      BY <1>4, <2>5 DEF Content
    <2>7. asset[i] = target[i]["main"] /\ asset[i] \in Path \cup {None}
      BY <1>2, <1>3, <2>2 DEF Output
    <2>8. <<src[i], i>> \in held
      <3>1. src[i] \in Path /\ file[src[i]] = i
        <4>1. src[i] \in Path
          BY <1>3, <2>2
        <4>2. file[src[i]] \in Item /\ src[file[src[i]]] = src[i]
          BY <1>2, <4>1
        <4> QED
          BY <1>2, <4>1, <4>2
      <3> QED
        BY <1>1, <3>1
    <2>9. ASSUME NEW k \in Output, target[i][k] # None
          PROVE  <<target[i][k], Made(i, target[i][k], 1)>> \in held
      <3>1. target[i][k] \in Path /\ target[i][k] \notin Sources
        BY <1>3, <2>3, <2>9
      <3>2. ~\E j \in Item : src[j] = target[i][k]
        BY <1>2, <3>1
      <3>3. file[target[i][k]] = Made(i, target[i][k], 1)
        BY <1>5, <2>9, <3>1, <3>2
      <3> QED
        BY <1>1, <3>1, <3>3
    <2>10. RowTrue(i, row[i])
      <3>1. Linked(i, row[i]) /\ Lost(row[i])
        BY <2>1, <2>3 DEF Linked, Lost
      <3>2. Held(i, row[i].target, row[i].gen)
        <4>1. \A k \in Output : target[i][k] # None => n[i] = 1
          BY <1>2, <2>2, <2>3
        <4> QED
          BY <1>4, <2>1, <2>9, <4>1 DEF Held
      <3>3. /\ row[i].target["main"] = None => row[i].target["avatar"] = None
            /\ row[i].gen = 0 <=> row[i].target["main"] = None
        BY <1>2, <2>1, <2>3 DEF Output
      <3>4. row[i].gen <= row[i].last
        BY <2>1, <2>2
      <3>5. row[i].legacy => row[i].gen # 0
        BY <2>1
      <3> QED
        BY <2>1, <2>8, <3>1, <3>2, <3>3, <3>4, <3>5 DEF RowTrue
    <2>11. Printed(i)
      <3>1. ASSUME NEW d \in Targets, NEW e \in Targets, prints[i][d] # None, prints[i][e] # None,
                   TokenOf[d] = TokenOf[e]
            PROVE  d = e
        <4>1. PICK k \in Output, l \in Output : target[i][k] = d /\ target[i][l] = e
          BY <2>5, <3>1
        <4>2. d \in Of(i, k) /\ e \in Of(i, l)
          BY <1>3, <2>3, <4>1
        <4>3. k = l
          BY <3>1, <4>2 DEF Of
        <4> QED
          BY <4>1, <4>3
      <3>2. ASSUME ~row[i].legacy, NEW k \in Output, target[i][k] # None
            PROVE  prints[i][target[i][k]] \in Outputs(i, row[i].gen)
        <4>1. n[i] = 1 /\ target[i][k] \in Targets
          BY <1>2, <2>2, <2>3, <3>2
        <4>2. ~legacy[i]
          BY <2>1, <3>2, <4>1
        <4>3. prints[i][target[i][k]] = Made(i, target[i][k], 1)
          BY <2>5, <3>2, <4>1, <4>2
        <4> QED
          BY <1>4, <2>1, <4>1, <4>3
      <3> QED
        BY <2>1, <3>1, <3>2 DEF Printed
    <2>12. Shown(i)
      BY <2>1, <2>3, <2>7 DEF Shown, Output
    <2> QED
      BY <2>4, <2>6, <2>7, <2>10, <2>11, <2>12
  <1>8. ReconcileType
    <2>1. PICK r \in budget.homes :
             project = [dest |-> r, dests |-> {r}, enabled |-> SourceRoots, disabled |-> {}]
      BY DEF Init
    <2>2. ProjectType
      BY <1>1, <2>1 DEF Budget, ProjectType
    <2> QED
      BY <1>1, <1>2, <1>6, <1>7, <2>2 DEF ReconcileType
  <1>9. Witnessed
    BY <1>1 DEF Witnessed
  <1> QED
    BY <1>1, <1>7, <1>8, <1>9 DEF ReconcileInv

LEMMA StepRight ==
    ASSUME ReconcileInv, [Next]_vars
    PROVE  ReconcileInv'
  <1>1. Fixed
    BY AllFixed DEF ReconcileInv, ReconcileType
  <1>2. CASE Environment
    <2>1. CASE \E p, q \in Path : Moves(p, q)
      BY <1>1, <2>1, FilesMove
    <2>2. CASE \E p \in Path : Removes(p) \/ Replaces(p)
      BY <1>1, <2>2, FilesMove
    <2>3. CASE \E p \in Path : Imports(p)
      BY <1>1, <2>3, AssetImported
    <2>4. CASE \E r \in Root : Downs(r) \/ Ups(r)
      BY <1>1, <2>4, SharesGo
    <2>8. CASE \E r \in Root : Enables(r) \/ Redirects(r)
      BY <1>1, <2>8, ProjectSet
    <2>5. CASE \E i \in Item : Queues(i) \/ Rescans(i)
      BY <1>1, <2>5, RowTold
    <2>6. CASE \E i \in Item : Archives(i)
      BY <1>1, <2>6, RowArchived
    <2>7. CASE \E i \in Item : Resets(i)
      BY <1>1, <2>7, RowReset
    <2> QED
      BY <1>2, <2>1, <2>2, <2>3, <2>4, <2>5, <2>6, <2>7, <2>8 DEF Environment
  <1>3. ASSUME NEW c \in Check, Checks(c)
        PROVE  ReconcileInv'
    <2>1. CASE \E r \in Root : Scans(c, r) \/ ScansArchive(c, r)
      BY <1>1, <2>1, CheckScans, ArchiveScans
    <2>2. CASE \E i \in Item : ChecksSource(c, i) \/ ChecksTarget(c, i)
      BY <1>1, <2>2, CheckLooks, CheckTargets
    <2>3. CASE \E p \in Path : HashesCandidate(c, p)
      BY <1>1, <2>3, CandidateHashes
    <2> QED
      BY <1>1, <1>3, <2>1, <2>2, <2>3, CheckBegins, CheckHashes, CheckResolves, CheckRoots,
         CheckPrints, CheckRelinks, RowDone, CheckCommits, CheckStores DEF Checks
  <1>4. CASE UNCHANGED vars
    <2>1. /\ UNCHANGED <<project, row, prints, asset, chk, file, held, gone, up>>
          /\ taken' = taken
      BY <1>4 DEF vars
    <2>2. Grown /\ ProjectType' /\ Witnessed' /\ file' \in [Path -> Content] /\ up' \subseteq Root
      BY <1>1, <2>1, SameProject, FixedSets DEF ReconcileInv, ReconcileType, Witnessed
    <2> QED
      BY <1>1, <2>1, <2>2, RowsRest, Beside
  <1> QED
    BY <1>2, <1>3, <1>4 DEF Next

LEMMA ReconcileSafe == Spec => []ReconcileInv
  BY InitRight, StepRight, PTL DEF Spec

\* What a row says of its source and its targets was so at some time: whatever moves,
\* goes away or is archived again while a check runs, it binds a row to the capture
\* itself and to an output of the last archive.
THEOREM VerdictsAreTrue == Spec => []VerdictsTrue
  <1>1. ReconcileInv => VerdictsTrue
    <2>1. SUFFICES ASSUME ReconcileInv
                   PROVE  VerdictsTrue
      OBVIOUS
    <2>2. ASSUME NEW i \in Item
          PROVE  /\ row[i].state = "available" => <<row[i].src, i>> \in held
                 /\ /\ row[i].state = "missing" /\ "flap" \notin budget.ops
                    /\ RootOf[row[i].src] \notin project.disabled
                    => row[i].src \in gone
      BY <2>1 DEF ReconcileInv, RowTrue, SourceGone, Steadily
    <2>3. ASSUME NEW i \in Item, NEW k \in Output
          PROVE  /\ /\ row[i].found[k] = "available" /\ ~row[i].legacy
                    /\ "rename" \notin budget.ops /\ budget.checks = 1
                    => \E o \in Outputs(i, row[i].gen) : <<row[i].target[k], o>> \in held
                 /\ /\ row[i].found[k] = "missing" /\ "flap" \notin budget.ops
                    /\ project.dests = {RootOf[row[i].target[k]]}
                    => row[i].target[k] \in gone
      <3>1. RowTrue(i, row[i])
        BY <2>1 DEF ReconcileInv
      <3>2. row[i].found[k] = "available" => row[i].target[k] # None
        BY <3>1 DEF RowTrue, Linked
      <3>3. OneName /\ OneCheck /\ ~row[i].legacy => Held(i, row[i].target, row[i].gen)
        BY <3>1 DEF RowTrue
      <3>4. Lost(row[i])
        BY <3>1 DEF RowTrue
      <3> QED
        BY <3>2, <3>3, <3>4 DEF Held, Lost, TargetGone, OneName, OneCheck, Steadily
    <2> QED
      BY <2>2, <2>3 DEF VerdictsTrue
  <1> QED
    BY <1>1, ReconcileSafe, PTL

\* A fingerprint goes with its target through every move and every archive.
THEOREM PrintsFollow == Spec => []PrintFollows
  <1>1. ReconcileInv => PrintFollows
    BY DEF ReconcileInv, Printed, PrintFollows, OneName
  <1> QED
    BY <1>1, ReconcileSafe, PTL

\* The asset of a capture shows its target, or another asset has the path.
THEOREM AssetsFollow == Spec => []AssetFollows
  <1>1. ReconcileInv => AssetFollows
    BY DEF ReconcileInv, Shown, AssetFollows
  <1> QED
    BY <1>1, ReconcileSafe, PTL
=============================================================================

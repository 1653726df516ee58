---------------------------- MODULE DiscoveryProofs ----------------------------
(***************************************************************************)
(* Proofs about Discovery: what is registered, what is not, and what a     *)
(* file check says.  A call works for minutes beside everything else, so   *)
(* the invariant says at each of its positions what of what it has read is *)
(* still so (CallFits), what follows where files only get finished         *)
(* (Weighed, Beyond), and how far a check that nobody disturbed has got    *)
(* (CallTells).                                                            *)
(***************************************************************************)
EXTENDS Discovery, TLAPS

-----------------------------------------------------------------------------
(* The invariant *)

Files == {None} \cup File
Table == [Content -> {None} \cup Row]
Stats == [Path -> {None} \cup Stat]
Marks == [Path -> BOOLEAN]
Session == [n : Nat, active : BOOLEAN, at : Nat, watch : Marks, base : Stats, was : Stats]
Baseline == [base : Stats, watch : Marks]
Look == [c : Content, n : Nat, found : Files, processing : BOOLEAN]
Budget == [ops : SUBSET STRING, left : Nat]

\* The locals of a call under way
Call == [pc : {"scan", "wait", "next", "decide", "read", "insert"},
         mode : {"poll", "check", "import", "register"}, sess : Nat,
         cand : [Path -> Files], known : Table, watch : Marks, todo : SUBSET Path,
         p : {None} \cup Path, deferred : BOOLEAN, read : Files, quiet : BOOLEAN,
         ign : SUBSET Content, busy : SUBSET Content]

Typed ==
    /\ disk \in [Path -> Files] /\ rows \in Table /\ births \in [Content -> Nat]
    /\ ignored \in SUBSET Content /\ dirs \in [Path -> {"on", "off", "none"}]
    /\ sess \in Session /\ pass \in [Pass -> {Idle} \cup Call]
    /\ worker \in {None} \cup Look /\ start \in {None} \cup Baseline
    /\ now \in 0 .. MaxNow /\ budget \in Budget

\* Where budgets let files only be written to their end, ...
Kept == {"rewrite", "remove"} \cap budget.ops = {}
\* ... this is what becomes of one.
Later(f, g) ==
    f = g \/ (g.c \in Half /\ (f.c \in Whole \/ (f.c \in Half /\ f.c > g.c)))
Dated(f) == f.s + Rounding >= f.b
Discovers(q) == q.mode \in {"poll", "check"}

\* What holds of the locals of a call whatever happens beside it.
CallFits(q) ==
    /\ q.sess <= sess.n /\ q.ign \subseteq ignored
    /\ q.mode = "import" => "import" \in budget.ops
    /\ \A p \in q.todo : q.cand[p] \in File
    /\ q.pc \in {"decide", "read", "insert"} => q.p \in Path \ q.todo
    /\ q.pc = "decide" => q.cand[q.p] \in File
    /\ Discovers(q) /\ q.pc \in {"read", "insert"}
          => q.cand[q.p] \in File /\ (q.sess = sess.n => q.deferred = Backfill(q.cand[q.p]))
    /\ q.pc = "insert" => q.read \in File /\ q.read.c \notin q.ign /\ Dated(q.read)

\* What the wait is for: what it leaves is complete, and was weighed as it is.
Weighed(q) ==
    /\ \A p \in q.todo :
          /\ disk[p] \in File /\ Later(disk[p], q.cand[p])
          /\ q.pc # "wait" /\ q.cand[p].c \in Half => disk[p].c # q.cand[p].c
    /\ q.pc \in {"decide", "read"} /\ q.mode # "import"
          => /\ disk[q.p] \in File /\ disk[q.p].c \in Whole
             /\ Discovers(q) => disk[q.p] = q.cand[q.p]
    /\ q.pc = "insert" /\ q.mode # "import"
          => q.read.c \in Whole /\ (Discovers(q) => q.read = q.cand[q.p])

\* A call that runs for the current session looks at what the session watches, and
\* registers nothing of its baseline.
Beyond(q) ==
    Discovers(q) /\ q.sess = sess.n =>
        /\ \A p \in q.todo : sess.watch[p]
        /\ q.pc \in {"decide", "read", "insert"} => sess.watch[q.p]
        /\ q.pc \in {"read", "insert"} /\ At(q.known, q.p) = {}
              => StatOf(q.cand[q.p]) # sess.base[q.p]

\* What a check has still to compare, and which rows it leaves as the scan found them.
Open(q) == q.todo \cup (IF q.pc = "decide" THEN {q.p} ELSE {})
Seen(q, p) == q.watch[p] /\ Present(p)
Outside(q, t) == t # None /\ (t.path \in Open(q) \/ ~Seen(q, t.path))

CallTells(q) ==
    q.quiet /\ q.pc # "scan" =>
        /\ q.mode = "check"
        /\ \A p \in Open(q) : Seen(q, p) /\ q.cand[p] = disk[p]
        /\ q.pc \in {"read", "insert"} => Seen(q, q.p)
        /\ q.pc = "insert" => q.read = disk[q.p]
        /\ \A c \in Content : Outside(q, q.known[c]) \/ Outside(q, rows[c]) => rows[c] = q.known[c]
        /\ \A c \in Content :
              rows[c] # None /\ Seen(q, rows[c].path) /\ rows[c].path \notin Open(q)
              => (rows[c].state = "available" <=> disk[rows[c].path].c = c)

CallInv(q) == CallFits(q) /\ (Kept => Weighed(q) /\ Beyond(q)) /\ CallTells(q)

DiscoveryInv ==
    /\ Typed
    /\ \A p \in Path : Present(p) => Dated(disk[p])
    /\ Kept => sess.was = sess.base
    /\ \A a \in Pass : pass[a] # Idle => CallInv(pass[a])

\* A half-written file is registered only where it may be read before it is finished:
\* where a finished one is overwritten, or an import does not wait.
Finished == "grow" \in budget.ops => Kept /\ "import" \notin budget.ops
NoHalf ==
    Finished =>
        /\ WholeOnly
        /\ "grow" \notin budget.ops =>
              /\ \A p \in Path : Present(p) => disk[p].c \in Whole
              /\ \A a \in Pass : pass[a] # Idle /\ pass[a].pc = "insert" => pass[a].read.c \in Whole

-----------------------------------------------------------------------------
(* Types *)

LEMMA CallNotIdle == \A q \in Call : q # Idle
  BY DEF Call, Idle

LEMMA HushTyped == \A q \in Call : [q EXCEPT !.quiet = FALSE] \in Call
  BY DEF Call

LEMMA LoudPasses ==
  ASSUME Typed, Loud
  PROVE  /\ pass' \in [Pass -> {Idle} \cup Call]
         /\ \A a \in Pass : pass'[a] = IF pass[a] = Idle THEN Idle
                                       ELSE [pass[a] EXCEPT !.quiet = FALSE]
  BY HushTyped DEF Typed, Loud

LEMMA TellsPasses ==
  ASSUME Typed, NEW a \in Pass, NEW q \in {Idle} \cup Call, Tells(a, q)
  PROVE  /\ pass' \in [Pass -> {Idle} \cup Call] /\ pass'[a] = q
         /\ \A b \in Pass \ {a} : pass'[b] = IF pass[b] = Idle THEN Idle
                                             ELSE [pass[b] EXCEPT !.quiet = FALSE]
  BY HushTyped DEF Typed, Tells

LEMMA MovesPasses ==
  ASSUME Typed, NEW a \in Pass, NEW q \in {Idle} \cup Call, Moves(a, q)
  PROVE  /\ pass' \in [Pass -> {Idle} \cup Call] /\ pass'[a] = q
         /\ \A b \in Pass \ {a} : pass'[b] = pass[b]
  BY DEF Typed, Moves

LEMMA StatTyped == \A f \in File : StatOf(f) \in Stat
  BY DEF StatOf, File, Stat, Content

LEMMA SnapshotTyped == Typed => Snapshot \in Stats
  BY StatTyped DEF Typed, Snapshot, Stats, Files, Present

LEMMA RetiredTyped ==
  ASSUME NEW table \in Table, NEW p, NEW keep
  PROVE  /\ Retired(table, p, keep) \in Table
         /\ \A c \in Content :
              Retired(table, p, keep)[c] = IF table[c] # None /\ table[c].path = p /\ c # keep
                                           THEN [table[c] EXCEPT !.state = "replaced"]
                                           ELSE table[c]
  <1>1. \A t \in Row : [t EXCEPT !.state = "replaced"] \in Row
    BY DEF Row
  <1> QED
    BY <1>1 DEF Table, Retired, At

LEMMA NewTyped ==
  ASSUME Typed, NEW mode \in {"poll", "check", "import", "register"}
  PROVE  New(mode) \in Call
  <1>1. Busy \in SUBSET Content
    BY DEF Busy, Typed, Look
  <1> QED
    BY <1>1 DEF Typed, New, Call, Session, Files

-----------------------------------------------------------------------------
(* Every step keeps the types. *)

LEMMA WrittenTyped ==
  ASSUME Typed, NEW c \in Content
  PROVE  \A f \in Written(c) : f \in File /\ f.c = c /\ Dated(f)
  <1>1. Stamps \subseteq 0 .. MaxNow /\ \A t \in Stamps : t + Rounding >= now
    BY DiscoveryAssumption DEF Typed, Stamps
  <1> QED
    BY <1>1, DiscoveryAssumption DEF Typed, Written, File, Dated

LEMMA CopiedTyped == \A c \in Whole : LET f == [c |-> c, s |-> 0, b |-> 0]
                                      IN  f \in File /\ f.c = c /\ Dated(f)
  BY DiscoveryAssumption DEF File, Dated, Content

LEMMA TypeInit == Init => Typed
  <1> SUFFICES ASSUME Init PROVE Typed
    OBVIOUS
  <1>1. disk \in [Path -> Files]
    BY CopiedTyped DEF Init, Files
  <1> QED
    BY <1>1, DiscoveryAssumption
    DEF Init, Typed, Table, Session, Marks, Stats, Budget

\* What a step does to the files where they are only written to their end
Finishing ==
    Kept => \A p \in Path : disk[p] \in File => disk'[p] \in File /\ Later(disk'[p], disk[p])

\* What may become of one file
Changed(p, f) ==
    /\ f \in Files /\ disk' = [disk EXCEPT ![p] = f] /\ (f # None => Dated(f))
    /\ Kept /\ disk[p] \in File => f \in File /\ Later(f, disk[p])
    /\ "grow" \notin budget.ops /\ f # None
          => f.c \in Whole \/ (disk[p] # None /\ disk[p].c \in Half)
    /\ budget' \in Budget /\ budget'.ops = budget.ops
    /\ FileStep

LEMMA FilesChange ==
  ASSUME Typed, NEW p \in Path,
         Creates(p) \/ Rewrites(p) \/ Copies(p) \/ Grows(p) \/ Removes(p)
  PROVE  \E f : Changed(p, f)
  <1>1. disk[p] \in Files /\ budget \in Budget
    BY DEF Typed
  <1>2. \A op : Uses(op) => /\ op \in budget.ops
                            /\ budget' \in Budget /\ budget'.ops = budget.ops
    BY <1>1 DEF Uses, Budget
  <1>3. CASE Creates(p)
    <2>1. PICK c \in IF "grow" \in budget.ops THEN Content ELSE Whole : \E f \in Written(c) :
             disk' = [disk EXCEPT ![p] = f]
      BY <1>3 DEF Creates, Puts, Started
    <2>2. PICK f : disk' = [disk EXCEPT ![p] = f] /\ f \in File /\ Dated(f) /\ f.c = c
      BY <2>1, WrittenTyped DEF Content
    <2>3. disk[p] \notin File
      BY <1>3, DiscoveryAssumption DEF Creates, Present
    <2> QED
      BY <1>2, <1>3, <2>1, <2>2, <2>3 DEF Creates, Changed, Files
  <1>4. CASE Rewrites(p)
    <2>1. PICK c \in IF "grow" \in budget.ops THEN Content ELSE Whole : \E f \in Written(c) :
             disk' = [disk EXCEPT ![p] = f]
      BY <1>4 DEF Rewrites, Puts, Started
    <2>2. PICK f : disk' = [disk EXCEPT ![p] = f] /\ f \in File /\ Dated(f) /\ f.c = c
      BY <2>1, WrittenTyped DEF Content
    <2>3. ~Kept
      BY <1>2, <1>4 DEF Rewrites, Kept
    <2> QED
      BY <1>2, <1>4, <2>1, <2>2, <2>3 DEF Rewrites, Changed, Files
  <1>5. CASE Copies(p)
    <2>1. PICK c \in Whole : \E f \in {[c |-> c, s |-> 0, b |-> 0]} :
             disk' = [disk EXCEPT ![p] = f]
      BY <1>5 DEF Copies, Puts
    <2>2. PICK f : disk' = [disk EXCEPT ![p] = f] /\ f \in File /\ Dated(f) /\ f.c = c
      BY <2>1, CopiedTyped
    <2>3. disk[p] \notin File
      BY <1>5, DiscoveryAssumption DEF Copies, Present
    <2> QED
      BY <1>2, <1>5, <2>1, <2>2, <2>3 DEF Copies, Changed, Files
  <1>6. CASE Grows(p)
    <2>1. disk[p] \in File /\ disk[p] # None /\ disk[p].c \in Half
      BY <1>1, <1>6 DEF Grows, Present, Files
    <2>2. PICK c \in Whole \cup {k \in Half : k > disk[p].c} : \E f \in Written(c) :
             disk' = [disk EXCEPT ![p] = f]
      BY <1>6 DEF Grows, Puts
    <2>3. PICK f : disk' = [disk EXCEPT ![p] = f] /\ f \in File /\ Dated(f) /\ f.c = c
      BY <2>2, WrittenTyped DEF Content
    <2>4. Later(f, disk[p])
      BY <2>1, <2>2, <2>3 DEF Later
    <2> QED
      BY <1>1, <1>6, <2>1, <2>2, <2>3, <2>4 DEF Grows, Changed, Files
  <1>7. CASE Removes(p)
    <2>1. ~Kept
      BY <1>2, <1>7 DEF Removes, Kept
    <2> QED
      BY <1>2, <1>7, <2>1 DEF Removes, Changed, Files
  <1> QED
    BY <1>3, <1>4, <1>5, <1>6, <1>7

-----------------------------------------------------------------------------
(* What a call has read stays so beside the others. *)

\* What the steps of the others may do to what a call relies on
Goes ==
    /\ sess.n <= sess'.n
    /\ sess'.n = sess.n =>
          /\ sess'.at = sess.at
          /\ \A p \in Path : sess.watch[p] =>
                sess'.watch[p] /\ sess'.base[p] \in {None, sess.base[p]}
    /\ Kept => sess'.was = sess'.base
    /\ ignored \subseteq ignored' /\ budget'.ops = budget.ops
    /\ \A p \in Path : disk'[p] # None => Dated(disk'[p])
    /\ Finishing

\* A call that another step goes past: only what a check says may be disturbed.
Aside(a) ==
    \/ pass[a] = Idle /\ pass'[a] = Idle
    \/ pass[a] # Idle /\ pass'[a] = pass[a] /\ UNCHANGED <<disk, rows>>
    \/ pass[a] # Idle /\ pass'[a] = [pass[a] EXCEPT !.quiet = FALSE]

LEMMA LaterOn ==
  ASSUME NEW f \in File, NEW g \in File, NEW h \in File, Later(f, g), Later(g, h)
  PROVE  Later(f, h)
  BY DiscoveryAssumption DEF Later, File, Content

\* The parts of the call that decide
Alike(r, q) ==
    /\ r.pc = q.pc /\ r.mode = q.mode /\ r.sess = q.sess /\ r.cand = q.cand /\ r.known = q.known
    /\ r.watch = q.watch /\ r.todo = q.todo /\ r.p = q.p /\ r.deferred = q.deferred
    /\ r.read = q.read /\ r.ign = q.ign

LEMMA HushAlike == \A q \in Call : Alike([q EXCEPT !.quiet = FALSE], q)
  BY DEF Call, Alike

LEMMA FitsBeside ==
  ASSUME Typed, Typed', Goes, NEW q \in Call, NEW r \in Call, Alike(r, q), CallFits(q)
  PROVE  CallFits(r)'
  <1>1. sess \in Session /\ sess' \in Session /\ q.sess \in Nat
    BY DEF Typed, Call
  <1>2. q.sess = sess'.n => q.sess = sess.n /\ sess'.at = sess.at
    BY <1>1 DEF Goes, CallFits, Session
  <1>3. q.sess <= sess'.n /\ q.ign \subseteq ignored'
    BY <1>1 DEF Goes, CallFits, Session
  <1>4. q.sess = sess'.n => \A f : Backfill(f)' <=> Backfill(f)
    BY <1>2 DEF Backfill
  <1> QED
    BY <1>1, <1>2, <1>3, <1>4 DEF CallFits, Alike, Goes, Discovers, Backfill

LEMMA WeighedBeside ==
  ASSUME Typed, Typed', Goes, NEW q \in Call, NEW r \in Call, Alike(r, q), CallFits(q),
         Kept, Weighed(q)
  PROVE  Weighed(r)'
  <1>1. ASSUME NEW p \in Path, disk[p] \in File
        PROVE  /\ disk'[p] \in File /\ Later(disk'[p], disk[p])
               /\ disk[p].c \in Whole => disk'[p] = disk[p]
    BY <1>1, DiscoveryAssumption DEF Goes, Finishing, Later
  <1>2. ASSUME NEW p \in q.todo
        PROVE  /\ disk'[p] \in File /\ Later(disk'[p], q.cand[p])
               /\ q.pc # "wait" /\ q.cand[p].c \in Half => disk'[p].c # q.cand[p].c
    <2>1. p \in Path /\ disk[p] \in File /\ q.cand[p] \in File /\ Later(disk[p], q.cand[p])
      BY DEF Call, Weighed, CallFits
    <2>2. disk'[p] \in File /\ Later(disk'[p], disk[p]) /\ Later(disk'[p], q.cand[p])
      BY <1>1, <2>1, LaterOn
    <2>3. ASSUME q.pc # "wait", q.cand[p].c \in Half
          PROVE  disk'[p].c # q.cand[p].c
      <3>1. disk[p].c # q.cand[p].c
        BY <1>2, <2>3 DEF Weighed
      <3> QED
        BY <2>1, <2>2, <2>3, <3>1, DiscoveryAssumption DEF Later, File, Content
    <2> QED
      BY <2>2, <2>3
  <1>3. q.pc \in {"decide", "read"} => q.p \in Path
    BY DEF CallFits
  <1> QED
    BY <1>1, <1>2, <1>3 DEF Weighed, Alike, Discovers

LEMMA BeyondBeside ==
  ASSUME Typed, Typed', Goes, NEW q \in Call, NEW r \in Call, Alike(r, q), CallFits(q), Beyond(q)
  PROVE  Beyond(r)'
  <1> SUFFICES ASSUME Discovers(r), r.sess = sess'.n
               PROVE  /\ \A p \in r.todo : sess'.watch[p]
                      /\ r.pc \in {"decide", "read", "insert"} => sess'.watch[r.p]
                      /\ r.pc \in {"read", "insert"} /\ At(r.known, r.p) = {}
                            => StatOf(r.cand[r.p]) # sess'.base[r.p]
    BY DEF Beyond
  <1>1. q.sess \in Nat /\ sess.n \in Nat /\ sess'.n \in Nat /\ q.todo \subseteq Path
    BY DEF Typed, Session, Call
  <1>2. q.sess = sess.n /\ sess'.n = sess.n /\ Discovers(q)
    BY <1>1 DEF CallFits, Goes, Alike, Discovers
  <1>3. /\ \A p \in q.todo : sess.watch[p]
        /\ q.pc \in {"decide", "read", "insert"} => sess.watch[q.p] /\ q.p \in Path
        /\ q.pc \in {"read", "insert"} => q.cand[q.p] \in File
    BY <1>2 DEF Beyond, CallFits
  <1>4. \A p \in Path : sess.watch[p] => sess'.watch[p] /\ sess'.base[p] \in {None, sess.base[p]}
    BY <1>2 DEF Goes
  <1>5. \A f \in File : StatOf(f) # None
    BY StatTyped, DiscoveryAssumption
  <1>6. q.pc \in {"read", "insert"} /\ At(q.known, q.p) = {}
            => StatOf(q.cand[q.p]) # sess'.base[q.p]
    BY <1>2, <1>3, <1>4, <1>5 DEF Beyond
  <1> QED
    BY <1>1, <1>3, <1>4, <1>6 DEF Alike

LEMMA TellsBeside ==
  ASSUME NEW q, CallTells(q), UNCHANGED <<disk, rows>>
  PROVE  CallTells(q)'
  BY DEF CallTells, Outside, Seen, Open, Present

LEMMA AsideKeeps ==
  ASSUME DiscoveryInv, Typed', Goes, NEW a \in Pass, Aside(a)
  PROVE  (pass[a] # Idle => CallInv(pass[a]))'
  <1> SUFFICES ASSUME pass[a] # Idle PROVE CallInv(pass[a])'
    BY DEF Aside
  <1>1. PICK q, r : q = pass[a] /\ r = pass'[a]
    OBVIOUS
  <1>2. Typed /\ q \in Call /\ CallInv(q)
    BY <1>1 DEF DiscoveryInv, Typed
  <1>3. r \in Call /\ Alike(r, q)
    BY <1>1, <1>2, HushTyped, HushAlike DEF Aside, Alike
  <1>4. Kept' <=> Kept
    BY DEF Goes, Kept
  <1>5. CallFits(r)' /\ (Kept => Weighed(r)' /\ Beyond(r)')
    BY <1>2, <1>3, FitsBeside, WeighedBeside, BeyondBeside DEF CallInv
  <1>6. CallTells(r)'
    <2>1. CASE r = q /\ UNCHANGED <<disk, rows>>
      BY <1>2, <2>1, TellsBeside DEF CallInv
    <2>2. CASE r = [q EXCEPT !.quiet = FALSE]
      BY <1>2, <2>2 DEF CallTells, Call
    <2> QED
      BY <1>1, <2>1, <2>2 DEF Aside
  <1>7. CallInv(r)'
    BY <1>4, <1>5, <1>6 DEF CallInv
  <1> QED
    BY <1>1, <1>7, Zenon

-----------------------------------------------------------------------------
(* Every step keeps the types, and is no concern of the calls it goes past. *)

Acts(a) ==
    Poll(a) \/ Checks(a) \/ \E p \in Path : Imports(a, p) \/ StartsRegister(a, p)

\* What a step that is not one of a call does
Shape == Typed' /\ Goes /\ \A a \in Pass : Aside(a)

LEMMA StillGoes ==
  ASSUME DiscoveryInv, UNCHANGED <<disk, sess>>, ignored \subseteq ignored',
         budget'.ops = budget.ops
  PROVE  Goes
  BY DEF DiscoveryInv, Typed, Session, Goes, Finishing, Later, Present

LEMMA UsesTyped ==
  ASSUME Typed, NEW op, Uses(op)
  PROVE  op \in budget.ops /\ budget' \in Budget /\ budget'.ops = budget.ops
  BY DEF Typed, Budget, Uses

LEMMA StillAside ==
  ASSUME UNCHANGED <<disk, rows, pass>>
  PROVE  \A a \in Pass : Aside(a)
  BY DEF Aside

LEMMA LoudAside ==
  ASSUME Typed, Loud
  PROVE  pass' \in [Pass -> {Idle} \cup Call] /\ \A a \in Pass : Aside(a)
  BY LoudPasses DEF Aside

LEMMA FilesShape ==
  ASSUME DiscoveryInv, NEW p \in Path,
         Creates(p) \/ Rewrites(p) \/ Copies(p) \/ Grows(p) \/ Removes(p)
  PROVE  Shape
  <1>1. Typed
    BY DEF DiscoveryInv
  <1>2. PICK f : Changed(p, f)
    BY <1>1, FilesChange
  <1>3. pass' \in [Pass -> {Idle} \cup Call] /\ \A a \in Pass : Aside(a)
    BY <1>1, <1>2, LoudAside DEF Changed, FileStep
  <1>4. Typed'
    BY <1>1, <1>2, <1>3 DEF Changed, FileStep, Typed
  <1>5. Goes
    <2>1. UNCHANGED <<sess, ignored>> /\ budget'.ops = budget.ops
      BY <1>2 DEF Changed, FileStep
    <2>2. \A o \in Path : disk'[o] # None => Dated(disk'[o])
      BY <1>1, <1>2 DEF DiscoveryInv, Changed, Typed, Present
    <2>3. Finishing
      BY <1>1, <1>2 DEF Changed, Finishing, Typed, Later
    <2> QED
      BY <1>1, <2>1, <2>2, <2>3 DEF Goes, DiscoveryInv, Typed, Session
  <1> QED
    BY <1>3, <1>4, <1>5 DEF Shape

LEMMA SessionShape ==
  ASSUME DiscoveryInv,
         TakesBaseline \/ StartsSession \/ EndsSession \/ \E p \in Path : AddsDirectory(p)
  PROVE  Shape
  <1>1. Typed
    BY DEF DiscoveryInv
  <1>2. UNCHANGED <<disk, rows, births, ignored, pass, worker, now>>
    BY DEF TakesBaseline, StartsSession, EndsSession, AddsDirectory
  <1>3. CASE TakesBaseline
    <2>1. budget' \in Budget /\ budget'.ops = budget.ops
      BY <1>1, <1>3, UsesTyped DEF TakesBaseline, Typed
    <2>2. start' \in Baseline
      BY <1>1, <1>3, SnapshotTyped DEF TakesBaseline, Baseline, Stats, Marks
    <2>3. Typed'
      BY <1>1, <1>2, <1>3, <2>1, <2>2 DEF Typed, TakesBaseline
    <2> QED
      BY <1>2, <1>3, <2>1, <2>3, StillGoes, StillAside DEF Shape, TakesBaseline
  <1>4. CASE StartsSession
    <2>1. sess' \in Session /\ sess'.n = sess.n + 1 /\ sess'.was = sess'.base
      BY <1>1, <1>4 DEF StartsSession, Typed, Session, Baseline
    <2>2. Typed'
      BY <1>1, <1>2, <1>4, <2>1 DEF Typed, StartsSession
    <2>3. Goes
      BY <1>1, <1>2, <1>4, <2>1
      DEF StartsSession, DiscoveryInv, Typed, Session, Goes, Finishing, Later, Present
    <2> QED
      BY <1>2, <2>2, <2>3, StillAside DEF Shape
  <1>5. CASE EndsSession
    <2>1. budget' \in Budget /\ budget'.ops = budget.ops
      BY <1>1, <1>5, UsesTyped DEF EndsSession
    <2>2. /\ sess' \in Session /\ sess'.n = sess.n /\ sess'.at = sess.at
          /\ sess'.watch = sess.watch /\ sess'.base = sess.base /\ sess'.was = sess.was
      BY <1>1, <1>5 DEF EndsSession, Typed, Session
    <2>3. Typed'
      BY <1>1, <1>2, <1>5, <2>1, <2>2 DEF Typed, EndsSession
    <2>4. Goes
      BY <1>1, <1>2, <2>1, <2>2
      DEF DiscoveryInv, Typed, Session, Goes, Finishing, Later, Present
    <2> QED
      BY <1>2, <2>3, <2>4, StillAside DEF Shape
  <1>6. ASSUME NEW p \in Path, AddsDirectory(p)
        PROVE  Shape
    <2>1. budget' \in Budget /\ budget'.ops = budget.ops
      BY <1>1, <1>6, UsesTyped DEF AddsDirectory
    <2>2. Typed'
      BY <1>1, <1>2, <1>6, <2>1 DEF Typed, AddsDirectory
    <2> QED
      BY <1>2, <1>6, <2>1, <2>2, StillGoes, StillAside DEF Shape, AddsDirectory
  <1> QED
    BY <1>3, <1>4, <1>5, <1>6

LEMMA RowsShape ==
  ASSUME DiscoveryInv, NEW c \in Content, Deletes(c) \/ Archives(c) \/ Sweeps(c) \/ Validates(c)
  PROVE  Shape
  <1>1. Typed
    BY DEF DiscoveryInv
  <1>2. CASE Deletes(c)
    <2>1. budget' \in Budget /\ budget'.ops = budget.ops
      BY <1>1, <1>2, UsesTyped DEF Deletes
    <2>2. rows' \in Table
      BY <1>1, <1>2 DEF Deletes, Typed, Table
    <2>3. Typed'
      BY <1>1, <1>2, <2>1, <2>2, LoudAside DEF Typed, Deletes
    <2> QED
      BY <1>1, <1>2, <2>1, <2>3, StillGoes, LoudAside DEF Shape, Deletes
  <1>3. CASE Archives(c)
    <2>1. budget' \in Budget /\ budget'.ops = budget.ops
      BY <1>1, <1>3, UsesTyped DEF Archives
    <2>2. rows' \in Table
      <3>1. rows[c] \in Row
        BY <1>1, <1>3 DEF Archives, Typed, Table
      <3>2. [rows[c] EXCEPT !.archived = TRUE] \in Row
        BY <3>1 DEF Row
      <3> QED
        BY <1>1, <1>3, <3>2 DEF Archives, Typed, Table
    <2>3. Typed'
      BY <1>1, <1>3, <2>1, <2>2, LoudAside DEF Typed, Archives
    <2> QED
      BY <1>1, <1>3, <2>1, <2>3, StillGoes, LoudAside DEF Shape, Archives
  <1>4. CASE Sweeps(c)
    <2>1. rows' \in Table
      BY <1>1, <1>4 DEF Sweeps, Typed, Table
    <2>2. Typed'
      BY <1>1, <1>4, <2>1, LoudAside DEF Typed, Sweeps
    <2> QED
      BY <1>1, <1>4, <2>2, StillGoes, LoudAside DEF Shape, Sweeps
  <1>5. CASE Validates(c)
    <2>1. budget' \in Budget /\ budget'.ops = budget.ops
      BY <1>1, <1>5, UsesTyped DEF Validates
    <2>2. worker' \in Look
      <3>1. rows[c] \in Row
        BY <1>1, <1>5 DEF Validates, Typed, Table
      <3> QED
        BY <1>1, <1>5, <3>1 DEF Validates, Typed, Look, Row
    <2>3. Typed'
      BY <1>1, <1>5, <2>1, <2>2 DEF Typed, Validates
    <2> QED
      BY <1>5, <2>1, <2>3, StillGoes, StillAside DEF Shape, Validates
  <1> QED
    BY <1>2, <1>3, <1>4, <1>5

LEMMA RecordsShape == ASSUME DiscoveryInv, Records PROVE Shape
  <1>1. Typed
    BY DEF DiscoveryInv
  <1>2. PICK c, v : c = worker.c /\ v = Verdict(worker.found, c)
    OBVIOUS
  <1>3. worker \in Look /\ c \in Content /\ v \in {"available", "missing", "replaced"}
    BY <1>1, <1>2 DEF Records, Typed, Look, Verdict
  <1>4. rows' \in Table
    <2>1. ASSUME rows[c] # None
          PROVE  [rows[c] EXCEPT !.state = v, !.stat =
                    IF v = "available" THEN StatOf(worker.found) ELSE @] \in Row
      <3>1. rows[c] \in Row
        BY <1>1, <1>3, <2>1 DEF Typed, Table
      <3>2. v = "available" => StatOf(worker.found) \in Stat
        BY <1>2, <1>3, StatTyped DEF Verdict, Look, Files
      <3> QED
        BY <1>3, <3>1, <3>2 DEF Row
    <2>2. \/ rows' = rows
          \/ rows' = [rows EXCEPT ![c] = None]
          \/ /\ rows[c] # None
             /\ rows' = [rows EXCEPT ![c].state = v, ![c].stat =
                            IF v = "available" THEN StatOf(worker.found) ELSE @]
      BY <1>2 DEF Records
    <2> QED
      BY <1>1, <1>3, <2>1, <2>2 DEF Typed, Table
  <1>5. Typed'
    BY <1>1, <1>4, LoudAside DEF Typed, Records
  <1> QED
    BY <1>1, <1>5, StillGoes, LoudAside DEF Shape, Records

-----------------------------------------------------------------------------
(* The steps of a call *)

Runs(a) ==
    /\ Typed' /\ Goes
    /\ \A b \in Pass : b # a => Aside(b)
    /\ (pass[a] # Idle => CallInv(pass[a]))'

LEMMA MovesRuns ==
  ASSUME DiscoveryInv, NEW a \in Pass, NEW q \in {Idle} \cup Call, Moves(a, q), PassStep,
         UNCHANGED <<rows, sess>>, q # Idle => CallInv(q)
  PROVE  Runs(a)
  <1>1. Typed
    BY DEF DiscoveryInv
  <1>2. /\ pass' \in [Pass -> {Idle} \cup Call] /\ pass'[a] = q
        /\ \A b \in Pass : b # a => pass'[b] = pass[b]
    BY <1>1, MovesPasses
  <1>3. \A b \in Pass : b # a => Aside(b)
    BY <1>2 DEF Aside, PassStep
  <1>4. Typed'
    BY <1>1, <1>2 DEF Typed, PassStep
  <1>5. Goes
    BY StillGoes DEF PassStep
  <1>6. q # Idle => CallInv(q)'
    <2> SUFFICES ASSUME q # Idle, CallInv(q) PROVE CallInv(q)'
      OBVIOUS
    <2>1. UNCHANGED <<disk, rows, sess, ignored, budget>>
      BY DEF PassStep
    <2> QED
      BY <2>1 DEF CallInv, CallFits, Weighed, Beyond, CallTells, Kept, Backfill, Outside, Seen,
                  Open, Present
  <1> QED
    BY <1>2, <1>3, <1>4, <1>5, <1>6 DEF Runs

LEMMA StopsRuns ==
  ASSUME DiscoveryInv, NEW a \in Pass, Stops(a), PassStep, UNCHANGED <<rows, sess>>
  PROVE  Runs(a)
  BY MovesRuns DEF Stops

LEMMA TellsRuns ==
  ASSUME DiscoveryInv, NEW a \in Pass, NEW q \in {Idle} \cup Call, Tells(a, q),
         UNCHANGED <<disk, ignored, dirs, worker, start, now, budget>>,
         rows' \in Table, births' \in [Content -> Nat], sess' \in Session, Goes,
         q # Idle => CallInv(q)'
  PROVE  Runs(a)
  <1>1. Typed
    BY DEF DiscoveryInv
  <1>2. /\ pass' \in [Pass -> {Idle} \cup Call] /\ pass'[a] = q
        /\ \A b \in Pass : b # a => pass'[b] = IF pass[b] = Idle THEN Idle
                                               ELSE [pass[b] EXCEPT !.quiet = FALSE]
    BY <1>1, TellsPasses
  <1>3. \A b \in Pass : b # a => Aside(b)
    BY <1>2 DEF Aside
  <1>4. Typed'
    BY <1>1, <1>2 DEF Typed
  <1> QED
    BY <1>2, <1>3, <1>4 DEF Runs

\* What is known of a call that is about to take a step
LEMMA UnderWay ==
  ASSUME DiscoveryInv, NEW a \in Pass, pass[a] # Idle
  PROVE  Typed /\ pass[a] \in Call /\ CallInv(pass[a])
  BY DEF DiscoveryInv, Typed

LEMMA FreshCall ==
  ASSUME NEW q \in Call, q.pc = "scan", q.todo = {}, q.mode \in {"poll", "check"},
         q.sess <= sess.n, q.ign \subseteq ignored
  PROVE  CallInv(q)
  BY DEF CallInv, CallFits, Weighed, Beyond, CallTells, Discovers

LEMMA ChecksRuns == ASSUME DiscoveryInv, NEW a \in Pass, Checks(a) PROVE Runs(a)
  <1>1. Typed /\ New("check") \in Call
    BY NewTyped DEF DiscoveryInv
  <1>2. CallInv(New("check"))
    <2>1. PICK q : q = New("check")
      OBVIOUS
    <2>2. q.pc = "scan" /\ q.todo = {} /\ q.mode = "check" /\ q.sess = sess.n /\ q.ign = ignored
      BY <2>1 DEF New
    <2> QED
      BY <1>1, <2>1, <2>2, FreshCall DEF Typed, Session
  <1> QED
    BY <1>1, <1>2, MovesRuns DEF Checks

LEMMA PollsRuns == ASSUME DiscoveryInv, NEW a \in Pass, Polls(a) PROVE Runs(a)
  <1>1. Typed /\ New("poll") \in Call
    BY NewTyped DEF DiscoveryInv
  <1>2. PICK q : q = New("poll")
    OBVIOUS
  <1>3. /\ q \in Call /\ q.pc = "scan" /\ q.todo = {} /\ q.mode = "poll" /\ q.sess = sess.n
        /\ q.ign = ignored
    BY <1>1, <1>2 DEF New
  <1>4. /\ pass' \in [Pass -> {Idle} \cup Call] /\ pass'[a] = q
        /\ \A b \in Pass : b # a => pass'[b] = pass[b]
    BY <1>1, <1>2, <1>3, MovesPasses DEF Polls
  <1>5. Snapshot \in Stats
    BY SMTT(30), <1>1, SnapshotTyped
  <1>6. PICK watch, base, was :
           /\ sess' = [sess EXCEPT !.watch = watch, !.base = base, !.was = was]
           /\ watch = [p \in Path |-> sess.watch[p] \/ (dirs[p] # "none" /\ ~sess.watch[p])]
           /\ base = [p \in Path |-> IF dirs[p] # "none" /\ ~sess.watch[p] THEN Snapshot[p]
                                     ELSE sess.base[p]]
           /\ was = [p \in Path |-> IF dirs[p] # "none" /\ ~sess.watch[p] THEN Snapshot[p]
                                    ELSE sess.was[p]]
    BY <1>1 DEF Polls, Attached, Typed, Session
  <1>7. watch \in Marks /\ base \in Stats /\ was \in Stats
    BY <1>1, <1>5, <1>6 DEF Typed, Session, Marks, Stats
  <1>8. /\ sess' \in Session /\ sess'.n = sess.n /\ sess'.at = sess.at /\ sess'.watch = watch
        /\ sess'.base = base /\ sess'.was = was
    BY <1>1, <1>6, <1>7 DEF Typed, Session
  <1>9. Typed'
    BY <1>1, <1>4, <1>8 DEF Typed, Polls, PassStep
  <1>10. Goes
    <2>1. \A p \in Path : sess.watch[p] => watch[p] /\ base[p] = sess.base[p]
      BY <1>6
    <2>2. Kept => was = base
      BY <1>1, <1>6 DEF DiscoveryInv
    <2>3. sess.n <= sess'.n
      BY <1>1, <1>8 DEF Typed, Session
    <2>4. UNCHANGED <<disk, ignored, budget>>
      BY DEF Polls, PassStep
    <2>5. Finishing /\ \A p \in Path : disk'[p] # None => Dated(disk'[p])
      BY <2>4 DEF Finishing, Later, DiscoveryInv, Present
    <2> QED
      BY <1>8, <2>1, <2>2, <2>3, <2>4, <2>5 DEF Goes
  <1>11. \A b \in Pass : b # a => Aside(b)
    BY <1>4 DEF Aside, Polls, PassStep
  <1>12. CallInv(q)'
    BY <1>1, <1>3, <1>8
    DEF CallInv, CallFits, Weighed, Beyond, CallTells, Discovers, Polls, PassStep, Typed, Session,
        Call, Kept
  <1> QED
    BY <1>4, <1>9, <1>10, <1>11, <1>12 DEF Runs

LEMMA ImportsRuns ==
  ASSUME DiscoveryInv, NEW a \in Pass, NEW p \in Path, Imports(a, p)
  PROVE  Runs(a)
  <1>1. Typed /\ New("import") \in Call
    BY NewTyped DEF DiscoveryInv
  <1>2. PICK q : q = [New("import") EXCEPT !.pc = "read", !.p = p, !.deferred = TRUE]
    OBVIOUS
  <1>3. /\ q \in Call /\ q.pc = "read" /\ q.todo = {} /\ q.mode = "import" /\ q.sess = sess.n
        /\ q.ign = ignored /\ q.p = p /\ q.quiet = FALSE
    BY <1>1, <1>2 DEF New, Call
  <1>4. CallInv(q)
    BY <1>1, <1>3
    DEF CallInv, CallFits, Weighed, Beyond, CallTells, Discovers, Imports, Typed, Session, Call
  <1> QED
    BY <1>2, <1>3, <1>4, MovesRuns DEF Imports

LEMMA StartsRegisterRuns ==
  ASSUME DiscoveryInv, NEW a \in Pass, NEW p \in Path, StartsRegister(a, p)
  PROVE  Runs(a)
  <1>1. Typed /\ New("register") \in Call
    BY NewTyped DEF DiscoveryInv
  <1>2. PICK q, o, cand : /\ q = [New("register") EXCEPT !.pc = "wait", !.todo = {p},
                                                        !.cand[p] = disk[p]]
                          /\ o = New("register") /\ cand = [o.cand EXCEPT ![p] = disk[p]]
    OBVIOUS
  <1>3. disk[p] \in File
    BY <1>1 DEF StartsRegister, Present, Typed, Files
  <1>4. cand \in [Path -> Files] /\ cand[p] = disk[p]
    BY <1>1, <1>2, <1>3 DEF Call, Files
  <1>5. /\ q \in Call /\ q.pc = "wait" /\ q.todo = {p} /\ q.mode = "register" /\ q.sess = sess.n
        /\ q.ign = ignored /\ q.quiet = FALSE /\ q.cand[p] = disk[p]
    <2>1. q = [o EXCEPT !.pc = "wait", !.todo = {p}, !.cand = cand]
      BY <1>2 DEF New
    <2>2. o \in Call
      BY <1>1, <1>2
    <2>3. o.mode = "register" /\ o.sess = sess.n /\ o.ign = ignored /\ o.quiet = FALSE
      BY <1>2 DEF New
    <2> QED
      BY <1>4, <2>1, <2>2, <2>3 DEF Call
  <1>6. CallInv(q)
    BY <1>1, <1>3, <1>4, <1>5
    DEF CallInv, CallFits, Weighed, Beyond, CallTells, Discovers, Typed, Session, Call, Later
  <1> QED
    BY <1>2, <1>5, <1>6, MovesRuns DEF StartsRegister

LEMMA ScansRuns == ASSUME DiscoveryInv, NEW a \in Pass, Scans(a) PROVE Runs(a)
  <1>1. pass[a] # Idle /\ pass[a].pc = "scan"
    BY DEF Scans
  <1>2. CASE ~Active(a)
    BY <1>2, StopsRuns DEF Scans
  <1>3. CASE Active(a)
    <2>1. PICK o, todo, busy, cand : /\ o = pass[a]
                    /\ todo = {p \in Watched : Present(p) /\ (o.mode = "check" \/ ~Unchanged(p))}
                    /\ busy = Busy
                    /\ cand = [p \in Path |-> IF p \in todo THEN disk[p] ELSE None]
      OBVIOUS
    <2>2. PICK q : q = [o EXCEPT !.pc = "wait", !.known = rows, !.watch = sess.watch,
                    !.todo = todo, !.quiet = o.mode = "check", !.ign = ignored, !.busy = busy,
                    !.cand = cand]
      OBVIOUS
    <2>3. Typed /\ o \in Call /\ CallInv(o)
      BY <1>1, <2>1, UnderWay
    <2>4. /\ todo \subseteq Path /\ busy \subseteq Content /\ cand \in [Path -> Files]
          /\ \A p \in todo : cand[p] = disk[p] /\ disk[p] \in File /\ sess.watch[p] /\ Present(p)
          /\ o.mode = "check" => \A p \in Path : sess.watch[p] /\ Present(p) => p \in todo
      BY <2>1, <2>3 DEF Typed, Watched, Present, Files, Busy, Look
    <2>5. (o.mode = "check") \in BOOLEAN
      OBVIOUS
    <2>6. /\ q \in Call /\ q.pc = "wait" /\ q.known = rows /\ q.watch = sess.watch
          /\ q.todo = todo /\ q.quiet = (o.mode = "check") /\ q.ign = ignored /\ q.cand = cand
          /\ q.mode = o.mode /\ q.sess = o.sess
      BY <2>2, <2>3, <2>4, <2>5 DEF Call, Typed, Session
    <2>7. CallFits(q)
      BY <2>3, <2>4, <2>6 DEF CallInv, CallFits
    <2>8. Weighed(q) /\ Beyond(q)
      BY <2>4, <2>6 DEF Weighed, Beyond, Later
    <2>9. CallTells(q)
      BY <2>3, <2>4, <2>6 DEF CallTells, Open, Seen, Outside, Typed, Table, Row
    <2>10. Moves(a, q) /\ PassStep /\ UNCHANGED <<rows, sess>>
      BY <1>3, <2>1, <2>2 DEF Scans
    <2> QED
      BY <2>6, <2>7, <2>8, <2>9, <2>10, MovesRuns DEF CallInv
  <1> QED
    BY <1>2, <1>3

LEMMA WaitsRuns == ASSUME DiscoveryInv, NEW a \in Pass, Waits(a) PROVE Runs(a)
  <1>1. CASE ~Active(a)
    BY <1>1, StopsRuns DEF Waits
  <1>2. CASE Active(a)
    <2>1. PICK o, q : o = pass[a] /\ q = [o EXCEPT !.pc = "next"]
      OBVIOUS
    <2>2. Typed /\ o \in Call /\ CallInv(o) /\ o.pc = "wait"
      BY <2>1, UnderWay DEF Waits
    <2>3. /\ q \in Call /\ q.pc = "next" /\ q.mode = o.mode /\ q.sess = o.sess /\ q.cand = o.cand
          /\ q.known = o.known /\ q.watch = o.watch /\ q.todo = o.todo /\ q.quiet = o.quiet
          /\ q.ign = o.ign
      BY <2>1, <2>2 DEF Call
    <2>4. CallFits(q)
      BY <2>2, <2>3 DEF CallInv, CallFits
    <2>5. ASSUME Kept
          PROVE  Weighed(q) /\ Beyond(q)
      <3>1. ASSUME NEW p \in o.todo, o.cand[p].c \in Half
            PROVE  disk[p].c # o.cand[p].c
        <4>1. disk[p] # o.cand[p]
          BY <2>1, <3>1 DEF Waits
        <4>2. disk[p] \in File /\ o.cand[p] \in File /\ Later(disk[p], o.cand[p])
          BY <2>2, <2>5 DEF CallInv, CallFits, Weighed
        <4> QED
          BY <3>1, <4>1, <4>2, DiscoveryAssumption DEF Later, File, Content
      <3> QED
        BY <2>2, <2>3, <2>5, <3>1 DEF CallInv, Weighed, Beyond, Discovers
    <2>6. CallTells(q)
      BY <2>2, <2>3 DEF CallInv, CallTells, Open, Seen, Outside
    <2>7. Moves(a, q) /\ PassStep /\ UNCHANGED <<rows, sess>>
      BY <1>2, <2>1 DEF Waits
    <2> QED
      BY <2>3, <2>4, <2>5, <2>6, <2>7, MovesRuns DEF CallInv
  <1> QED
    BY <1>1, <1>2

LEMMA ResamplesRuns ==
  ASSUME DiscoveryInv, NEW a \in Pass, NEW p \in Path, Resamples(a, p)
  PROVE  Runs(a)
  <1>1. PICK o : o = pass[a]
    OBVIOUS
  <1>2. Typed /\ o \in Call /\ CallInv(o) /\ o.pc = "next" /\ p \in o.todo
    BY <1>1, UnderWay DEF Resamples
  <1>3. CASE ~Stable(a, p)
    <2>1. PICK q : q = [o EXCEPT !.todo = @ \ {p}]
      OBVIOUS
    <2>2. /\ q \in Call /\ q.pc = "next" /\ q.mode = o.mode /\ q.sess = o.sess /\ q.cand = o.cand
          /\ q.known = o.known /\ q.watch = o.watch /\ q.todo = o.todo \ {p} /\ q.quiet = o.quiet
          /\ q.ign = o.ign
      BY <1>2, <2>1 DEF Call
    <2>3. CallFits(q) /\ (Kept => Weighed(q) /\ Beyond(q))
      BY <1>2, <2>2 DEF CallInv, CallFits, Weighed, Beyond, Discovers
    <2>4. CallTells(q)
      <3>1. ~o.quiet
        <4>1. o.quiet => o.mode = "check" /\ Seen(o, p) /\ o.cand[p] = disk[p]
          BY <1>2 DEF CallInv, CallTells, Open
        <4> QED
          BY <1>1, <1>3, <4>1 DEF Stable, Seen
      <3> QED
        BY <2>2, <3>1 DEF CallTells
    <2>5. Moves(a, q) /\ PassStep /\ UNCHANGED <<rows, sess>>
      BY <1>1, <1>3, <2>1 DEF Resamples
    <2> QED
      BY <2>2, <2>3, <2>4, <2>5, MovesRuns DEF CallInv
  <1>4. CASE Stable(a, p)
    <2>1. PICK cand, pc : /\ cand = [o.cand EXCEPT ![p] = disk[p]]
                          /\ pc = IF o.mode = "register" THEN "read" ELSE "decide"
      OBVIOUS
    <2>2. PICK q : q = [o EXCEPT !.todo = o.todo \ {p}, !.p = p, !.cand = cand, !.pc = pc]
      OBVIOUS
    <2>3. /\ p \in Path /\ disk[p] \in File /\ cand \in [Path -> Files] /\ cand[p] = disk[p]
          /\ \A x \in o.todo \ {p} : cand[x] = o.cand[x]
      BY <1>2, <1>4, <2>1 DEF Stable, Present, Typed, Files, Call
    <2>4. /\ q \in Call /\ q.pc = pc /\ q.mode = o.mode /\ q.sess = o.sess /\ q.cand = cand
          /\ q.known = o.known /\ q.watch = o.watch /\ q.todo = o.todo \ {p} /\ q.quiet = o.quiet
          /\ q.ign = o.ign /\ q.p = p /\ pc \in {"read", "decide"}
      BY <1>2, <2>1, <2>2, <2>3 DEF Call
    <2>5. Moves(a, q) /\ PassStep /\ UNCHANGED <<rows, sess>>
      BY <1>1, <1>2, <1>4, <2>1, <2>2 DEF Resamples, Call
    <2>6. CallFits(q)
      BY <1>2, <2>1, <2>3, <2>4 DEF CallInv, CallFits, Discovers
    <2>7. ASSUME Kept
          PROVE  Weighed(q) /\ Beyond(q)
      <3>1. disk[p].c \in Whole
        <4>1. StatOf(disk[p]) = StatOf(o.cand[p]) /\ o.cand[p] \in File
          BY <1>1, <1>2, <1>4 DEF Stable, CallInv, CallFits
        <4>2. o.cand[p].c \in Half => disk[p].c # o.cand[p].c
          BY <1>2, <2>7 DEF CallInv, Weighed
        <4> QED
          BY <2>3, <4>1, <4>2, DiscoveryAssumption DEF StatOf, File, Content
      <3>2. Weighed(q)
        BY <1>2, <2>1, <2>3, <2>4, <2>7, <3>1 DEF CallInv, Weighed, Discovers
      <3>3. Beyond(q)
        BY <1>2, <2>1, <2>3, <2>4, <2>7 DEF CallInv, Beyond, Discovers
      <3> QED
        BY <3>2, <3>3
    <2>8. CallTells(q)
      <3> SUFFICES ASSUME q.quiet PROVE CallTells(q)
        BY DEF CallTells
      <3>1. o.mode = "check" /\ pc = "decide"
        BY <1>2, <2>1, <2>4 DEF CallInv, CallTells
      <3>2. Open(q) = Open(o)
        BY <1>2, <2>4, <3>1 DEF Open
      <3>3. \A x \in Open(q) : Seen(q, x) /\ q.cand[x] = disk[x]
        BY <1>2, <2>3, <2>4, <3>1, <3>2 DEF CallInv, CallTells, Seen, Open
      <3> QED
        BY <1>2, <2>4, <3>1, <3>2, <3>3 DEF CallInv, CallTells, Seen, Outside
    <2> QED
      BY <2>4, <2>5, <2>6, <2>7, <2>8, MovesRuns DEF CallInv
  <1> QED
    BY <1>3, <1>4

LEMMA DecidesRuns == ASSUME DiscoveryInv, NEW a \in Pass, Decides(a) PROVE Runs(a)
  <1>1. PICK o, p, f : o = pass[a] /\ p = o.p /\ f = o.cand[p]
    OBVIOUS
  <1>2. /\ Typed /\ o \in Call /\ CallInv(o) /\ o.pc = "decide" /\ At(o.known, p) = {}
        /\ p \in Path \ o.todo /\ f \in File
    BY <1>1, UnderWay DEF Decides, CallInv, CallFits
  <1>3. PICK pc, later : /\ pc = IF f.c \notin ignored /\ ~InBaseline(o.sess, p, f) THEN "read"
                                 ELSE "next"
                         /\ later = Backfill(f)
    OBVIOUS
  <1>4. PICK q : q = [o EXCEPT !.pc = pc, !.deferred = later]
    OBVIOUS
  <1>5. later \in BOOLEAN
    BY <1>3 DEF Backfill
  <1>6. /\ q \in Call /\ q.pc = pc /\ q.mode = o.mode /\ q.sess = o.sess /\ q.cand = o.cand
        /\ q.known = o.known /\ q.watch = o.watch /\ q.todo = o.todo /\ q.quiet = o.quiet
        /\ q.ign = o.ign /\ q.p = p /\ pc \in {"read", "next"} /\ q.deferred = later
    <2>1. pc \in {"read", "next"}
      BY <1>3
    <2> QED
      BY <1>1, <1>2, <1>4, <1>5, <2>1 DEF Call
  <1>7. Moves(a, q) /\ PassStep /\ UNCHANGED <<rows, sess>>
    BY <1>1, <1>3, <1>4 DEF Decides
  <1>8. CallFits(q)
    BY <1>1, <1>2, <1>3, <1>6 DEF CallInv, CallFits, Discovers
  <1>9. ASSUME Kept
        PROVE  Weighed(q) /\ Beyond(q)
    <2>1. Weighed(q)
      BY <1>1, <1>2, <1>6, <1>9 DEF CallInv, Weighed, Discovers
    <2>2. Beyond(q)
      BY <1>1, <1>2, <1>3, <1>6, <1>9 DEF CallInv, Beyond, Discovers, InBaseline
    <2> QED
      BY <2>1, <2>2
  <1>10. CallTells(q)
    <2> SUFFICES ASSUME q.quiet PROVE CallTells(q)
      BY DEF CallTells
    <2>1. Open(o) = o.todo \cup {p} /\ Open(q) = o.todo
      BY <1>1, <1>2, <1>6 DEF Open
    <2>2. ASSUME NEW c \in Content, rows[c] # None
          PROVE  rows[c].path # p
      <3>1. rows[c].path = p => rows[c] = o.known[c]
        BY <1>2, <1>6, <2>1, <2>2 DEF CallInv, CallTells, Outside
      <3> QED
        BY <1>2, <2>2, <3>1 DEF At
    <2>3. ASSUME NEW t, Outside(q, t)
          PROVE  Outside(o, t)
      BY <1>6, <2>1, <2>3 DEF Outside, Seen
    <2> QED
      BY <1>1, <1>2, <1>6, <2>1, <2>2, <2>3 DEF CallInv, CallTells, Seen
  <1> QED
    BY <1>6, <1>7, <1>8, <1>9, <1>10, MovesRuns DEF CallInv

LEMMA ReadsRuns == ASSUME DiscoveryInv, NEW a \in Pass, Reads(a) PROVE Runs(a)
  <1>1. PICK o, f : o = pass[a] /\ f = disk[o.p]
    OBVIOUS
  <1>2. /\ Typed /\ o \in Call /\ CallInv(o) /\ o.pc = "read" /\ o.p \in Path \ o.todo
    BY <1>1, UnderWay DEF Reads, CallInv, CallFits
  <1>3. CASE ~Active(a) \/ f = None \/ f.c \in ignored
    BY <1>1, <1>3, StopsRuns DEF Reads
  <1>4. CASE ~(~Active(a) \/ f = None \/ f.c \in ignored)
    <2>1. PICK q : q = [o EXCEPT !.pc = "insert", !.read = f]
      OBVIOUS
    <2>2. f \in File /\ f.c \notin o.ign /\ Dated(f)
      BY <1>1, <1>2, <1>4 DEF DiscoveryInv, Typed, Files, CallInv, CallFits, Present
    <2>3. /\ q \in Call /\ q.pc = "insert" /\ q.mode = o.mode /\ q.sess = o.sess /\ q.cand = o.cand
          /\ q.known = o.known /\ q.watch = o.watch /\ q.todo = o.todo /\ q.quiet = o.quiet
          /\ q.ign = o.ign /\ q.p = o.p /\ q.deferred = o.deferred /\ q.read = f
      BY <1>2, <2>1, <2>2 DEF Call, Files
    <2>4. Moves(a, q) /\ PassStep /\ UNCHANGED <<rows, sess>>
      BY <1>1, <1>4, <2>1 DEF Reads
    <2>5. CallFits(q)
      BY <1>2, <2>2, <2>3 DEF CallInv, CallFits, Discovers
    <2>6. Kept => Weighed(q) /\ Beyond(q)
      BY <1>1, <1>2, <2>3 DEF CallInv, Weighed, Beyond, Discovers
    <2>7. CallTells(q)
      BY <1>1, <1>2, <2>3 DEF CallInv, CallTells, Open, Seen, Outside
    <2> QED
      BY <2>3, <2>4, <2>5, <2>6, <2>7, MovesRuns DEF CallInv
  <1> QED
    BY <1>3, <1>4

\* What does not depend on the rows
LEMMA RowsOnly ==
  ASSUME NEW q, UNCHANGED <<disk, sess, ignored, budget>>,
         CallFits(q), Kept => Weighed(q) /\ Beyond(q)
  PROVE  CallFits(q)' /\ (Kept => Weighed(q) /\ Beyond(q))'
  BY DEF CallFits, Weighed, Beyond, Kept, Backfill

\* A row after a refresh, a replacement or an insertion: it is one of another path,
\* or a generation that is replaced, or the row kept.
Generation(old, new, p, c, keep) ==
    /\ c # keep /\ old # None /\ old.path = p => new = [old EXCEPT !.state = "replaced"]
    /\ c # keep /\ ~(old # None /\ old.path = p) => new = old

\* What a step does to the row of content c when it settles path p
RightAt(p, c) ==
    \/ rows'[c] = rows[c] /\ (rows[c] # None => rows[c].path # p)
    \/ /\ rows[c] # None => rows[c].path = p
       /\ rows'[c] # None =>
             rows'[c].path = p /\ (rows'[c].state = "available" <=> disk[p].c = c)

LEMMA GenerationRight ==
  ASSUME rows \in Table, rows' \in Table, NEW p, NEW c \in Content, NEW keep, c # keep,
         Generation(rows[c], rows'[c], p, c, keep), c # disk[p].c
  PROVE  RightAt(p, c)
  <1>1. CASE rows[c] # None /\ rows[c].path = p
    <2>1. rows[c] \in Row /\ rows'[c] = [rows[c] EXCEPT !.state = "replaced"]
      BY <1>1 DEF Table, Generation
    <2>2. rows'[c].state = "replaced" /\ rows'[c].path = p
      BY <1>1, <2>1 DEF Row
    <2> QED
      BY <1>1, <2>2 DEF RightAt
  <1>2. CASE ~(rows[c] # None /\ rows[c].path = p)
    BY <1>2 DEF Generation, RightAt
  <1> QED
    BY <1>1, <1>2

LEMMA TellsOn ==
  ASSUME NEW o \in Call, NEW q \in Call, CallTells(o), o.quiet, o.pc # "scan",
         NEW p, q.pc = "next" \/ (q.pc = "read" /\ q.p = p),
         q.mode = o.mode, q.known = o.known, q.watch = o.watch, q.cand = o.cand,
         Seen(o, p), p \notin Open(q), Open(o) \subseteq Open(q) \cup {p},
         Open(q) \subseteq Open(o), disk' = disk, \A c \in Content : RightAt(p, c)
  PROVE  CallTells(q)'
  <1>1. Open(q)' = Open(q)
    BY DEF Open
  <1>2. \A x : Seen(q, x)' <=> Seen(o, x)
    BY DEF Seen, Present
  <1>3. ASSUME NEW t, Outside(q, t)'
        PROVE  Outside(o, t) /\ t.path # p
    BY <1>1, <1>2, <1>3 DEF Outside
  <1>4. ASSUME NEW c \in Content, Outside(q, q.known[c])'
        PROVE  rows'[c] = q.known[c]
    <2>1. rows[c] = o.known[c] /\ rows[c] # None /\ rows[c].path # p
      BY <1>3, <1>4 DEF CallTells, Outside
    <2> QED
      BY <2>1 DEF RightAt
  <1>5. ASSUME NEW c \in Content, Outside(q, rows[c])'
        PROVE  rows'[c] = q.known[c]
    <2>1. PICK t : t = rows'[c]
      OBVIOUS
    <2>2. Outside(q, t)'
      BY <1>5, <2>1 DEF Outside, Seen, Open
    <2>3. Outside(o, t) /\ t.path # p
      BY <1>3, <2>2
    <2>4. rows[c] = t
      BY <2>1, <2>3 DEF RightAt, Outside
    <2>5. Outside(o, rows[c])
      BY <2>3, <2>4, Zenon
    <2>6. rows[c] = o.known[c]
      BY <2>5, Zenon DEF CallTells
    <2> QED
      BY <2>1, <2>4, <2>6
  <1>6. ASSUME NEW c \in Content, rows'[c] # None, Seen(o, rows'[c].path),
               rows'[c].path \notin Open(q)
        PROVE  rows'[c].state = "available" <=> disk[rows'[c].path].c = c
    <2>1. CASE rows'[c] = rows[c] /\ (rows[c] # None => rows[c].path # p)
      BY <1>6, <2>1 DEF CallTells
    <2>2. CASE ~(rows'[c] = rows[c] /\ (rows[c] # None => rows[c].path # p))
      <3>1. RightAt(p, c)
        OBVIOUS
      <3>2. rows'[c].path = p /\ (rows'[c].state = "available" <=> disk[p].c = c)
        BY <1>6, <2>2, <3>1, Zenon DEF RightAt
      <3> QED
        BY <3>2
    <2> QED
      BY <2>1, <2>2
  <1>7. \A x \in Open(q) : Seen(o, x) /\ q.cand[x] = disk[x]
    BY DEF CallTells
  <1> QED
    BY <1>1, <1>2, <1>4, <1>5, <1>6, <1>7 DEF CallTells, Seen

LEMMA RefreshesRuns == ASSUME DiscoveryInv, NEW a \in Pass, Refreshes(a) PROVE Runs(a)
  <1>1. PICK o, p, f : o = pass[a] /\ p = o.p /\ f = o.cand[p]
    OBVIOUS
  <1>2. /\ Typed /\ o \in Call /\ CallInv(o) /\ o.pc = "decide" /\ f.c \in At(o.known, p)
        /\ p \in Path \ o.todo /\ f \in File
    BY <1>1, UnderWay DEF Refreshes, CallInv, CallFits
  <1>3. PICK same, fresh :
           /\ same = (rows[f.c] # None /\ rows[f.c].n = o.known[f.c].n)
           /\ fresh = IF same THEN [rows EXCEPT ![f.c].stat = StatOf(f), ![f.c].state = "available"]
                      ELSE rows
    OBVIOUS
  <1>4. PICK q : q = [o EXCEPT !.pc = "next"]
    OBVIOUS
  <1>5. /\ q \in Call /\ q.pc = "next" /\ q.mode = o.mode /\ q.sess = o.sess /\ q.cand = o.cand
        /\ q.known = o.known /\ q.watch = o.watch /\ q.todo = o.todo /\ q.quiet = o.quiet
        /\ q.ign = o.ign
    BY SMTT(30), <1>2, <1>4 DEF Call
  <1>6. Tells(a, q) /\ PassStep /\ UNCHANGED sess /\ rows' = Retired(fresh, p, f.c)
    BY <1>1, <1>3, <1>4 DEF Refreshes
  <1>7. f.c \in Content /\ o.known[f.c] # None /\ o.known[f.c].path = p
    BY <1>2 DEF At
  <1>8. same => [rows[f.c] EXCEPT !.stat = StatOf(f), !.state = "available"] \in Row
    <2>1. same => rows[f.c] \in Row
      BY <1>2, <1>3, <1>7 DEF Typed, Table
    <2>2. StatOf(f) \in Stat
      BY <1>2, StatTyped
    <2> QED
      BY <2>1, <2>2 DEF Row
  <1>9. /\ fresh \in Table /\ \A c \in Content : c # f.c => fresh[c] = rows[c]
        /\ same => fresh[f.c] = [rows[f.c] EXCEPT !.stat = StatOf(f), !.state = "available"]
        /\ ~same => fresh[f.c] = rows[f.c]
    BY <1>2, <1>3, <1>7, <1>8 DEF Typed, Table
  <1>10. /\ rows' \in Table /\ rows'[f.c] = fresh[f.c]
         /\ \A c \in Content : Generation(rows[c], rows'[c], p, c, f.c)
    <2>1. /\ rows' \in Table
          /\ \A c \in Content :
               rows'[c] = IF fresh[c] # None /\ fresh[c].path = p /\ c # f.c
                          THEN [fresh[c] EXCEPT !.state = "replaced"] ELSE fresh[c]
      BY <1>6, <1>9, RetiredTyped
    <2> QED
      BY <1>7, <1>9, <2>1 DEF Generation
  <1>11. CallFits(q)' /\ (Kept => Weighed(q) /\ Beyond(q))'
    <2>1. CallFits(q) /\ (Kept => Weighed(q) /\ Beyond(q))
      BY <1>2, <1>5 DEF CallInv, CallFits, Weighed, Beyond, Discovers
    <2> QED
      BY <1>6, <2>1, RowsOnly DEF PassStep
  <1>12. CallTells(q)'
    <2> SUFFICES ASSUME q.quiet PROVE CallTells(q)'
      BY DEF CallTells
    <2>1. o.quiet /\ Open(o) = o.todo \cup {p} /\ Open(q) = o.todo
      BY <1>1, <1>2, <1>5 DEF Open
    <2>2. o.mode = "check" /\ Seen(o, p) /\ f = disk[p]
      BY <1>1, <1>2, <2>1 DEF CallInv, CallTells
    <2>3. rows[f.c] = o.known[f.c] /\ same
      <3>1. Outside(o, o.known[f.c])
        BY <1>7, <2>1 DEF Outside
      <3> QED
        BY <1>2, <1>3, <1>7, <2>1, <3>1 DEF CallInv, CallTells
    <2>4. rows'[f.c].path = p /\ rows'[f.c].state = "available"
      <3>1. rows[f.c] \in Row /\ rows[f.c].path = p
        BY <1>2, <1>7, <2>3 DEF Typed, Table
      <3>2. rows'[f.c] = [rows[f.c] EXCEPT !.stat = StatOf(f), !.state = "available"]
        BY <1>9, <1>10, <2>3
      <3> QED
        BY <3>1, <3>2 DEF Row
    <2>5. ASSUME NEW c \in Content
          PROVE  RightAt(p, c)
      <3>1. CASE c = f.c
        BY <1>7, <1>10, <2>2, <2>3, <2>4, <3>1 DEF RightAt
      <3>2. CASE c # f.c
        BY <1>2, <1>10, <2>2, <3>2, GenerationRight DEF Typed
      <3> QED
        BY <3>1, <3>2
    <2> QED
      BY <1>2, <1>5, <1>6, <2>1, <2>2, <2>5, TellsOn DEF CallInv, PassStep
  <1>13. births' \in [Content -> Nat] /\ sess' \in Session /\ Goes
    BY <1>2, <1>6, StillGoes DEF Typed, PassStep
  <1> QED
    BY SMTT(30), <1>5, <1>6, <1>10, <1>11, <1>12, <1>13, TellsRuns DEF CallInv, PassStep

LEMMA ReplacesRuns == ASSUME DiscoveryInv, NEW a \in Pass, Replaces(a) PROVE Runs(a)
  <1>1. PICK o, p, f : o = pass[a] /\ p = o.p /\ f = o.cand[p]
    OBVIOUS
  <1>2. /\ Typed /\ o \in Call /\ CallInv(o) /\ o.pc = "decide" /\ At(o.known, p) # {}
        /\ f.c \notin At(o.known, p) /\ p \in Path \ o.todo /\ f \in File
    BY <1>1, UnderWay DEF Replaces, CallInv, CallFits
  <1>3. PICK pc, later :
           /\ pc = IF f.c \in ignored \/ At(o.known, p) \cap o.busy # {} THEN "next" ELSE "read"
           /\ later = Backfill(f)
    OBVIOUS
  <1>4. PICK q : q = [o EXCEPT !.pc = pc, !.deferred = later]
    OBVIOUS
  <1>5. later \in BOOLEAN
    BY <1>3 DEF Backfill
  <1>6. /\ q \in Call /\ q.pc = pc /\ q.mode = o.mode /\ q.sess = o.sess /\ q.cand = o.cand
        /\ q.known = o.known /\ q.watch = o.watch /\ q.todo = o.todo /\ q.quiet = o.quiet
        /\ q.ign = o.ign /\ q.p = p /\ pc \in {"read", "next"} /\ q.deferred = later
    <2>1. pc \in {"read", "next"}
      BY <1>3
    <2> QED
      BY <1>1, <1>2, <1>4, <1>5, <2>1 DEF Call
  <1>7. Tells(a, q) /\ PassStep /\ UNCHANGED sess /\ rows' = Retired(rows, p, None)
    BY <1>1, <1>3, <1>4 DEF Replaces
  <1>8. rows' \in Table /\ \A c \in Content : Generation(rows[c], rows'[c], p, c, None)
    BY <1>2, <1>7, RetiredTyped DEF Typed, Generation
  <1>9. CallFits(q)
    BY <1>1, <1>2, <1>3, <1>6 DEF CallInv, CallFits, Discovers
  <1>10. ASSUME Kept
         PROVE  Weighed(q) /\ Beyond(q)
    <2>1. Weighed(q)
      BY <1>1, <1>2, <1>6, <1>10 DEF CallInv, Weighed, Discovers
    <2>2. Beyond(q)
      BY <1>1, <1>2, <1>6, <1>10 DEF CallInv, Beyond, Discovers
    <2> QED
      BY <2>1, <2>2
  <1>11. CallTells(q)'
    <2> SUFFICES ASSUME q.quiet PROVE CallTells(q)'
      BY DEF CallTells
    <2>1. o.quiet /\ Open(o) = o.todo \cup {p} /\ Open(q) = o.todo
      BY <1>1, <1>2, <1>6 DEF Open
    <2>2. o.mode = "check" /\ Seen(o, p) /\ f = disk[p]
      BY <1>1, <1>2, <2>1 DEF CallInv, CallTells
    <2>3. ASSUME NEW c \in Content, rows[c] # None, rows[c].path = p
          PROVE  c # disk[p].c
      <3>1. Outside(o, rows[c])
        BY <2>1, <2>3 DEF Outside
      <3>2. rows[c] = o.known[c]
        BY <1>2, <2>1, <3>1 DEF CallInv, CallTells
      <3>3. c \in At(o.known, p)
        BY <2>3, <3>2 DEF At
      <3> QED
        BY <1>2, <2>2, <3>3
    <2>4. ASSUME NEW c \in Content
          PROVE  RightAt(p, c)
      <3>1. c # None
        BY DiscoveryAssumption
      <3>2. CASE rows[c] # None /\ rows[c].path = p
        BY <1>2, <1>8, <2>3, <3>1, <3>2, GenerationRight DEF Typed
      <3>3. CASE ~(rows[c] # None /\ rows[c].path = p)
        BY <1>8, <3>1, <3>3 DEF Generation, RightAt
      <3> QED
        BY <3>2, <3>3
    <2> QED
      BY <1>2, <1>6, <1>7, <2>1, <2>2, <2>4, TellsOn DEF CallInv, PassStep
  <1>12. births' \in [Content -> Nat] /\ sess' \in Session /\ Goes
    BY <1>2, <1>7, StillGoes DEF Typed, PassStep
  <1>13. CallInv(q)'
    BY <1>7, <1>9, <1>10, <1>11, RowsOnly DEF CallInv, PassStep
  <1> QED
    BY <1>6, <1>7, <1>8, <1>12, <1>13, TellsRuns DEF PassStep

LEMMA ClosesRuns == ASSUME DiscoveryInv, NEW a \in Pass, Closes(a) PROVE Runs(a)
  <1>1. Typed
    BY DEF DiscoveryInv
  <1>2. Tells(a, Idle) /\ PassStep /\ UNCHANGED sess
    BY DEF Closes
  <1>3. rows' \in Table
    <2>1. PICK gone :
             gone = {c \in Content :
                       LET old == pass[a].known[c]
                       IN  /\ old # None /\ rows[c] # None /\ old.n = rows[c].n
                           /\ old.archived /\ old.state = "available"
                           /\ pass[a].watch[old.path] /\ ~Present(old.path)}
      OBVIOUS
    <2>2. rows' = [c \in Content |-> IF c \in gone /\ pass[a].mode # "register"
                                     THEN [rows[c] EXCEPT !.state = "missing"] ELSE rows[c]]
      BY <2>1 DEF Closes
    <2>3. gone \in SUBSET Content /\ \A c \in gone : rows[c] # None
      BY <2>1
    <2>4. \A t \in Row : [t EXCEPT !.state = "missing"] \in Row
      BY DEF Row
    <2> QED
      BY <1>1, <2>2, <2>3, <2>4 DEF Typed, Table
  <1>4. births' \in [Content -> Nat] /\ sess' \in Session /\ Goes
    BY <1>1, <1>2, StillGoes DEF Typed, PassStep
  <1> QED
    BY <1>2, <1>3, <1>4, TellsRuns DEF PassStep

\* What a row of a step that registers f at p becomes
LEMMA InsertRows ==
  ASSUME Typed, NEW a \in Pass, pass[a] \in Call, pass[a].read \in File, pass[a].p \in Path,
         rows[pass[a].read.c] = None, rows' = Registered(a)
  PROVE  LET f == pass[a].read
             p == pass[a].p
         IN  /\ rows' \in Table
             /\ rows'[f.c].path = p /\ rows'[f.c].state = "available"
             /\ rows'[f.c].deferred = pass[a].deferred
             /\ \A c \in Content : Generation(rows[c], rows'[c], p, c, f.c)
  <1>1. PICK f, p, r, table :
           /\ f = pass[a].read /\ p = pass[a].p
           /\ r = [n |-> births[f.c] + 1, path |-> p, stat |-> StatOf(f), archived |-> FALSE,
                   state |-> "available", deferred |-> pass[a].deferred]
           /\ table = [rows EXCEPT ![f.c] = r]
    OBVIOUS
  <1>2. f.c \in Content /\ r \in Row
    <2>1. f.c \in Content /\ births[f.c] \in Nat /\ StatOf(f) \in Stat /\ pass[a].deferred \in BOOLEAN
      BY <1>1, StatTyped DEF File, Typed, Call
    <2> QED
      BY <1>1, <2>1 DEF Row
  <1>3. table \in Table /\ table[f.c] = r /\ \A c \in Content : c # f.c => table[c] = rows[c]
    BY <1>1, <1>2 DEF Typed, Table
  <1>4. rows' = Retired(table, p, f.c)
    BY <1>1 DEF Registered
  <1>5. /\ rows' \in Table
        /\ \A c \in Content :
             rows'[c] = IF table[c] # None /\ table[c].path = p /\ c # f.c
                        THEN [table[c] EXCEPT !.state = "replaced"] ELSE table[c]
    BY <1>3, <1>4, RetiredTyped
  <1>6. rows'[f.c] = r /\ \A c \in Content : Generation(rows[c], rows'[c], p, c, f.c)
    BY <1>2, <1>3, <1>5 DEF Generation
  <1> QED
    BY <1>1, <1>5, <1>6

LEMMA ImportedSession ==
  ASSUME Typed, Kept => sess.was = sess.base, NEW p \in Path,
         sess' = [sess EXCEPT !.base[p] = None, !.was[p] = None]
  PROVE  /\ sess' \in Session /\ sess'.n = sess.n /\ sess'.at = sess.at
         /\ sess'.watch = sess.watch /\ (Kept => sess'.was = sess'.base)
         /\ \A x \in Path : sess'.base[x] \in {None, sess.base[x]}
  <1>1. PICK base, was : base = [sess.base EXCEPT ![p] = None] /\ was = [sess.was EXCEPT ![p] = None]
    OBVIOUS
  <1>2. sess' = [sess EXCEPT !.base = base, !.was = was]
    BY <1>1
  <1>3. base \in Stats /\ was \in Stats /\ \A x \in Path : base[x] \in {None, sess.base[x]}
    BY <1>1 DEF Typed, Session, Stats
  <1>4. /\ sess' \in Session /\ sess'.n = sess.n /\ sess'.at = sess.at /\ sess'.watch = sess.watch
        /\ sess'.base = base /\ sess'.was = was
    BY <1>2, <1>3 DEF Typed, Session
  <1> QED
    BY <1>1, <1>3, <1>4

LEMMA InsertsRuns == ASSUME DiscoveryInv, NEW a \in Pass, Inserts(a) PROVE Runs(a)
  <1>1. PICK o, f, p : o = pass[a] /\ f = o.read /\ p = o.p
    OBVIOUS
  <1>2. /\ Typed /\ o \in Call /\ CallInv(o) /\ o.pc = "insert" /\ p \in Path \ o.todo
        /\ f \in File /\ f.c \in Content
    BY <1>1, UnderWay DEF Inserts, CallInv, CallFits, File
  <1>3. CASE rows[f.c] = None /\ ~Active(a)
    BY <1>1, <1>3, StopsRuns DEF Inserts, InsertStep, PassStep
  <1>4. CASE ~(rows[f.c] = None /\ ~Active(a))
    <2>1. PICK q : q = IF Discovers(o) THEN [o EXCEPT !.pc = "next", !.read = None] ELSE Idle
      OBVIOUS
    <2>2. /\ Tells(a, q) /\ InsertStep
          /\ sess' = IF o.mode = "import" /\ o.sess = sess.n
                     THEN [sess EXCEPT !.base[p] = None, !.was[p] = None] ELSE sess
      BY <1>1, <1>4, <2>1 DEF Inserts, Inserted, Discovers
    <2>3. \/ rows[f.c] # None /\ UNCHANGED <<rows, births>>
          \/ /\ rows[f.c] = None /\ rows' = Registered(a)
             /\ births' = [births EXCEPT ![f.c] = @ + 1]
      BY <1>1, <1>4 DEF Inserts
    <2>4. rows' \in Table /\ births' \in [Content -> Nat]
      BY <1>1, <1>2, <2>3, InsertRows DEF Typed
    <2>5. Kept => sess.was = sess.base
      BY DEF DiscoveryInv
    <2>6. /\ sess' \in Session /\ sess'.n = sess.n /\ sess'.at = sess.at
          /\ sess'.watch = sess.watch /\ (Kept => sess'.was = sess'.base)
          /\ \A x \in Path : sess'.base[x] \in {None, sess.base[x]}
      <3>1. CASE sess' = sess
        BY <1>2, <2>5, <3>1 DEF Typed
      <3>2. CASE sess' = [sess EXCEPT !.base[p] = None, !.was[p] = None]
        BY <1>2, <2>5, <3>2, ImportedSession
      <3> QED
        BY <2>2, <3>1, <3>2
    <2>7. Goes
      <3>1. UNCHANGED <<disk, ignored, budget>>
        BY <2>2 DEF InsertStep
      <3>2. Finishing /\ \A x \in Path : disk'[x] # None => Dated(disk'[x])
        BY <3>1 DEF Finishing, Later, DiscoveryInv, Present
      <3> QED
        BY <1>2, <2>6, <3>1, <3>2 DEF Goes, Typed, Session
    <2>8. ASSUME q # Idle
          PROVE  q \in Call /\ CallInv(q)'
      <3>1. Discovers(o) /\ UNCHANGED <<disk, ignored, budget, sess>>
        BY <2>1, <2>2, <2>8 DEF InsertStep, Discovers
      <3>2. /\ q \in Call /\ q.pc = "next" /\ q.mode = o.mode /\ q.sess = o.sess /\ q.cand = o.cand
            /\ q.known = o.known /\ q.watch = o.watch /\ q.todo = o.todo /\ q.quiet = o.quiet
            /\ q.ign = o.ign
        BY <1>2, <2>1, <3>1 DEF Call, Files
      <3>3. CallFits(q) /\ (Kept => Weighed(q) /\ Beyond(q))
        BY <1>2, <3>2 DEF CallInv, CallFits, Weighed, Beyond, Discovers
      <3>4. CallTells(q)'
        <4> SUFFICES ASSUME q.quiet PROVE CallTells(q)'
          BY DEF CallTells
        <4>1. o.quiet /\ Open(o) = o.todo /\ Open(q) = o.todo
          BY <1>2, <3>2 DEF Open
        <4>2. Seen(o, p) /\ f = disk[p] /\ CallTells(o)
          BY <1>1, <1>2, <4>1 DEF CallInv, CallTells
        <4>3. ASSUME NEW c \in Content
              PROVE  RightAt(p, c)
          <5>1. CASE rows' = rows
            <6>1. rows[c] # None /\ rows[c].path = p
                     => (rows[c].state = "available" <=> disk[p].c = c)
              BY <1>2, <4>1, <4>2 DEF CallTells
            <6> QED
              BY <5>1, <6>1 DEF RightAt
          <5>2. CASE rows[f.c] = None /\ rows' = Registered(a)
            <6>1. /\ rows'[f.c].path = p /\ rows'[f.c].state = "available"
                  /\ Generation(rows[c], rows'[c], p, c, f.c)
              BY <1>1, <1>2, <5>2, InsertRows
            <6>2. CASE c = f.c
              BY <4>2, <5>2, <6>1, <6>2 DEF RightAt
            <6>3. CASE c # f.c
              BY <1>2, <2>4, <4>2, <6>1, <6>3, GenerationRight DEF Typed
            <6> QED
              BY <6>2, <6>3
          <5> QED
            BY <2>3, <5>1, <5>2
        <4> QED
          BY <1>2, <3>1, <3>2, <4>1, <4>2, <4>3, TellsOn
      <3> QED
        BY <3>1, <3>2, <3>3, <3>4, RowsOnly DEF CallInv
    <2> QED
      BY <2>2, <2>4, <2>6, <2>7, <2>8, TellsRuns DEF InsertStep
  <1> QED
    BY <1>3, <1>4

-----------------------------------------------------------------------------
(* The invariant holds. *)

LEMMA ActsRuns == ASSUME DiscoveryInv, NEW a \in Pass, Acts(a) PROVE Runs(a)
  BY PollsRuns, ScansRuns, WaitsRuns, DecidesRuns, RefreshesRuns, ReplacesRuns, ReadsRuns,
     InsertsRuns, ClosesRuns, ResamplesRuns, ChecksRuns, ImportsRuns, StartsRegisterRuns
  DEF Acts, Poll

LEMMA TicksShape == ASSUME DiscoveryInv, Ticks PROVE Shape
  <1>1. Typed'
    BY DiscoveryAssumption DEF DiscoveryInv, Ticks, Typed
  <1> QED
    BY <1>1, StillGoes, StillAside DEF Shape, Ticks

LEMMA StillShape == ASSUME DiscoveryInv, UNCHANGED vars PROVE Shape
  <1>1. Typed'
    BY DEF DiscoveryInv, vars, Typed
  <1> QED
    BY <1>1, StillGoes, StillAside DEF Shape, vars

LEMMA Steps ==
  ASSUME DiscoveryInv, [Next]_vars
  PROVE  Shape \/ \E a \in Pass : Acts(a) /\ Runs(a)
  <1>1. ASSUME NEW a \in Pass, Acts(a)
        PROVE  Runs(a)
    BY <1>1, ActsRuns
  <1>2. ASSUME ~ \E a \in Pass : Acts(a), ~ UNCHANGED vars
        PROVE  \/ \E p \in Path : \/ Creates(p) \/ Rewrites(p) \/ Copies(p) \/ Grows(p) \/ Removes(p)
                                  \/ AddsDirectory(p)
               \/ Ticks \/ TakesBaseline \/ StartsSession \/ EndsSession
               \/ \E c \in Content : Deletes(c) \/ Archives(c) \/ Sweeps(c) \/ Validates(c)
               \/ Records
    BY <1>2 DEF Next, Acts
  <1> QED
    BY <1>1, <1>2, FilesShape, SessionShape, RowsShape, RecordsShape, TicksShape, StillShape

LEMMA InvInit == Init => DiscoveryInv
  <1> SUFFICES ASSUME Init PROVE DiscoveryInv
    OBVIOUS
  <1>1. Typed /\ sess.was = sess.base /\ \A a \in Pass : pass[a] = Idle
    BY TypeInit DEF Init
  <1>2. \A p \in Path : Present(p) => Dated(disk[p])
    BY CopiedTyped DEF Init, Present
  <1> QED
    BY <1>1, <1>2 DEF DiscoveryInv

LEMMA InvNext == DiscoveryInv /\ [Next]_vars => DiscoveryInv'
  <1> SUFFICES ASSUME DiscoveryInv, [Next]_vars PROVE DiscoveryInv'
    OBVIOUS
  <1>1. Typed' /\ Goes
    BY Steps DEF Shape, Runs
  <1>2. ASSUME NEW a \in Pass
        PROVE  (pass[a] # Idle => CallInv(pass[a]))'
    <2>1. CASE Aside(a)
      BY <1>1, <2>1, AsideKeeps
    <2>2. CASE Runs(a)
      BY <2>2 DEF Runs
    <2>3. Aside(a) \/ Runs(a)
      BY Steps DEF Shape, Runs
    <2> QED
      BY <2>1, <2>2, <2>3
  <1>3. Kept' <=> Kept
    BY <1>1 DEF Goes, Kept
  <1>4. (\A p \in Path : Present(p) => Dated(disk[p]))' /\ (Kept => sess.was = sess.base)'
    BY <1>1, <1>3 DEF Goes, Present
  <1> QED
    BY <1>1, <1>2, <1>4 DEF DiscoveryInv

LEMMA InvHolds == Spec => []DiscoveryInv
  BY InvInit, InvNext, PTL DEF Spec

-----------------------------------------------------------------------------
(* What the steps of a call show *)

\* Only the step of a call itself moves it on, or ends it.
LEMMA OwnStep ==
  ASSUME DiscoveryInv, [Next]_vars, NEW a \in Pass, pass[a] # Idle,
         pass'[a] = Idle \/ pass'[a].pc # pass[a].pc
  PROVE  Poll(a) /\ Typed'
  <1>1. pass[a] \in Call
    BY UnderWay
  <1>2. ~Aside(a)
    BY <1>1, HushTyped, HushAlike, CallNotIdle DEF Aside, Alike
  <1>3. Acts(a) /\ Typed'
    BY <1>2, Steps DEF Shape, Runs
  <1> QED
    BY <1>3 DEF Acts, Checks, Imports, StartsRegister, Callable

\* A row that a call creates is the one it inserts, of what it has read, for the
\* session that runs.
LEMMA OnlyInserts ==
  ASSUME DiscoveryInv, [Next]_vars, NEW a \in Pass, NEW c \in Content, Creating(a, c)
  PROVE  /\ pass[a] \in Call /\ CallInv(pass[a]) /\ pass[a].pc = "insert" /\ Active(a)
         /\ c = pass[a].read.c /\ rows'[c].deferred = pass[a].deferred
  <1>1. pass[a] # Idle /\ pass[a].pc = "insert" /\ pass'[a].pc # "insert"
    BY DEF Creating
  <1>2. Typed /\ pass[a] \in Call /\ CallInv(pass[a])
    BY <1>1, UnderWay
  <1>3. Inserts(a)
    <2>1. Poll(a)
      BY <1>1, OwnStep
    <2> QED
      BY <1>1, <2>1
      DEF Poll, Polls, Callable, Scans, Waits, Decides, Refreshes, Replaces, Reads, Closes, Resamples
  <1>4. PICK f : f = pass[a].read
    OBVIOUS
  <1>5. f \in File /\ f.c \in Content /\ pass[a].p \in Path
    BY <1>1, <1>2, <1>4 DEF CallInv, CallFits, File
  <1>6. rows[f.c] = None /\ Active(a) /\ rows' = Registered(a)
    BY <1>3, <1>4 DEF Inserts, Creating
  <1>7. /\ rows'[f.c].deferred = pass[a].deferred
        /\ Generation(rows[c], rows'[c], pass[a].p, c, f.c)
    BY <1>2, <1>4, <1>5, <1>6, InsertRows
  <1>8. c = f.c
    BY <1>7 DEF Generation, Creating
  <1> QED
    BY <1>1, <1>2, <1>4, <1>6, <1>7, <1>8

\* capture_discovery_service.rs:275: nothing is registered for a session that has ended,
\* however far a call had got when it did.
THEOREM NothingAfterEnd == Spec => NoneAfterEnd
  <1>1. DiscoveryInv /\ [Next]_vars => [CreatesActive]_vars
    BY OnlyInserts DEF CreatesActive
  <1> QED
    BY <1>1, InvHolds, PTL DEF Spec, NoneAfterEnd

\* A content the user removed before a call looked for files is not registered again by
\* that call (reject_ignored_content after the last read).
THEOREM RemovedStays == Spec => RemovedBefore
  <1>1. ASSUME DiscoveryInv, [Next]_vars, NEW a \in Pass, NEW c \in Content, Creating(a, c)
        PROVE  c \notin pass[a].ign
    BY <1>1, OnlyInserts DEF CallInv, CallFits
  <1>2. DiscoveryInv /\ [Next]_vars => [CreatesWanted]_vars
    BY <1>1 DEF CreatesWanted
  <1> QED
    BY <1>2, InvHolds, PTL DEF Spec, RemovedBefore

LEMMA OldOnes ==
  ASSUME DiscoveryInv, [Next]_vars, Rounding <= Tolerance
  PROVE  CreatesNew /\ DefersOld
  <1> SUFFICES ASSUME NEW a \in Pass, NEW c \in Content, Creating(a, c), Discovering(a)
               PROVE  /\ Kept /\ At(pass[a].known, pass[a].p) = {}
                            => sess.was[pass[a].p] # StatOf(pass[a].read)
                      /\ pass[a].read = pass[a].cand[pass[a].p] =>
                            /\ pass[a].read.b >= sess.at => ~rows'[c].deferred
                            /\ pass[a].read.s + Tolerance < sess.at => rows'[c].deferred
    BY DEF CreatesNew, DefersOld, Kept
  <1>1. PICK q : q = pass[a]
    OBVIOUS
  <1>2. /\ q \in Call /\ CallInv(q) /\ q.pc = "insert" /\ q.sess = sess.n /\ Discovers(q)
        /\ rows'[c].deferred = q.deferred
    BY <1>1, OnlyInserts DEF Active, Discovers, Discovering
  <1>3. Kept /\ At(q.known, q.p) = {} => sess.was[q.p] # StatOf(q.read)
    BY <1>2 DEF CallInv, Weighed, Beyond, DiscoveryInv, Discovers
  <1>4. q.deferred = Backfill(q.cand[q.p]) /\ q.read \in File /\ Dated(q.read)
    BY <1>2 DEF CallInv, CallFits
  <1>5. /\ q.read.s \in Nat /\ q.read.b \in Nat /\ sess.at \in Nat
        /\ Rounding \in Nat /\ Tolerance \in Nat
    BY <1>4, DiscoveryAssumption DEF File, DiscoveryInv, Typed, Session
  <1>6. ASSUME q.read = q.cand[q.p]
        PROVE  /\ q.read.b >= sess.at => ~q.deferred
               /\ q.read.s + Tolerance < sess.at => q.deferred
    <2>1. q.deferred <=> q.read.s + Tolerance < sess.at
      BY <1>4, <1>6 DEF Backfill
    <2>2. q.read.b >= sess.at => ~(q.read.s + Tolerance < sess.at)
      BY <1>4, <1>5 DEF Dated
    <2> QED
      BY <2>1, <2>2
  <1> QED
    BY <1>1, <1>2, <1>3, <1>6

\* What is older than the session waits for the user, and what was taken during it does
\* not: where BACKFILL_MTIME_TOLERANCE covers what a file system rounds away.
THEOREM OldOnesWait == Rounding <= Tolerance => (Spec => OldWaits)
  <1> SUFFICES ASSUME Rounding <= Tolerance PROVE Spec => OldWaits
    OBVIOUS
  <1>1. DiscoveryInv /\ [Next]_vars => [CreatesNew /\ DefersOld]_vars
    BY OldOnes
  <1> QED
    BY <1>1, InvHolds, PTL DEF Spec, OldWaits

\* The end of a call leaves paths, and marks rows only.
LEMMA ClosedRows ==
  ASSUME Typed, NEW a \in Pass, Closes(a), pass[a].mode = "check", NEW c \in Content
  PROVE  LET old == pass[a].known[c]
             gone == /\ old # None /\ rows[c] # None /\ old.n = rows[c].n
                     /\ old.archived /\ old.state = "available"
                     /\ pass[a].watch[old.path] /\ ~Present(old.path)
         IN  /\ gone => rows'[c].path = rows[c].path /\ rows'[c].state = "missing"
             /\ ~gone => rows'[c] = rows[c]
  <1>1. PICK gone :
           gone = {k \in Content :
                     LET old == pass[a].known[k]
                     IN  /\ old # None /\ rows[k] # None /\ old.n = rows[k].n
                         /\ old.archived /\ old.state = "available"
                         /\ pass[a].watch[old.path] /\ ~Present(old.path)}
    OBVIOUS
  <1>2. rows' = [k \in Content |-> IF k \in gone THEN [rows[k] EXCEPT !.state = "missing"]
                                   ELSE rows[k]]
    BY <1>1 DEF Closes
  <1>3. CASE c \in gone
    <2>1. rows[c] \in Row /\ rows'[c] = [rows[c] EXCEPT !.state = "missing"]
      BY SMTT(30), <1>1, <1>2, <1>3 DEF Typed, Table
    <2> QED
      BY <1>1, <1>3, <2>1 DEF Row
  <1>4. CASE c \notin gone
    BY <1>1, <1>2, <1>4
  <1> QED
    BY <1>3, <1>4

LEMMA CheckEnds == DiscoveryInv /\ [Next]_vars => ChecksTruly
  <1> SUFFICES ASSUME DiscoveryInv, [Next]_vars, NEW a \in Pass, pass[a] # Idle, pass'[a] = Idle,
                      pass[a].pc = "next", pass[a].mode = "check", pass[a].quiet,
                      NEW c \in Content, rows'[c] # None, pass[a].watch[rows'[c].path],
                      rows'[c].archived \/ Present(rows'[c].path)
               PROVE  rows'[c].state = "available"
                         <=> Present(rows'[c].path) /\ disk[rows'[c].path].c = c
    BY DEF ChecksTruly
  <1>1. PICK o, old, t : o = pass[a] /\ old = o.known[c] /\ t = rows[c]
    OBVIOUS
  <1>2. Typed /\ o \in Call /\ CallInv(o)
    BY <1>1, UnderWay
  <1>3. Closes(a)
    <2>1. Poll(a)
      BY OwnStep
    <2>2. \A p \in Path : ~Resamples(a, p)
      <3>1. SUFFICES ASSUME NEW p \in Path, Resamples(a, p) PROVE FALSE
        OBVIOUS
      <3>2. PICK q : /\ Moves(a, q)
                     /\ \/ q = [o EXCEPT !.todo = @ \ {p}]
                        \/ q = [o EXCEPT !.todo = @ \ {p}, !.p = p, !.cand[p] = disk[p],
                                         !.pc = IF @ = "next" /\ o.mode = "register"
                                                THEN "read" ELSE "decide"]
        BY <1>1, <3>1 DEF Resamples
      <3>3. q.pc # "idle"
        BY <1>1, <1>2, <3>2 DEF Call
      <3>4. pass'[a] = q
        BY <1>2, <3>2 DEF Moves, Typed
      <3> QED
        BY <3>3, <3>4 DEF Idle
    <2>3. ~Waits(a)
      BY DEF Waits
    <2> QED
      BY <2>1, <2>2, <2>3
      DEF Poll, Polls, Callable, Scans, Waits, Decides, Refreshes, Replaces, Reads, Inserts
  <1>4. Open(o) = {} /\ CallTells(o) /\ o.quiet /\ o.pc = "next"
    BY <1>1, <1>2, <1>3 DEF Open, Closes, CallInv
  <1>5. PICK gone : gone = (/\ old # None /\ t # None /\ old.n = t.n
                            /\ old.archived /\ old.state = "available"
                            /\ o.watch[old.path] /\ ~Present(old.path))
    OBVIOUS
  <1>6. /\ gone => rows'[c].path = t.path /\ rows'[c].state = "missing"
        /\ ~gone => rows'[c] = t
    BY <1>1, <1>2, <1>3, <1>5, ClosedRows
  <1>7. t # None /\ rows'[c].path = t.path /\ o.watch[t.path]
    BY <1>1, <1>5, <1>6
  <1>8. CASE Present(t.path)
    <2>1. ~gone
      BY <1>1, <1>4, <1>5, <1>7, <1>8 DEF CallTells, Outside, Seen
    <2> QED
      BY SMTT(30), <1>1, <1>4, <1>6, <1>7, <1>8, <2>1 DEF CallTells, Seen, Open
  <1>9. CASE ~Present(t.path)
    <2>1. t = old
      BY <1>1, <1>4, <1>7, <1>9 DEF CallTells, Outside, Seen
    <2>2. rows'[c].state # "available"
      <3>1. ~gone => t.archived
        BY <1>6, <1>7, <1>9
      <3> QED
        BY <1>5, <1>6, <1>7, <1>9, <2>1, <3>1
    <2> QED
      BY <1>7, <1>9, <2>2
  <1> QED
    BY <1>8, <1>9

\* A file check that nothing disturbed leaves the truth: of the rows of a watched directory
\* exactly those whose content lies at their path are available.
THEOREM CheckIsTrue == Spec => CheckTells
  BY CheckEnds, InvHolds, PTL DEF Spec, CheckTells

-----------------------------------------------------------------------------
(* Half-written files *)

\* A row is created by the insertion of what a call has read, and by nothing else.
LEMMA RowsBorn ==
  ASSUME Typed, [Next]_vars, NEW c \in Content, rows[c] = None, rows'[c] # None
  PROVE  \E a \in Pass : Inserts(a)
  <1>1. rows' # rows
    OBVIOUS
  <1>2. ~ \E k \in Content : Deletes(k) \/ Archives(k) \/ Sweeps(k)
    BY DEF Deletes, Archives, Sweeps, Typed, Table
  <1>3. ~Records
    <2> SUFFICES ASSUME Records PROVE FALSE
      OBVIOUS
    <2>1. PICK k, v : k = worker.c /\ v = Verdict(worker.found, k)
      OBVIOUS
    <2>2. \/ rows' = [rows EXCEPT ![k] = None]
          \/ /\ rows[k] # None
             /\ rows' = [rows EXCEPT ![k].state = v, ![k].stat =
                            IF v = "available" THEN StatOf(worker.found) ELSE @]
      BY <1>1, <2>1 DEF Records
    <2> QED
      BY <2>2 DEF Typed, Table
  <1>4. ASSUME NEW a \in Pass, Refreshes(a)
        PROVE  FALSE
    <2>1. PICK f, p, fresh, r :
             /\ fresh = rows \/ (rows[f.c] # None /\ fresh = [rows EXCEPT ![f.c] = r])
             /\ rows' = Retired(fresh, p, f.c)
      <3>1. PICK f, p, same, fresh :
               /\ f = pass[a].cand[pass[a].p] /\ p = pass[a].p
               /\ same = (rows[f.c] # None /\ rows[f.c].n = pass[a].known[f.c].n)
               /\ fresh = IF same THEN [rows EXCEPT ![f.c].stat = StatOf(f),
                                                    ![f.c].state = "available"] ELSE rows
        OBVIOUS
      <3>2. rows' = Retired(fresh, p, f.c)
        BY <1>4, <3>1 DEF Refreshes
      <3>3. fresh = rows \/ (rows[f.c] # None
               /\ fresh = [rows EXCEPT ![f.c] = [rows[f.c] EXCEPT !.stat = StatOf(f),
                                                                  !.state = "available"]])
        BY <3>1 DEF Typed, Table
      <3> QED
        BY <3>2, <3>3
    <2>2. fresh[c] = None
      BY <2>1 DEF Typed, Table
    <2> QED
      BY <2>1, <2>2 DEF Retired, At
  <1>5. ASSUME NEW a \in Pass, Replaces(a)
        PROVE  FALSE
    BY <1>5 DEF Replaces, Retired, At
  <1>6. ASSUME NEW a \in Pass, Closes(a)
        PROVE  FALSE
    <2>1. PICK gone :
             gone = {k \in Content :
                       LET old == pass[a].known[k]
                       IN  /\ old # None /\ rows[k] # None /\ old.n = rows[k].n
                           /\ old.archived /\ old.state = "available"
                           /\ pass[a].watch[old.path] /\ ~Present(old.path)}
      OBVIOUS
    <2>2. rows' = [k \in Content |-> IF k \in gone /\ pass[a].mode # "register"
                                     THEN [rows[k] EXCEPT !.state = "missing"] ELSE rows[k]]
      BY <1>6, <2>1 DEF Closes
    <2>3. c \notin gone
      BY <2>1
    <2> QED
      BY <2>2, <2>3
  <1>7. Next
    BY <1>1 DEF vars
  <1>8. \A p \in Path : ~(Creates(p) \/ Rewrites(p) \/ Copies(p) \/ Grows(p) \/ Removes(p)
                          \/ AddsDirectory(p))
    BY <1>1 DEF Creates, Rewrites, Copies, Grows, Removes, AddsDirectory, FileStep
  <1>9. ~(Ticks \/ TakesBaseline \/ StartsSession \/ EndsSession)
        /\ \A k \in Content : ~Validates(k)
    BY SMTT(30), <1>1 DEF Ticks, TakesBaseline, StartsSession, EndsSession, Validates
  <1>10. \A a \in Pass : ~(Polls(a) \/ Scans(a) \/ Waits(a) \/ Decides(a) \/ Reads(a) \/ Checks(a)
                          \/ \E p \in Path : Resamples(a, p) \/ Imports(a, p) \/ StartsRegister(a, p))
    BY <1>1 DEF Polls, Scans, Waits, Decides, Reads, Checks, Resamples, Imports, StartsRegister
  <1> QED
    BY <1>2, <1>3, <1>4, <1>5, <1>6, <1>7, <1>8, <1>9, <1>10 DEF Next, Poll

LEMMA DiskWritten ==
  ASSUME [Next]_vars, disk' # disk
  PROVE  \E p \in Path : Creates(p) \/ Rewrites(p) \/ Copies(p) \/ Grows(p) \/ Removes(p)
  <1>1. Next
    BY DEF vars
  <1>2. ~(Ticks \/ TakesBaseline \/ StartsSession \/ EndsSession \/ Records)
        /\ (\A p \in Path : ~AddsDirectory(p))
        /\ \A c \in Content : ~(Deletes(c) \/ Archives(c) \/ Sweeps(c) \/ Validates(c))
    BY DEF Ticks, TakesBaseline, StartsSession, EndsSession, Records, AddsDirectory, Deletes,
           Archives, Sweeps, Validates
  <1>3. \A a \in Pass :
          ~(Poll(a) \/ Checks(a) \/ \E p \in Path : Imports(a, p) \/ StartsRegister(a, p))
    BY ZenonT(60) DEF Poll, Polls, Scans, Waits, Decides, Refreshes, Replaces, Reads, Inserts, Closes, Resamples,
           Checks, Imports, StartsRegister, PassStep, InsertStep
  <1> QED
    BY <1>1, <1>2, <1>3 DEF Next

\* What a call is about to insert is what lay at its path when it looked last.
LEMMA ReadsLast ==
  ASSUME Typed, NEW a \in Pass, Acts(a), pass'[a] # Idle, pass'[a].pc = "insert"
  PROVE  pass[a] # Idle /\ pass[a].pc = "read" /\ disk[pass[a].p] # None
         /\ pass'[a].read = disk[pass[a].p]
  <1>1. \A q : Moves(a, q) \/ Tells(a, q) => pass'[a] = q
    BY DEF Typed, Moves, Tells
  <1>2. PICK o : o = pass[a]
    OBVIOUS
  <1>3. o # Idle => o \in Call
    BY <1>2 DEF Typed
  <1>4. ~Stops(a)
    BY <1>1 DEF Stops
  <1>5. ~Polls(a) /\ ~Checks(a) /\ \A p \in Path : ~Imports(a, p) /\ ~StartsRegister(a, p)
    <2>1. \A q : q.pc # "insert" => ~Moves(a, q)
      BY <1>1
    <2>2. New("poll").pc = "scan" /\ New("check").pc = "scan"
      BY DEF New
    <2>3. \A p : [New("import") EXCEPT !.pc = "read", !.p = p, !.deferred = TRUE].pc = "read"
      BY DEF New
    <2>4. \A p : [New("register") EXCEPT !.pc = "wait", !.todo = {p}, !.cand[p] = disk[p]].pc = "wait"
      BY DEF New
    <2> QED
      BY <2>1, <2>2, <2>3, <2>4 DEF Polls, Checks, Imports, StartsRegister
  <1>6. ~Scans(a)
    <2> SUFFICES ASSUME Scans(a) PROVE FALSE
      OBVIOUS
    <2>1. PICK todo, busy, cand, quiet :
            /\ todo = {p \in Watched : Present(p) /\ (o.mode = "check" \/ ~Unchanged(p))}
            /\ busy = Busy /\ quiet = (o.mode = "check")
            /\ cand = [p \in Path |-> IF p \in todo THEN disk[p] ELSE None]
      OBVIOUS
    <2>2. Moves(a, [o EXCEPT !.pc = "wait", !.known = rows, !.watch = sess.watch,
                      !.todo = todo, !.quiet = quiet, !.ign = ignored, !.busy = busy,
                      !.cand = cand])
      BY <1>2, <1>4, <2>1 DEF Scans
    <2> QED
      BY <1>1, <1>2, <1>3, <2>2 DEF Call, Scans
  <1>7. ~Waits(a) /\ ~Decides(a) /\ ~Refreshes(a) /\ ~Replaces(a)
    <2>1. \A later : \A pc \in {"next", "read"} : o # Idle =>
             /\ ~Moves(a, [o EXCEPT !.pc = pc, !.deferred = later])
             /\ ~Tells(a, [o EXCEPT !.pc = pc, !.deferred = later])
      BY <1>1, <1>3 DEF Call
    <2>2. o # Idle => ~Moves(a, [o EXCEPT !.pc = "next"]) /\ ~Tells(a, [o EXCEPT !.pc = "next"])
      BY <1>1, <1>3 DEF Call
    <2>3. ~Waits(a) /\ ~Refreshes(a)
      BY <1>2, <1>4, <2>2 DEF Waits, Refreshes
    <2>4. ~Decides(a)
      <3> SUFFICES ASSUME Decides(a) PROVE FALSE
        OBVIOUS
      <3>1. PICK pc, later :
              /\ pc = IF /\ o.cand[o.p].c \notin ignored
                         /\ ~InBaseline(o.sess, o.p, o.cand[o.p]) THEN "read" ELSE "next"
              /\ later = Backfill(o.cand[o.p])
        OBVIOUS
      <3>2. o # Idle /\ Moves(a, [o EXCEPT !.pc = pc, !.deferred = later])
        BY <1>2, <3>1 DEF Decides
      <3>3. pc \in {"next", "read"}
        BY <3>1
      <3> QED
        BY <2>1, <3>2, <3>3
    <2>5. ~Replaces(a)
      <3> SUFFICES ASSUME Replaces(a) PROVE FALSE
        OBVIOUS
      <3>1. PICK pc, later :
              /\ pc = IF \/ o.cand[o.p].c \in ignored
                         \/ At(o.known, o.p) \cap o.busy # {} THEN "next" ELSE "read"
              /\ later = Backfill(o.cand[o.p])
        OBVIOUS
      <3>2. o # Idle /\ Tells(a, [o EXCEPT !.pc = pc, !.deferred = later])
        BY <1>2, <3>1 DEF Replaces
      <3>3. pc \in {"next", "read"}
        BY <3>1
      <3> QED
        BY <2>1, <3>2, <3>3
    <2> QED
      BY <2>3, <2>4, <2>5
  <1>8. ~Inserts(a) /\ ~Closes(a)
    <2>1. o # Idle => ~Tells(a, [o EXCEPT !.pc = "next", !.read = None])
      BY <1>1, <1>3 DEF Call
    <2>2. ~Tells(a, Idle)
      BY <1>1
    <2> QED
      BY <1>2, <1>4, <2>1, <2>2 DEF Inserts, Inserted, Closes
  <1>9. \A p \in Path : ~Resamples(a, p)
    BY <1>1, <1>2, <1>3 DEF Resamples, Call
  <1>10. Reads(a)
    BY <1>5, <1>6, <1>7, <1>8, <1>9 DEF Acts, Poll
  <1>11. pass'[a] = [o EXCEPT !.pc = "insert", !.read = disk[o.p]] /\ disk[o.p] # None
         /\ o # Idle /\ o.pc = "read"
    BY <1>1, <1>2, <1>4, <1>10 DEF Reads
  <1> QED
    BY <1>2, <1>3, <1>11 DEF Call

LEMMA BudgetStays ==
  ASSUME DiscoveryInv, [Next]_vars
  PROVE  budget'.ops = budget.ops /\ (Finished' <=> Finished)
  <1>1. Goes
    BY Steps DEF Shape, Runs
  <1> QED
    BY <1>1 DEF Goes, Finished, Kept

LEMMA NoHalfNext == DiscoveryInv /\ NoHalf /\ [Next]_vars => NoHalf'
  <1> SUFFICES ASSUME DiscoveryInv, NoHalf, [Next]_vars, Finished
               PROVE  /\ WholeOnly'
                      /\ "grow" \notin budget.ops =>
                           /\ \A p \in Path : disk'[p] # None => disk'[p].c \in Whole
                           /\ \A a \in Pass : pass'[a] # Idle /\ pass'[a].pc = "insert"
                                                => pass'[a].read.c \in Whole
    BY BudgetStays DEF NoHalf, Present
  <1>1. Typed /\ WholeOnly
    BY DEF DiscoveryInv, NoHalf
  <1>2. ASSUME NEW c \in Half, rows'[c] # None
        PROVE  FALSE
    <2>1. c \in Content /\ rows[c] = None
      BY <1>1 DEF Content, WholeOnly
    <2>2. PICK a \in Pass : Inserts(a)
      BY <1>1, <1>2, <2>1, RowsBorn
    <2>3. PICK q, f : q = pass[a] /\ f = q.read
      OBVIOUS
    <2>4. /\ q \in Call /\ CallInv(q) /\ q.pc = "insert" /\ q # Idle
          /\ f \in File /\ f.c \in Content /\ q.p \in Path
      BY <2>2, <2>3, UnderWay DEF Inserts, CallInv, CallFits, File
    <2>5. rows[f.c] = None /\ rows' = Registered(a)
      BY <1>2, <2>1, <2>2, <2>3 DEF Inserts
    <2>6. Generation(rows[c], rows'[c], q.p, c, f.c)
      BY <1>1, <2>1, <2>3, <2>4, <2>5, InsertRows
    <2>7. c = f.c
      BY <1>2, <2>1, <2>6 DEF Generation
    <2>8. f.c \in Whole
      <3>1. CASE "grow" \in budget.ops
        <4>1. Kept /\ "import" \notin budget.ops
          BY <3>1 DEF Finished
        <4> QED
          BY <2>3, <2>4, <4>1 DEF CallInv, CallFits, Weighed
      <3>2. CASE "grow" \notin budget.ops
        BY <2>3, <2>4, <3>2 DEF NoHalf
      <3> QED
        BY <3>1, <3>2
    <2> QED
      BY <1>2, <2>7, <2>8, DiscoveryAssumption
  <1>3. ASSUME "grow" \notin budget.ops
        PROVE  /\ \A p \in Path : disk'[p] # None => disk'[p].c \in Whole
               /\ \A a \in Pass : pass'[a] # Idle /\ pass'[a].pc = "insert"
                                    => pass'[a].read.c \in Whole
    <2>1. \A p \in Path : disk[p] # None => disk[p].c \in Whole
      BY <1>3 DEF NoHalf, Present
    <2>2. \A p \in Path : disk'[p] # None => disk'[p].c \in Whole
      <3>1. CASE disk' = disk
        BY <2>1, <3>1
      <3>2. CASE disk' # disk
        <4>1. PICK p \in Path : Creates(p) \/ Rewrites(p) \/ Copies(p) \/ Grows(p) \/ Removes(p)
          BY <3>2, DiskWritten
        <4>2. PICK f : Changed(p, f)
          BY <1>1, <4>1, FilesChange
        <4> QED
          BY <1>1, <1>3, <2>1, <4>2, DiscoveryAssumption DEF Changed, Typed
      <3> QED
        BY <3>1, <3>2
    <2>3. ASSUME NEW a \in Pass, pass'[a] # Idle, pass'[a].pc = "insert"
          PROVE  pass'[a].read.c \in Whole
      <3>1. CASE Aside(a)
        <4>1. pass[a] # Idle /\ pass[a] \in Call
          BY <2>3, <3>1, UnderWay DEF Aside
        <4>2. Alike(pass'[a], pass[a])
          BY <3>1, <4>1, HushAlike DEF Aside, Alike
        <4>3. pass'[a].read = pass[a].read /\ pass[a].pc = "insert"
          BY <2>3, <4>2 DEF Alike
        <4> QED
          BY <1>3, <4>1, <4>3 DEF NoHalf
      <3>2. CASE Acts(a) /\ ~Aside(a)
        <4>1. /\ pass[a] # Idle /\ pass[a].pc = "read" /\ disk[pass[a].p] # None
              /\ pass'[a].read = disk[pass[a].p]
          BY <1>1, <2>3, <3>2, ReadsLast
        <4>2. pass[a].p \in Path
          BY <4>1, UnderWay DEF CallInv, CallFits
        <4> QED
          BY <2>1, <4>1, <4>2
      <3> QED
        BY <3>1, <3>2, Steps DEF Shape, Runs
    <2> QED
      BY <2>2, <2>3
  <1> QED
    BY <1>2, <1>3 DEF WholeOnly

\* Every budget lets half-written files only where nothing is overwritten and nothing imported.
BudgetsFinish ==
    \A b \in Budgets : "grow" \in b.ops => {"rewrite", "remove", "import"} \cap b.ops = {}

\* "so a half-written screenshot is never indexed" (capture_discovery_service.rs:199): where
\* files are written to their end and left there, and no import, which does not wait, is made.
THEOREM WholeFilesOnly == BudgetsFinish => (Spec => []WholeOnly)
  <1> SUFFICES ASSUME BudgetsFinish PROVE Spec => []WholeOnly
    OBVIOUS
  <1>1. Init => NoHalf /\ Finished
    <2> SUFFICES ASSUME Init PROVE NoHalf /\ Finished
      OBVIOUS
    <2>1. Finished
      BY DEF Init, BudgetsFinish, Finished, Kept
    <2>2. WholeOnly /\ \A p \in Path : Present(p) => disk[p].c \in Whole
      BY DEF Init, WholeOnly, Content, Present
    <2> QED
      BY <2>1, <2>2 DEF Init, NoHalf
  <1>2. DiscoveryInv /\ Finished /\ [Next]_vars => Finished'
    BY BudgetStays
  <1>3. NoHalf /\ Finished => WholeOnly
    BY DEF NoHalf
  <1> QED
    BY <1>1, <1>2, <1>3, NoHalfNext, InvHolds, PTL DEF Spec

================================================================================

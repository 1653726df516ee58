----------------------------- MODULE MirrorsProofs -----------------------------
(***************************************************************************)
(* Proofs about the four services of Mirrors, for any projects, captures,  *)
(* games, callers and faults. Each service has an invariant of its own;    *)
(* the steps of the others leave it alone.                                 *)
(***************************************************************************)
EXTENDS Mirrors, TLAPS

-----------------------------------------------------------------------------
(* The note of a project *)

NoteCall ==
    [pc : {"idle", "fail"}]
    \cup [pc : {"insert"}, text : Text \cup {None}] \cup [pc : {"found"}, text : Text]
    \cup [pc : {"read"}, note : Notes!Note]
    \cup [pc : {"back", "write", "mark"}, note : Notes!Note, found : Notes!Content \cup {None}]
    \cup [pc : {"failed"}, attempt : Nat]

NoteType ==
    /\ note \in Notes!Note \cup {None} /\ remote \in Notes!Content \cup {None}
    /\ backup \in [0 .. MaxNow -> Notes!Content \cup {None}]
    /\ call \in [Notes!Proc -> NoteCall]
    /\ lost \subseteq Foreign /\ now \in 0 .. MaxNow
    /\ noteBudget \in [ops : SUBSET STRING, left : Nat]

Copies == {backup[t] : t \in DOMAIN backup}
Stores == {"read", "back", "write", "mark"}

\* What holds of a command or of the loop where it stands: there is a note; what it
\* is about to write is the note, unless a save comes in between; and another
\* program's text in the file is the one it read or is in a backup.
NoteFits(p) ==
    /\ call[p].pc \in Stores \cup {"found", "fail", "failed"} => note # None
    /\ "overlap" \notin noteBudget.ops =>
          /\ call[p].pc \in Stores => call[p].note.content = note.content
          /\ call[p].pc = "mark" => wrote = note.content
    /\ "second" \notin noteBudget.ops =>
          /\ call[p].pc = "back" => remote \in {call[p].found} \cup Copies \/ remote \notin Foreign
          /\ call[p].pc = "write" => remote \in Copies \/ remote \notin Foreign

\* Beside the promise: a note that is settled was written as it is, at any time.
NoteInv ==
    /\ NoteType
    /\ \A p \in Notes!Proc : NoteFits(p)
    /\ "overlap" \notin noteBudget.ops /\ note # None =>
          wrote = note.content \/ Notes!Open(note.status)
    /\ "second" \notin noteBudget.ops => lost = {}

NoteBudget == noteBudget' \in [ops : SUBSET STRING, left : Nat] /\ noteBudget'.ops = noteBudget.ops

LEMMA NoteUses ==
    ASSUME NoteType, NEW op, Notes!Uses(op) \/ UNCHANGED noteBudget
    PROVE  NoteBudget
  BY DEF NoteType, NoteBudget, Notes!Uses

\* A command goes on; the others stay where they are.
LEMMA NoteGoes ==
    ASSUME NoteType, NEW p \in Notes!Proc, NEW c \in NoteCall, Notes!Goes(p, c)
    PROVE  /\ call' \in [Notes!Proc -> NoteCall] /\ call'[p] = c
           /\ \A q \in Notes!Proc \ {p} : call'[q] = call[q]
  BY DEF NoteType, Notes!Goes

\* A step that changes the position of one command and nothing else.
LEMMA NoteMoves ==
    ASSUME NoteInv, NEW p \in Notes!Proc, NEW c \in NoteCall, Notes!Goes(p, c), NoteBudget,
           UNCHANGED <<note, remote, backup, online, wrote, lost, now>>, NoteFits(p)'
    PROVE  NoteInv'
  <1>1. NoteType'
    BY NoteGoes DEF NoteInv, NoteType, NoteBudget
  <1>2. \A q \in Notes!Proc \ {p} : call'[q] = call[q]
    BY NoteGoes DEF NoteInv
  <1>3. \A q \in Notes!Proc \ {p} : NoteFits(q)'
    BY <1>2 DEF NoteInv, NoteFits, NoteBudget, Copies
  <1> QED
    BY <1>1, <1>3 DEF NoteInv, NoteBudget

LEMMA NoteBegins ==
    ASSUME MirrorAssumption, NoteInv, NEW p \in Editor, Notes!Saves(p) \/ Notes!Opens(p)
    PROVE  NoteInv'
  <1>1. p \in Notes!Proc
    BY DEF Notes!Proc
  <1>2. NoteBudget
    BY NoteUses DEF NoteInv, Notes!Saves, Notes!Opens
  <1> DEFINE c(t) == [pc |-> IF note = None THEN "insert" ELSE "found", text |-> t]
  <1>3. ASSUME NEW t \in Text \cup {None}, t = None => note = None, Notes!Goes(p, c(t)),
               UNCHANGED <<note, remote, backup, online, wrote, lost, now>>
        PROVE  NoteInv'
    <2>1. c(t) \in NoteCall
      BY <1>3 DEF NoteCall
    <2> HIDE DEF c
    <2>2. call'[p] = c(t)
      BY <1>1, <1>3, <2>1, NoteGoes DEF NoteInv
    <2>3. NoteFits(p)'
      BY <1>3, <2>2 DEF NoteFits, NoteInv, Stores, c
    <2> QED
      BY <1>1, <1>2, <1>3, <2>1, <2>3, NoteMoves
  <1>4. CASE Notes!Saves(p)
    <2>1. None \notin Text
      BY DEF MirrorAssumption, Notes!NotesAssumption
    <2> QED
      BY <1>3, <1>4, <2>1 DEF Notes!Saves
  <1>5. CASE Notes!Opens(p)
    <2>1. note = None /\ Notes!Goes(p, c(None))
      BY <1>5 DEF Notes!Opens
    <2> QED
      BY <1>3, <1>5, <2>1 DEF Notes!Opens
  <1> QED
    BY <1>4, <1>5

LEMMA NoteInserts ==
    ASSUME MirrorAssumption, NoteInv, NEW p \in Notes!Proc, Notes!Inserts(p)
    PROVE  NoteInv'
  <1> DEFINE c == IF note = None /\ call[p].text # None THEN [call[p] EXCEPT !.pc = "found"]
                  ELSE Notes!Idle
  <1>1. call[p] \in NoteCall /\ call[p].pc = "insert"
    BY DEF NoteInv, NoteType, Notes!Inserts, Notes!At
  <1>2. c \in NoteCall /\ c.pc \in {"idle", "found"} /\ (c.pc = "found" => note = None)
    BY <1>1 DEF NoteCall, Notes!Idle
  <1> HIDE DEF c
  <1>3. Notes!Goes(p, c)
    BY DEF c, Notes!Inserts
  <1>4. note' = (IF note = None THEN Notes!Fresh ELSE note) /\ Notes!Fresh \in Notes!Note
        /\ Notes!Open(Notes!Fresh.status)
    BY DEF Notes!Inserts, Notes!Fresh, Notes!Note, Notes!Open
  <1>5. note' # None
    BY <1>4 DEF MirrorAssumption, Notes!NotesAssumption
  <1>6. NoteType'
    BY <1>2, <1>3, <1>4, NoteGoes DEF NoteInv, NoteType, Notes!Inserts
  <1>7. \A q \in Notes!Proc \ {p} : call'[q] = call[q] /\ (call[q].pc \in Stores => note # None)
    BY <1>2, <1>3, NoteGoes DEF NoteInv, NoteFits
  <1>8. \A q \in Notes!Proc \ {p} : NoteFits(q)'
    BY <1>4, <1>5, <1>7 DEF NoteInv, NoteFits, Copies, Stores, Notes!Inserts
  <1>9. NoteFits(p)'
    BY <1>2, <1>3, <1>5, NoteGoes DEF NoteInv, NoteFits, Stores
  <1> QED
    BY <1>4, <1>6, <1>8, <1>9 DEF NoteInv, Notes!Inserts

LEMMA NoteUpdates ==
    ASSUME MirrorAssumption, NoteInv, NEW p \in Notes!Proc, Notes!Updates(p)
    PROVE  NoteInv'
  <1> DEFINE new == [note EXCEPT !.content = call[p].text, !.status = "pending",
                                 !.attempts = 0, !.due = TRUE]
             c == [pc |-> "read", note |-> new]
  <1>1. call[p] \in NoteCall /\ call[p].pc = "found" /\ note # None
    BY DEF NoteInv, NoteType, Notes!Updates, Notes!At, NoteFits
  <1>2. call[p].text \in Text /\ note \in Notes!Note
    BY <1>1 DEF NoteInv, NoteType, NoteCall
  <1>3. new \in Notes!Note /\ Notes!Open(new.status)
    BY <1>2 DEF Notes!Note, Notes!Open
  <1>4. note' = new /\ Notes!Goes(p, c)
    BY DEF Notes!Updates
  <1> HIDE DEF new
  <1>5. c \in NoteCall /\ new # None
    BY <1>3 DEF NoteCall, MirrorAssumption, Notes!NotesAssumption
  <1>6. NoteType'
    BY <1>3, <1>4, <1>5, NoteGoes DEF NoteInv, NoteType, Notes!Updates
  <1>7. \A q \in Notes!Proc \ {p} :
           /\ call'[q] = call[q]
           /\ "overlap" \notin noteBudget.ops => call[q].pc \notin Stores
    BY <1>4, <1>5, NoteGoes DEF NoteInv, Notes!Updates, Notes!Quiet, Stores
  <1>8. \A q \in Notes!Proc \ {p} : NoteFits(q)'
    BY <1>4, <1>5, <1>7 DEF NoteInv, NoteFits, Copies, Stores, Notes!Updates
  <1>9. NoteFits(p)'
    BY <1>4, <1>5, NoteGoes DEF NoteInv, NoteFits, Stores
  <1> QED
    BY <1>3, <1>4, <1>6, <1>8, <1>9 DEF NoteInv, Notes!Updates

LEMMA NotePicks ==
    ASSUME MirrorAssumption, NoteInv, Notes!Picks
    PROVE  NoteInv'
  <1> DEFINE c == [pc |-> "read", note |-> note]
  <1>1. Loop \in Notes!Proc
    BY DEF Notes!Proc
  <1>2. note # None /\ note \in Notes!Note /\ Notes!Goes(Loop, c)
    BY DEF NoteInv, NoteType, Notes!Picks
  <1>3. c \in NoteCall
    BY <1>2 DEF NoteCall
  <1>4. NoteFits(Loop)'
    BY <1>1, <1>2, <1>3, NoteGoes DEF NoteInv, NoteFits, Stores, Notes!Picks
  <1>5. NoteBudget
    BY NoteUses DEF NoteInv, Notes!Picks
  <1> QED
    BY <1>1, <1>2, <1>3, <1>4, <1>5, NoteMoves DEF Notes!Picks

LEMMA NoteReads ==
    ASSUME MirrorAssumption, NoteInv, NEW p \in Notes!Proc, Notes!Reads(p)
    PROVE  NoteInv'
  <1> DEFINE pc == IF Notes!Ours(call[p].note, remote) THEN "write" ELSE "back"
             c == IF ~online THEN [pc |-> "fail"]
                  ELSE [pc |-> pc, note |-> call[p].note, found |-> remote]
  <1>1. call[p] \in NoteCall /\ call[p].pc = "read" /\ Notes!Goes(p, c)
    BY DEF NoteInv, NoteType, Notes!Reads, Notes!At
  <1>2. call[p].note \in Notes!Note
    BY <1>1 DEF NoteCall
  <1>3. Notes!Ours(call[p].note, remote) => remote \notin Foreign
    BY <1>2 DEF Notes!Ours, Notes!Note, MirrorAssumption, Notes!NotesAssumption
  <1>4. c \in NoteCall
    BY <1>2 DEF NoteCall, NoteInv, NoteType
  <1>5. call'[p] = c
    BY <1>1, <1>4, NoteGoes DEF NoteInv
  <1>6. UNCHANGED <<note, remote, backup, wrote, noteBudget>>
    BY DEF Notes!Reads
  <1>7. NoteFits(p)'
    <2>1. CASE ~online
      BY <1>1, <1>5, <1>6, <2>1 DEF NoteInv, NoteFits, Stores
    <2>2. CASE online
      BY <1>1, <1>3, <1>5, <1>6, <2>2 DEF NoteInv, NoteFits, Stores
    <2> QED
      BY <2>1, <2>2
  <1>8. NoteBudget
    BY NoteUses DEF NoteInv, Notes!Reads
  <1> QED
    BY <1>1, <1>4, <1>7, <1>8, NoteMoves DEF Notes!Reads

LEMMA NoteCounts ==
    ASSUME MirrorAssumption, NoteInv, NEW p \in Notes!Proc, Notes!Counts(p)
    PROVE  NoteInv'
  <1> DEFINE c == [pc |-> "failed", attempt |-> note.attempts + 1]
  <1>1. call[p].pc = "fail" /\ note # None /\ note \in Notes!Note /\ Notes!Goes(p, c)
    BY DEF NoteInv, NoteType, NoteFits, Notes!Counts, Notes!At
  <1>2. c \in NoteCall
    BY <1>1 DEF NoteCall, Notes!Note
  <1>3. NoteFits(p)'
    BY <1>1, <1>2, NoteGoes DEF NoteInv, NoteFits, Stores, Notes!Counts
  <1>4. NoteBudget
    BY NoteUses DEF NoteInv, Notes!Counts
  <1> QED
    BY <1>1, <1>2, <1>3, <1>4, NoteMoves DEF Notes!Counts

LEMMA NoteBacksUp ==
    ASSUME MirrorAssumption, NoteInv, NEW p \in Notes!Proc, Notes!BacksUp(p)
    PROVE  NoteInv'
  <1>1. call[p] \in NoteCall /\ call[p].pc = "back"
    BY DEF NoteInv, NoteType, Notes!BacksUp, Notes!At
  <1>2. call[p].note \in Notes!Note /\ call[p].found \in Notes!Content \cup {None}
    BY <1>1 DEF NoteCall
  <1>3. NoteBudget /\ UNCHANGED <<note, remote, online, wrote, now, noteBudget>>
    BY NoteUses DEF NoteInv, Notes!BacksUp
  <1>4. PICK c \in NoteCall :
           /\ Notes!Goes(p, c) /\ c.pc \in {"write", "fail"}
           /\ c.pc = "write" => /\ c.note = call[p].note
                                /\ backup' = [backup EXCEPT ![now] = call[p].found]
           /\ c.pc = "fail" => backup' = backup
    <2>1. CASE online
      <3> DEFINE c == [call[p] EXCEPT !.pc = "write"]
      <3>1. c \in NoteCall /\ c.pc = "write" /\ c.note = call[p].note
        BY <1>1 DEF NoteCall
      <3> QED
        BY <2>1, <3>1 DEF Notes!BacksUp
    <2>2. CASE ~online
      <3>1. [pc |-> "fail"] \in NoteCall
        BY DEF NoteCall
      <3> QED
        BY <2>2, <3>1 DEF Notes!BacksUp
    <2> QED
      BY <2>1, <2>2
  <1>5. backup' \in [0 .. MaxNow -> Notes!Content \cup {None}]
    BY <1>2, <1>4 DEF NoteInv, NoteType
  \* A copy stays unless two are made in one second.
  <1>6. "second" \notin noteBudget.ops =>
           (\A x \in Copies : x # None => x \in Copies')
    <2>1. CASE c.pc = "write"
      <3>1. "second" \notin noteBudget.ops =>
               \A t \in 0 .. MaxNow : backup[t] # None => backup'[t] = backup[t]
        BY <1>4, <2>1 DEF Notes!BacksUp, NoteInv, NoteType
      <3> QED
        BY <1>5, <3>1 DEF Copies, NoteInv, NoteType
    <2>2. CASE c.pc = "fail"
      BY <1>4, <2>2 DEF Copies
    <2> QED
      BY <1>4, <2>1, <2>2
  <1>7. c.pc = "write" => call[p].found \in Copies'
    BY <1>4, <1>5 DEF Copies, NoteInv, NoteType
  <1>8. call' \in [Notes!Proc -> NoteCall] /\ call'[p] = c
        /\ \A q \in Notes!Proc \ {p} : call'[q] = call[q]
    BY <1>4, NoteGoes DEF NoteInv
  <1>9. None \notin Foreign
    BY DEF MirrorAssumption, Notes!NotesAssumption
  <1>10. \A q \in Notes!Proc \ {p} : NoteFits(q)'
    BY <1>3, <1>6, <1>8, <1>9 DEF NoteInv, NoteFits
  <1>11. NoteFits(p)'
    <2>1. "second" \notin noteBudget.ops => remote \notin Foreign \/ remote = call[p].found
                                           \/ remote \in Copies
      BY <1>1 DEF NoteInv, NoteFits
    <2>2. "second" \notin noteBudget.ops /\ c.pc = "write" =>
             remote' \in Copies' \/ remote' \notin Foreign
      BY <1>3, <1>6, <1>7, <1>9, <2>1
    <2> QED
      BY <1>1, <1>3, <1>4, <1>8, <2>2 DEF NoteInv, NoteFits, Stores
  <1>12. lost' \subseteq Foreign /\ ("second" \notin noteBudget.ops => lost' = {})
    <2>1. lost' = lost \cup Notes!Lost(remote, backup')
      BY DEF Notes!BacksUp
    <2>2. Notes!Lost(remote, backup') \subseteq Foreign
      BY DEF Notes!Lost
    <2>3. "second" \notin noteBudget.ops => Notes!Lost(remote, backup') = {}
      BY <1>6, <1>9 DEF Notes!Lost, Copies
    <2> QED
      BY <2>1, <2>2, <2>3 DEF NoteInv, NoteType
  <1> QED
    BY <1>3, <1>5, <1>8, <1>10, <1>11, <1>12 DEF NoteInv, NoteType

LEMMA NoteWrites ==
    ASSUME MirrorAssumption, NoteInv, NEW p \in Notes!Proc, Notes!Writes(p)
    PROVE  NoteInv'
  <1>1. call[p] \in NoteCall /\ call[p].pc = "write"
    BY DEF NoteInv, NoteType, Notes!Writes, Notes!At
  <1>2. call[p].note \in Notes!Note /\ call[p].note.content \in Text \cup {Empty}
    BY <1>1 DEF NoteCall, Notes!Note
  <1>3. NoteBudget /\ UNCHANGED <<note, backup, online, now, noteBudget>>
    BY NoteUses DEF NoteInv, Notes!Writes
  <1>4. PICK c \in NoteCall :
           /\ Notes!Goes(p, c) /\ c.pc \in {"mark", "fail"}
           /\ c.pc = "mark" => /\ c.note = call[p].note /\ remote' = call[p].note.content
                               /\ wrote' = call[p].note.content
           /\ c.pc = "fail" => remote' = remote /\ wrote' = wrote
    <2>1. CASE online
      <3> DEFINE c == [call[p] EXCEPT !.pc = "mark"]
      <3>1. c \in NoteCall /\ c.pc = "mark" /\ c.note = call[p].note
        BY <1>1 DEF NoteCall
      <3> QED
        BY <2>1, <3>1 DEF Notes!Writes
    <2>2. CASE ~online
      <3>1. [pc |-> "fail"] \in NoteCall
        BY DEF NoteCall
      <3> QED
        BY <2>2, <3>1 DEF Notes!Writes
    <2> QED
      BY <2>1, <2>2
  <1>5. remote' \in Notes!Content \cup {None} /\ (remote' = remote \/ remote' \notin Foreign)
    BY <1>2, <1>4 DEF NoteInv, NoteType, Notes!Content, MirrorAssumption, Notes!NotesAssumption
  <1>6. call' \in [Notes!Proc -> NoteCall] /\ call'[p] = c
        /\ \A q \in Notes!Proc \ {p} : call'[q] = call[q]
    BY <1>4, NoteGoes DEF NoteInv
  <1>7. "overlap" \notin noteBudget.ops => wrote' = wrote \/ wrote' = note.content
    BY <1>1, <1>4 DEF NoteInv, NoteFits, Stores
  <1>8. \A q \in Notes!Proc \ {p} : NoteFits(q)'
    BY <1>3, <1>5, <1>6, <1>7 DEF NoteInv, NoteFits, Copies
  <1>9. NoteFits(p)'
    BY <1>1, <1>3, <1>4, <1>6, <1>7 DEF NoteInv, NoteFits, Stores
  <1>10. lost' \subseteq Foreign /\ ("second" \notin noteBudget.ops => lost' = {})
    <2>1. lost' = lost \cup Notes!Lost(remote', backup)
      BY DEF Notes!Writes
    <2>2. Notes!Lost(remote', backup) \subseteq Foreign
      BY DEF Notes!Lost
    <2>3. "second" \notin noteBudget.ops => Notes!Lost(remote', backup) = {}
      BY <1>1 DEF Notes!Lost, Copies, NoteInv, NoteFits
    <2> QED
      BY <2>1, <2>2, <2>3 DEF NoteInv, NoteType
  <1> QED
    BY <1>3, <1>5, <1>6, <1>7, <1>8, <1>9, <1>10 DEF NoteInv, NoteType

\* A write that is recorded, and one that failed.
LEMMA NoteEnds ==
    ASSUME MirrorAssumption, NoteInv, NEW p \in Notes!Proc, Notes!Marks(p) \/ Notes!Fails(p)
    PROVE  NoteInv'
  <1>1. call[p] \in NoteCall /\ call[p].pc \in {"mark", "failed"} /\ note # None
        /\ note \in Notes!Note
    BY DEF NoteInv, NoteType, NoteFits, Stores, Notes!Marks, Notes!Fails, Notes!At
  <1>2. /\ note' \in Notes!Note /\ note'.content = note.content
        /\ call[p].pc = "failed" => Notes!Open(note'.status)
    <2>1. CASE Notes!Marks(p)
      <3>1. call[p].pc = "mark" /\ call[p].note.content \in Text \cup {Empty}
        BY <1>1, <2>1 DEF Notes!Marks, Notes!At, NoteCall, Notes!Note
      <3> QED
        BY <1>1, <2>1, <3>1 DEF Notes!Marks, Notes!Note
    <2>2. CASE Notes!Fails(p)
      <3>1. call[p].pc = "failed" /\ call[p].attempt \in Nat
        BY <1>1, <2>2 DEF Notes!Fails, Notes!At, NoteCall
      <3> QED
        BY <1>1, <2>2, <3>1 DEF Notes!Fails, Notes!Note, Notes!Open
    <2> QED
      BY <2>1, <2>2
  <1>3. Notes!Goes(p, Notes!Idle) /\ Notes!Idle \in NoteCall /\ Notes!Idle.pc = "idle"
    BY DEF Notes!Marks, Notes!Fails, NoteCall, Notes!Idle
  <1>4. UNCHANGED <<remote, backup, online, wrote, lost, now, noteBudget>>
    BY DEF Notes!Marks, Notes!Fails
  <1>5. note' # None
    BY <1>2 DEF MirrorAssumption, Notes!NotesAssumption
  <1>6. call' \in [Notes!Proc -> NoteCall] /\ call'[p].pc = "idle"
        /\ \A q \in Notes!Proc \ {p} : call'[q] = call[q]
    BY <1>3, NoteGoes DEF NoteInv
  <1>7. \A q \in Notes!Proc : NoteFits(q)'
    BY <1>2, <1>4, <1>5, <1>6 DEF NoteInv, NoteFits, Copies, Stores
  <1>8. "overlap" \notin noteBudget.ops => wrote = note.content \/ Notes!Open(note'.status)
    BY <1>1, <1>2 DEF NoteInv, NoteFits
  <1> QED
    BY <1>2, <1>4, <1>6, <1>7, <1>8 DEF NoteInv, NoteType

\* Time, the share, other programs and crashes
LEMMA NoteWorld ==
    ASSUME MirrorAssumption, NoteInv,
           Notes!Comes \/ Notes!Ticks \/ Notes!Downs \/ Notes!Ups \/ Notes!Crashes
           \/ \E x \in Foreign : Notes!Edits(x)
    PROVE  NoteInv'
  <1>1. CASE Notes!Comes
    <2>1. note' \in Notes!Note /\ note'.content = note.content /\ note'.status = note.status
          /\ note # None
      BY <1>1 DEF Notes!Comes, NoteInv, NoteType, Notes!Note
    <2>2. note' # None
      BY <2>1 DEF MirrorAssumption, Notes!NotesAssumption
    <2>3. UNCHANGED <<remote, backup, online, call, wrote, lost, now, noteBudget>>
      BY <1>1 DEF Notes!Comes
    <2> QED
      BY <2>1, <2>2, <2>3 DEF NoteInv, NoteType, NoteFits, Copies
  <1>2. CASE Notes!Ticks
    <2>1. now' \in 0 .. MaxNow
      BY <1>2 DEF Notes!Ticks, NoteInv, NoteType, MirrorAssumption, Notes!NotesAssumption
    <2>2. UNCHANGED <<note, remote, backup, online, call, wrote, lost, noteBudget>>
      BY <1>2 DEF Notes!Ticks
    <2> QED
      BY <2>1, <2>2 DEF NoteInv, NoteType, NoteFits, Copies
  <1>3. CASE Notes!Downs \/ Notes!Ups
    <2>1. NoteBudget
      BY <1>3, NoteUses DEF Notes!Downs, Notes!Ups, NoteInv
    <2>2. UNCHANGED <<note, remote, backup, call, wrote, lost, now>>
      BY <1>3 DEF Notes!Downs, Notes!Ups
    <2> QED
      BY <2>1, <2>2 DEF NoteInv, NoteType, NoteFits, Copies, NoteBudget
  <1>4. CASE Notes!Crashes
    <2>1. NoteBudget
      BY <1>4, NoteUses DEF Notes!Crashes, NoteInv
    <2>2. call' = [p \in Notes!Proc |-> Notes!Idle] /\ Notes!Idle \in NoteCall
          /\ Notes!Idle.pc = "idle"
      BY <1>4 DEF Notes!Crashes, NoteCall, Notes!Idle
    <2>3. UNCHANGED <<note, remote, backup, wrote, lost, now>>
      BY <1>4 DEF Notes!Crashes
    <2>4. \A p \in Notes!Proc : NoteFits(p)'
      BY <2>2 DEF NoteFits, Stores
    <2> QED
      BY <2>1, <2>2, <2>3, <2>4 DEF NoteInv, NoteType, NoteBudget
  <1>5. ASSUME NEW x \in Foreign, Notes!Edits(x)
        PROVE  NoteInv'
    <2>1. NoteBudget
      BY <1>5, NoteUses DEF Notes!Edits, NoteInv
    <2>2. UNCHANGED <<note, backup, call, wrote, lost, now>> /\ remote' = x
          /\ \A p \in Notes!Proc : call[p].pc \notin {"back", "write"}
      BY <1>5 DEF Notes!Edits
    <2>3. \A p \in Notes!Proc : NoteFits(p)'
      BY <2>1, <2>2 DEF NoteFits, NoteInv, NoteBudget
    <2> QED
      BY <2>1, <2>2, <2>3 DEF NoteInv, NoteType, NoteBudget, Notes!Content
  <1> QED
    BY <1>1, <1>2, <1>3, <1>4, <1>5

LEMMA NoteStep ==
    ASSUME MirrorAssumption, NoteInv, Notes!Next \/ UNCHANGED noteVars
    PROVE  NoteInv'
  <1>1. CASE UNCHANGED noteVars
    BY <1>1 DEF noteVars, NoteInv, NoteType, NoteFits, Copies
  <1>2. CASE Notes!Next
    BY <1>2, NoteBegins, NoteInserts, NoteUpdates, NotePicks, NoteReads, NoteBacksUp, NoteWrites,
       NoteEnds, NoteCounts, NoteWorld DEF Notes!Next, Notes!Syncs
  <1> QED
    BY <1>1, <1>2

LEMMA NoteStart == MirrorAssumption /\ Notes!Init => NoteInv
  <1> SUFFICES ASSUME MirrorAssumption, Notes!Init PROVE NoteInv
    OBVIOUS
  <1> DEFINE old == [Notes!Fresh EXCEPT !.status = "synced", !.last = Empty]
  <1>1. old \in Notes!Note /\ old.content = Empty /\ Notes!Idle \in NoteCall
        /\ Notes!Idle.pc = "idle"
    BY DEF Notes!Fresh, Notes!Note, Notes!Idle, NoteCall
  <1>2. /\ note \in {None, old} /\ call = [p \in Notes!Proc |-> Notes!Idle]
        /\ wrote = IF note = None THEN None ELSE Empty
        /\ remote \in {None, Empty} /\ lost = {} /\ now = 0 /\ noteBudget \in NoteBudgets
        /\ backup = [t \in 0 .. MaxNow |-> None]
    BY DEF Notes!Init
  <1>3. NoteType
    BY <1>1, <1>2 DEF NoteType, Notes!Content, MirrorAssumption, Notes!NotesAssumption
  <1>4. \A p \in Notes!Proc : NoteFits(p)
    BY <1>1, <1>2 DEF NoteFits, Stores
  <1> QED
    BY <1>1, <1>2, <1>3, <1>4 DEF NoteInv

-----------------------------------------------------------------------------
(* The bridge in a game directory *)

Hashes == Nat \cup {None}
\* What an install records; an artifact that is recorded is one of ours.
Recorded == {r \in Bridge!Manifest : r["rpy"] \in Nat \ {0} /\ r["json"] \in Nat \ {0}
                                     /\ r["rpyc"] # Bridge!Theirs}
Policies == [Project -> BOOLEAN \cup {None}]
Targets == {"rpy", "json"}

Before == {"rpy", "json", "persist", "stage"}
Undoing == {"undo rpy", "undo json", "undo policy"}
\* The commands under way: before the policy is staged and after that, those that
\* remove files, and those that change the setting.
Plain == [pc : Before \cup Undoing, p : Project, new : BOOLEAN, stale : BOOLEAN,
          backup : Bridge!Manifest, row : Recorded]
Staged == [pc : {"commit", "compiled"} \cup Undoing, p : Project, new : BOOLEAN, stale : BOOLEAN,
           backup : Bridge!Manifest, row : Recorded, old : Policies]
Removal == [pc : {"remove", "publish"}, p : Project, row : Recorded, todo : SUBSET Bridge!File,
            kept : SUBSET Bridge!File]
Saving == [pc : {"save", "undo policy"}, t : Project \cup {Everyone}, b : BOOLEAN \cup {None},
           old : Policies]
BridgeCall == [pc : {"idle"}] \cup [pc : {"check", "record"}, p : Project]
              \cup Plain \cup Staged \cup Removal \cup Saving

BridgeType ==
    /\ disk \in Bridge!Manifest /\ version \in Nat \ {0} /\ serial \in Nat \ {0}
    /\ alive \subseteq Project
    /\ choice \in [Project \cup {Everyone} -> BOOLEAN \cup {None}]
    /\ choice[Everyone] \in BOOLEAN
    /\ installed \in [Project -> Recorded \cup {None}]
    /\ policy \in Policies /\ commands \in [Client -> BridgeCall]
    /\ locks \in [bridge : Client \cup {None}, policy : Client \cup {None}]
    /\ locks.bridge \in {None, locks.policy}
    /\ bridgeBudget \in [ops : SUBSET STRING, left : Nat]

\* Whose files they are, and what the bridges are told.
Registered(files_) ==
    \A f \in Targets : Bridge!Ours(files_[f]) =>
        \E p \in Project : installed[p] # None /\ installed[p][f] = files_[f]
Clean == ~Bridge!Orphaned => Registered(disk)

Tells(p_, r, ch) == \A p \in alive : p_[p] = Bridge!Snapshot(r, ch)[p]
Reliable == "writeFails" \notin bridgeBudget.ops
Told == Reliable => Tells(policy, installed, choice)

Replacing == Before \cup {"commit", "undo rpy", "undo json"}
Holds == Replacing \cup {"compiled", "check", "record", "remove", "publish"}

\* An install between its check and its end: nothing of the user's is in the way of
\* it, and what it found was registered and is what it puts back.
InstallFits(k) ==
    /\ \A f \in Targets : disk[f] # Bridge!Theirs /\ k.backup[f] # Bridge!Theirs
    /\ k.stale => disk["rpyc"] # Bridge!Theirs
    /\ k.pc = "rpy" => disk["rpy"] = k.backup["rpy"]
    /\ k.pc \in {"rpy", "json"} => disk["json"] = k.backup["json"]
    /\ k.pc \in {"json", "persist", "stage", "commit"} => disk["rpy"] = k.row["rpy"]
    /\ k.pc \in {"persist", "stage", "commit"} => disk["json"] = k.row["json"]
    /\ ~Bridge!Orphaned =>
          /\ k.pc # "compiled" => Registered(k.backup)
          /\ k.pc = "undo json" => disk["rpy"] = k.backup["rpy"]
          /\ ~k.new => installed[k.p] # None

\* An uninstall: what it is done with is gone or kept, the artifact last.
RemoveFits(k) ==
    /\ \A f \in Targets \ k.todo : disk[f] = None \/ f \in k.kept
    /\ "rpyc" \notin k.todo => k.todo = {} /\ (disk["rpyc"] = None \/ k.kept # {})

\* The policy is staged before the commit, and what was there is kept until then.
PolicyFits(c) ==
    LET k == commands[c] IN
    /\ k.pc = "commit" => Tells(policy, Bridge!After(c), choice)
    /\ k.pc = "save" => Tells(policy, installed, [choice EXCEPT ![k.t] = k.b])
    /\ k.pc \in {"commit", "save"} \cup Undoing =>
          IF "old" \in DOMAIN k THEN Tells(k.old, installed, choice)
          ELSE Tells(policy, installed, choice)
    /\ k.pc \notin {"idle", "commit", "save", "publish"} \cup Undoing =>
          Tells(policy, installed, choice)

BridgeFits(c) ==
    LET k == commands[c] IN
    /\ k.pc # "idle" <=> locks.policy = c
    /\ k.pc \in Holds => locks.bridge = c
    /\ k.pc = "save" => locks.bridge = None /\ (k.t = Everyone => k.b # None)
    /\ k.pc \in Replacing \cup {"compiled"} => InstallFits(k)
    /\ k.pc = "remove" => RemoveFits(k)
    /\ k.pc \notin Replacing \cup {"idle"} => Clean
    /\ Reliable => PolicyFits(c)

BridgeInv ==
    /\ BridgeType
    /\ \A c \in Client : BridgeFits(c)
    /\ locks.policy = None => (Clean /\ Told)

BridgeBudget == /\ bridgeBudget' \in [ops : SUBSET STRING, left : Nat]
                /\ bridgeBudget'.ops = bridgeBudget.ops

LEMMA BridgeUses ==
    ASSUME BridgeType, NEW op, Bridge!Uses(op) \/ UNCHANGED bridgeBudget
    PROVE  BridgeBudget
  BY DEF BridgeType, BridgeBudget, Bridge!Uses

\* None is neither a record nor a hash nor anyone.
LEMMA BridgeNone ==
    ASSUME MirrorAssumption
    PROVE  /\ None \notin Recorded /\ None \notin Client /\ None \notin Nat /\ None \notin BOOLEAN
           /\ None # Everyone /\ None \notin Project /\ Everyone \notin Project
  BY DEF MirrorAssumption, Bridge!BridgeAssumption, Recorded

\* Two commands never hold the lock of the policy, and whoever is under way has it.
LEMMA BridgeOne ==
    ASSUME BridgeInv, NEW c \in Client, commands[c].pc # "idle"
    PROVE  locks.policy = c /\ \A d \in Client \ {c} : commands[d].pc = "idle"
  BY DEF BridgeInv, BridgeFits

LEMMA BridgeGoes ==
    ASSUME BridgeType, NEW c \in Client, NEW k \in BridgeCall, Bridge!Goes(c, k)
    PROVE  /\ commands' \in [Client -> BridgeCall] /\ commands'[c] = k
           /\ \A d \in Client \ {c} : commands'[d] = commands[d]
  BY DEF BridgeType, Bridge!Goes

\* A step of the command that holds the lock, takes it or gives it back.
LEMMA BridgeSteps ==
    ASSUME MirrorAssumption, BridgeInv, NEW c \in Client, locks.policy \in {None, c},
           NEW k \in BridgeCall, Bridge!Goes(c, k), BridgeType',
           locks'.policy \in {None, c}, BridgeFits(c)', k.pc = "idle" => Clean' /\ Told'
    PROVE  BridgeInv'
  <1>1. commands'[c] = k /\ \A d \in Client \ {c} : commands'[d] = commands[d]
    BY BridgeGoes DEF BridgeInv
  <1>2. \A d \in Client \ {c} : commands'[d].pc = "idle" /\ locks'.policy # d
    BY <1>1, BridgeNone DEF BridgeInv, BridgeFits
  <1>3. \A d \in Client \ {c} : BridgeFits(d)'
    BY <1>2 DEF BridgeFits, PolicyFits, Holds, Replacing, Before, Undoing
  <1>4. locks'.policy = None => Clean' /\ Told'
    BY <1>1, BridgeNone DEF BridgeFits
  <1> QED
    BY <1>3, <1>4 DEF BridgeInv

LEMMA SameSnapshot ==
    ASSUME NEW r, NEW s, NEW ch, \A p \in Project : r[p] = None <=> s[p] = None
    PROVE  Bridge!Snapshot(r, ch) = Bridge!Snapshot(s, ch)
  BY DEF Bridge!Snapshot

\* A snapshot is a policy.
LEMMA SnapshotType ==
    ASSUME MirrorAssumption, NEW r, NEW ch \in [Project \cup {Everyone} -> BOOLEAN \cup {None}],
           ch[Everyone] \in BOOLEAN
    PROVE  Bridge!Snapshot(r, ch) \in Policies
  BY DEF Bridge!Snapshot, Bridge!Resolved, Policies

\* The command gives its locks back and is done.
LEMMA BridgeEnds ==
    ASSUME MirrorAssumption, BridgeInv, NEW c \in Client, commands[c].pc # "idle", Bridge!Ends(c),
           Clean', Told', disk' \in Bridge!Manifest, policy' \in Policies,
           installed' \in [Project -> Recorded \cup {None}],
           choice' \in [Project \cup {Everyone} -> BOOLEAN \cup {None}], choice'[Everyone] \in BOOLEAN,
           UNCHANGED <<version, serial, alive>>, BridgeBudget
    PROVE  BridgeInv'
  <1>1. locks.policy = c /\ locks.bridge \in {None, c} /\ locks \in [bridge : Client \cup {None},
                                                                  policy : Client \cup {None}]
    BY BridgeOne DEF BridgeInv, BridgeType
  <1>2. locks' \in [bridge : Client \cup {None}, policy : Client \cup {None}]
        /\ locks'.policy = None /\ locks'.bridge = None
    BY <1>1, BridgeNone DEF Bridge!Ends, Bridge!Releases
  <1>3. Bridge!Goes(c, Bridge!Idle) /\ Bridge!Idle \in BridgeCall /\ Bridge!Idle.pc = "idle"
    BY DEF Bridge!Ends, Bridge!Idle, BridgeCall
  <1>4. commands' \in [Client -> BridgeCall] /\ commands'[c].pc = "idle"
    BY <1>3, BridgeGoes DEF BridgeInv
  <1>5. BridgeType'
    BY <1>2, <1>4 DEF BridgeInv, BridgeType, BridgeBudget
  <1>6. BridgeFits(c)'
    BY <1>2, <1>4, BridgeNone DEF BridgeFits, PolicyFits, Holds, Replacing, Before, Undoing
  <1> QED
    BY <1>1, <1>2, <1>3, <1>5, <1>6, BridgeSteps

LEMMA BridgeBegins ==
    ASSUME MirrorAssumption, BridgeInv, NEW c \in Client, NEW p \in Project,
           Bridge!Begins(c, p) \/ Bridge!Uninstalls(c, p)
    PROVE  BridgeInv'
  <1>1. PICK pc \in {"check", "record"} : Bridge!Goes(c, [pc |-> pc, p |-> p])
    BY DEF Bridge!Begins, Bridge!Uninstalls
  <1> DEFINE k == [pc |-> pc, p |-> p]
  <1>2. k \in BridgeCall /\ k.pc \notin {"idle", "commit", "save", "publish"} \cup Undoing
        /\ k.pc \notin Replacing \cup {"compiled", "remove", "idle"}
    BY DEF BridgeCall, Undoing, Replacing, Before
  <1>3. commands' \in [Client -> BridgeCall] /\ commands'[c] = k
    BY <1>1, <1>2, BridgeGoes DEF BridgeInv
  <1>4. /\ locks.policy = None /\ locks' = [bridge |-> c, policy |-> c] /\ BridgeBudget
        /\ UNCHANGED <<disk, version, serial, alive, choice, installed, policy>>
    BY BridgeUses DEF BridgeInv, Bridge!Begins, Bridge!Uninstalls, Bridge!NoLocks, Bridge!db,
                      Bridge!env
  <1>5. BridgeType'
    BY <1>3, <1>4 DEF BridgeInv, BridgeType, BridgeBudget
  <1>6. Clean /\ Told /\ Clean' /\ Told'
    BY <1>4, BridgeNone DEF BridgeInv, Clean, Told, Registered, Reliable, Bridge!Orphaned, Tells, BridgeBudget
  <1>7. Reliable' => PolicyFits(c)'
    <2>1. Reliable' => Tells(policy, installed, choice)'
      BY <1>6 DEF Told
    <2> QED
      BY <1>2, <1>3, <2>1 DEF PolicyFits
  <1>8. BridgeFits(c)'
    BY <1>2, <1>3, <1>4, <1>6, <1>7 DEF BridgeFits, Holds
  <1> QED
    BY <1>1, <1>2, <1>3, <1>4, <1>5, <1>8, BridgeSteps

\* Where an install stands in its first steps.
LEMMA InstallAt ==
    ASSUME BridgeInv, NEW c \in Client, commands[c].pc \in Before
    PROVE  /\ commands[c] \in Plain /\ locks.policy = c /\ locks.bridge = c
           /\ InstallFits(commands[c])
           /\ Reliable => Tells(policy, installed, choice)
  BY ZenonT(60) DEF BridgeInv, BridgeType, BridgeFits, PolicyFits, BridgeCall, Plain, Staged, Removal, Saving,
         Before, Undoing, Holds, Replacing

LEMMA BridgeChecks ==
    ASSUME MirrorAssumption, BridgeInv, NEW c \in Client, Bridge!Checks(c)
    PROVE  BridgeInv'
  <1> DEFINE p == commands[c].p
             prev == installed[p]
             same == prev # None /\ prev["rpyc"] # None /\ disk["rpyc"] = prev["rpyc"]
             r == [f \in Bridge!File |->
                      IF f = "rpy" THEN version
                      ELSE IF f = "json" THEN serial
                      ELSE IF prev = None \/ same \/ disk["rpyc"] = None THEN None
                      ELSE prev["rpyc"]]
             k == [pc |-> "rpy", p |-> p, new |-> prev = None, stale |-> same, backup |-> disk,
                   row |-> r]
             ours == \A f \in Targets : Bridge!IsOurs(f, prev)
  <1>1. commands[c].pc = "check" /\ commands[c] \in BridgeCall
    BY DEF Bridge!Checks, BridgeInv, BridgeType
  <1>2. p \in Project /\ prev \in Recorded \cup {None}
    <2>1. p \in Project
      BY <1>1 DEF BridgeCall, Plain, Staged, Removal, Saving, Before, Undoing
    <2> QED
      BY <2>1 DEF BridgeInv, BridgeType
  <1>3. locks.policy = c /\ locks.bridge = c /\ Clean /\ Told
    BY <1>1 DEF BridgeInv, BridgeFits, PolicyFits, Told, Replacing, Before, Undoing, Holds
  <1>4. UNCHANGED <<disk, version, serial, alive, choice, installed, policy, bridgeBudget>>
    BY DEF Bridge!Checks, Bridge!db
  <1>5. Clean' /\ Told'
    BY <1>3, <1>4 DEF Clean, Told, Registered, Reliable, Bridge!Orphaned, Tells
  <1>6. CASE Bridge!Ends(c)
    BY <1>1, <1>4, <1>5, <1>6, BridgeEnds DEF BridgeInv, BridgeType, BridgeBudget
  <1>7. CASE UNCHANGED locks /\ Bridge!Goes(c, k) /\ ours
    <2>1. disk \in Bridge!Manifest /\ version \in Nat \ {0} /\ serial \in Nat \ {0}
      BY DEF BridgeInv, BridgeType
    <2>2. r \in Recorded
      <3>1. prev # None => prev \in Bridge!Manifest /\ prev["rpyc"] # Bridge!Theirs
        BY <1>2 DEF Recorded
      <3>2. prev # None => prev["rpyc"] \in Hashes
        BY <3>1 DEF Bridge!Manifest, Bridge!File, Hashes
      <3>3. r \in Bridge!Manifest
        BY <2>1, <3>2 DEF Bridge!Manifest, Bridge!File, Hashes
      <3>4. r["rpy"] = version /\ r["json"] = serial
            /\ r["rpyc"] = IF prev = None \/ same \/ disk["rpyc"] = None THEN None
                           ELSE prev["rpyc"]
        BY DEF Bridge!File
      <3>5. r["rpyc"] # Bridge!Theirs
        BY <3>1, <3>4, BridgeNone DEF Bridge!Theirs
      <3> QED
        BY <2>1, <3>3, <3>4, <3>5 DEF Recorded
    <2>3. \A f \in Targets : disk[f] # Bridge!Theirs
      BY <1>2, <1>7, BridgeNone DEF Bridge!IsOurs, Recorded, Targets, Bridge!Theirs
    <2>4. same => disk["rpyc"] # Bridge!Theirs
      BY <1>2 DEF Recorded
    <2> DEFINE new == prev = None
    <2>5. new \in BOOLEAN /\ same \in BOOLEAN /\ (~new => installed[p] # None)
      OBVIOUS
    <2> HIDE DEF r, same, prev, new, p
    <2>6. k \in Plain /\ k.pc = "rpy" /\ k.backup = disk /\ k.stale = same /\ k.p = p
          /\ k.new = new
      BY <1>2, <2>1, <2>2, <2>5 DEF Plain, Before, new
    <2>7. k \in BridgeCall
      BY <2>6 DEF BridgeCall
    <2> HIDE DEF k
    <2>8. commands' \in [Client -> BridgeCall] /\ commands'[c] = k
      BY <1>7, <2>7, BridgeGoes DEF BridgeInv
    <2>9. BridgeType'
      BY <1>4, <1>7, <2>8 DEF BridgeInv, BridgeType
    <2>10. InstallFits(commands[c])'
      BY <1>3, <1>4, <2>3, <2>4, <2>5, <2>6, <2>8 DEF InstallFits, Targets, Clean, Registered, Bridge!Orphaned
    <2>11. Reliable' => PolicyFits(c)'
      BY <1>5, <2>6, <2>8 DEF PolicyFits, Told, Undoing
    <2>12. BridgeFits(c)'
      BY <1>3, <1>7, <2>6, <2>8, <2>10, <2>11 DEF BridgeFits, Replacing, Before, Holds
    <2> QED
      BY <1>3, <1>7, <2>6, <2>7, <2>9, <2>12, BridgeSteps
  <1> QED
    BY <1>6, <1>7 DEF Bridge!Checks, Targets

\* An install goes on under its locks, and the database stays.
LEMMA InstallGoes ==
    ASSUME MirrorAssumption, BridgeInv, NEW c \in Client, locks.policy = c, locks.bridge = c,
           NEW k \in Plain \cup Staged, k.pc \in Replacing, Bridge!Goes(c, k), BridgeBudget,
           disk' \in Bridge!Manifest, serial' \in Nat \ {0}, policy' \in Policies,
           UNCHANGED <<locks, version, alive, choice, installed>>,
           InstallFits(commands[c])', Reliable => PolicyFits(c)'
    PROVE  BridgeInv'
  <1>1. k \in BridgeCall
    BY DEF BridgeCall
  <1>2. commands' \in [Client -> BridgeCall] /\ commands'[c] = k
    BY <1>1, BridgeGoes DEF BridgeInv
  <1>3. BridgeType'
    BY <1>2 DEF BridgeInv, BridgeType, BridgeBudget
  <1>5. BridgeFits(c)'
    BY <1>2 DEF BridgeFits, Reliable, BridgeBudget, Replacing, Before
  <1> QED
    BY <1>1, <1>3, <1>5, BridgeSteps DEF Replacing, Before

LEMMA BridgeWrites ==
    ASSUME MirrorAssumption, BridgeInv, NEW c \in Client,
           Bridge!Writes(c, "rpy", "json") \/ Bridge!Writes(c, "json", "persist")
    PROVE  BridgeInv'
  <1>1. PICK f \in Targets, next \in Before : Bridge!Writes(c, f, next)
                                              /\ next = IF f = "rpy" THEN "json" ELSE "persist"
    BY DEF Targets, Before
  <1> DEFINE k == [commands[c] EXCEPT !.pc = next]
  <1>2. commands[c].pc = f /\ f \in Bridge!File /\ f \in Before
    BY <1>1 DEF Bridge!Writes, Targets, Before, Bridge!File
  <1>3. commands[c] \in Plain /\ locks.policy = c /\ locks.bridge = c /\ InstallFits(commands[c])
        /\ (Reliable => Tells(policy, installed, choice))
    BY <1>2, InstallAt
  <1>4. /\ k \in Plain /\ k.pc = next /\ k.p = commands[c].p /\ k.new = commands[c].new
        /\ k.stale = commands[c].stale /\ k.backup = commands[c].backup /\ k.row = commands[c].row
    BY <1>3 DEF Plain, Before
  <1>5. commands[c].row \in Bridge!Manifest /\ commands[c].row[f] \in Nat \ {0}
        /\ disk \in Bridge!Manifest
    BY <1>3 DEF Plain, Recorded, Targets, BridgeInv, BridgeType
  <1>6. disk' = [disk EXCEPT ![f] = commands[c].row[f]] /\ Bridge!Goes(c, k)
        /\ UNCHANGED <<version, alive, choice, installed, policy, locks, bridgeBudget>>
    BY <1>1 DEF Bridge!Writes, Bridge!db
  <1>7. disk' \in Bridge!Manifest /\ disk'[f] = commands[c].row[f] /\ disk'[f] # Bridge!Theirs
        /\ \A g \in Bridge!File \ {f} : disk'[g] = disk[g]
    BY <1>2, <1>5, <1>6 DEF Bridge!Manifest, Bridge!Theirs
  <1>8. serial' \in Nat \ {0}
    BY <1>1 DEF Bridge!Writes, BridgeInv, BridgeType
  <1> HIDE DEF k
  <1> DEFINE j == commands[c]
  <1>9. InstallFits(commands[c])'
    <2>1. /\ commands'[c].pc = next /\ commands'[c].p = j.p /\ commands'[c].new = j.new
          /\ commands'[c].stale = j.stale /\ commands'[c].backup = j.backup
          /\ commands'[c].row = j.row
      BY <1>4, <1>6, BridgeGoes DEF BridgeInv, BridgeCall
    <2> HIDE DEF j
    <2>2. ~Bridge!Orphaned => Registered(j.backup)
      BY <1>2, <1>3 DEF InstallFits, Before, j
    <2>3. (~Bridge!Orphaned)' => Registered(commands[c].backup)'
      BY <1>6, <2>1, <2>2 DEF Registered, Bridge!Orphaned
    <2> QED
      BY <1>1, <1>2, <1>3, <1>6, <1>7, <2>1, <2>3 DEF InstallFits, Targets, Bridge!File, Bridge!Orphaned, j
  <1>10. Reliable => PolicyFits(c)'
    <2>1. commands'[c] = k
      BY <1>4, <1>6, BridgeGoes DEF BridgeInv, BridgeCall
    <2>2. Reliable => Tells(policy, installed, choice)'
      BY <1>3, <1>6 DEF Tells
    <2> QED
      BY <1>4, <2>1, <2>2 DEF PolicyFits, Before, Undoing
  <1>11. k.pc \in Replacing
    BY <1>4 DEF Replacing
  <1> QED
    BY <1>3, <1>4, <1>6, <1>7, <1>8, <1>9, <1>10, <1>11, InstallGoes DEF BridgeBudget, BridgeInv, BridgeType

LEMMA BridgePersists ==
    ASSUME MirrorAssumption, BridgeInv, NEW c \in Client, Bridge!Persists(c)
    PROVE  BridgeInv'
  <1> DEFINE pc == IF commands[c].new /\ commands[c].p \notin alive THEN "undo rpy" ELSE "stage"
             k == [commands[c] EXCEPT !.pc = pc]
  <1>1. commands[c].pc = "persist" /\ "persist" \in Before
    BY DEF Bridge!Persists, Before
  <1>2. commands[c] \in Plain /\ locks.policy = c /\ locks.bridge = c /\ InstallFits(commands[c])
        /\ (Reliable => Tells(policy, installed, choice))
    BY <1>1, InstallAt
  <1>3. pc \in {"undo rpy", "stage"} /\ Bridge!Goes(c, k)
        /\ UNCHANGED <<disk, version, serial, alive, choice, installed, policy, locks, bridgeBudget>>
    BY DEF Bridge!Persists, Bridge!db, Bridge!env
  <1> HIDE DEF pc
  <1>4. /\ k \in Plain /\ k.pc = pc /\ k.p = commands[c].p /\ k.new = commands[c].new
        /\ k.stale = commands[c].stale /\ k.backup = commands[c].backup /\ k.row = commands[c].row
        /\ "old" \notin DOMAIN k
    BY <1>2, <1>3 DEF Plain, Before, Undoing
  <1> HIDE DEF k
  <1>5. InstallFits(commands[c])'
    <2>1. commands'[c] = k
      BY <1>3, <1>4, BridgeGoes DEF BridgeInv, BridgeCall
    <2> QED
      BY ZenonT(60), <1>1, <1>2, <1>3, <1>4, <2>1 DEF InstallFits, Registered, Bridge!Orphaned
  <1>6. Reliable => PolicyFits(c)'
    <2>1. commands'[c] = k
      BY <1>3, <1>4, BridgeGoes DEF BridgeInv, BridgeCall
    <2>2. Reliable => Tells(policy, installed, choice)'
      BY <1>2, <1>3 DEF Tells
    <2> QED
      BY <1>3, <1>4, <2>1, <2>2 DEF PolicyFits, Undoing
  <1>7. k.pc \in Replacing
    BY <1>3, <1>4 DEF Replacing, Before
  <1> QED
    BY <1>2, <1>3, <1>4, <1>5, <1>6, <1>7, InstallGoes DEF BridgeBudget, BridgeInv, BridgeType

LEMMA BridgeStages ==
    ASSUME MirrorAssumption, BridgeInv, NEW c \in Client, Bridge!Stages(c)
    PROVE  BridgeInv'
  <1> DEFINE j == commands[c]
             k == [pc |-> "commit", p |-> j.p, new |-> j.new, stale |-> j.stale,
                   backup |-> j.backup, row |-> j.row, old |-> policy]
  <1>1. j.pc = "stage" /\ "stage" \in Before
    BY DEF Bridge!Stages, Before
  <1>2. j \in Plain /\ locks.policy = c /\ locks.bridge = c /\ InstallFits(j)
        /\ (Reliable => Tells(policy, installed, choice))
    BY <1>1, InstallAt
  <1>3. Bridge!Goes(c, k) /\ policy' = Bridge!Snapshot(Bridge!After(c), choice)
        /\ UNCHANGED <<disk, version, serial, alive, choice, installed, locks, bridgeBudget>>
    BY DEF Bridge!Stages, Bridge!db, Bridge!env
  <1>4. policy \in Policies /\ policy' \in Policies
    BY <1>3, SnapshotType DEF BridgeInv, BridgeType
  <1> HIDE DEF j
  <1>5. k \in Staged
    BY <1>2, <1>4 DEF Plain, Staged
  <1>6. /\ k.pc = "commit" /\ k.p = j.p /\ k.new = j.new /\ k.stale = j.stale
        /\ k.backup = j.backup /\ k.row = j.row /\ k.old = policy /\ "old" \in DOMAIN k
    OBVIOUS
  <1> HIDE DEF k
  <1>7. commands'[c] = k
    BY <1>3, <1>5, BridgeGoes DEF BridgeInv, BridgeCall
  <1>8. InstallFits(commands[c])'
    BY <1>1, <1>2, <1>3, <1>6, <1>7 DEF InstallFits, Registered, Bridge!Orphaned
  <1>9. Bridge!After(c)' = Bridge!After(c)
    BY <1>3, <1>6, <1>7 DEF Bridge!After, j
  <1>10. Reliable => PolicyFits(c)'
    <2>1. Tells(policy, Bridge!After(c), choice)'
      BY <1>3, <1>9 DEF Tells
    <2>2. Reliable => Tells(commands[c].old, installed, choice)'
      BY <1>2, <1>3, <1>6, <1>7 DEF Tells
    <2> QED
      BY <1>6, <1>7, <2>1, <2>2 DEF PolicyFits, Undoing
  <1>11. k.pc \in Replacing
    BY <1>6 DEF Replacing
  <1> QED
    BY <1>2, <1>3, <1>4, <1>5, <1>8, <1>10, <1>11, InstallGoes DEF BridgeBudget, BridgeInv, BridgeType

LEMMA BridgeCommits ==
    ASSUME MirrorAssumption, BridgeInv, NEW c \in Client, Bridge!Commits(c)
    PROVE  BridgeInv'
  <1> DEFINE j == commands[c]
             k == [j EXCEPT !.pc = "compiled"]
  <1>1. j.pc = "commit" /\ j \in BridgeCall /\ Bridge!Goes(c, k) /\ installed' = Bridge!After(c)
        /\ UNCHANGED <<disk, version, serial, alive, choice, policy, locks, bridgeBudget>>
    BY DEF Bridge!Commits, Bridge!env, BridgeInv, BridgeType
  <1>2. j \in Staged
    BY <1>1 DEF BridgeCall, Plain, Staged, Removal, Saving, Before, Undoing
  <1>3. locks.policy = c /\ locks.bridge = c /\ InstallFits(j)
        /\ (Reliable => Tells(policy, Bridge!After(c), choice))
    BY <1>1 DEF BridgeInv, BridgeFits, PolicyFits, Holds, Replacing
  <1> HIDE DEF j
  <1>4. /\ k \in Staged /\ k.pc = "compiled" /\ k.p = j.p /\ k.new = j.new
        /\ k.stale = j.stale /\ k.backup = j.backup /\ k.row = j.row
    BY <1>2 DEF Staged
  <1> HIDE DEF k
  <1>5. k \in BridgeCall
    BY <1>4 DEF BridgeCall
  <1>6. commands' \in [Client -> BridgeCall] /\ commands'[c] = k
    BY <1>1, <1>5, BridgeGoes DEF BridgeInv
  <1>7. j.p \in Project /\ j.row \in Recorded /\ j.row # None
        /\ installed \in [Project -> Recorded \cup {None}]
    BY <1>2, BridgeNone DEF Staged, BridgeInv, BridgeType
  <1>8. installed' = IF j.new \/ installed[j.p] # None THEN [installed EXCEPT ![j.p] = j.row]
                     ELSE installed
    BY <1>1 DEF Bridge!After, j
  <1>9. installed' \in [Project -> Recorded \cup {None}]
        /\ (~Bridge!Orphaned => installed'[j.p] = j.row)
    BY <1>3, <1>7, <1>8 DEF InstallFits
  <1>10. BridgeType'
    BY <1>1, <1>6, <1>9 DEF BridgeInv, BridgeType
  <1>11. Clean'
    BY <1>1, <1>3, <1>7, <1>9 DEF Clean, Registered, InstallFits, Targets, Bridge!Orphaned
  <1>12. InstallFits(commands[c])'
    BY <1>1, <1>3, <1>4, <1>6, <1>7, <1>9 DEF InstallFits, Bridge!Orphaned
  <1>13. Reliable' => PolicyFits(c)'
    BY <1>1, <1>3, <1>4, <1>6 DEF PolicyFits, Reliable, Tells, Undoing
  <1>14. BridgeFits(c)'
    BY <1>1, <1>3, <1>4, <1>6, <1>11, <1>12, <1>13 DEF BridgeFits
  <1> QED
    BY <1>1, <1>3, <1>4, <1>5, <1>10, <1>14, BridgeSteps

LEMMA BridgeDropsCompiled ==
    ASSUME MirrorAssumption, BridgeInv, NEW c \in Client, Bridge!DropsCompiled(c)
    PROVE  BridgeInv'
  <1>1. commands[c].pc = "compiled" /\ Bridge!Ends(c)
        /\ UNCHANGED <<version, serial, alive, choice, installed, policy, bridgeBudget>>
    BY DEF Bridge!DropsCompiled, Bridge!db, Bridge!env
  <1>2. disk' \in {disk, [disk EXCEPT !["rpyc"] = None]} /\ disk \in Bridge!Manifest
    BY DEF Bridge!DropsCompiled, BridgeInv, BridgeType
  <1>3. disk' \in Bridge!Manifest /\ \A f \in Targets : disk'[f] = disk[f]
    BY <1>2 DEF Bridge!Manifest, Targets, Bridge!File
  <1>4. Clean /\ (Reliable => Tells(policy, installed, choice))
    BY <1>1 DEF BridgeInv, BridgeFits, PolicyFits, Replacing, Before, Undoing
  <1>5. Clean'
    BY <1>1, <1>3, <1>4 DEF Clean, Registered, Bridge!Orphaned
  <1>6. Told'
    BY <1>1, <1>4 DEF Told, Reliable, Tells
  <1> QED
    BY <1>1, <1>3, <1>5, <1>6, BridgeEnds DEF BridgeInv, BridgeType, BridgeBudget

LEMMA BridgeFails ==
    ASSUME MirrorAssumption, BridgeInv, NEW c \in Client, Bridge!Fails(c)
    PROVE  BridgeInv'
  <1> DEFINE j == commands[c]
             k == [j EXCEPT !.pc = "undo rpy"]
  <1>1. j.pc \in Before \cup {"commit"} /\ j \in BridgeCall /\ Bridge!Goes(c, k) /\ BridgeBudget
        /\ UNCHANGED <<disk, version, serial, alive, choice, installed, policy, locks>>
    BY BridgeUses DEF Bridge!Fails, Bridge!db, Bridge!env, BridgeInv, BridgeType, Before
  <1>2. locks.policy = c /\ locks.bridge = c /\ InstallFits(j) /\ (Reliable => PolicyFits(c))
    BY <1>1 DEF BridgeInv, BridgeFits, Holds, Replacing, Before
  <1>3. \/ j \in Plain /\ (Reliable => Tells(policy, installed, choice))
        \/ j \in Staged /\ (Reliable => Tells(j.old, installed, choice))
    <2>1. CASE j.pc \in Before
      BY <2>1, InstallAt
    <2>2. CASE j.pc = "commit"
      <3>1. j \in Staged
        BY <1>1, <2>2 DEF BridgeCall, Plain, Staged, Removal, Saving, Before, Undoing
      <3>2. "old" \in DOMAIN j
        BY <3>1 DEF Staged
      <3> QED
        BY <1>2, <2>2, <3>1, <3>2 DEF PolicyFits
    <2> QED
      BY <1>1, <2>1, <2>2
  <1> HIDE DEF j
  <1>4. /\ k \in Plain \cup Staged /\ k.pc = "undo rpy" /\ k.p = j.p /\ k.new = j.new
        /\ k.stale = j.stale /\ k.backup = j.backup /\ k.row = j.row
        /\ (IF "old" \in DOMAIN k THEN Reliable => Tells(k.old, installed, choice)
            ELSE Reliable => Tells(policy, installed, choice))
    <2>1. CASE j \in Plain /\ (Reliable => Tells(policy, installed, choice))
      BY <2>1 DEF Plain, Undoing
    <2>2. CASE j \in Staged /\ (Reliable => Tells(j.old, installed, choice))
      BY <2>2 DEF Staged, Undoing
    <2> QED
      BY <1>3, <2>1, <2>2
  <1> HIDE DEF k
  <1>5. commands'[c] = k
    BY <1>1, <1>4, BridgeGoes DEF BridgeInv, BridgeCall
  <1>6. InstallFits(commands[c])'
    <2>1. ~Bridge!Orphaned => Registered(j.backup) /\ (~j.new => installed[j.p] # None)
      BY <1>1, <1>2 DEF InstallFits, Before
    <2>2. (~Bridge!Orphaned)' => ~Bridge!Orphaned
      BY <1>1 DEF Bridge!Orphaned, BridgeBudget
    <2>3. (~Bridge!Orphaned)' => Registered(commands[c].backup)'
      BY <1>1, <1>4, <1>5, <2>1, <2>2 DEF Registered
    <2>4. \A f \in Targets : disk'[f] # Bridge!Theirs /\ k.backup[f] # Bridge!Theirs
      BY <1>1, <1>2, <1>4 DEF InstallFits
    <2>5. k.stale => disk'["rpyc"] # Bridge!Theirs
      BY <1>1, <1>2, <1>4 DEF InstallFits
    <2> QED
      BY <1>1, <1>4, <1>5, <2>1, <2>2, <2>3, <2>4, <2>5 DEF InstallFits
  <1>7. Reliable => PolicyFits(c)'
    <2>1. CASE "old" \in DOMAIN k
      <3>1. Reliable => Tells(commands[c].old, installed, choice)'
        BY <1>1, <1>4, <1>5, <2>1 DEF Tells
      <3> QED
        BY <1>4, <1>5, <2>1, <3>1 DEF PolicyFits, Undoing
    <2>2. CASE "old" \notin DOMAIN k
      <3>1. Reliable => Tells(policy, installed, choice)'
        BY <1>1, <1>4, <2>2 DEF Tells
      <3> QED
        BY <1>4, <1>5, <2>2, <3>1 DEF PolicyFits, Undoing
    <2> QED
      BY <2>1, <2>2
  <1>8. k.pc \in Replacing
    BY <1>4 DEF Replacing
  <1> QED
    BY <1>1, <1>2, <1>4, <1>6, <1>7, <1>8, InstallGoes DEF BridgeInv, BridgeType

LEMMA BridgeUndoes ==
    ASSUME MirrorAssumption, BridgeInv, NEW c \in Client, Bridge!Undoes(c)
    PROVE  BridgeInv'
  <1> DEFINE j == commands[c]
  <1>1. PICK f \in Targets, next \in {"undo json", "undo policy"} :
           /\ j.pc = IF f = "rpy" THEN "undo rpy" ELSE "undo json"
           /\ next = IF f = "rpy" THEN "undo json" ELSE "undo policy"
           /\ disk' \in {disk, [disk EXCEPT ![f] = j.backup[f]]}
           /\ ~Bridge!Orphaned => disk' = [disk EXCEPT ![f] = j.backup[f]]
           /\ Bridge!Goes(c, [j EXCEPT !.pc = next])
    BY DEF Bridge!Undoes, Targets, Bridge!Orphaned
  <1> DEFINE k == [j EXCEPT !.pc = next]
  <1>2. j \in BridgeCall /\ disk \in Bridge!Manifest
        /\ UNCHANGED <<version, serial, alive, choice, installed, policy, locks, bridgeBudget>>
    BY DEF Bridge!Undoes, Bridge!db, Bridge!env, BridgeInv, BridgeType
  <1>3. locks.policy = c /\ locks.bridge = c /\ InstallFits(j) /\ (Reliable => PolicyFits(c))
    BY <1>1 DEF BridgeInv, BridgeFits, Holds, Replacing
  <1>4. j \in Plain \cup Staged
    BY <1>1, <1>2 DEF BridgeCall, Plain, Staged, Removal, Saving
  <1>5. Reliable => IF "old" \in DOMAIN j THEN Tells(j.old, installed, choice)
                    ELSE Tells(policy, installed, choice)
    BY <1>1, <1>3 DEF PolicyFits, Undoing
  <1> HIDE DEF j
  <1>6. /\ k \in Plain \cup Staged /\ k.pc = next /\ k.p = j.p /\ k.new = j.new
        /\ k.stale = j.stale /\ k.backup = j.backup /\ k.row = j.row
        /\ ("old" \in DOMAIN k <=> "old" \in DOMAIN j)
        /\ ("old" \in DOMAIN k => k.old = j.old)
    <2>1. CASE j \in Plain
      BY <2>1 DEF Plain, Undoing
    <2>2. CASE j \in Staged
      BY <2>2 DEF Staged, Undoing
    <2> QED
      BY <1>4, <2>1, <2>2
  <1>7. Bridge!Goes(c, k)
    BY <1>1
  <1> HIDE DEF k
  <1>8. k \in BridgeCall
    BY <1>6 DEF BridgeCall
  <1>9. commands' \in [Client -> BridgeCall] /\ commands'[c] = k
    BY <1>7, <1>8, BridgeGoes DEF BridgeInv
  <1>10. j.backup \in Bridge!Manifest /\ \A g \in Targets : j.backup[g] # Bridge!Theirs
    BY <1>3, <1>4 DEF Plain, Staged, InstallFits
  <1>11. /\ disk' \in Bridge!Manifest /\ disk'["rpyc"] = disk["rpyc"]
         /\ \A g \in Targets : disk'[g] # Bridge!Theirs
         /\ ~Bridge!Orphaned => disk'[f] = j.backup[f]
         /\ \A g \in Targets \ {f} : disk'[g] = disk[g]
    BY <1>1, <1>2, <1>3, <1>10 DEF InstallFits, Bridge!Manifest, Bridge!File, Targets
  <1>12. (~Bridge!Orphaned)' <=> ~Bridge!Orphaned
    BY <1>2 DEF Bridge!Orphaned
  <1>13. ~Bridge!Orphaned => Registered(j.backup) /\ (~j.new => installed[j.p] # None)
    BY <1>1, <1>3 DEF InstallFits
  <1>14. BridgeType'
    BY <1>2, <1>9, <1>11 DEF BridgeInv, BridgeType
  <1>15. Reliable => PolicyFits(c)'
    <2>1. CASE "old" \in DOMAIN k
      <3>1. Reliable => Tells(commands[c].old, installed, choice)'
        BY <1>2, <1>5, <1>6, <1>9, <2>1 DEF Tells
      <3> QED
        BY <1>1, <1>6, <1>9, <2>1, <3>1 DEF PolicyFits, Undoing
    <2>2. CASE "old" \notin DOMAIN k
      <3>1. Reliable => Tells(policy, installed, choice)'
        BY <1>2, <1>5, <1>6, <2>2 DEF Tells
      <3> QED
        BY <1>1, <1>6, <1>9, <2>2, <3>1 DEF PolicyFits, Undoing
    <2> QED
      BY <2>1, <2>2
  <1>16. CASE f = "rpy"
    <2>1. k.pc = "undo json" /\ k.pc \in Replacing
      BY <1>1, <1>6, <1>16 DEF Replacing
    <2>2. (~Bridge!Orphaned)' => Registered(commands[c].backup)'
      BY <1>2, <1>6, <1>9, <1>12, <1>13 DEF Registered
    <2>3. InstallFits(commands[c])'
      BY <1>2, <1>3, <1>6, <1>9, <1>10, <1>11, <1>12, <1>13, <1>16, <2>1, <2>2 DEF InstallFits
    <2> QED
      BY <1>2, <1>3, <1>6, <1>7, <1>11, <1>15, <2>1, <2>3, InstallGoes DEF BridgeBudget, BridgeInv, BridgeType
  <1>17. CASE f = "json"
    <2>1. k.pc = "undo policy"
      BY <1>1, <1>6, <1>17
    <2>2. ~Bridge!Orphaned => \A g \in Targets : disk'[g] = j.backup[g]
      BY <1>1, <1>3, <1>11, <1>17 DEF InstallFits, Targets
    <2>3. Clean'
      BY <1>2, <1>12, <1>13, <2>2 DEF Clean, Registered
    <2>4. BridgeFits(c)'
      BY <1>2, <1>3, <1>9, <1>15, <2>1, <2>3 DEF BridgeFits, Reliable, Replacing, Before, Holds
    <2> QED
      BY <1>2, <1>3, <1>7, <1>8, <1>14, <2>1, <2>4, BridgeSteps
  <1> QED
    BY <1>16, <1>17 DEF Targets

LEMMA BridgeUnstages ==
    ASSUME MirrorAssumption, BridgeInv, NEW c \in Client, Bridge!Unstages(c)
    PROVE  BridgeInv'
  <1> DEFINE j == commands[c]
  <1>1. j.pc = "undo policy" /\ j \in BridgeCall /\ Bridge!Ends(c) /\ policy \in Policies
        /\ UNCHANGED <<disk, version, serial, alive, choice, installed, bridgeBudget>>
    BY DEF Bridge!Unstages, Bridge!db, Bridge!env, BridgeInv, BridgeType
  <1>2. policy' \in {IF "old" \in DOMAIN j THEN j.old ELSE policy}
                    \cup IF "writeFails" \in bridgeBudget.ops THEN {policy} ELSE {}
    BY DEF Bridge!Unstages
  <1>3. Clean /\ (Reliable => IF "old" \in DOMAIN j THEN Tells(j.old, installed, choice)
                            ELSE Tells(policy, installed, choice))
    BY <1>1 DEF BridgeInv, BridgeFits, PolicyFits, Replacing, Before, Undoing
  <1>4. "old" \in DOMAIN j => j.old \in Policies
    BY <1>1 DEF BridgeCall, Plain, Staged, Removal, Saving, Before, Undoing
  <1> HIDE DEF j
  <1>5. policy' \in Policies /\ (Reliable => Tells(policy', installed, choice))
    BY <1>1, <1>2, <1>3, <1>4 DEF Reliable
  <1>6. Clean' /\ Told'
    BY <1>1, <1>3, <1>5 DEF Clean, Told, Registered, Tells, Reliable, Bridge!Orphaned
  <1> QED
    BY <1>1, <1>5, <1>6, BridgeEnds DEF BridgeInv, BridgeType, BridgeBudget, j

\* Recording an artifact changes nothing else.
LEMMA RecordedAs ==
    ASSUME BridgeType, NEW r \in Recorded
    PROVE  /\ Bridge!Recorded(r) \in Recorded
           /\ \A f \in Targets : Bridge!Recorded(r)[f] = r[f]
  <1>1. r \in Bridge!Manifest /\ disk["rpyc"] \in Hashes
    BY DEF Recorded, BridgeType, Bridge!Manifest, Bridge!File, Hashes
  <1>2. [r EXCEPT !["rpyc"] = disk["rpyc"]] \in Bridge!Manifest
    BY <1>1 DEF Bridge!Manifest, Hashes
  <1>3. /\ Bridge!Recorded(r) \in Bridge!Manifest /\ \A f \in Targets : Bridge!Recorded(r)[f] = r[f]
        /\ Bridge!Recorded(r)["rpyc"] # Bridge!Theirs
    BY <1>1, <1>2 DEF Bridge!Recorded, Recorded, Targets, Bridge!Manifest, Bridge!File, Bridge!Ours
  <1> QED
    BY <1>3 DEF Recorded, Targets

\* Where a command stands that has the bridge and does not replace files.
LEMMA BridgeAt ==
    ASSUME BridgeInv, NEW c \in Client, commands[c].pc \in {"check", "record", "remove"}
    PROVE  /\ locks.policy = c /\ locks.bridge = c /\ Clean /\ Told /\ commands[c] \in BridgeCall
           /\ commands[c].p \in Project
           /\ commands[c].pc = "remove" => commands[c] \in Removal /\ RemoveFits(commands[c])
  <1>1. commands[c] \in BridgeCall
    BY DEF BridgeInv, BridgeType
  <1>2. /\ commands[c].p \in Project
        /\ commands[c].pc = "remove" => commands[c] \in Removal
    BY <1>1 DEF BridgeCall, Plain, Staged, Removal, Saving, Before, Undoing
  <1> QED
    BY <1>1, <1>2 DEF BridgeInv, BridgeFits, PolicyFits, Told, Replacing, Before, Undoing, Holds

LEMMA BridgeRecords ==
    ASSUME MirrorAssumption, BridgeInv, NEW c \in Client, Bridge!Records(c)
    PROVE  BridgeInv'
  <1> DEFINE p == commands[c].p
             r == Bridge!Recorded(installed[p])
             k == [pc |-> "remove", p |-> p, row |-> r, todo |-> Bridge!File, kept |-> {}]
  <1>1. commands[c].pc = "record"
        /\ UNCHANGED <<disk, version, serial, alive, choice, policy, bridgeBudget>>
    BY DEF Bridge!Records, Bridge!env
  <1>2. p \in Project /\ locks.policy = c /\ locks.bridge = c /\ Clean /\ Told
        /\ installed \in [Project -> Recorded \cup {None}]
    BY <1>1, BridgeAt DEF BridgeInv, BridgeType
  <1>3. CASE installed[p] = None
    <2>1. Bridge!Ends(c) /\ installed' = installed
      BY <1>3 DEF Bridge!Records
    <2>2. Clean' /\ Told'
      BY <1>1, <1>2, <2>1 DEF Clean, Told, Registered, Tells, Reliable, Bridge!Orphaned
    <2> QED
      BY <1>1, <2>1, <2>2, BridgeEnds DEF BridgeInv, BridgeType, BridgeBudget
  <1>4. CASE installed[p] # None
    <2>1. /\ installed' = [installed EXCEPT ![p] = r] /\ Bridge!Goes(c, k) /\ locks' = locks
      BY <1>4 DEF Bridge!Records
    <2>2. r \in Recorded /\ r # None /\ \A f \in Targets : r[f] = installed[p][f]
      BY <1>2, <1>4, RecordedAs, BridgeNone DEF BridgeInv
    <2> HIDE DEF r, p
    <2>3. k \in Removal /\ k \in BridgeCall
      BY <1>2, <2>2 DEF Removal, BridgeCall
    <2>4. commands' \in [Client -> BridgeCall] /\ commands'[c] = k
      BY <2>1, <2>3, BridgeGoes DEF BridgeInv
    <2>5. installed' \in [Project -> Recorded \cup {None}]
          /\ \A q \in Project : /\ installed'[q] = None <=> installed[q] = None
                               /\ \A f \in Targets : installed[q] # None =>
                                                       installed'[q][f] = installed[q][f]
      BY <1>2, <1>4, <2>1, <2>2
    <2>6. BridgeType'
      BY <1>1, <2>1, <2>4, <2>5 DEF BridgeInv, BridgeType
    <2>7. Clean'
      BY <1>1, <1>2, <2>5 DEF Clean, Registered, Bridge!Orphaned
    <2>8. Told'
      BY <1>1, <1>2, <2>5, SameSnapshot DEF Told, Reliable, Tells
    <2>9. Reliable' => PolicyFits(c)'
      BY <2>4, <2>8 DEF PolicyFits, Told, Undoing
    <2>10. RemoveFits(commands[c])'
      BY <2>4 DEF RemoveFits, Targets, Bridge!File
    <2>11. BridgeFits(c)'
      BY <1>2, <2>1, <2>4, <2>7, <2>9, <2>10 DEF BridgeFits, Replacing, Before, Holds
    <2> QED
      BY <1>2, <2>1, <2>3, <2>6, <2>11, BridgeSteps
  <1> QED
    BY <1>3, <1>4

LEMMA BridgeRemoves ==
    ASSUME MirrorAssumption, BridgeInv, NEW c \in Client, NEW f \in Bridge!File,
           Bridge!Removes(c, f)
    PROVE  BridgeInv'
  <1> DEFINE j == commands[c]
             ours == j.row[f] # None /\ disk[f] = j.row[f]
             kept == IF ours \/ disk[f] = None THEN j.kept ELSE j.kept \cup {f}
             k == [j EXCEPT !.todo = j.todo \ {f}, !.kept = kept]
  <1>1. /\ j.pc = "remove" /\ f \in j.todo
        /\ f = "json" => "rpy" \notin j.todo
        /\ f = "rpyc" => j.todo = {"rpyc"}
        /\ disk' = IF ours THEN [disk EXCEPT ![f] = None] ELSE disk
        /\ UNCHANGED <<version, serial, alive, choice, installed, policy, locks, bridgeBudget>>
    BY DEF Bridge!Removes, Bridge!db, Bridge!env
  <1>2. locks.policy = c /\ locks.bridge = c /\ Clean /\ Told /\ j \in Removal /\ RemoveFits(j)
        /\ disk \in Bridge!Manifest
    BY <1>1, BridgeAt DEF BridgeInv, BridgeType
  <1>3. Bridge!Goes(c, k)
    BY DEF Bridge!Removes
  <1> HIDE DEF j
  <1>4. /\ k \in Removal /\ k.pc = "remove" /\ k.todo = j.todo \ {f} /\ k.kept = kept
    BY <1>1, <1>2 DEF Removal
  <1>5. k \in BridgeCall
    BY <1>4 DEF BridgeCall
  <1> HIDE DEF k
  <1>6. commands' \in [Client -> BridgeCall] /\ commands'[c] = k
    BY <1>3, <1>5, BridgeGoes DEF BridgeInv
  <1>7. /\ disk' \in Bridge!Manifest
        /\ \A g \in Bridge!File : disk'[g] \in {disk[g], None}
        /\ disk'[f] = None \/ f \in kept
    BY <1>1, <1>2 DEF Bridge!Manifest
  <1>8. BridgeType'
    BY <1>1, <1>6, <1>7 DEF BridgeInv, BridgeType
  <1>9. Clean'
    BY <1>1, <1>2, <1>7 DEF Clean, Registered, Targets, Bridge!File, Bridge!Ours, Bridge!Orphaned
  <1>10. Reliable' => PolicyFits(c)'
    BY <1>1, <1>2, <1>4, <1>6 DEF PolicyFits, Told, Reliable, Tells, Undoing
  <1>11. RemoveFits(commands[c])'
    <2>1. \A g \in Targets \ k.todo : disk'[g] = None \/ g \in k.kept
      BY <1>2, <1>4, <1>7 DEF RemoveFits, Targets, Bridge!File
    <2>2. ASSUME "rpyc" \notin k.todo
          PROVE  k.todo = {} /\ (disk'["rpyc"] = None \/ k.kept # {})
      <3>1. "rpyc" \in j.todo => f = "rpyc"
        BY <1>4, <2>2
      <3>2. CASE f = "rpyc"
        BY <1>1, <1>4, <1>7, <3>2
      <3>3. CASE "rpyc" \notin j.todo
        BY <1>1, <1>2, <3>3 DEF RemoveFits
      <3> QED
        BY <3>1, <3>2, <3>3
    <2> QED
      BY <1>6, <2>1, <2>2 DEF RemoveFits
  <1>12. BridgeFits(c)'
    BY <1>1, <1>2, <1>4, <1>6, <1>9, <1>10, <1>11 DEF BridgeFits, Replacing, Before, Holds
  <1> QED
    BY <1>1, <1>2, <1>3, <1>4, <1>5, <1>8, <1>12, BridgeSteps

LEMMA BridgeStops ==
    ASSUME MirrorAssumption, BridgeInv, NEW c \in Client, Bridge!Stops(c)
    PROVE  BridgeInv'
  <1>1. commands[c].pc = "remove" /\ Bridge!Ends(c) /\ BridgeBudget
        /\ UNCHANGED <<disk, version, serial, alive, choice, installed, policy>>
    BY BridgeUses DEF Bridge!Stops, Bridge!db, Bridge!env, BridgeInv
  <1>2. Clean /\ Told
    BY <1>1, BridgeAt
  <1>3. Clean' /\ Told'
    BY <1>1, <1>2 DEF Clean, Told, Registered, Tells, Reliable, Bridge!Orphaned, BridgeBudget
  <1> QED
    BY <1>1, <1>3, BridgeEnds DEF BridgeInv, BridgeType

\* When nothing was kept, nothing is left.
LEMMA NothingLeft ==
    ASSUME MirrorAssumption, BridgeInv, NEW c \in Client, commands[c].pc = "remove",
           commands[c].todo = {}, commands[c].kept = {}
    PROVE  disk = Bridge!Absent
  <1>1. RemoveFits(commands[c]) /\ disk \in Bridge!Manifest
    BY BridgeAt DEF BridgeInv, BridgeType
  <1>2. \A f \in Bridge!File : disk[f] = None
    BY <1>1 DEF RemoveFits, Targets, Bridge!File
  <1> QED
    BY <1>1, <1>2 DEF Bridge!Manifest, Bridge!Absent

LEMMA BridgeForgets ==
    ASSUME MirrorAssumption, BridgeInv, NEW c \in Client, Bridge!Forgets(c)
    PROVE  BridgeInv'
  <1> DEFINE j == commands[c]
             k == [j EXCEPT !.pc = "publish"]
  <1>1. j.pc = "remove" /\ j.todo = {}
        /\ UNCHANGED <<disk, version, serial, alive, choice, policy, bridgeBudget>>
    BY DEF Bridge!Forgets, Bridge!env
  <1>2. locks.policy = c /\ locks.bridge = c /\ Clean /\ Told /\ j \in Removal
        /\ installed \in [Project -> Recorded \cup {None}]
    BY <1>1, BridgeAt DEF BridgeInv, BridgeType
  <1>3. CASE j.kept # {}
    <2>1. Bridge!Ends(c) /\ installed' = installed
      BY <1>3 DEF Bridge!Forgets
    <2>2. Clean' /\ Told'
      BY <1>1, <1>2, <2>1 DEF Clean, Told, Registered, Tells, Reliable, Bridge!Orphaned
    <2> QED
      BY <1>1, <2>1, <2>2, BridgeEnds DEF BridgeInv, BridgeType, BridgeBudget
  <1>4. CASE j.kept = {}
    <2>1. disk = Bridge!Absent
      BY <1>1, <1>4, NothingLeft
    <2>2. /\ installed' = [installed EXCEPT ![j.p] = None] /\ Bridge!Goes(c, k) /\ locks' = locks
      BY <1>4 DEF Bridge!Forgets
    <2> HIDE DEF j
    <2>3. k \in Removal /\ k \in BridgeCall /\ k.pc = "publish"
      BY <1>2 DEF Removal, BridgeCall
    <2> HIDE DEF k
    <2>4. commands' \in [Client -> BridgeCall] /\ commands'[c] = k
      BY <2>2, <2>3, BridgeGoes DEF BridgeInv
    <2>5. installed' \in [Project -> Recorded \cup {None}]
      BY <1>2, <2>2
    <2>6. BridgeType'
      BY <1>1, <2>2, <2>4, <2>5 DEF BridgeInv, BridgeType
    <2>7. Clean'
      BY <1>1, <2>1 DEF Clean, Registered, Bridge!Absent, Bridge!Ours, Targets, Bridge!File
    <2>8. BridgeFits(c)'
      BY <1>2, <2>2, <2>3, <2>4, <2>7 DEF BridgeFits, PolicyFits, Replacing, Before, Undoing, Holds
    <2> QED
      BY <1>2, <2>2, <2>3, <2>6, <2>8, BridgeSteps
  <1> QED
    BY <1>3, <1>4

LEMMA BridgePublishes ==
    ASSUME MirrorAssumption, BridgeInv, NEW c \in Client, Bridge!Publishes(c)
    PROVE  BridgeInv'
  <1>1. commands[c].pc = "publish" /\ Bridge!Ends(c)
        /\ UNCHANGED <<disk, version, serial, alive, choice, installed, bridgeBudget>>
    BY DEF Bridge!Publishes, Bridge!db, Bridge!env
  <1>2. policy' \in {Bridge!Snapshot(installed, choice)}
                    \cup (IF "writeFails" \in bridgeBudget.ops THEN {policy} ELSE {})
    BY DEF Bridge!Publishes
  <1>3. Clean /\ policy \in Policies
    BY <1>1 DEF BridgeInv, BridgeType, BridgeFits, Replacing, Before
  <1>4. policy' \in Policies
    BY <1>2, <1>3, SnapshotType DEF BridgeInv, BridgeType
  <1>5. Clean'
    BY <1>1, <1>3 DEF Clean, Registered, Bridge!Orphaned
  <1>6. Told'
    BY <1>1, <1>2 DEF Told, Reliable, Tells
  <1> QED
    BY <1>1, <1>4, <1>5, <1>6, BridgeEnds DEF BridgeInv, BridgeType, BridgeBudget

LEMMA BridgeChooses ==
    ASSUME MirrorAssumption, BridgeInv, NEW c \in Client, NEW g \in Project \cup {Everyone},
           NEW b \in BOOLEAN \cup {None}, Bridge!Chooses(c, g, b)
    PROVE  BridgeInv'
  <1> DEFINE k == [pc |-> "save", t |-> g, b |-> b, old |-> policy]
             ch == [choice EXCEPT ![g] = b]
  <1>1. /\ commands[c] = Bridge!Idle /\ locks.policy = None /\ (g = Everyone => b # None)
        /\ locks' = [locks EXCEPT !.policy = c] /\ Bridge!Goes(c, k) /\ BridgeBudget
        /\ policy' = Bridge!Snapshot(installed, ch)
        /\ UNCHANGED <<disk, version, serial, alive, choice, installed>>
    BY BridgeUses DEF Bridge!Chooses, Bridge!db, Bridge!env, BridgeInv
  <1>2. /\ policy \in Policies /\ choice \in [Project \cup {Everyone} -> BOOLEAN \cup {None}]
        /\ choice[Everyone] \in BOOLEAN /\ Clean /\ Told
        /\ locks \in [bridge : Client \cup {None}, policy : Client \cup {None}]
        /\ locks.bridge = None
    BY <1>1 DEF BridgeInv, BridgeType
  <1>3. ch \in [Project \cup {Everyone} -> BOOLEAN \cup {None}] /\ ch[Everyone] \in BOOLEAN
    BY <1>1, <1>2
  <1>4. policy' \in Policies
    BY <1>1, <1>3, SnapshotType
  <1>5. k \in BridgeCall /\ k.pc = "save" /\ "old" \in DOMAIN k
    BY <1>2 DEF BridgeCall, Saving
  <1>6. commands' \in [Client -> BridgeCall] /\ commands'[c] = k
    BY <1>1, <1>5, BridgeGoes DEF BridgeInv
  <1>7. locks' \in [bridge : Client \cup {None}, policy : Client \cup {None}]
        /\ locks'.policy = c /\ locks'.bridge = None
    BY <1>1, <1>2
  <1>8. BridgeType'
    BY <1>1, <1>4, <1>6, <1>7 DEF BridgeInv, BridgeType, BridgeBudget
  <1>9. Clean'
    BY <1>1, <1>2 DEF Clean, Registered, Bridge!Orphaned, BridgeBudget
  <1>10. Reliable' => PolicyFits(c)'
    <2>1. Reliable' => Tells(commands[c].old, installed, choice)'
      BY <1>1, <1>2, <1>6 DEF Told, Reliable, Tells, BridgeBudget
    <2>2. Tells(policy, installed, [choice EXCEPT ![commands[c].t] = commands[c].b])'
      BY <1>1, <1>6 DEF Tells
    <2> QED
      BY <1>5, <1>6, <2>1, <2>2 DEF PolicyFits, Undoing
  <1>11. BridgeFits(c)'
    BY <1>1, <1>6, <1>7, <1>9, <1>10 DEF BridgeFits, Replacing, Before, Holds
  <1> QED
    BY <1>1, <1>5, <1>7, <1>8, <1>11, BridgeSteps

\* Where a change of the setting stands.
LEMMA SavingAt ==
    ASSUME BridgeInv, NEW c \in Client, commands[c].pc = "save"
    PROVE  /\ commands[c] \in Saving /\ locks.policy = c /\ locks.bridge = None /\ Clean
           /\ commands[c].t = Everyone => commands[c].b # None
           /\ Reliable => /\ Tells(policy, installed,
                                   [choice EXCEPT ![commands[c].t] = commands[c].b])
                           /\ Tells(commands[c].old, installed, choice)
  <1>1. commands[c] \in Saving
    BY DEF BridgeInv, BridgeType, BridgeCall, Plain, Staged, Removal, Saving, Before, Undoing
  <1>2. "old" \in DOMAIN commands[c]
    BY <1>1 DEF Saving
  <1> QED
    BY <1>1, <1>2 DEF BridgeInv, BridgeFits, PolicyFits, Replacing, Before

LEMMA BridgeSaves ==
    ASSUME MirrorAssumption, BridgeInv, NEW c \in Client, Bridge!Saves(c)
    PROVE  BridgeInv'
  <1>1. /\ commands[c].pc = "save" /\ choice' = [choice EXCEPT ![commands[c].t] = commands[c].b]
        /\ Bridge!Ends(c) /\ UNCHANGED <<disk, version, serial, alive, installed, policy, bridgeBudget>>
    BY DEF Bridge!Saves, Bridge!env
  <1>2. /\ choice' \in [Project \cup {Everyone} -> BOOLEAN \cup {None}]
        /\ choice'[Everyone] \in BOOLEAN
    BY <1>1, SavingAt DEF BridgeInv, BridgeType, Saving
  <1>3. Clean' /\ Told'
    BY <1>1, SavingAt DEF Clean, Told, Registered, Tells, Reliable, Bridge!Orphaned
  <1> QED
    BY <1>1, <1>2, <1>3, BridgeEnds DEF BridgeInv, BridgeType, BridgeBudget

LEMMA BridgeUnsaves ==
    ASSUME MirrorAssumption, BridgeInv, NEW c \in Client, Bridge!Unsaves(c)
    PROVE  BridgeInv'
  <1> DEFINE j == commands[c]
             k == [j EXCEPT !.pc = "undo policy"]
  <1>1. /\ j.pc = "save" /\ Bridge!Goes(c, k) /\ BridgeBudget
        /\ UNCHANGED <<disk, version, serial, alive, choice, installed, policy, locks>>
    BY BridgeUses DEF Bridge!Unsaves, Bridge!db, Bridge!env, BridgeInv
  <1>2. j \in Saving /\ locks.policy = c /\ Clean /\ (Reliable => Tells(j.old, installed, choice))
    BY <1>1, SavingAt
  <1> HIDE DEF j
  <1>3. k \in Saving /\ k.pc = "undo policy" /\ k.old = j.old /\ "old" \in DOMAIN k
    BY <1>2 DEF Saving
  <1> HIDE DEF k
  <1>4. k \in BridgeCall
    BY <1>3 DEF BridgeCall
  <1>5. commands' \in [Client -> BridgeCall] /\ commands'[c] = k
    BY <1>1, <1>4, BridgeGoes DEF BridgeInv
  <1>6. BridgeType'
    BY <1>1, <1>5 DEF BridgeInv, BridgeType, BridgeBudget
  <1>7. Clean'
    BY <1>1, <1>2 DEF Clean, Registered, Bridge!Orphaned, BridgeBudget
  <1>8. Reliable' => PolicyFits(c)'
    <2>1. Reliable' => Tells(commands[c].old, installed, choice)'
      BY <1>1, <1>2, <1>3, <1>5 DEF Tells, Reliable, BridgeBudget
    <2> QED
      BY <1>3, <1>5, <2>1 DEF PolicyFits, Undoing
  <1>9. BridgeFits(c)'
    BY <1>1, <1>2, <1>3, <1>5, <1>7, <1>8 DEF BridgeFits, Replacing, Before, Holds
  <1> QED
    BY <1>1, <1>2, <1>3, <1>4, <1>6, <1>9, BridgeSteps

\* While nobody has the bridge, what the program has there is registered.
LEMMA BridgeFree ==
    ASSUME BridgeInv, locks.bridge = None, None \notin Client
    PROVE  Clean /\ \A c \in Client : commands[c].pc \in {"idle", "save", "undo policy"}
  <1>1. \A c \in Client : commands[c].pc \in {"idle", "save", "undo policy"}
    <2> SUFFICES ASSUME NEW c \in Client, commands[c].pc \notin {"idle", "save", "undo policy"}
                 PROVE  FALSE
      OBVIOUS
    <2>1. commands[c] \in BridgeCall
      BY DEF BridgeInv, BridgeType
    <2>2. commands[c].pc \in Holds
      BY <2>1 DEF BridgeCall, Plain, Staged, Removal, Saving, Holds, Replacing, Before, Undoing
    <2> QED
      BY <2>2 DEF BridgeInv, BridgeFits
  <1>2. CASE locks.policy = None
    BY <1>1, <1>2 DEF BridgeInv
  <1>3. CASE locks.policy # None
    <2>1. PICK c \in Client : locks.policy = c
      BY <1>3 DEF BridgeInv, BridgeType
    <2> QED
      BY <1>1, <2>1 DEF BridgeInv, BridgeFits, Replacing, Before
  <1> QED
    BY <1>1, <1>2, <1>3

\* While nobody has the bridge, others may change what leaves it registered and its
\* policy as it is.
LEMMA BridgeOthers ==
    ASSUME MirrorAssumption, BridgeInv, locks.bridge = None, BridgeType', BridgeBudget,
           UNCHANGED <<commands, locks, policy, alive, choice>>, Clean',
           \A q \in Project : installed'[q] = None <=> installed[q] = None
    PROVE  BridgeInv'
  <1>1. \A c \in Client : commands[c].pc \in {"idle", "save", "undo policy"}
    BY BridgeFree, BridgeNone
  <1>2. \A ch : Bridge!Snapshot(installed', ch) = Bridge!Snapshot(installed, ch)
    BY SameSnapshot
  <1>3. Reliable' => Reliable
    BY DEF Reliable, BridgeBudget
  <1>4. ASSUME NEW c \in Client PROVE BridgeFits(c)'
    <2>1. BridgeFits(c) /\ commands[c].pc \in {"idle", "save", "undo policy"}
      BY <1>1 DEF BridgeInv
    <2>2. Reliable' => PolicyFits(c)'
      <3> SUFFICES ASSUME Reliable' PROVE PolicyFits(c)'
        OBVIOUS
      <3>1. PolicyFits(c)
        BY <1>3, <2>1 DEF BridgeFits
      <3>2. CASE commands[c].pc = "idle"
        BY <3>2 DEF PolicyFits, Undoing
      <3>3. CASE commands[c].pc = "save"
        <4> DEFINE ch == [choice EXCEPT ![commands[c].t] = commands[c].b]
        <4>1. Tells(policy, installed, ch)
          BY <3>1, <3>3 DEF PolicyFits
        <4>2. Tells(policy, installed, ch)'
          BY <1>2, <4>1 DEF Tells
        <4>3. (IF "old" \in DOMAIN commands[c] THEN Tells(commands[c].old, installed, choice)
               ELSE Tells(policy, installed, choice))'
          BY <1>2, <3>1, <3>3 DEF PolicyFits, Tells
        <4> QED
          BY <3>3, <4>2, <4>3 DEF PolicyFits, Undoing
      <3>4. CASE commands[c].pc = "undo policy"
        <4>1. IF "old" \in DOMAIN commands[c] THEN Tells(commands[c].old, installed, choice)
              ELSE Tells(policy, installed, choice)
          BY <3>1, <3>4 DEF PolicyFits, Undoing
        <4>2. (IF "old" \in DOMAIN commands[c] THEN Tells(commands[c].old, installed, choice)
               ELSE Tells(policy, installed, choice))'
          BY <1>2, <4>1 DEF Tells
        <4> QED
          BY <3>4, <4>2 DEF PolicyFits, Undoing
      <3> QED
        BY <2>1, <3>2, <3>3, <3>4
    <2> QED
      BY <2>1, <2>2 DEF BridgeFits, Holds, Replacing, Before, Undoing
  <1>5. Told => Told'
    BY <1>2, <1>3 DEF Told, Tells
  <1> QED
    BY <1>4, <1>5 DEF BridgeInv

LEMMA BridgeInspects ==
    ASSUME MirrorAssumption, BridgeInv, NEW p \in Project, Bridge!Inspects(p)
    PROVE  BridgeInv'
  <1> DEFINE r == Bridge!Recorded(installed[p])
  <1>1. /\ locks.bridge = None /\ installed[p] # None /\ installed' = [installed EXCEPT ![p] = r]
        /\ UNCHANGED <<disk, version, serial, policy, alive, choice, commands, locks, bridgeBudget>>
    BY DEF Bridge!Inspects, Bridge!env
  <1>2. installed \in [Project -> Recorded \cup {None}]
    BY DEF BridgeInv, BridgeType
  <1>3. r \in Recorded /\ r # None /\ \A f \in Targets : r[f] = installed[p][f]
    BY <1>1, <1>2, RecordedAs, BridgeNone DEF BridgeInv
  <1> HIDE DEF r
  <1>4. installed' \in [Project -> Recorded \cup {None}]
        /\ \A q \in Project : /\ installed'[q] = None <=> installed[q] = None
                              /\ \A f \in Targets : installed[q] # None =>
                                                     installed'[q][f] = installed[q][f]
    BY <1>1, <1>2, <1>3
  <1>5. BridgeType'
    BY <1>1, <1>4 DEF BridgeInv, BridgeType
  <1>6. Clean'
    <2>1. Clean
      BY <1>1, BridgeFree, BridgeNone
    <2> QED
      BY <1>1, <1>4, <2>1 DEF Clean, Registered, Bridge!Orphaned
  <1> QED
    BY <1>1, <1>4, <1>5, <1>6, BridgeOthers DEF BridgeInv, BridgeType, BridgeBudget

LEMMA BridgeEdits ==
    ASSUME MirrorAssumption, BridgeInv, NEW f \in Bridge!File, Bridge!Edits(f)
    PROVE  BridgeInv'
  <1>1. /\ locks.bridge = None /\ BridgeBudget
        /\ UNCHANGED <<version, serial, policy, alive, choice, installed, commands, locks>>
    BY BridgeUses DEF Bridge!Edits, Bridge!env, Bridge!db, BridgeInv
  <1>2. PICK b \in {Bridge!Theirs, None} : disk' = [disk EXCEPT ![f] = b]
    BY DEF Bridge!Edits
  <1>3. disk \in Bridge!Manifest
    BY DEF BridgeInv, BridgeType
  <1>4. disk' \in Bridge!Manifest /\ \A g \in Bridge!File : disk'[g] = disk[g] \/ ~Bridge!Ours(disk'[g])
    BY <1>2, <1>3 DEF Bridge!Manifest, Bridge!Ours, Bridge!Theirs
  <1>5. BridgeType'
    BY <1>1, <1>4 DEF BridgeInv, BridgeType, BridgeBudget
  <1>6. Clean'
    <2>1. Clean
      BY <1>1, BridgeFree, BridgeNone
    <2> QED
      BY <1>1, <1>4, <2>1 DEF Clean, Registered, Bridge!Orphaned, BridgeBudget, Targets, Bridge!File
  <1> QED
    BY <1>1, <1>5, <1>6, BridgeOthers

\* A project that goes leaves what it had in the directory to nobody.
LEMMA BridgeDeletes ==
    ASSUME MirrorAssumption, BridgeInv, NEW p \in Project, Bridge!Deletes(p)
    PROVE  BridgeInv'
  <1>1. /\ p \in alive /\ ~Bridge!Writing /\ alive' = alive \ {p}
        /\ installed' = [installed EXCEPT ![p] = None] /\ BridgeBudget
        /\ UNCHANGED <<disk, version, serial, policy, choice, commands, locks>>
    BY BridgeUses DEF Bridge!Deletes, Bridge!env, BridgeInv
  <1>2. alive \subseteq Project /\ installed \in [Project -> Recorded \cup {None}]
    BY DEF BridgeInv, BridgeType
  <1>3. BridgeType'
    BY <1>1, <1>2 DEF BridgeInv, BridgeType, BridgeBudget
  <1>4. Bridge!Orphaned'
    BY <1>1, <1>2 DEF Bridge!Orphaned
  <1>5. Clean'
    BY <1>4 DEF Clean
  <1>6. \A ch : \A q \in alive' : /\ q \in alive
                                 /\ Bridge!Snapshot(installed', ch)[q] = Bridge!Snapshot(installed, ch)[q]
    BY <1>1, <1>2 DEF Bridge!Snapshot
  <1>7. Reliable' => Reliable
    BY <1>1 DEF Reliable, BridgeBudget
  <1>8. ASSUME NEW c \in Client PROVE BridgeFits(c)'
    <2>1. BridgeFits(c) /\ commands[c].pc \notin {"stage", "commit", "save"}
      BY <1>1 DEF BridgeInv, Bridge!Writing
    <2>2. Reliable' => PolicyFits(c)'
      <3> SUFFICES ASSUME Reliable' PROVE PolicyFits(c)'
        OBVIOUS
      <3>1. PolicyFits(c)
        BY <1>7, <2>1 DEF BridgeFits
      <3>2. ASSUME commands[c].pc \in Undoing
            PROVE  (IF "old" \in DOMAIN commands[c] THEN Tells(commands[c].old, installed, choice)
                    ELSE Tells(policy, installed, choice))'
        <4>1. IF "old" \in DOMAIN commands[c] THEN Tells(commands[c].old, installed, choice)
              ELSE Tells(policy, installed, choice)
          BY <3>1, <3>2 DEF PolicyFits
        <4> QED
          BY <1>1, <1>6, <4>1 DEF Tells
      <3>3. commands'[c].pc \notin {"idle", "commit", "save", "publish"} \cup Undoing =>
               Tells(policy, installed, choice)'
        <4>1. commands[c].pc \notin {"idle", "commit", "save", "publish"} \cup Undoing =>
                 Tells(policy, installed, choice)
          BY <3>1 DEF PolicyFits
        <4>2. Tells(policy, installed, choice) => Tells(policy, installed, choice)'
          BY <1>1, <1>6 DEF Tells
        <4> QED
          BY <1>1, <4>1, <4>2
      <3> QED
        BY <1>1, <2>1, <3>2, <3>3 DEF PolicyFits
    <2>3. commands'[c].pc \in Replacing \cup {"compiled"} => InstallFits(commands[c])'
      BY <1>1, <1>4, <2>1 DEF BridgeFits, InstallFits
    <2>4. commands'[c].pc = "remove" => RemoveFits(commands[c])'
      BY <1>1, <2>1 DEF BridgeFits, RemoveFits
    <2> QED
      BY <1>1, <1>5, <2>1, <2>2, <2>3, <2>4 DEF BridgeFits
  <1>9. Told => Told'
    <2>1. Tells(policy, installed, choice) => Tells(policy, installed, choice)'
      BY <1>1, <1>6 DEF Tells
    <2> QED
      BY <1>7, <2>1 DEF Told
  <1> QED
    BY <1>1, <1>3, <1>5, <1>8, <1>9 DEF BridgeInv

LEMMA BridgeCompiles ==
    ASSUME MirrorAssumption, BridgeInv, Bridge!Compiles
    PROVE  BridgeInv'
  <1>1. /\ disk["rpy"] # None /\ disk' = [disk EXCEPT !["rpyc"] = disk["rpy"]]
        /\ UNCHANGED <<version, serial, policy, alive, choice, installed, commands, locks,
                       bridgeBudget>>
    BY DEF Bridge!Compiles, Bridge!env, Bridge!db
  <1>2. disk \in Bridge!Manifest
    BY DEF BridgeInv, BridgeType
  <1>3. /\ disk' \in Bridge!Manifest /\ \A f \in Targets : disk'[f] = disk[f]
        /\ disk'["rpyc"] = disk["rpy"]
    BY <1>1, <1>2 DEF Bridge!Manifest, Bridge!File, Targets
  <1>4. BridgeType'
    BY <1>1, <1>3 DEF BridgeInv, BridgeType
  <1>5. Clean => Clean'
    BY <1>1, <1>3 DEF Clean, Registered, Bridge!Orphaned
  <1>6. Told => Told'
    BY <1>1 DEF Told, Tells, Reliable
  <1>7. ASSUME NEW c \in Client PROVE BridgeFits(c)'
    <2>1. BridgeFits(c)
      BY DEF BridgeInv
    <2>2. commands'[c].pc \in Replacing \cup {"compiled"} => InstallFits(commands[c])'
      <3> SUFFICES ASSUME commands[c].pc \in Replacing \cup {"compiled"}
                   PROVE  InstallFits(commands[c])'
        BY <1>1
      <3>1. InstallFits(commands[c])
        BY <2>1 DEF BridgeFits
      <3>2. disk'["rpyc"] # Bridge!Theirs
        BY <1>3, <3>1 DEF InstallFits, Targets
      <3>3. Bridge!Orphaned' <=> Bridge!Orphaned
        BY <1>1 DEF Bridge!Orphaned
      <3>4. \A b : (Registered(b))' <=> Registered(b)
        BY <1>1 DEF Registered
      <3> QED
        BY <1>1, <1>3, <3>1, <3>2, <3>3 DEF InstallFits, Targets, Registered
    <2>3. commands'[c].pc = "remove" => RemoveFits(commands[c])'
      <3> SUFFICES ASSUME commands[c].pc = "remove" PROVE RemoveFits(commands[c])'
        BY <1>1
      <3>1. RemoveFits(commands[c])
        BY <2>1 DEF BridgeFits
      <3>2. "rpy" \notin commands[c].todo => commands[c].kept # {}
        BY <1>1, <3>1 DEF RemoveFits, Targets
      <3> QED
        BY <1>1, <1>3, <3>1, <3>2 DEF RemoveFits, Targets
    <2>4. Reliable' => PolicyFits(c)'
      BY <1>1, <2>1 DEF BridgeFits, PolicyFits, Tells, Reliable, Bridge!After
    <2> QED
      BY <1>1, <1>5, <2>1, <2>2, <2>3, <2>4 DEF BridgeFits
  <1> QED
    BY <1>1, <1>4, <1>5, <1>6, <1>7 DEF BridgeInv

LEMMA BridgeRestarts ==
    ASSUME MirrorAssumption, BridgeInv, Bridge!Restarts
    PROVE  BridgeInv'
  <1>1. /\ commands' = [c \in Client |-> Bridge!Idle] /\ locks' = Bridge!NoLocks /\ BridgeBudget
        /\ policy' = Bridge!Snapshot(installed, choice) /\ version' \in {version, version + 1}
        /\ UNCHANGED <<disk, serial, alive, choice, installed>>
    BY BridgeUses DEF Bridge!Restarts, Bridge!db, BridgeInv
  <1>2. policy' \in Policies
    BY SnapshotType, <1>1 DEF BridgeInv, BridgeType
  <1>3. BridgeType'
    BY <1>1, <1>2 DEF BridgeInv, BridgeType, BridgeBudget, Bridge!Idle, Bridge!NoLocks, BridgeCall
  <1>4. Clean'
    <2>1. CASE Bridge!Uses("crash")
      <3>1. Bridge!Orphaned'
        BY <1>1, <2>1 DEF Bridge!Uses, Bridge!Orphaned, BridgeBudget
      <3> QED
        BY <3>1 DEF Clean
    <2>2. CASE \A c \in Client : commands[c] = Bridge!Idle
      <3>1. locks.policy = None
        BY <2>2 DEF BridgeInv, BridgeType, BridgeFits, Bridge!Idle
      <3> QED
        BY <1>1, <3>1 DEF BridgeInv, Clean, Registered, Bridge!Orphaned, BridgeBudget
    <2> QED
      BY <2>1, <2>2 DEF Bridge!Restarts
  <1>5. Told'
    BY <1>1 DEF Told, Tells
  <1>6. ASSUME NEW c \in Client PROVE BridgeFits(c)'
    <2>1. commands'[c].pc = "idle" /\ locks'.policy # c
      BY <1>1, BridgeNone DEF Bridge!Idle, Bridge!NoLocks
    <2> QED
      BY <2>1 DEF BridgeFits, PolicyFits, Holds, Replacing, Before, Undoing
  <1> QED
    BY <1>3, <1>4, <1>5, <1>6 DEF BridgeInv

LEMMA BridgeStep ==
    ASSUME MirrorAssumption, BridgeInv, Bridge!Next \/ UNCHANGED bridgeVars
    PROVE  BridgeInv'
  <1>1. CASE UNCHANGED bridgeVars
    <2>1. UNCHANGED <<disk, version, serial, alive, choice, installed, policy, commands, locks,
                     bridgeBudget>>
      BY <1>1 DEF bridgeVars
    <2>2. BridgeType'
      BY <2>1 DEF BridgeInv, BridgeType
    <2>3. (Clean <=> Clean') /\ (Told <=> Told') /\ (Reliable <=> Reliable')
      BY <2>1 DEF Clean, Registered, Bridge!Orphaned, Told, Tells, Reliable
    <2>4. ASSUME NEW c \in Client PROVE BridgeFits(c)'
      <3>1. BridgeFits(c)
        BY DEF BridgeInv
      <3>2. InstallFits(commands[c]) => InstallFits(commands[c])'
        BY <2>1 DEF InstallFits, Registered, Bridge!Orphaned
      <3>3. RemoveFits(commands[c]) => RemoveFits(commands[c])'
        BY <2>1 DEF RemoveFits
      <3>4. PolicyFits(c) => PolicyFits(c)'
        BY <2>1 DEF PolicyFits, Tells, Bridge!After
      <3> QED
        BY <2>1, <2>3, <3>1, <3>2, <3>3, <3>4 DEF BridgeFits
    <2> QED
      BY <2>1, <2>2, <2>3, <2>4 DEF BridgeInv
  <1>2. CASE Bridge!Next
    BY <1>2, BridgeBegins, BridgeChooses, BridgeChecks, BridgeWrites, BridgePersists, BridgeStages,
       BridgeCommits, BridgeDropsCompiled, BridgeFails, BridgeUndoes, BridgeUnstages, BridgeRecords,
       BridgeRemoves, BridgeStops, BridgeForgets, BridgePublishes, BridgeSaves, BridgeUnsaves,
       BridgeInspects, BridgeDeletes, BridgeEdits, BridgeCompiles, BridgeRestarts DEF Bridge!Next
  <1> QED
    BY <1>1, <1>2

LEMMA BridgeStart == MirrorAssumption /\ Bridge!Init => BridgeInv
  <1> SUFFICES ASSUME MirrorAssumption, Bridge!Init PROVE BridgeInv
    OBVIOUS
  <1>1. BridgeType
    BY DEF Bridge!Init, BridgeType, Bridge!Manifest, Bridge!Absent, Bridge!Theirs, Bridge!Idle,
           Bridge!NoLocks, BridgeCall, Policies, MirrorAssumption, Bridge!BridgeAssumption
  <1>2. Clean
    BY DEF Bridge!Init, Clean, Registered, Bridge!Ours, Bridge!Absent, Targets, Bridge!File
  <1>3. Told
    BY DEF Bridge!Init, Told, Tells, Bridge!Snapshot
  <1>4. \A c \in Client : BridgeFits(c)
    BY BridgeNone DEF Bridge!Init, BridgeFits, PolicyFits, Bridge!Idle, Bridge!NoLocks, Holds,
                      Replacing, Before, Undoing
  <1> QED
    BY <1>1, <1>2, <1>3, <1>4 DEF BridgeInv


\* What a step does to the files of the user, and what an uninstall leaves.
Untouched == \A f \in Bridge!File : disk[f] = Bridge!Theirs => disk'[f] = Bridge!Theirs
OnlyOthers ==
    \A f \in Bridge!File : disk[f] = Bridge!Theirs /\ disk'[f] # Bridge!Theirs =>
        \/ bridgeBudget' # bridgeBudget /\ locks.bridge = None
        \/ f = "rpyc" /\ disk'[f] = disk["rpy"]
NothingStays == \A c \in Client : Bridge!Forgets(c) /\ installed' # installed => disk = Bridge!Absent

LEMMA BridgeUntouched ==
    ASSUME MirrorAssumption, BridgeInv, NEW c \in Client,
           \/ Bridge!Writes(c, "rpy", "json") \/ Bridge!Writes(c, "json", "persist")
           \/ Bridge!DropsCompiled(c) \/ Bridge!Undoes(c)
           \/ \E f \in Bridge!File : Bridge!Removes(c, f)
    PROVE  Untouched
  <1>1. disk \in Bridge!Manifest /\ BridgeFits(c)
    BY DEF BridgeInv, BridgeType
  <1>2. ASSUME NEW f \in Targets, NEW next, Bridge!Writes(c, f, next) PROVE Untouched
    <2>1. commands[c].pc \in Before /\ disk' = [disk EXCEPT ![f] = commands[c].row[f]]
      BY <1>2 DEF Bridge!Writes, Targets, Before
    <2>2. disk[f] # Bridge!Theirs
      BY <2>1, InstallAt DEF InstallFits
    <2> QED
      BY <1>1, <2>1, <2>2 DEF Untouched, Bridge!Manifest
  <1>3. CASE Bridge!DropsCompiled(c)
    <2>1. InstallFits(commands[c])
      BY <1>1, <1>3 DEF BridgeFits, Bridge!DropsCompiled
    <2> QED
      BY <1>1, <1>3, <2>1 DEF Untouched, Bridge!Manifest, Bridge!DropsCompiled, InstallFits
  <1>4. CASE Bridge!Undoes(c)
    <2>1. PICK f \in Targets : disk' \in {disk, [disk EXCEPT ![f] = commands[c].backup[f]]}
                              /\ commands[c].pc = IF f = "rpy" THEN "undo rpy" ELSE "undo json"
      BY <1>4 DEF Bridge!Undoes, Targets
    <2>2. commands[c].pc \in Replacing
      BY <2>1 DEF Replacing, Targets
    <2>3. disk[f] # Bridge!Theirs
      BY <1>1, <2>2 DEF BridgeFits, InstallFits
    <2> QED
      BY <1>1, <2>1, <2>3 DEF Untouched, Bridge!Manifest
  <1>5. ASSUME NEW f \in Bridge!File, Bridge!Removes(c, f) PROVE Untouched
    <2>1. commands[c].pc = "remove"
      BY <1>5 DEF Bridge!Removes
    <2>2. commands[c].row \in Recorded
      BY <2>1, BridgeAt DEF Removal
    <2>3. commands[c].row[f] # Bridge!Theirs
      BY <2>2 DEF Recorded, Bridge!File, Bridge!Theirs
    <2> QED
      BY <1>1, <1>5, <2>3 DEF Untouched, Bridge!Manifest, Bridge!Removes
  <1> QED
    BY <1>2, <1>3, <1>4, <1>5 DEF Targets

LEMMA BridgeExact ==
    ASSUME MirrorAssumption, BridgeInv, Bridge!Next
    PROVE  OnlyOthers /\ NothingStays
  <1>1. NothingStays
    <2> SUFFICES ASSUME NEW c \in Client, Bridge!Forgets(c), installed' # installed
                 PROVE  disk = Bridge!Absent
      BY DEF NothingStays
    <2>1. commands[c].pc = "remove" /\ commands[c].todo = {} /\ commands[c].kept = {}
      BY DEF Bridge!Forgets
    <2> QED
      BY <2>1, NothingLeft
  <1>2. Untouched => OnlyOthers
    BY DEF Untouched, OnlyOthers
  <1>3. disk' = disk => Untouched
    BY DEF Untouched
  <1>4. disk \in Bridge!Manifest /\ bridgeBudget \in [ops : SUBSET STRING, left : Nat]
    BY DEF BridgeInv, BridgeType
  <1>5. CASE Bridge!Compiles
    BY <1>1, <1>4, <1>5 DEF OnlyOthers, Bridge!Compiles, Bridge!Manifest, Bridge!File
  <1>6. ASSUME NEW f \in Bridge!File, Bridge!Edits(f) PROVE OnlyOthers
    <2>1. bridgeBudget' = [bridgeBudget EXCEPT !.left = @ - 1] /\ locks.bridge = None
      BY <1>6 DEF Bridge!Edits, Bridge!Uses
    <2>2. bridgeBudget'.left = bridgeBudget.left - 1 /\ bridgeBudget.left \in Nat
      BY <1>4, <2>1
    <2>3. bridgeBudget' # bridgeBudget
      BY <2>2
    <2> QED
      BY <2>1, <2>3 DEF OnlyOthers
  <1>7. CASE \E c \in Client, p \in Project : Bridge!Begins(c, p) \/ Bridge!Uninstalls(c, p)
    BY <1>1, <1>2, <1>3, <1>7 DEF Bridge!Begins, Bridge!Uninstalls
  <1>8. CASE \E c \in Client, g \in Project \cup {Everyone}, b \in BOOLEAN \cup {None} :
                Bridge!Chooses(c, g, b)
    BY <1>1, <1>2, <1>3, <1>8 DEF Bridge!Chooses
  <1>9. ASSUME NEW c \in Client,
               \/ Bridge!Checks(c) \/ Bridge!Persists(c) \/ Bridge!Stages(c) \/ Bridge!Commits(c)
               \/ Bridge!Fails(c) \/ Bridge!Unstages(c) \/ Bridge!Records(c) \/ Bridge!Stops(c)
               \/ Bridge!Forgets(c) \/ Bridge!Publishes(c) \/ Bridge!Saves(c) \/ Bridge!Unsaves(c)
        PROVE  disk' = disk
    BY <1>9 DEF Bridge!Checks, Bridge!Persists, Bridge!Stages, Bridge!Commits, Bridge!Fails,
                Bridge!Unstages, Bridge!Records, Bridge!Stops, Bridge!Forgets, Bridge!Publishes,
                Bridge!Saves, Bridge!Unsaves
  <1>10. CASE \E p \in Project : Bridge!Inspects(p) \/ Bridge!Deletes(p)
    BY <1>1, <1>2, <1>3, <1>10 DEF Bridge!Inspects, Bridge!Deletes
  <1>11. CASE Bridge!Restarts
    BY <1>1, <1>2, <1>3, <1>11 DEF Bridge!Restarts
  <1> QED
    BY <1>1, <1>2, <1>3, <1>5, <1>6, <1>7, <1>8, <1>9, <1>10, <1>11, BridgeUntouched
       DEF Bridge!Next

-----------------------------------------------------------------------------
(* The manifests of an archive *)

\* What breaks the promise is left out, as there.
Steady ==
    manifestBudget.ops \cap {"scene", "rebuild", "restore", "down", "crash", "switch", "partly"} = {}

Entry   == Item \X (Char \cup {None}) \X Nat
Listing == Dir \X Item \X (Char \cup {None}) \X Nat
Rebuild == [pc : {"start", "idle", "rows"}]
           \cup [pc : {"dirs"}, todo : SUBSET Dir, rows : SUBSET Listing]
           \cup [pc : {"write"}, todo : SUBSET Dir, rows : SUBSET Listing, at : Dir,
                 found : SUBSET Entry]

ManifestType ==
    /\ row \in [Item -> Manifests!Row] /\ name \in [Char -> Nat]
    /\ DOMAIN manifest = Dir /\ manifest = [d \in Dir |-> manifest[d]]
    /\ pending \in {None, "fresh", "due"} /\ auto = TRUE /\ reachable = TRUE
    /\ rebuilds \in [Manifests!Proc -> Rebuild]
    /\ \A p \in Users : rebuilds[p] = Manifests!Idle

Gone(i) == <<row[i].dir, i>> \notin files

\* Whom a row names is archived in a directory of persons, and what is missing is gone.
RowFits(i) ==
    /\ row[i].char = None => ~row[i].done /\ row[i].dir = None
    /\ row[i].done => row[i].dir \in Dir
    /\ row[i].done /\ row[i].missing => Gone(i)

\* Nothing is to be archived or found missing.
Quiet(i) == IF row[i].done THEN row[i].missing = Gone(i) ELSE row[i].char = None

\* What is written or read of the items that nothing is to happen to is right.
Says(s, d) == s \subseteq Entry
              /\ \A e \in Entry : Quiet(e[1]) => (e \in s <=> e \in Manifests!Described(d))
Rows(s) == \A d \in Dir, e \in Entry :
              Quiet(e[1]) => (<<d, e[1], e[2], e[3]>> \in s <=> e \in Manifests!Described(d))
Written(d) == \E s \in SUBSET Entry : manifest[d] = (IF s = {} THEN None ELSE s) /\ Says(s, d)

\* While no request waits, what the writer has read and written is up to date: a
\* change after it has read waits as a request.
WriterFits(k) ==
    /\ k.pc = "idle" => \A d \in Dir : Written(d)
    /\ k.pc \in {"dirs", "write"} => Rows(k.rows) /\ \A d \in Dir \ k.todo : Written(d)
    /\ k.pc = "write" => Says(k.found, k.at)

ManifestRight ==
    /\ ManifestType
    /\ \A i \in Item : RowFits(i)
    /\ rebuilds[Background].pc = "start" => \A d \in Dir : manifest[d] = None
    /\ pending = None => WriterFits(rebuilds[Background])

ManifestInv == /\ manifestBudget \in [ops : SUBSET STRING, left : Nat]
               /\ Steady => ManifestRight

ManifestBudget == /\ manifestBudget' \in [ops : SUBSET STRING, left : Nat]
                  /\ manifestBudget'.ops = manifestBudget.ops

LEMMA ManifestUses ==
    ASSUME ManifestInv, NEW op, Manifests!Uses(op) \/ UNCHANGED manifestBudget
    PROVE  /\ ManifestBudget /\ (Steady' <=> Steady)
           /\ Manifests!Uses(op) => op \in manifestBudget.ops
  BY DEF ManifestInv, ManifestBudget, Manifests!Uses, Steady

\* None, "fresh" and "due" are three things.
LEMMA ManifestNone ==
    ASSUME MirrorAssumption
    PROVE  /\ None \notin {"fresh", "due"} /\ None \notin Char /\ None \notin Dir
           /\ Background \notin Users /\ Background \in Manifests!Proc
  BY DEF MirrorAssumption, Manifests!ManifestAssumption, Manifests!Proc

\* What is to be said of an item.
SaidOf(e, d) ==
    LET i == e[1] IN
    /\ row[i].done /\ row[i].dir = d /\ ~row[i].missing /\ <<d, i>> \in files
    /\ e[2] = row[i].char /\ e[3] = IF row[i].char = None THEN 0 ELSE name[row[i].char]

LEMMA DescribedAs ==
    ASSUME NEW d \in Dir, NEW e \in Entry
    PROVE  e \in Manifests!Described(d) <=> SaidOf(e, d)
  <1>1. e = <<e[1], e[2], e[3]>> /\ e[1] \in Item
    BY DEF Entry
  <1>2. ASSUME e \in Manifests!Described(d) PROVE SaidOf(e, d)
    <2>1. PICK i \in Item : /\ Manifests!Listed(i, d) /\ <<d, i>> \in files
                            /\ e = <<i, row[i].char,
                                     IF row[i].char = None THEN 0 ELSE name[row[i].char]>>
      BY <1>2 DEF Manifests!Described
    <2>2. e[1] = i /\ e[2] = row[i].char
          /\ e[3] = IF row[i].char = None THEN 0 ELSE name[row[i].char]
      BY <2>1
    <2> QED
      BY <2>1, <2>2 DEF SaidOf, Manifests!Listed
  <1>3. ASSUME SaidOf(e, d) PROVE e \in Manifests!Described(d)
    BY <1>1, <1>3 DEF SaidOf, Manifests!Described, Manifests!Listed
  <1> QED
    BY <1>2, <1>3

\* A step that leaves an item that is quiet as it was.
LEMMA DescribedStays ==
    ASSUME NEW d \in Dir, NEW e \in Entry, UNCHANGED name, row'[e[1]] = row[e[1]],
           <<d, e[1]>> \in files' <=> <<d, e[1]>> \in files
    PROVE  e \in Manifests!Described(d)' <=> e \in Manifests!Described(d)
  <1>1. e \in Manifests!Described(d) <=> SaidOf(e, d)
    BY DescribedAs
  <1>2. (e \in Manifests!Described(d))' <=> SaidOf(e, d)'
    BY DescribedAs, PTL
  <1>3. SaidOf(e, d)' <=> SaidOf(e, d)
    BY DEF SaidOf
  <1> QED
    BY <1>1, <1>2, <1>3

LEMMA ManifestRequests ==
    ASSUME MirrorAssumption, ManifestRight, UNCHANGED <<manifest, rebuilds, auto, reachable>>,
           pending' \in {"fresh", "due"}, row' \in [Item -> Manifests!Row],
           name' \in [Char -> Nat], \A i \in Item : RowFits(i)'
    PROVE  ManifestRight'
  BY ManifestNone DEF ManifestRight, ManifestType

\* What happens to an item without a request leaves something to be done or noticed.
LEMMA ManifestQuiet ==
    ASSUME MirrorAssumption, ManifestRight,
           UNCHANGED <<name, manifest, rebuilds, pending, auto, reachable>>,
           row' \in [Item -> Manifests!Row], \A i \in Item : RowFits(i)',
           \A i \in Item : Quiet(i)' => /\ Quiet(i) /\ row'[i] = row[i]
                                        /\ \A d \in Dir : <<d, i>> \in files' <=> <<d, i>> \in files
    PROVE  ManifestRight'
  <1>1. ASSUME NEW d \in Dir, NEW e \in Entry, Quiet(e[1])'
        PROVE  Quiet(e[1]) /\ (e \in Manifests!Described(d)' <=> e \in Manifests!Described(d))
    <2>1. e[1] \in Item
      BY DEF Entry
    <2> QED
      BY <1>1, <2>1, DescribedStays
  <1>2. ASSUME NEW d \in Dir, Written(d) PROVE Written(d)'
    <2>1. PICK s \in SUBSET Entry : manifest[d] = (IF s = {} THEN None ELSE s) /\ Says(s, d)
      BY <1>2 DEF Written
    <2>2. Says(s, d)'
      BY <1>1, <2>1 DEF Says
    <2> QED
      BY <2>1, <2>2 DEF Written
  <1>3. pending' = None => WriterFits(rebuilds[Background])'
    <2> SUFFICES ASSUME pending = None, WriterFits(rebuilds[Background])
                 PROVE  WriterFits(rebuilds[Background])'
      BY DEF ManifestRight
    <2> DEFINE k == rebuilds[Background]
    <2>1. k \in Rebuild /\ k' = k
      BY ManifestNone DEF ManifestRight, ManifestType
    <2>2. k.pc = "idle" => \A d \in Dir : Written(d)'
      BY <1>2 DEF WriterFits
    <2>3. k.pc \in {"dirs", "write"} => Rows(k.rows)'
      BY <1>1, <2>1 DEF WriterFits, Rows
    <2>4. k.pc \in {"dirs", "write"} => \A d \in Dir \ k.todo : Written(d)'
      BY <1>2 DEF WriterFits
    <2>5. k.pc = "write" => Says(k.found, k.at)'
      <3> SUFFICES ASSUME k.pc = "write" PROVE Says(k.found, k.at)'
        OBVIOUS
      <3>1. k.at \in Dir /\ Says(k.found, k.at)
        BY <2>1 DEF WriterFits, Rebuild
      <3> QED
        BY <1>1, <2>1, <3>1 DEF Says
    <2> QED
      BY <2>1, <2>2, <2>3, <2>4, <2>5 DEF WriterFits
  <1> QED
    BY <1>3 DEF ManifestRight, ManifestType

\* The archive's own triggers: archives, resets, renames, merges, checks.
LEMMA ManifestTriggers ==
    ASSUME MirrorAssumption, ManifestRight,
           \/ \E i \in Item : Manifests!Archives(i) \/ Manifests!Resets(i) \/ Manifests!Notices(i)
           \/ \E c \in Char : Manifests!Renames(c) \/ \E d \in Char : Manifests!Merges(c, d)
    PROVE  ManifestRight'
  <1>1. /\ row \in [Item -> Manifests!Row] /\ name \in [Char -> Nat]
        /\ \A i \in Item : RowFits(i)
    BY DEF ManifestRight, ManifestType
  <1>2. ASSUME NEW i \in Item, Manifests!Archives(i) PROVE ManifestRight'
    <2>1. row[i].char # None
      BY <1>1, <1>2, ManifestNone DEF Manifests!Archives, RowFits
    <2>2. PICK d \in Dir :
             /\ row' = [row EXCEPT ![i].done = TRUE, ![i].dir = d, ![i].missing = FALSE]
             /\ files' = (files \ {<<row[i].dir, i>>}) \cup {<<d, i>>}
             /\ pending' = "fresh"
      BY <1>2, <2>1 DEF Manifests!Archives, Manifests!Requests
    <2>3. UNCHANGED <<name, manifest, rebuilds, auto, reachable>>
      BY <1>2 DEF Manifests!Archives, Manifests!Rest
    <2>4. row' \in [Item -> Manifests!Row]
      BY <1>1, <2>2 DEF Manifests!Row
    <2>5. /\ row'[i].done /\ row'[i].dir = d /\ row'[i].char = row[i].char /\ ~row'[i].missing
          /\ \A j \in Item \ {i} : row'[j] = row[j]
      BY <1>1, <2>2 DEF Manifests!Row
    <2>6. ASSUME NEW j \in Item \ {i} PROVE RowFits(j)'
      <3>1. <<row[j].dir, j>> \notin files => <<row[j].dir, j>> \notin files'
        BY <2>2
      <3> QED
        BY <1>1, <2>5, <3>1 DEF RowFits, Gone
    <2>7. RowFits(i)'
      BY <2>1, <2>5 DEF RowFits
    <2> QED
      BY <1>1, <2>2, <2>3, <2>4, <2>6, <2>7, ManifestRequests
  <1>3. ASSUME NEW i \in Item, Manifests!Resets(i) PROVE ManifestRight'
    <2> DEFINE r == [done |-> FALSE, dir |-> None, char |-> None, missing |-> FALSE]
    <2>1. /\ row' = [row EXCEPT ![i] = r] /\ files' \in {files, files \ {<<row[i].dir, i>>}}
          /\ pending' = "fresh" /\ UNCHANGED <<name, manifest, rebuilds, auto, reachable>>
      BY <1>3 DEF Manifests!Resets, Manifests!Requests, Manifests!Rest
    <2>2. row' \in [Item -> Manifests!Row]
      BY <1>1, <2>1 DEF Manifests!Row
    <2>3. \A j \in Item : RowFits(j)'
      BY <1>1, <2>1 DEF RowFits, Gone
    <2> QED
      BY <1>1, <2>1, <2>2, <2>3, ManifestRequests
  <1>4. ASSUME NEW i \in Item, Manifests!Notices(i) PROVE ManifestRight'
    <2>1. /\ row' = [row EXCEPT ![i].missing = <<row[i].dir, i>> \notin files]
          /\ pending' = "fresh" /\ UNCHANGED <<name, files, manifest, rebuilds, auto, reachable>>
      BY <1>4 DEF Manifests!Notices, Manifests!Requests, Manifests!Rest
    <2>2. row' \in [Item -> Manifests!Row]
      BY <1>1, <2>1 DEF Manifests!Row
    <2>3. /\ row'[i].done = row[i].done /\ row'[i].dir = row[i].dir /\ row'[i].char = row[i].char
          /\ row'[i].missing => <<row[i].dir, i>> \notin files
          /\ \A j \in Item \ {i} : row'[j] = row[j]
      BY <1>1, <2>1 DEF Manifests!Row
    <2>4. \A j \in Item : RowFits(j)'
      <3>1. RowFits(i)'
        BY <1>1, <2>1, <2>3 DEF RowFits, Gone
      <3>2. ASSUME NEW j \in Item \ {i} PROVE RowFits(j)'
        <4>1. RowFits(j) /\ row'[j] = row[j] /\ files' = files
          BY <1>1, <2>1, <2>3
        <4> QED
          BY <4>1 DEF RowFits, Gone
      <3> QED
        BY <3>1, <3>2
    <2> QED
      BY <1>1, <2>1, <2>2, <2>4, ManifestRequests
  <1>5. ASSUME NEW c \in Char, Manifests!Renames(c) PROVE ManifestRight'
    <2>1. /\ name' = [name EXCEPT ![c] = @ + 1] /\ pending' = "fresh"
          /\ UNCHANGED <<row, files, manifest, rebuilds, auto, reachable>>
      BY <1>5 DEF Manifests!Renames, Manifests!Requests, Manifests!Rest
    <2> QED
      BY <1>1, <2>1, ManifestRequests DEF RowFits, Gone
  <1>6. ASSUME NEW c \in Char, NEW d \in Char, Manifests!Merges(c, d) PROVE ManifestRight'
    <2>1. /\ row' = [i \in Item |-> IF row[i].char = c THEN [row[i] EXCEPT !.char = d] ELSE row[i]]
          /\ pending' = "fresh" /\ UNCHANGED <<name, files, manifest, rebuilds, auto, reachable>>
      BY <1>6 DEF Manifests!Merges, Manifests!Requests, Manifests!Rest
    <2>2. row' \in [Item -> Manifests!Row]
      BY <1>1, <2>1 DEF Manifests!Row
    <2>3. \A i \in Item : /\ row'[i].done = row[i].done /\ row'[i].dir = row[i].dir
                          /\ row'[i].missing = row[i].missing
                          /\ row'[i].char = IF row[i].char = c THEN d ELSE row[i].char
      BY <1>1, <2>1 DEF Manifests!Row
    <2>4. \A i \in Item : RowFits(i)'
      BY <1>1, <2>1, <2>3, ManifestNone DEF RowFits, Gone
    <2> QED
      BY <1>1, <2>1, <2>2, <2>4, ManifestRequests
  <1> QED
    BY <1>2, <1>3, <1>4, <1>5, <1>6

\* What changes an archive without a request: a label, a file removed by hand, a look.
LEMMA ManifestChanges ==
    ASSUME MirrorAssumption, ManifestInv, Steady, NEW i \in Item,
           Manifests!Labels(i) \/ Manifests!Removes(i) \/ Manifests!Looks(i)
    PROVE  ManifestRight'
  <1>1. /\ row \in [Item -> Manifests!Row] /\ name \in [Char -> Nat] /\ ManifestRight
        /\ \A j \in Item : RowFits(j)
    BY DEF ManifestInv, ManifestRight, ManifestType
  <1>2. CASE Manifests!Labels(i)
    <2>1. PICK c \in Char \cup {None} :
             /\ c = None => "scene" \in manifestBudget.ops
             /\ row' = [row EXCEPT ![i].done = FALSE, ![i].char = c]
      BY <1>2 DEF Manifests!Labels
    <2>2. c \in Char
      BY <2>1 DEF Steady
    <2>3. UNCHANGED <<name, files, manifest, rebuilds, pending, auto, reachable>>
      BY <1>2 DEF Manifests!Labels, Manifests!Quietly, Manifests!Rest
    <2>4. row' \in [Item -> Manifests!Row]
      BY <1>1, <2>1, <2>2 DEF Manifests!Row
    <2>5. ~row'[i].done /\ row'[i].char = c /\ \A j \in Item \ {i} : row'[j] = row[j]
      BY <1>1, <2>1 DEF Manifests!Row
    <2>6. \A j \in Item : RowFits(j)'
      BY <1>1, <2>2, <2>3, <2>5, ManifestNone DEF RowFits, Gone
    <2>7. \A j \in Item : Quiet(j)' => Quiet(j) /\ row'[j] = row[j]
      BY <2>2, <2>3, <2>5, ManifestNone DEF Quiet, Gone
    <2> QED
      BY <1>1, <2>3, <2>4, <2>6, <2>7, ManifestQuiet
  <1>3. CASE Manifests!Removes(i)
    <2>1. /\ row[i].done /\ <<row[i].dir, i>> \in files /\ files' = files \ {<<row[i].dir, i>>}
          /\ UNCHANGED <<row, name, manifest, rebuilds, pending, auto, reachable>>
      BY <1>3 DEF Manifests!Removes, Manifests!Quietly, Manifests!Rest
    <2>2. \A j \in Item : RowFits(j)'
      BY <1>1, <2>1 DEF RowFits, Gone
    <2>3. ~row[i].missing /\ ~Quiet(i)'
      BY <1>1, <2>1 DEF RowFits, Gone, Quiet
    <2>4. \A j \in Item \ {i} : \A d : <<d, j>> \in files' <=> <<d, j>> \in files
      BY <2>1
    <2>5. \A j \in Item \ {i} : Quiet(j)' => Quiet(j)
      BY <2>1, <2>4 DEF Quiet, Gone
    <2> QED
      BY <1>1, <2>1, <2>2, <2>3, <2>4, <2>5, ManifestQuiet
  <1>4. CASE Manifests!Looks(i)
    <2> DEFINE gone == <<row[i].dir, i>> \notin files
    <2>1. /\ row[i].done /\ row' = [row EXCEPT ![i].missing = gone]
          /\ IF gone THEN pending' = "fresh" ELSE UNCHANGED pending
          /\ UNCHANGED <<name, files, manifest, rebuilds, auto, reachable>>
      BY <1>4 DEF Manifests!Looks, Manifests!Quietly, Manifests!Requests, Manifests!Rest
    <2>2. row' \in [Item -> Manifests!Row]
      BY <1>1, <2>1 DEF Manifests!Row
    <2>3. /\ row'[i].done = row[i].done /\ row'[i].dir = row[i].dir /\ row'[i].char = row[i].char
          /\ row'[i].missing => <<row[i].dir, i>> \notin files
          /\ \A j \in Item \ {i} : row'[j] = row[j]
      BY <1>1, <2>1 DEF Manifests!Row
    <2>4. \A j \in Item : RowFits(j)'
      <3>1. RowFits(i)'
        BY <1>1, <2>1, <2>3 DEF RowFits, Gone
      <3>2. ASSUME NEW j \in Item \ {i} PROVE RowFits(j)'
        <4>1. RowFits(j) /\ row'[j] = row[j] /\ files' = files
          BY <1>1, <2>1, <2>3
        <4> QED
          BY <4>1 DEF RowFits, Gone
      <3> QED
        BY <3>1, <3>2
    <2>5. CASE gone
      BY <1>1, <2>1, <2>2, <2>4, <2>5, ManifestRequests
    <2>6. CASE ~gone
      <3>1. row[i].missing = FALSE
        BY <1>1, <2>1, <2>6 DEF RowFits, Gone, Manifests!Row
      <3>2. row' = row
        BY <1>1, <2>1, <2>6, <3>1 DEF Manifests!Row
      <3> QED
        BY <1>1, <2>1, <2>2, <2>4, <2>6, <3>2, ManifestQuiet DEF Quiet, Gone
    <2> QED
      BY <2>5, <2>6
  <1> QED
    BY <1>2, <1>3, <1>4

\* A step of the writer.
LEMMA WriterGoes ==
    ASSUME MirrorAssumption, ManifestRight, NEW k \in Rebuild, k.pc # "start",
           Manifests!Goes(Background, k), UNCHANGED <<row, name, files, auto, reachable>>,
           pending' \in {None, "fresh", "due"},
           DOMAIN manifest' = Dir, manifest' = [d \in Dir |-> manifest'[d]],
           pending' = None => WriterFits(rebuilds[Background])'
    PROVE  ManifestRight'
  <1>1. /\ rebuilds' \in [Manifests!Proc -> Rebuild] /\ rebuilds'[Background] = k
        /\ \A p \in Users : rebuilds'[p] = rebuilds[p]
    BY ManifestNone DEF ManifestRight, ManifestType, Manifests!Goes, Manifests!Proc
  <1>2. \A i \in Item : RowFits(i)'
    BY DEF ManifestRight, RowFits, Gone
  <1> QED
    BY <1>1, <1>2 DEF ManifestRight, ManifestType

\* The writer leaves the rows, so what is to be said stays.
LEMMA WriterStays ==
    ASSUME UNCHANGED <<row, name, files>>
    PROVE  /\ \A i : Quiet(i)' <=> Quiet(i)
           /\ \A d : Manifests!Described(d)' = Manifests!Described(d)
  BY DEF Quiet, Gone, Manifests!Described, Manifests!Listed

LEMMA ManifestStarts ==
    ASSUME MirrorAssumption, ManifestRight, Manifests!Starts \/ Manifests!Takes
    PROVE  ManifestRight'
  <1>1. CASE Manifests!Starts
    <2> DEFINE asks == \E d \in Dir : /\ \E i \in Item : Manifests!Listed(i, d)
                                      /\ manifest[d] = None \/ ~reachable
    <2>1. /\ rebuilds[Background].pc = "start" /\ Manifests!Goes(Background, Manifests!Idle)
          /\ IF auto /\ asks THEN pending' = "fresh" ELSE pending' = pending
          /\ UNCHANGED <<row, name, files, manifest, auto, reachable>>
      BY <1>1 DEF Manifests!Starts, Manifests!Same, Manifests!Requests, Manifests!Quietly
    <2>2. Manifests!Idle \in Rebuild /\ Manifests!Idle.pc = "idle"
      BY DEF Manifests!Idle, Rebuild
    <2>3. (\A d \in Dir : manifest[d] = None) /\ auto = TRUE /\ rebuilds \in [Manifests!Proc -> Rebuild]
      BY <2>1 DEF ManifestRight, ManifestType
    <2>4. rebuilds'[Background] = Manifests!Idle
      BY <2>1, <2>3, ManifestNone DEF Manifests!Goes
    <2>5. ASSUME pending' = None, NEW d \in Dir PROVE Written(d)'
      <3>1. ~asks
        BY <2>1, <2>3, <2>5, ManifestNone
      <3>2. \A i \in Item : ~Manifests!Listed(i, d)
        BY <2>3, <3>1
      <3>3. Manifests!Described(d) = {}
        BY <3>2 DEF Manifests!Described
      <3>4. Manifests!Described(d)' = Manifests!Described(d)
        BY <2>1, WriterStays
      <3>5. Says({}, d)'
        BY <3>3, <3>4 DEF Says
      <3>6. manifest'[d] = None
        BY <2>1, <2>3
      <3> QED
        BY <3>5, <3>6 DEF Written
    <2>6. pending' = None => WriterFits(rebuilds[Background])'
      BY <2>2, <2>4, <2>5 DEF WriterFits
    <2>7. pending' \in {None, "fresh", "due"} /\ DOMAIN manifest' = Dir
          /\ manifest' = [d \in Dir |-> manifest'[d]]
      BY <2>1 DEF ManifestRight, ManifestType
    <2> QED
      BY <2>1, <2>2, <2>6, <2>7, WriterGoes
  <1>2. CASE Manifests!Takes
    <2> DEFINE k == [pc |-> "rows"]
    <2>1. /\ Manifests!Goes(Background, k) /\ pending' = None
          /\ UNCHANGED <<row, name, files, manifest, auto, reachable>>
      BY <1>2 DEF Manifests!Takes, Manifests!Same, ManifestRight, ManifestType
    <2>2. k \in Rebuild /\ k.pc = "rows"
      BY DEF Rebuild
    <2>3. rebuilds'[Background] = k
      BY <2>1, ManifestNone DEF Manifests!Goes, ManifestRight, ManifestType
    <2>4. WriterFits(rebuilds[Background])'
      BY <2>2, <2>3 DEF WriterFits
    <2>5. DOMAIN manifest' = Dir /\ manifest' = [d \in Dir |-> manifest'[d]]
      BY <2>1 DEF ManifestRight, ManifestType
    <2> QED
      BY <2>1, <2>2, <2>4, <2>5, WriterGoes
  <1> QED
    BY <1>1, <1>2

\* The rows say of an item that is quiet what is to be said of it.
LEMMA WriterReads ==
    ASSUME MirrorAssumption, ManifestRight, Manifests!Reads(Background)
    PROVE  ManifestRight'
  <1> DEFINE s == {<<row[i].dir, i, row[i].char,
                     IF row[i].char = None THEN 0 ELSE name[row[i].char]>> :
                     i \in {j \in Item : row[j].dir \in Dir /\ Manifests!Listed(j, row[j].dir)}}
             k == [pc |-> "dirs", todo |-> Dir, rows |-> s]
  <1>1. /\ Manifests!Goes(Background, k) /\ pending' = pending
        /\ UNCHANGED <<row, name, files, manifest, auto, reachable>>
    BY DEF Manifests!Reads, Manifests!Same, Manifests!Quietly
  <1>2. /\ row \in [Item -> Manifests!Row] /\ name \in [Char -> Nat] /\ \A i \in Item : RowFits(i)
        /\ rebuilds \in [Manifests!Proc -> Rebuild] /\ DOMAIN manifest = Dir
        /\ manifest = [d \in Dir |-> manifest[d]] /\ pending \in {None, "fresh", "due"}
    BY DEF ManifestRight, ManifestType
  <1>3. s \subseteq Listing
    BY <1>2 DEF Listing, Manifests!Row
  <1>4. ASSUME NEW d \in Dir, NEW e \in Entry, Quiet(e[1])
        PROVE  <<d, e[1], e[2], e[3]>> \in s <=> SaidOf(e, d)
    <2>1. e[1] \in Item
      BY DEF Entry
    <2>2. <<d, e[1], e[2], e[3]>> \in s <=>
             /\ row[e[1]].dir = d /\ Manifests!Listed(e[1], d) /\ e[2] = row[e[1]].char
             /\ e[3] = IF row[e[1]].char = None THEN 0 ELSE name[row[e[1]].char]
      BY <2>1
    <2>3. Manifests!Listed(e[1], d) => <<d, e[1]>> \in files
      BY <1>2, <1>4, <2>1 DEF Manifests!Listed, Quiet, Gone
    <2> QED
      BY <2>2, <2>3 DEF SaidOf, Manifests!Listed
  <1>5. Rows(s)
    BY <1>4, DescribedAs DEF Rows
  <1> HIDE DEF s
  <1>6. k \in Rebuild /\ k.pc = "dirs" /\ k.rows = s /\ k.todo = Dir
    BY <1>3 DEF Rebuild
  <1> HIDE DEF k
  <1>7. rebuilds'[Background] = k
    BY <1>1, <1>2, ManifestNone DEF Manifests!Goes
  <1>8. Rows(rebuilds[Background].rows)'
    BY <1>1, <1>5, <1>6, <1>7, WriterStays DEF Rows
  <1>9. WriterFits(rebuilds[Background])'
    BY <1>6, <1>7, <1>8 DEF WriterFits
  <1> QED
    BY <1>1, <1>2, <1>6, <1>9, WriterGoes

\* Where the writer stands in its round.
LEMMA WriterAt ==
    ASSUME MirrorAssumption, ManifestRight, rebuilds[Background].pc \in {"dirs", "write"}
    PROVE  /\ rebuilds[Background] \in Rebuild /\ rebuilds[Background].todo \in SUBSET Dir
           /\ rebuilds[Background].rows \in SUBSET Listing
           /\ rebuilds[Background].pc = "write" => /\ rebuilds[Background].at \in Dir
                                                  /\ rebuilds[Background].found \in SUBSET Entry
           /\ pending = None => /\ Rows(rebuilds[Background].rows)
                                /\ \A d \in Dir \ rebuilds[Background].todo : Written(d)
                                /\ rebuilds[Background].pc = "write" =>
                                      Says(rebuilds[Background].found, rebuilds[Background].at)
           /\ DOMAIN manifest = Dir /\ manifest = [d \in Dir |-> manifest[d]]
           /\ pending \in {None, "fresh", "due"} /\ rebuilds \in [Manifests!Proc -> Rebuild]
           /\ reachable = TRUE
  <1>1. rebuilds[Background] \in Rebuild
    BY ManifestNone DEF ManifestRight, ManifestType
  <1> QED
    BY <1>1 DEF ManifestRight, ManifestType, WriterFits, Rebuild

LEMMA WriterLists ==
    ASSUME MirrorAssumption, ManifestRight, NEW d \in Dir, Manifests!Lists(Background, d)
    PROVE  ManifestRight'
  <1> DEFINE j == rebuilds[Background]
             found == {<<r[2], r[3], r[4]>> :
                         r \in {s \in Manifests!Entries(Background, d) : <<d, s[2]>> \in files}}
             k == [pc |-> "write", todo |-> j.todo, rows |-> j.rows, at |-> d, found |-> found]
  <1>1. j.pc = "dirs"
    BY DEF Manifests!Lists
  <1>2. /\ j.todo \in SUBSET Dir /\ j.rows \in SUBSET Listing
        /\ pending = None => Rows(j.rows) /\ \A g \in Dir \ j.todo : Written(g)
        /\ DOMAIN manifest = Dir /\ manifest = [g \in Dir |-> manifest[g]]
        /\ pending \in {None, "fresh", "due"} /\ rebuilds \in [Manifests!Proc -> Rebuild]
        /\ reachable = TRUE
    BY <1>1, WriterAt
  <1>3. /\ Manifests!Goes(Background, k) /\ pending' = pending
        /\ UNCHANGED <<row, name, files, manifest, auto, reachable>>
    BY <1>2 DEF Manifests!Lists, Manifests!Same, Manifests!Quietly
  <1>4. found \subseteq Entry
    <2>1. ASSUME NEW r \in Listing PROVE <<r[2], r[3], r[4]>> \in Entry
      BY DEF Entry, Listing
    <2> QED
      BY <1>2, <2>1 DEF Manifests!Entries
  <1>5. ASSUME NEW e \in Entry
        PROVE  e \in found <=> <<d, e[1], e[2], e[3]>> \in j.rows /\ <<d, e[1]>> \in files
    <2>1. e = <<e[1], e[2], e[3]>>
      BY DEF Entry
    <2>2. ASSUME e \in found PROVE <<d, e[1], e[2], e[3]>> \in j.rows /\ <<d, e[1]>> \in files
      <3>1. PICK r \in j.rows : r[1] = d /\ <<d, r[2]>> \in files /\ e = <<r[2], r[3], r[4]>>
        BY <2>2 DEF Manifests!Entries
      <3>2. r = <<r[1], r[2], r[3], r[4]>>
        BY <1>2, <3>1 DEF Listing
      <3> QED
        BY <3>1, <3>2
    <2>3. ASSUME <<d, e[1], e[2], e[3]>> \in j.rows, <<d, e[1]>> \in files PROVE e \in found
      BY <2>1, <2>3 DEF Manifests!Entries
    <2> QED
      BY <2>2, <2>3
  <1>6. pending = None => Says(found, d)
    <2> SUFFICES ASSUME pending = None PROVE Says(found, d)
      OBVIOUS
    <2>1. ASSUME NEW e \in Entry, Quiet(e[1]) PROVE e \in found <=> e \in Manifests!Described(d)
      <3>1. <<d, e[1], e[2], e[3]>> \in j.rows <=> e \in Manifests!Described(d)
        BY <1>2, <2>1 DEF Rows
      <3>2. e \in Manifests!Described(d) => <<d, e[1]>> \in files
        BY DescribedAs DEF SaidOf
      <3> QED
        BY <1>5, <3>1, <3>2
    <2> QED
      BY <1>4, <2>1 DEF Says
  <1> HIDE DEF found, j
  <1>7. /\ k \in Rebuild /\ k.pc = "write" /\ k.rows = j.rows /\ k.todo = j.todo /\ k.at = d
        /\ k.found = found
    BY <1>2, <1>4 DEF Rebuild
  <1> HIDE DEF k
  <1>8. rebuilds'[Background] = k
    BY <1>2, <1>3, ManifestNone DEF Manifests!Goes
  <1>9. ASSUME pending' = None PROVE WriterFits(rebuilds[Background])'
    <2>1. Rows(rebuilds[Background].rows)'
      BY <1>2, <1>3, <1>7, <1>8, <1>9, WriterStays DEF Rows
    <2>2. \A g \in Dir \ j.todo : Written(g)'
      BY <1>2, <1>3, <1>9, WriterStays DEF Written, Says
    <2>3. Says(rebuilds[Background].found, rebuilds[Background].at)'
      BY <1>3, <1>6, <1>7, <1>8, <1>9, WriterStays DEF Says
    <2> QED
      BY <1>7, <1>8, <2>1, <2>2, <2>3 DEF WriterFits
  <1> QED
    BY <1>2, <1>3, <1>7, <1>9, WriterGoes

LEMMA WriterWrites ==
    ASSUME MirrorAssumption, ManifestRight, Manifests!Writes(Background)
    PROVE  ManifestRight'
  <1> DEFINE j == rebuilds[Background]
             k == [pc |-> "dirs", todo |-> j.todo \ {j.at}, rows |-> j.rows]
  <1>1. j.pc = "write"
    BY DEF Manifests!Writes
  <1>2. /\ j.todo \in SUBSET Dir /\ j.rows \in SUBSET Listing /\ j.at \in Dir
        /\ j.found \in SUBSET Entry
        /\ pending = None => /\ Rows(j.rows) /\ \A g \in Dir \ j.todo : Written(g)
                             /\ Says(j.found, j.at)
        /\ DOMAIN manifest = Dir /\ manifest = [g \in Dir |-> manifest[g]]
        /\ pending \in {None, "fresh", "due"} /\ rebuilds \in [Manifests!Proc -> Rebuild]
        /\ reachable = TRUE
    BY <1>1, WriterAt
  <1>3. /\ Manifests!Goes(Background, k) /\ pending' = pending
        /\ manifest' = [manifest EXCEPT ![j.at] = IF j.found = {} THEN None ELSE j.found]
        /\ UNCHANGED <<row, name, files, auto, reachable>>
    BY <1>2 DEF Manifests!Writes, Manifests!Same, Manifests!Quietly
  <1> HIDE DEF j
  <1>4. k \in Rebuild /\ k.pc = "dirs" /\ k.rows = j.rows /\ k.todo = j.todo \ {j.at}
    BY <1>2 DEF Rebuild
  <1> HIDE DEF k
  <1>5. rebuilds'[Background] = k
    BY <1>2, <1>3, ManifestNone DEF Manifests!Goes
  <1>6. /\ DOMAIN manifest' = Dir /\ manifest' = [g \in Dir |-> manifest'[g]]
        /\ manifest'[j.at] = (IF j.found = {} THEN None ELSE j.found)
        /\ \A g \in Dir \ {j.at} : manifest'[g] = manifest[g]
    BY <1>2, <1>3
  <1>7. ASSUME pending' = None PROVE WriterFits(rebuilds[Background])'
    <2>1. Rows(rebuilds[Background].rows)'
      BY <1>2, <1>3, <1>4, <1>5, <1>7, WriterStays DEF Rows
    <2>2. Says(j.found, j.at) /\ \A g \in Dir \ j.todo : Written(g)
      BY <1>2, <1>3, <1>7
    <2>3. ASSUME NEW g \in Dir \ (j.todo \ {j.at}) PROVE Written(g)'
      <3>1. CASE g = j.at
        <4>1. PICK s \in SUBSET Entry : s = j.found
          BY <1>2
        <4>2. Says(s, g)
          BY <2>2, <3>1, <4>1
        <4>3. Says(s, g)'
          BY <1>3, <4>2, WriterStays DEF Says
        <4>4. manifest'[g] = IF s = {} THEN None ELSE s
          BY <1>6, <3>1, <4>1
        <4> QED
          BY <4>3, <4>4 DEF Written
      <3>2. CASE g # j.at
        <4>1. Written(g) /\ manifest'[g] = manifest[g]
          BY <1>6, <2>2, <3>2
        <4> QED
          BY <1>3, <4>1, WriterStays DEF Written, Says
      <3> QED
        BY <3>1, <3>2
    <2> QED
      BY <1>4, <1>5, <2>1, <2>3 DEF WriterFits
  <1> QED
    BY <1>2, <1>3, <1>4, <1>6, <1>7, WriterGoes

LEMMA WriterEnds ==
    ASSUME MirrorAssumption, ManifestRight, Manifests!Ends(Background)
    PROVE  ManifestRight'
  <1>1. /\ rebuilds[Background].pc = "dirs" /\ rebuilds[Background].todo = {}
        /\ Manifests!Goes(Background, Manifests!Idle) /\ pending' = pending
        /\ UNCHANGED <<row, name, files, manifest, auto, reachable>>
    BY DEF Manifests!Ends, Manifests!Same, Manifests!Quietly
  <1>2. /\ pending = None => \A d \in Dir : Written(d)
        /\ DOMAIN manifest = Dir /\ manifest = [d \in Dir |-> manifest[d]]
        /\ pending \in {None, "fresh", "due"} /\ rebuilds \in [Manifests!Proc -> Rebuild]
    BY <1>1, WriterAt
  <1>3. Manifests!Idle \in Rebuild /\ Manifests!Idle.pc = "idle"
    BY DEF Manifests!Idle, Rebuild
  <1>4. rebuilds'[Background] = Manifests!Idle
    BY <1>1, <1>2, ManifestNone DEF Manifests!Goes
  <1>5. pending' = None => WriterFits(rebuilds[Background])'
    <2>1. pending' = None => \A d \in Dir : Written(d)'
      BY <1>1, <1>2, WriterStays DEF Written, Says
    <2> QED
      BY <1>3, <1>4, <2>1 DEF WriterFits
  <1> QED
    BY <1>1, <1>2, <1>3, <1>5, WriterGoes

LEMMA ManifestStep ==
    ASSUME MirrorAssumption, ManifestInv, Manifests!Next \/ UNCHANGED manifestVars
    PROVE  ManifestInv'
  <1>1. CASE UNCHANGED manifestVars
    <2>1. UNCHANGED <<row, name, files, manifest, pending, auto, reachable, rebuilds, manifestBudget>>
      BY <1>1 DEF manifestVars
    <2>2. (Steady' <=> Steady) /\ (manifestBudget \in [ops : SUBSET STRING, left : Nat])'
      BY <2>1 DEF Steady, ManifestInv
    <2>3. ASSUME Steady PROVE ManifestRight'
      <3>1. ManifestRight
        BY <2>3 DEF ManifestInv
      <3>2. row' \in [Item -> Manifests!Row] /\ \A i \in Item : RowFits(i)'
        BY <2>1, <3>1 DEF ManifestRight, ManifestType, RowFits, Gone
      <3>3. \A i \in Item : Quiet(i)' => Quiet(i)
        BY <2>1 DEF Quiet, Gone
      <3> QED
        BY <2>1, <3>1, <3>2, <3>3, ManifestQuiet
    <2> QED
      BY <2>2, <2>3 DEF ManifestInv
  <1>2. CASE Manifests!Next
    <2>1. PICK op : Manifests!Uses(op) \/ UNCHANGED manifestBudget
      BY <1>2 DEF Manifests!Next, Manifests!Labels, Manifests!Archives, Manifests!Resets,
         Manifests!FailsPartly, Manifests!Removes, Manifests!Restores, Manifests!Notices, Manifests!Looks,
         Manifests!Renames, Manifests!Merges, Manifests!Starts, Manifests!Ages, Manifests!Takes,
         Manifests!Switches, Manifests!Downs, Manifests!Ups, Manifests!Crashes, Manifests!Asks,
         Manifests!Rebuilds, Manifests!Reads, Manifests!Lists, Manifests!Writes, Manifests!Ends,
         Manifests!Same
    <2>2. ManifestBudget /\ (Steady' <=> Steady)
      BY <2>1, ManifestUses
    <2>3. ASSUME Steady PROVE ManifestRight'
      <3>1. ManifestRight
        BY <2>3 DEF ManifestInv
      <3>2. /\ ~Manifests!Switches /\ ~Manifests!Downs /\ ~Manifests!Crashes
            /\ \A p \in Users : ~Manifests!Asks(p)
            /\ \A i \in Item : ~Manifests!Restores(i) /\ ~Manifests!FailsPartly(i)
        BY <2>3 DEF Steady, Manifests!Switches, Manifests!Downs, Manifests!Crashes,
                    Manifests!Asks, Manifests!Restores, Manifests!FailsPartly, Manifests!Uses
      <3>3. ~Manifests!Ups
        BY <3>1 DEF ManifestRight, ManifestType, Manifests!Ups
      <3>4. CASE Manifests!Ages
        <4>1. pending' = "due" /\ UNCHANGED <<row, name, files, manifest, auto, reachable, rebuilds>>
          BY <3>4 DEF Manifests!Ages, Manifests!Same
        <4>2. \A i \in Item : RowFits(i)'
          BY <3>1, <4>1 DEF ManifestRight, RowFits, Gone
        <4>3. row' \in [Item -> Manifests!Row] /\ name' \in [Char -> Nat]
          BY <3>1, <4>1 DEF ManifestRight, ManifestType
        <4> QED
          BY <3>1, <4>1, <4>2, <4>3, ManifestRequests
      <3>5. ASSUME NEW p \in Users PROVE ~Manifests!Rebuilds(p)
        <4>1. rebuilds[p].pc = "idle"
          BY <3>1 DEF ManifestRight, ManifestType, Manifests!Idle
        <4>2. ~Manifests!Reads(p) /\ ~Manifests!Ends(p) /\ ~Manifests!Writes(p)
          BY <4>1 DEF Manifests!Reads, Manifests!Ends, Manifests!Writes
        <4>3. \A d \in Dir : ~Manifests!Lists(p, d)
          BY <4>1 DEF Manifests!Lists
        <4> QED
          BY <4>2, <4>3 DEF Manifests!Rebuilds
      <3>6. CASE Manifests!Rebuilds(Background)
        BY <3>1, <3>6, WriterReads, WriterLists, WriterWrites, WriterEnds DEF Manifests!Rebuilds
      <3> QED
        BY <1>2, <2>3, <3>1, <3>2, <3>3, <3>4, <3>5, <3>6, ManifestTriggers, ManifestChanges,
           ManifestStarts DEF Manifests!Next, Manifests!Proc
    <2> QED
      BY SMTT(30), <2>2, <2>3 DEF ManifestInv, ManifestBudget
  <1> QED
    BY <1>1, <1>2

LEMMA ManifestStart == MirrorAssumption /\ Manifests!Init => ManifestInv
  <1> SUFFICES ASSUME MirrorAssumption, Manifests!Init PROVE ManifestInv
    OBVIOUS
  <1> DEFINE rested == [done |-> FALSE, dir |-> None, char |-> None, missing |-> FALSE]
             kept(d, c) == [done |-> TRUE, dir |-> d, char |-> c, missing |-> FALSE]
  <1>1. manifestBudget \in [ops : SUBSET STRING, left : Nat]
    BY DEF Manifests!Init, MirrorAssumption, Manifests!ManifestAssumption
  <1>2. row \in [Item -> {kept(d, c) : d \in Dir, c \in Char} \cup {rested}]
    BY DEF Manifests!Init
  <1>3. ASSUME NEW i \in Item
        PROVE  /\ row[i] \in Manifests!Row /\ row[i].missing = FALSE
               /\ row[i].char = None => ~row[i].done /\ row[i].dir = None
               /\ row[i].done => row[i].dir \in Dir
    <2>1. row[i] = rested \/ \E d \in Dir, c \in Char : row[i] = kept(d, c)
      BY <1>2
    <2>2. CASE row[i] = rested
      BY <2>2 DEF Manifests!Row
    <2>3. ASSUME NEW d \in Dir, NEW c \in Char, row[i] = kept(d, c)
          PROVE  row[i] \in Manifests!Row /\ row[i].missing = FALSE /\ row[i].char # None
                 /\ row[i].dir \in Dir
      BY <2>3, ManifestNone DEF Manifests!Row
    <2> QED
      BY <2>1, <2>2, <2>3
  <1> HIDE DEF rested, kept
  <1>4. row \in [Item -> Manifests!Row]
    <2>1. row = [i \in Item |-> row[i]]
      BY <1>2
    <2> QED
      BY <1>3, <2>1
  <1>5. \A i \in Item : RowFits(i)
    BY <1>3 DEF RowFits
  <1>6. ManifestType
    BY <1>4, ManifestNone DEF Manifests!Init, ManifestType, Manifests!Idle, Rebuild, Manifests!Proc
  <1>7. rebuilds[Background] = [pc |-> "start"] /\ \A d \in Dir : manifest[d] = None
    BY ManifestNone DEF Manifests!Init
  <1> QED
    BY <1>1, <1>5, <1>6, <1>7 DEF ManifestInv, ManifestRight, WriterFits

-----------------------------------------------------------------------------
(* What the games say of their screenshots *)

\* A game without the bridge inside one that has it is taken for that one, as there.
Apart == \A b \in MetaBudgets : b.nested => "uninstall" \notin b.ops

Sidecar == [of : Image, ok : BOOLEAN]
\* Games that are nested keep their bridges.
Known == IF metaBudget.nested THEN {Game} ELSE SUBSET Game
Round == [pc : {"next"}, todo : SUBSET Image, left : SUBSET Metadata!Path, games : Known]
After == [pc : {"idle"}] \cup Round
Attaching == [pc : {"insert", "consume"}, i : Image, s : Metadata!Path, of : Image, then : After]
Discarding == [pc : {"weigh", "confirm", "discard"}, s : Metadata!Path, p : Metadata!Path, i : Image, of : Image,
               then : After]
MetaCall == After \cup [pc : {"list"}, seen : SUBSET Metadata!Path]
            \cup [pc : {"attach"}, i : Image, then : After] \cup Attaching \cup Discarding

MetaType ==
    /\ shots \in [Metadata!Path -> Image \cup {None}] /\ due \in [Metadata!Path -> Image \cup {None}]
    /\ sidecar \in [Metadata!Path -> Sidecar \cup {None}]
    /\ captures \in [Image -> Metadata!Capture \cup {None}]
    /\ ignored \subseteq Image /\ games \in Known
    /\ metaBudget \in [ops : SUBSET STRING, left : Nat, nested : BOOLEAN]
    /\ metaBudget.nested => "uninstall" \notin metaBudget.ops

\* Nothing more is written beside a screenshot, and what is there can be read.
Spent(s) == due[s] = None /\ (sidecar[s] = None \/ sidecar[s].ok)

\* What is said of a screenshot is said once, of its own picture.
SlotFits(s) ==
    /\ due[s] # None => due[s] = shots[s] /\ sidecar[s] = None
    /\ sidecar[s] # None => sidecar[s].of = shots[s]

CaptureFits(i) ==
    /\ i \in ignored => captures[i] = None
    /\ captures[i] # None =>
          /\ shots[captures[i].path] = i
          /\ captures[i].told \in {None, i}
          /\ captures[i].told # None => Spent(captures[i].path)

MetaRight ==
    /\ MetaType
    /\ \A s \in Metadata!Path : SlotFits(s)
    /\ \A i \in Image : CaptureFits(i)

\* A pass that has a sidecar in hand has that of the picture it looks at.
MetaFits(c) ==
    LET k == passes[c] IN
    /\ k.pc \in {"insert", "consume", "weigh", "confirm", "discard"} =>
          k.of = k.i /\ shots[k.s] = k.i /\ Spent(k.s)
    /\ k.pc = "insert" =>
          k.i \in ignored \/ (captures[k.i] # None /\ captures[k.i].path = k.s)
    /\ k.pc = "consume" =>
          k.i \in ignored \/ (captures[k.i] # None /\ captures[k.i].told = k.i)
    /\ k.pc \in {"weigh", "confirm", "discard"} => k.p = k.s
    /\ k.pc \in {"confirm", "discard"} => Metadata!Redundant(k.i, k.s)

MetaInv ==
    /\ MetaRight
    /\ passes \in [Caller -> MetaCall]
    /\ \A c \in Caller : MetaFits(c)

LEMMA MetaNone ==
    ASSUME MirrorAssumption
    PROVE  None \notin Game /\ None \notin Image /\ None \notin Metadata!Capture /\ Outer \in Game
  BY DEF MirrorAssumption, Metadata!MetadataAssumption

LEMMA MetaUses ==
    ASSUME MetaRight, NEW op, Metadata!Uses(op) \/ UNCHANGED metaBudget
    PROVE  /\ metaBudget' \in [ops : SUBSET STRING, left : Nat, nested : BOOLEAN]
           /\ metaBudget'.ops = metaBudget.ops /\ metaBudget'.nested = metaBudget.nested
           /\ Known' = Known
           /\ Metadata!Uses(op) => op \in metaBudget.ops
  <1>1. metaBudget \in [ops : SUBSET STRING, left : Nat, nested : BOOLEAN]
    BY DEF MetaRight, MetaType
  <1>2. /\ metaBudget' \in [ops : SUBSET STRING, left : Nat, nested : BOOLEAN]
        /\ metaBudget'.ops = metaBudget.ops /\ metaBudget'.nested = metaBudget.nested
    BY <1>1 DEF Metadata!Uses
  <1> QED
    BY <1>2 DEF Known, Metadata!Uses

\* A path belongs to the install of its own directory or to none.
LEMMA ResolvedAs ==
    ASSUME MirrorAssumption, NEW installed_ \in Known, NEW p \in Metadata!Path
    PROVE  /\ Metadata!Resolved(installed_, p) \in {p[1], None}
           /\ p = <<p[1], p[2]>> /\ p[1] \in Game /\ p[2] \in Name
  <1>1. p = <<p[1], p[2]>> /\ p[1] \in Game /\ p[2] \in Name
    BY DEF Metadata!Path
  <1> QED
    BY <1>1 DEF Metadata!Resolved, Known

\* What a step never does: it changes no picture, says nothing more once all is said,
\* and takes nothing back.
Forward ==
    /\ \A s \in Metadata!Path : shots[s] # None => shots'[s] = shots[s] /\ (Spent(s) => Spent(s)')
    /\ ignored \subseteq ignored'
    /\ \A i \in Image : captures[i] # None =>
          \/ i \in ignored'
          \/ /\ captures'[i] # None /\ captures'[i].path = captures[i].path
             /\ captures[i].told = None \/ captures'[i].told = captures[i].told

LEMMA MetaAt ==
    ASSUME MetaInv, NEW c \in Caller
    PROVE  /\ passes[c] \in MetaCall /\ MetaFits(c)
           /\ passes[c].pc \in {"insert", "consume"} => passes[c] \in Attaching
           /\ passes[c].pc \in {"weigh", "confirm", "discard"} => passes[c] \in Discarding
           /\ passes[c].pc = "next" => passes[c] \in Round
           /\ passes[c].pc = "list" => passes[c].seen \in SUBSET Metadata!Path
           /\ passes[c].pc = "attach" => passes[c].i \in Image /\ passes[c].then \in After
  <1>1. passes[c] \in MetaCall /\ MetaFits(c)
    BY DEF MetaInv
  <1> QED
    BY <1>1 DEF MetaCall, After, Round, Attaching, Discarding

LEMMA FitsStay ==
    ASSUME MirrorAssumption, MetaInv, MetaRight', Forward, NEW c \in Caller, passes'[c] = passes[c]
    PROVE  MetaFits(c)'
  <1> DEFINE k == passes[c]
  <1>1. \A i \in Image : i \in ignored' => captures'[i] = None
    BY DEF MetaRight, CaptureFits
  <1>2. CASE k.pc \in {"insert", "consume"}
    <2>1. k \in Attaching /\ MetaFits(c)
      BY <1>2, MetaAt
    <2>2. k.i \in Image /\ k.s \in Metadata!Path /\ k.i # None
      BY <2>1, MetaNone DEF Attaching
    <2>3. k.of = k.i /\ shots'[k.s] = k.i /\ Spent(k.s)'
      BY <1>2, <2>1, <2>2 DEF MetaFits, Forward
    <2>4. k.pc = "insert" => k.i \in ignored' \/ (captures'[k.i] # None /\ captures'[k.i].path = k.s)
      BY <2>1, <2>2 DEF MetaFits, Forward
    <2>5. k.pc = "consume" => k.i \in ignored' \/ (captures'[k.i] # None /\ captures'[k.i].told = k.i)
      BY <2>1, <2>2 DEF MetaFits, Forward
    <2> QED
      BY <1>2, <2>3, <2>4, <2>5 DEF MetaFits
  <1>3. CASE k.pc \in {"weigh", "confirm", "discard"}
    <2>1. k \in Discarding /\ MetaFits(c)
      BY <1>3, MetaAt
    <2>2. k.i \in Image /\ k.s \in Metadata!Path /\ k.i # None
      BY <2>1, MetaNone DEF Discarding
    <2>3. k.of = k.i /\ shots'[k.s] = k.i /\ Spent(k.s)' /\ k.p = k.s
      BY <1>3, <2>1, <2>2 DEF MetaFits, Forward
    <2>4. ASSUME k.pc \in {"confirm", "discard"} PROVE Metadata!Redundant(k.i, k.s)'
      <3>1. Metadata!Redundant(k.i, k.s)
        BY <2>1, <2>4 DEF MetaFits
      <3>2. CASE k.i \in ignored'
        BY <1>1, <2>2, <3>2 DEF Metadata!Redundant
      <3>3. CASE k.i \notin ignored'
        BY <2>2, <3>1, <3>3 DEF Metadata!Redundant, Forward
      <3> QED
        BY <3>2, <3>3
    <2> QED
      BY <1>3, <2>3, <2>4 DEF MetaFits
  <1>4. CASE k.pc \notin {"insert", "consume", "weigh", "confirm", "discard"}
    BY <1>4 DEF MetaFits
  <1> QED
    BY <1>2, <1>3, <1>4

\* A step of the world, and one of a pass.
LEMMA MetaWorld ==
    ASSUME MirrorAssumption, MetaInv, MetaRight', Forward, UNCHANGED passes, Known' = Known
    PROVE  MetaInv'
  <1>1. MetaCall' = MetaCall
    BY DEF MetaCall, After, Round, Attaching, Discarding
  <1> QED
    BY <1>1, FitsStay DEF MetaInv

LEMMA MetaGoes ==
    ASSUME MirrorAssumption, MetaInv, MetaRight', Forward, Known' = Known, NEW c \in Caller,
           NEW k \in MetaCall, Metadata!Goes(c, k), MetaFits(c)'
    PROVE  MetaInv'
  <1>1. MetaCall' = MetaCall
    BY DEF MetaCall, After, Round, Attaching, Discarding
  <1>2. passes' \in [Caller -> MetaCall] /\ \A d \in Caller \ {c} : passes'[d] = passes[d]
    BY DEF MetaInv, Metadata!Goes
  <1> QED
    BY <1>1, <1>2, FitsStay DEF MetaInv

\* A pass goes on, and nothing else changes.
LEMMA MetaThen ==
    ASSUME MirrorAssumption, MetaInv, NEW c \in Caller, NEW k \in MetaCall, Metadata!Goes(c, k),
           UNCHANGED <<shots, due, sidecar, captures, ignored, games, metaBudget>>, MetaFits(c)'
    PROVE  MetaInv'
  <1>1. Known' = Known
    BY DEF Known
  <1>2. Forward
    BY DEF Forward, Spent
  <1>3. MetaRight'
    <2>1. MetaType'
      BY <1>1 DEF MetaInv, MetaRight, MetaType
    <2> QED
      BY <2>1 DEF MetaInv, MetaRight, SlotFits, CaptureFits, Spent
  <1> QED
    BY <1>1, <1>2, <1>3, MetaGoes

\* What is said of a screenshot goes.
LEMMA MetaClears ==
    ASSUME MirrorAssumption, MetaInv, NEW s \in Metadata!Path,
           sidecar' = [sidecar EXCEPT ![s] = None],
           UNCHANGED <<shots, due, captures, ignored, games, metaBudget>>
    PROVE  MetaRight' /\ Forward /\ Known' = Known
  <1>1. Known' = Known
    BY DEF Known
  <1>2. sidecar \in [Metadata!Path -> Sidecar \cup {None}]
    BY DEF MetaInv, MetaRight, MetaType
  <1>3. /\ sidecar' \in [Metadata!Path -> Sidecar \cup {None}]
        /\ \A r \in Metadata!Path : sidecar'[r] = None \/ sidecar'[r] = sidecar[r]
    BY <1>2
  <1>4. \A r \in Metadata!Path : Spent(r) => Spent(r)'
    BY <1>3 DEF Spent
  <1>5. MetaType'
    BY <1>1, <1>3 DEF MetaInv, MetaRight, MetaType
  <1>6. \A r \in Metadata!Path : SlotFits(r)'
    BY <1>3 DEF MetaInv, MetaRight, SlotFits
  <1>7. ASSUME NEW i \in Image PROVE CaptureFits(i)'
    <2>1. CaptureFits(i) /\ (captures[i] # None => captures[i].path \in Metadata!Path)
      BY DEF MetaInv, MetaRight, MetaType, Metadata!Capture
    <2> QED
      BY <1>4, <2>1 DEF CaptureFits
  <1>8. Forward
    BY <1>4 DEF Forward
  <1> QED
    BY <1>1, <1>5, <1>6, <1>7, <1>8 DEF MetaRight

\* A game takes a screenshot, and says of it what it has to say.
LEMMA MetaGames ==
    ASSUME MirrorAssumption, MetaInv, NEW p \in Metadata!Path,
           Metadata!Describes(p) \/ \E i \in Image : Metadata!Shoots(p, i)
    PROVE  MetaInv'
  <1>1. MetaRight /\ MetaType /\ \A s \in Metadata!Path : SlotFits(s)
    BY DEF MetaInv, MetaRight
  <1>2. /\ UNCHANGED <<captures, ignored, games, passes>> /\ Known' = Known
        /\ metaBudget' \in [ops : SUBSET STRING, left : Nat, nested : BOOLEAN]
        /\ metaBudget'.ops = metaBudget.ops /\ metaBudget'.nested = metaBudget.nested
    BY <1>1, MetaUses DEF Metadata!Describes, Metadata!Shoots, Metadata!data
  <1>3. ASSUME NEW i \in Image, Metadata!Shoots(p, i)
        PROVE  /\ shots' \in [Metadata!Path -> Image \cup {None}]
               /\ due' \in [Metadata!Path -> Image \cup {None}] /\ sidecar' = sidecar
               /\ \A s \in Metadata!Path : SlotFits(s)'
               /\ \A s \in Metadata!Path : shots[s] # None =>
                     shots'[s] = shots[s] /\ (Spent(s) => Spent(s)')
    <2>1. /\ shots[p] = None /\ shots' = [shots EXCEPT ![p] = i] /\ sidecar' = sidecar
          /\ due' = due \/ due' = [due EXCEPT ![p] = i]
      BY <1>3 DEF Metadata!Shoots
    <2>2. /\ shots' \in [Metadata!Path -> Image \cup {None}] /\ shots'[p] = i
          /\ \A s \in Metadata!Path \ {p} : shots'[s] = shots[s]
          /\ due' \in [Metadata!Path -> Image \cup {None}] /\ due'[p] \in {due[p], i}
          /\ \A s \in Metadata!Path \ {p} : due'[s] = due[s]
      BY <1>1, <2>1 DEF MetaType
    <2>3. due[p] = None /\ sidecar[p] = None
      <3>1. SlotFits(p)
        BY <1>1
      <3>2. due[p] \in Image \cup {None} /\ sidecar[p] \in Sidecar \cup {None}
        BY <1>1 DEF MetaType
      <3>3. due[p] = None
        BY <2>1, <3>1 DEF SlotFits
      <3>4. sidecar[p] = None
        BY <2>1, <3>1, <3>2, MetaNone DEF SlotFits, Sidecar
      <3> QED
        BY <3>3, <3>4
    <2>4. ASSUME NEW s \in Metadata!Path PROVE SlotFits(s)'
      BY <1>1, <2>1, <2>2, <2>3 DEF SlotFits
    <2>5. ASSUME NEW s \in Metadata!Path, shots[s] # None
          PROVE  shots'[s] = shots[s] /\ (Spent(s) => Spent(s)')
      BY <2>1, <2>2, <2>5 DEF Spent
    <2> QED
      BY <2>1, <2>2, <2>4, <2>5
  <1>4. CASE Metadata!Describes(p)
    <2>1. PICK ok \in BOOLEAN :
             /\ due[p] # None /\ due' = [due EXCEPT ![p] = None] /\ shots' = shots
             /\ sidecar' = [sidecar EXCEPT ![p] = [of |-> due[p], ok |-> ok]]
      BY <1>4 DEF Metadata!Describes
    <2>2. due[p] \in Image /\ due[p] = shots[p]
      BY <1>1, <2>1 DEF MetaType, SlotFits
    <2>3. /\ due' \in [Metadata!Path -> Image \cup {None}] /\ due'[p] = None
          /\ \A s \in Metadata!Path \ {p} : due'[s] = due[s] /\ sidecar'[s] = sidecar[s]
          /\ sidecar' \in [Metadata!Path -> Sidecar \cup {None}] /\ sidecar'[p].of = due[p]
      BY <1>1, <2>1, <2>2 DEF MetaType, Sidecar
    <2>4. ASSUME NEW s \in Metadata!Path PROVE SlotFits(s)'
      BY <1>1, <2>1, <2>2, <2>3 DEF SlotFits
    <2>5. ASSUME NEW s \in Metadata!Path
          PROVE  Spent(s) => Spent(s)'
      BY <2>1, <2>3 DEF Spent
    <2>6. Forward
      BY <1>2, <2>1, <2>5 DEF Forward
    <2>7. MetaType'
      BY <1>1, <1>2, <2>1, <2>3 DEF MetaType
    <2>8. ASSUME NEW i \in Image PROVE CaptureFits(i)'
      <3>1. CaptureFits(i) /\ (captures[i] # None => captures[i].path \in Metadata!Path)
        BY DEF MetaInv, MetaRight, MetaType, Metadata!Capture
      <3> QED
        BY <1>2, <2>1, <2>5, <3>1 DEF CaptureFits
    <2> QED
      BY <1>2, <2>4, <2>6, <2>7, <2>8, MetaWorld DEF MetaRight
  <1>5. ASSUME NEW i \in Image, Metadata!Shoots(p, i) PROVE MetaInv'
    <2>1. Forward
      BY <1>2, <1>3, <1>5 DEF Forward
    <2>2. MetaType'
      BY <1>1, <1>2, <1>3, <1>5 DEF MetaType
    <2>3. ASSUME NEW j \in Image PROVE CaptureFits(j)'
      <3>1. CaptureFits(j) /\ (captures[j] # None => captures[j].path \in Metadata!Path) /\ j # None
        BY MetaNone DEF MetaInv, MetaRight, MetaType, Metadata!Capture
      <3> QED
        BY <1>2, <2>1, <3>1 DEF CaptureFits, Forward
    <2> QED
      BY <1>2, <1>3, <1>5, <2>1, <2>2, <2>3, MetaWorld DEF MetaRight
  <1> QED
    BY <1>4, <1>5

LEMMA MetaDeletes ==
    ASSUME MirrorAssumption, MetaInv, NEW i \in Image, Metadata!Deletes(i)
    PROVE  MetaInv'
  <1>1. MetaRight /\ MetaType /\ \A s \in Metadata!Path : SlotFits(s)
    BY DEF MetaInv, MetaRight
  <1>2. /\ UNCHANGED <<shots, due, sidecar, games, passes>> /\ Known' = Known
        /\ metaBudget' \in [ops : SUBSET STRING, left : Nat, nested : BOOLEAN]
        /\ metaBudget'.ops = metaBudget.ops /\ metaBudget'.nested = metaBudget.nested
        /\ captures' = [captures EXCEPT ![i] = None] /\ ignored' = ignored \cup {i}
    BY <1>1, MetaUses DEF Metadata!Deletes, Metadata!files
  <1>3. MetaType'
    BY <1>1, <1>2 DEF MetaType
  <1>4. captures'[i] = None /\ \A j \in Image \ {i} : captures'[j] = captures[j]
    BY <1>1, <1>2 DEF MetaType
  <1>5. Forward
    BY <1>2, <1>4 DEF Forward, Spent
  <1>6. \A s \in Metadata!Path : SlotFits(s)'
    BY <1>1, <1>2 DEF SlotFits
  <1>7. ASSUME NEW j \in Image PROVE CaptureFits(j)'
    <2>1. CaptureFits(j)
      BY DEF MetaInv, MetaRight
    <2> QED
      BY <1>2, <1>4, <2>1 DEF CaptureFits, Spent
  <1> QED
    BY <1>2, <1>3, <1>5, <1>6, <1>7, MetaWorld DEF MetaRight

LEMMA MetaUninstalls ==
    ASSUME MirrorAssumption, MetaInv, NEW g \in Game, Metadata!Uninstalls(g)
    PROVE  MetaInv'
  <1>1. MetaRight /\ MetaType /\ \A s \in Metadata!Path : SlotFits(s)
    BY DEF MetaInv, MetaRight
  <1>2. /\ UNCHANGED <<shots, due, captures, ignored, passes>> /\ Known' = Known
        /\ metaBudget' \in [ops : SUBSET STRING, left : Nat, nested : BOOLEAN]
        /\ metaBudget'.ops = metaBudget.ops /\ metaBudget'.nested = metaBudget.nested
        /\ games' = games \ {g} /\ "uninstall" \in metaBudget.ops
        /\ sidecar' = [p \in Metadata!Path |-> IF p[1] = g THEN None ELSE sidecar[p]]
    BY <1>1, MetaUses DEF Metadata!Uninstalls
  <1>3. /\ sidecar' \in [Metadata!Path -> Sidecar \cup {None}]
        /\ \A r \in Metadata!Path : sidecar'[r] = None \/ sidecar'[r] = sidecar[r]
    BY <1>1, <1>2 DEF MetaType
  <1>4. \A r \in Metadata!Path : Spent(r) => Spent(r)'
    BY <1>2, <1>3 DEF Spent
  <1>5. MetaType'
    <2>1. games' \in Known
      BY <1>1, <1>2 DEF MetaType, Known
    <2> QED
      BY <1>1, <1>2, <1>3, <2>1 DEF MetaType
  <1>6. \A r \in Metadata!Path : SlotFits(r)'
    BY <1>1, <1>2, <1>3 DEF SlotFits
  <1>7. ASSUME NEW i \in Image PROVE CaptureFits(i)'
    <2>1. CaptureFits(i) /\ (captures[i] # None => captures[i].path \in Metadata!Path)
      BY DEF MetaInv, MetaRight, MetaType, Metadata!Capture
    <2> QED
      BY <1>2, <1>4, <2>1 DEF CaptureFits
  <1>8. Forward
    BY <1>2, <1>4 DEF Forward
  <1> QED
    BY <1>2, <1>5, <1>6, <1>7, <1>8, MetaWorld DEF MetaRight

LEMMA MetaRegisters ==
    ASSUME MirrorAssumption, MetaInv, NEW c \in Caller, NEW p \in Metadata!Path,
           Metadata!Registers(c, p)
    PROVE  MetaInv'
  <1> DEFINE i == shots[p]
             r == [path |-> p, told |-> None]
             k == [pc |-> "attach", i |-> i, then |-> Metadata!Idle]
  <1>1. MetaRight /\ MetaType /\ \A s \in Metadata!Path : SlotFits(s)
    BY DEF MetaInv, MetaRight
  <1>2. /\ UNCHANGED <<shots, due, sidecar, ignored, games, metaBudget>> /\ Known' = Known
        /\ i # None /\ captures[i] = None /\ i \notin ignored
        /\ captures' = [captures EXCEPT ![i] = r] /\ Metadata!Goes(c, k)
    BY DEF Metadata!Registers, Metadata!files, Known
  <1>3. i \in Image
    BY <1>1, <1>2 DEF MetaType
  <1>4. r \in Metadata!Capture /\ r.path = p /\ r.told = None
    BY DEF Metadata!Capture
  <1>5. k \in MetaCall /\ k.pc = "attach"
    BY <1>3 DEF MetaCall, After, Metadata!Idle
  <1> HIDE DEF k, r
  <1>6. /\ captures' \in [Image -> Metadata!Capture \cup {None}] /\ captures'[i] = r
        /\ \A j \in Image \ {i} : captures'[j] = captures[j]
    BY <1>1, <1>2, <1>3, <1>4 DEF MetaType
  <1>7. MetaType'
    BY <1>1, <1>2, <1>6 DEF MetaType
  <1>8. Forward
    BY <1>2, <1>6 DEF Forward, Spent
  <1>9. \A s \in Metadata!Path : SlotFits(s)'
    BY <1>1, <1>2 DEF SlotFits
  <1>10. ASSUME NEW j \in Image PROVE CaptureFits(j)'
    <2>1. CaptureFits(j)
      BY DEF MetaInv, MetaRight
    <2> QED
      BY <1>2, <1>4, <1>6, <2>1 DEF CaptureFits, Spent
  <1>11. passes'[c] = k
    BY <1>2 DEF MetaInv, Metadata!Goes
  <1>12. MetaFits(c)'
    BY <1>5, <1>11 DEF MetaFits
  <1> QED
    BY <1>2, <1>5, <1>7, <1>8, <1>9, <1>10, <1>12, MetaGoes DEF MetaRight

\* What a pass goes on with when it is done with a capture or a file.
LEMMA AfterIdle ==
    ASSUME MetaInv, NEW c \in Caller, NEW k \in After, Metadata!Goes(c, k)
    PROVE  k \in MetaCall /\ MetaFits(c)'
  <1>1. k \in MetaCall /\ k.pc \in {"idle", "next"}
    BY DEF MetaCall, After, Round
  <1>2. passes'[c] = k
    BY DEF MetaInv, Metadata!Goes
  <1> QED
    BY <1>1, <1>2 DEF MetaFits

LEMMA MetaLooks ==
    ASSUME MirrorAssumption, MetaInv, NEW c \in Caller, Metadata!Looks(c)
    PROVE  MetaInv'
  <1> DEFINE j == passes[c]
  <1>1. /\ j.pc = "attach"
        /\ UNCHANGED <<shots, due, captures, ignored, games, metaBudget>>
    BY DEF Metadata!Looks, Metadata!data
  <1>2. j.i \in Image /\ j.then \in After
    BY <1>1, MetaAt
  <1> DEFINE s == <<Metadata!Resolved(games, captures[j.i].path), captures[j.i].path[2]>>
  <1>0. PICK i \in Image : i = j.i
    BY <1>2
  <1>3. CaptureFits(i) /\ captures[i] \in Metadata!Capture \cup {None} /\ games \in Known
    BY DEF MetaInv, MetaRight, MetaType
  <1>4. CASE captures[i] = None \/ s[1] = None
    <2>1. Metadata!Goes(c, j.then) /\ sidecar' = sidecar
      BY <1>0, <1>4 DEF Metadata!Looks
    <2> QED
      BY <1>1, <1>2, <2>1, AfterIdle, MetaThen
  <1>5. CASE captures[i] # None /\ s[1] # None
    <2>1. PICK p \in Metadata!Path : p = captures[i].path
      BY <1>3, <1>5 DEF Metadata!Capture
    <2>2. s = p
      BY <1>0, <1>3, <1>5, <2>1, ResolvedAs
    <2>3. SlotFits(p) /\ sidecar[p] \in Sidecar \cup {None}
      BY <2>1 DEF MetaInv, MetaRight, MetaType
    <2>4. shots[p] = i
      BY <1>3, <1>5, <2>1 DEF CaptureFits
    <2>5. CASE captures[i].told # None
      <3>1. Metadata!Goes(c, j.then) /\ sidecar' = [sidecar EXCEPT ![p] = None]
        BY <1>0, <1>5, <2>2, <2>5 DEF Metadata!Looks
      <3>2. MetaRight' /\ Forward /\ Known' = Known
        BY <1>1, <2>1, <3>1, MetaClears
      <3> QED
        BY <1>2, <3>1, <3>2, AfterIdle, MetaGoes
    <2>6. CASE captures[i].told = None /\ (sidecar[p] = None \/ ~sidecar[p].ok)
      <3>1. Metadata!Goes(c, j.then) /\ sidecar' = sidecar
        BY <1>0, <1>5, <2>2, <2>6 DEF Metadata!Looks
      <3> QED
        BY <1>1, <1>2, <3>1, AfterIdle, MetaThen
    <2>7. CASE captures[i].told = None /\ sidecar[p] # None /\ sidecar[p].ok
      <3> DEFINE k == [pc |-> "insert", i |-> i, s |-> p, of |-> sidecar[p].of, then |-> j.then]
      <3>1. Metadata!Goes(c, k) /\ sidecar' = sidecar
        BY <1>0, <1>5, <2>2, <2>7 DEF Metadata!Looks
      <3>2. sidecar[p].of = i
        BY <2>3, <2>4, <2>7 DEF SlotFits
      <3>3. k \in Attaching
        BY <1>2, <2>1, <3>2 DEF Attaching
      <3>4. k \in MetaCall /\ k.pc = "insert" /\ k.i = i /\ k.s = p /\ k.of = i
        BY <3>2, <3>3 DEF MetaCall
      <3> HIDE DEF k
      <3>5. passes'[c] = k
        BY <3>1 DEF MetaInv, Metadata!Goes
      <3>6. Spent(p)'
        BY <1>1, <2>3, <2>7, <3>1 DEF Spent, SlotFits
      <3>7. MetaFits(c)'
        BY <1>1, <1>5, <2>1, <2>4, <3>1, <3>4, <3>5, <3>6 DEF MetaFits
      <3> QED
        BY <1>1, <3>1, <3>4, <3>7, MetaThen
    <2> QED
      BY <2>5, <2>6, <2>7
  <1> QED
    BY <1>4, <1>5

LEMMA MetaInserts ==
    ASSUME MirrorAssumption, MetaInv, NEW c \in Caller, Metadata!Inserts(c)
    PROVE  MetaInv'
  <1> DEFINE j == passes[c]
             k == [j EXCEPT !.pc = "consume"]
  <1>1. /\ j.pc = "insert" /\ UNCHANGED <<shots, due, sidecar, ignored, games, metaBudget>>
        /\ Known' = Known
    BY DEF Metadata!Inserts, Metadata!files, Known
  <1>2. /\ j \in Attaching /\ j.of = j.i /\ shots[j.s] = j.i /\ Spent(j.s)
        /\ j.i \in ignored \/ (captures[j.i] # None /\ captures[j.i].path = j.s)
    BY <1>1, MetaAt DEF MetaFits
  <1>3. j.i \in Image /\ j.s \in Metadata!Path /\ j.then \in After /\ j.i # None
    BY <1>2, MetaNone DEF Attaching
  <1>4. /\ CaptureFits(j.i) /\ captures \in [Image -> Metadata!Capture \cup {None}]
        /\ MetaType /\ \A s \in Metadata!Path : SlotFits(s)
    BY <1>3 DEF MetaInv, MetaRight, MetaType
  <1>5. CASE captures[j.i] = None
    <2>1. Metadata!Goes(c, j.then) /\ captures' = captures
      BY <1>5 DEF Metadata!Inserts
    <2> QED
      BY <1>1, <1>3, <2>1, AfterIdle, MetaThen
  <1>6. CASE captures[j.i] # None
    <2>0. PICK i \in Image : i = j.i
      BY <1>3
    <2>1. captures' = [captures EXCEPT ![i].told = IF @ = None THEN j.of ELSE @]
          /\ Metadata!Goes(c, k)
      BY <2>0, <1>6 DEF Metadata!Inserts
    <2>2. captures[i].path = j.s /\ captures[i] \in Metadata!Capture
          /\ captures[i].told \in {None, i}
      BY <2>0, <1>2, <1>3, <1>4, <1>6 DEF CaptureFits
    <2>3. k \in Attaching /\ k.pc = "consume" /\ k.i = i /\ k.s = j.s /\ k.of = i
      BY <2>0, <1>2 DEF Attaching
    <2>4. k \in MetaCall
      BY <2>3 DEF MetaCall
    <2> HIDE DEF k, j
    <2>5. captures' = [captures EXCEPT ![i] = [captures[i] EXCEPT !.told = i]]
      BY <2>0, <1>2, <2>1, <2>2 DEF Metadata!Capture
    <2> DEFINE r == [captures[i] EXCEPT !.told = i]
    <2>6. r \in Metadata!Capture /\ r.path = captures[i].path /\ r.told = i
      BY <1>3, <2>2 DEF Metadata!Capture
    <2> HIDE DEF r
    <2>7. /\ captures' \in [Image -> Metadata!Capture \cup {None}] /\ captures'[i] = r
          /\ \A h \in Image \ {i} : captures'[h] = captures[h]
      BY <1>3, <1>4, <2>5, <2>6 DEF r
    <2>8. MetaType'
      BY <1>1, <1>4, <2>7 DEF MetaType
    <2>9. r # None
      BY <2>6, MetaNone
    <2>10. Forward
      BY <1>1, <1>3, <2>2, <2>6, <2>7, <2>9 DEF Forward, Spent
    <2>11. \A s \in Metadata!Path : SlotFits(s)'
      BY <1>1, <1>4 DEF SlotFits
    <2>12. CaptureFits(i)'
      <3>1. PICK s \in Metadata!Path : s = j.s
        BY <1>3
      <3>2. i \notin ignored /\ Spent(s)' /\ shots[s] = i /\ captures[i].path = s
        BY <2>0, <1>1, <1>2, <1>4, <1>6, <2>2, <3>1 DEF CaptureFits, Spent
      <3> QED
        BY <1>1, <2>6, <2>7, <3>2 DEF CaptureFits
    <2>13. ASSUME NEW h \in Image \ {i} PROVE CaptureFits(h)'
      <3>1. CaptureFits(h)
        BY DEF MetaInv, MetaRight
      <3> QED
        BY <1>1, <2>7, <3>1 DEF CaptureFits, Spent
    <2>14. MetaRight'
      BY <2>8, <2>11, <2>12, <2>13 DEF MetaRight
    <2>15. passes'[c] = k
      BY <2>1 DEF MetaInv, Metadata!Goes
    <2>16. PICK s \in Metadata!Path : s = j.s
      BY <1>3
    <2>17. Spent(s)' /\ k.s = s /\ shots'[s] = i
      BY <2>0, <1>1, <1>2, <2>3, <2>16 DEF Spent
    <2>18. MetaFits(c)'
      BY <2>3, <2>6, <2>7, <2>9, <2>15, <2>17 DEF MetaFits
    <2> QED
      BY <1>1, <2>1, <2>4, <2>10, <2>14, <2>18, MetaGoes
  <1> QED
    BY <1>5, <1>6

\* The file is gone, and the pass goes on.
LEMMA MetaRemoves ==
    ASSUME MirrorAssumption, MetaInv, NEW c \in Caller, Metadata!Consumes(c) \/ Metadata!Discards(c)
    PROVE  MetaInv'
  <1>1. /\ passes[c].pc \in {"consume", "discard"}
        /\ sidecar' = [sidecar EXCEPT ![passes[c].s] = None] /\ Metadata!Goes(c, passes[c].then)
        /\ UNCHANGED <<shots, due, captures, ignored, games, metaBudget>>
    BY DEF Metadata!Consumes, Metadata!Discards, Metadata!data
  <1>2. passes[c].s \in Metadata!Path /\ passes[c].then \in After
    BY <1>1, MetaAt DEF Attaching, Discarding
  <1>3. MetaRight' /\ Forward /\ Known' = Known
    BY <1>1, <1>2, MetaClears
  <1> QED
    BY <1>1, <1>2, <1>3, AfterIdle, MetaGoes

\* The screenshot a file may describe is the one beside it.
LEMMA TheSource ==
    ASSUME MirrorAssumption, NEW known \in Known, NEW s \in Metadata!Path,
           NEW sources, sources = {p \in Metadata!Path : /\ p[2] = s[2] /\ shots[p] # None
                                                        /\ Metadata!Resolved(known, p) = s[1]},
           \E q \in sources : sources = {q}
    PROVE  (CHOOSE q \in sources : TRUE) = s /\ shots[s] # None
  <1>1. s[1] \in Game /\ s = <<s[1], s[2]>>
    BY DEF Metadata!Path
  <1>2. \A p \in sources : p = s
    BY <1>1, ResolvedAs, MetaNone
  <1>3. sources # {}
    OBVIOUS
  <1>4. sources = {s}
    BY <1>2, <1>3
  <1> QED
    BY <1>4

LEMMA MetaRounds ==
    ASSUME MirrorAssumption, MetaInv, NEW c \in Caller,
           \/ Metadata!Lists(c) \/ Metadata!Retries(c) \/ Metadata!NextCapture(c) \/ Metadata!Ends(c)
    PROVE  MetaInv'
  <1>1. UNCHANGED <<shots, due, sidecar, captures, ignored, games, metaBudget>>
    BY DEF Metadata!Lists, Metadata!Retries, Metadata!NextCapture, Metadata!Ends, Metadata!files,
           Metadata!data
  <1>2. games \in Known /\ passes[c] \in MetaCall
    BY MetaAt DEF MetaInv, MetaRight, MetaType
  <1>3. PICK k \in MetaCall : /\ Metadata!Goes(c, k)
                             /\ k.pc \in {"list", "next", "attach", "idle"}
    <2>1. CASE Metadata!Lists(c)
      <3> DEFINE seen == {s \in Metadata!Path : s[1] \in games /\ sidecar[s] # None}
      <3>1. Metadata!Goes(c, [pc |-> "list", seen |-> seen])
        BY <2>1 DEF Metadata!Lists
      <3>2. [pc |-> "list", seen |-> seen] \in MetaCall
        BY DEF MetaCall
      <3> QED
        BY <3>1, <3>2
    <2>2. CASE Metadata!Retries(c)
      <3> DEFINE k == [pc |-> "next", todo |-> Metadata!Pending(passes[c].seen),
                       left |-> passes[c].seen, games |-> games]
      <3>1. Metadata!Goes(c, k) /\ passes[c].seen \in SUBSET Metadata!Path
        BY <2>2, MetaAt DEF Metadata!Retries
      <3>2. Metadata!Pending(passes[c].seen) \in SUBSET Image
        BY DEF Metadata!Pending
      <3>3. k \in Round
        BY <1>2, <3>1, <3>2 DEF Round
      <3>4. k \in MetaCall
        BY <3>3 DEF MetaCall, After
      <3> QED
        BY <3>1, <3>4
    <2>3. CASE Metadata!NextCapture(c)
      <3>1. passes[c] \in Round
        BY <2>3, MetaAt DEF Metadata!NextCapture
      <3>2. PICK i \in passes[c].todo :
               Metadata!Goes(c, [pc |-> "attach", i |-> i,
                                 then |-> [passes[c] EXCEPT !.todo = @ \ {i}]])
        BY <2>3 DEF Metadata!NextCapture
      <3>3. i \in Image /\ [passes[c] EXCEPT !.todo = @ \ {i}] \in Round
        BY <3>1 DEF Round
      <3>4. [pc |-> "attach", i |-> i, then |-> [passes[c] EXCEPT !.todo = @ \ {i}]] \in MetaCall
        BY <3>3 DEF MetaCall, After
      <3> QED
        BY <3>2, <3>4
    <2>4. CASE Metadata!Ends(c)
      BY <2>4 DEF Metadata!Ends, Metadata!Idle, MetaCall, After
    <2> QED
      BY <2>1, <2>2, <2>3, <2>4
  <1>4. MetaFits(c)'
    <2>1. passes'[c] = k
      BY <1>3 DEF MetaInv, Metadata!Goes
    <2> QED
      BY <1>3, <2>1 DEF MetaFits
  <1> QED
    BY <1>1, <1>3, <1>4, MetaThen

LEMMA MetaNextFile ==
    ASSUME MirrorAssumption, MetaInv, NEW c \in Caller, Metadata!NextFile(c)
    PROVE  MetaInv'
  <1> DEFINE j == passes[c]
  <1>1. j.pc = "next" /\ UNCHANGED <<shots, due, sidecar, captures, ignored, games, metaBudget>>
    BY DEF Metadata!NextFile, Metadata!files, Metadata!data
  <1>2. j \in Round
    BY <1>1, MetaAt
  <1>3. PICK s \in j.left :
           LET rest == [j EXCEPT !.left = @ \ {s}]
               sources == {p \in Metadata!Path : /\ p[2] = s[2] /\ shots[p] # None
                                                /\ Metadata!Resolved(j.games, p) = s[1]}
               p == CHOOSE q \in sources : TRUE
           IN  Metadata!Goes(c, IF sidecar[s] # None /\ sidecar[s].ok /\ (\E q \in sources : sources = {q})
                                THEN [pc |-> "weigh", s |-> s, p |-> p, i |-> shots[p],
                                      of |-> sidecar[s].of, then |-> rest]
                                ELSE rest)
    BY DEF Metadata!NextFile
  <1> DEFINE rest == [j EXCEPT !.left = @ \ {s}]
             sources == {p \in Metadata!Path : /\ p[2] = s[2] /\ shots[p] # None
                                              /\ Metadata!Resolved(j.games, p) = s[1]}
             k == [pc |-> "weigh", s |-> s, p |-> CHOOSE q \in sources : TRUE,
                   i |-> shots[CHOOSE q \in sources : TRUE], of |-> sidecar[s].of, then |-> rest]
  <1>4. s \in Metadata!Path /\ rest \in Round /\ j.games \in Known
    BY <1>2 DEF Round
  <1>5. rest \in After
    BY <1>4 DEF After
  <1> HIDE DEF rest
  <1>6. CASE sidecar[s] # None /\ sidecar[s].ok /\ (\E q \in sources : sources = {q})
    <2>1. Metadata!Goes(c, k)
      BY <1>3, <1>6 DEF rest
    <2>2. (CHOOSE q \in sources : TRUE) = s /\ shots[s] # None
      <3>1. \E q \in sources : sources = {q}
        BY <1>6
      <3>2. \A S : /\ S = {p \in Metadata!Path : /\ p[2] = s[2] /\ shots[p] # None
                                                 /\ Metadata!Resolved(j.games, p) = s[1]}
                   /\ \E q \in S : S = {q}
                   => (CHOOSE q \in S : TRUE) = s /\ shots[s] # None
        BY <1>4, TheSource
      <3> QED
        BY <3>1, <3>2
    <2>3. SlotFits(s) /\ sidecar[s] \in Sidecar \cup {None} /\ shots[s] \in Image
      BY <1>4, <2>2 DEF MetaInv, MetaRight, MetaType
    <2>4. k = [pc |-> "weigh", s |-> s, p |-> s, i |-> shots[s], of |-> sidecar[s].of,
               then |-> rest]
      BY <2>2
    <2> HIDE DEF k, sources
    <2>5. k \in Discarding /\ k.pc = "weigh" /\ k.s = s /\ k.p = s /\ k.i = shots[s] /\ k.of = shots[s]
      BY <1>4, <1>5, <1>6, <2>3, <2>4 DEF Discarding, SlotFits, Sidecar
    <2>6. k \in MetaCall
      BY <2>5 DEF MetaCall
    <2>7. Spent(s)'
      BY <1>1, <1>6, <2>3 DEF SlotFits, Spent
    <2>8. passes'[c] = k
      BY <2>1 DEF MetaInv, Metadata!Goes
    <2>9. MetaFits(c)'
      BY <1>1, <2>5, <2>7, <2>8 DEF MetaFits
    <2> QED
      BY <1>1, <2>1, <2>6, <2>9, MetaThen
  <1>7. CASE ~(sidecar[s] # None /\ sidecar[s].ok /\ (\E q \in sources : sources = {q}))
    <2>1. Metadata!Goes(c, rest)
      BY <1>3, <1>7 DEF rest
    <2> QED
      BY <1>1, <1>5, <2>1, AfterIdle, MetaThen
  <1> QED
    BY <1>6, <1>7

LEMMA MetaWeighs ==
    ASSUME MirrorAssumption, MetaInv, NEW c \in Caller, Metadata!Weighs(c) \/ Metadata!Confirms(c)
    PROVE  MetaInv'
  <1> DEFINE j == passes[c]
  <1>1. /\ j.pc \in {"weigh", "confirm"}
        /\ UNCHANGED <<shots, due, sidecar, captures, ignored, games, metaBudget>>
    BY DEF Metadata!Weighs, Metadata!Confirms, Metadata!files, Metadata!data
  <1>2. j \in Discarding /\ MetaFits(c)
    BY <1>1, MetaAt
  <1>3. \/ Metadata!Goes(c, j.then)
        \/ \E pc \in {"confirm", "discard"} : /\ Metadata!Goes(c, [j EXCEPT !.pc = pc])
                                              /\ Metadata!Redundant(j.i, j.s)
    BY <1>1, <1>2 DEF Metadata!Weighs, Metadata!Confirms, MetaFits
  <1>4. CASE Metadata!Goes(c, j.then)
    <2>1. j.then \in After
      BY <1>2 DEF Discarding
    <2> QED
      BY <1>1, <1>4, <2>1, AfterIdle, MetaThen
  <1>5. ASSUME NEW pc \in {"confirm", "discard"}, Metadata!Goes(c, [j EXCEPT !.pc = pc]),
               Metadata!Redundant(j.i, j.s)
        PROVE  MetaInv'
    <2> DEFINE k == [j EXCEPT !.pc = pc]
    <2>1. PICK i \in Image, s \in Metadata!Path : i = j.i /\ s = j.s
      BY <1>2 DEF Discarding
    <2>2. /\ j.of = i /\ j.p = s /\ shots[s] = i /\ Spent(s) /\ Metadata!Redundant(i, s)
      BY <1>1, <1>2, <1>5, <2>1 DEF MetaFits
    <2>3. k \in Discarding /\ k.pc = pc /\ k.i = i /\ k.s = s /\ k.of = i /\ k.p = s
      BY <1>2, <2>1, <2>2 DEF Discarding
    <2>4. k \in MetaCall
      BY <2>3 DEF MetaCall
    <2>5. passes'[c] = k
      BY <1>5 DEF MetaInv, Metadata!Goes
    <2> HIDE DEF k, j
    <2>6. Spent(s)' /\ shots'[s] = i /\ Metadata!Redundant(i, s)'
      BY <1>1, <2>2 DEF Spent, Metadata!Redundant
    <2>7. MetaFits(c)'
      BY <2>3, <2>5, <2>6 DEF MetaFits
    <2> QED
      BY <1>1, <1>5, <2>4, <2>7, MetaThen DEF k
  <1> QED
    BY <1>3, <1>4, <1>5

LEMMA MetaStep ==
    ASSUME MirrorAssumption, MetaInv, Metadata!Next \/ UNCHANGED metaVars
    PROVE  MetaInv'
  <1>1. CASE UNCHANGED metaVars
    <2>1. /\ UNCHANGED <<shots, due, sidecar, captures, ignored, games, passes, metaBudget>>
      BY <1>1 DEF metaVars
    <2>2. Known' = Known
      BY <2>1 DEF Known
    <2>3. Forward
      BY <2>1 DEF Forward, Spent
    <2>4. MetaType'
      BY <2>1, <2>2 DEF MetaInv, MetaRight, MetaType
    <2>5. MetaRight'
      BY <2>1, <2>4 DEF MetaInv, MetaRight, SlotFits, CaptureFits, Spent
    <2> QED
      BY <2>1, <2>2, <2>3, <2>5, MetaWorld
  <1>2. CASE Metadata!Next
    BY <1>2, MetaGames, MetaDeletes, MetaUninstalls, MetaRegisters, MetaLooks, MetaInserts,
       MetaRemoves, MetaRounds, MetaNextFile, MetaWeighs DEF Metadata!Next
  <1> QED
    BY <1>1, <1>2

LEMMA MetaStart ==
    ASSUME MirrorAssumption, Apart, Metadata!Init
    PROVE  MetaInv
  <1>1. /\ metaBudget \in MetaBudgets
        /\ metaBudget \in [ops : SUBSET STRING, left : Nat, nested : BOOLEAN]
    BY DEF Metadata!Init, MirrorAssumption, Metadata!MetadataAssumption
  <1>2. games \in Known
    BY <1>1, MetaNone DEF Metadata!Init, Known
  <1>3. MetaType
    BY <1>1, <1>2 DEF Metadata!Init, MetaType, Apart
  <1>4. MetaRight
    BY <1>3 DEF Metadata!Init, MetaRight, SlotFits, CaptureFits
  <1> QED
    BY <1>4 DEF Metadata!Init, MetaInv, MetaFits, Metadata!Idle, MetaCall, After

\* What goes was said of a picture that has it or is known otherwise.
LEMMA MetaKnownGoes ==
    ASSUME MirrorAssumption, MetaInv, Metadata!Next \/ UNCHANGED metaVars
    PROVE  Metadata!KnownGoes
  <1> SUFFICES ASSUME NEW s \in Metadata!Path, sidecar[s] # None, sidecar'[s] = None, games' = games
               PROVE  /\ sidecar[s].ok
                      /\ \/ sidecar[s].of \in ignored
                         \/ /\ captures[sidecar[s].of] # None
                            /\ \/ captures[sidecar[s].of].told = sidecar[s].of
                               \/ captures[sidecar[s].of].path # s
    BY DEF Metadata!KnownGoes
  <1>1. MetaType /\ SlotFits(s) /\ \A i \in Image : CaptureFits(i)
    BY DEF MetaInv, MetaRight
  <1>2. sidecar[s].of = shots[s]
    BY <1>1 DEF SlotFits
  <1>3. /\ sidecar \in [Metadata!Path -> Sidecar \cup {None}] /\ games \in Known
        /\ captures \in [Image -> Metadata!Capture \cup {None}]
    BY <1>1 DEF MetaType
  <1>4. ASSUME NEW c \in Caller, Metadata!Looks(c)
        PROVE  sidecar[s].ok /\ captures[shots[s]] # None /\ captures[shots[s]].told = shots[s]
    <2>1. passes[c].pc = "attach"
      BY <1>4 DEF Metadata!Looks
    <2>2. PICK i \in Image : i = passes[c].i
      BY <2>1, MetaAt
    <2> DEFINE p == captures[i].path
               r == <<Metadata!Resolved(games, p), p[2]>>
    <2>3. /\ captures[i] # None /\ r[1] # None /\ captures[i].told # None
          /\ sidecar' = [sidecar EXCEPT ![r] = None]
      BY <1>4, <2>2 DEF Metadata!Looks
    <2>4. p \in Metadata!Path
      BY <1>3, <2>3 DEF Metadata!Capture
    <2>5. r = p
      BY <1>3, <2>3, <2>4, ResolvedAs
    <2>6. s = p
      BY <1>3, <2>3, <2>4, <2>5
    <2>7. CaptureFits(i)
      BY <1>1
    <2> QED
      BY <2>3, <2>6, <2>7 DEF CaptureFits, Spent
  <1>5. ASSUME NEW c \in Caller, Metadata!Consumes(c)
        PROVE  /\ sidecar[s].ok
               /\ \/ shots[s] \in ignored
                  \/ captures[shots[s]] # None /\ captures[shots[s]].told = shots[s]
    <2>1. passes[c].pc = "consume" /\ sidecar' = [sidecar EXCEPT ![passes[c].s] = None]
      BY <1>5 DEF Metadata!Consumes
    <2>2. passes[c].s \in Metadata!Path /\ MetaFits(c)
      BY <2>1, MetaAt DEF Attaching
    <2>3. s = passes[c].s
      BY <1>3, <2>1, <2>2
    <2> QED
      BY <2>1, <2>2, <2>3 DEF MetaFits, Spent
  <1>6. ASSUME NEW c \in Caller, Metadata!Discards(c)
        PROVE  /\ sidecar[s].ok
               /\ \/ shots[s] \in ignored
                  \/ /\ captures[shots[s]] # None
                     /\ captures[shots[s]].told = shots[s] \/ captures[shots[s]].path # s
    <2>1. passes[c].pc = "discard" /\ sidecar' = [sidecar EXCEPT ![passes[c].s] = None]
      BY <1>6 DEF Metadata!Discards
    <2>2. passes[c] \in Discarding /\ MetaFits(c)
      BY <2>1, MetaAt
    <2>3. passes[c].s \in Metadata!Path /\ passes[c].i \in Image
      BY <2>2 DEF Discarding
    <2>4. s = passes[c].s
      BY <1>3, <2>1, <2>3
    <2>5. shots[s] = passes[c].i /\ Spent(s) /\ Metadata!Redundant(shots[s], s)
      BY <2>1, <2>2, <2>4 DEF MetaFits
    <2>6. CaptureFits(shots[s])
      BY <1>1, <2>3, <2>5
    <2> QED
      BY <2>5, <2>6 DEF Spent, Metadata!Redundant, CaptureFits
  <1>7. CASE sidecar' = sidecar
    BY <1>7
  <1>8. ASSUME NEW p \in Metadata!Path, Metadata!Describes(p) PROVE sidecar'[s] = sidecar[s]
    <2>1. p # s
      BY <1>1, <1>8 DEF Metadata!Describes, SlotFits
    <2> QED
      BY <1>3, <1>8, <2>1 DEF Metadata!Describes
  <1>9. ASSUME NEW g \in Game PROVE ~Metadata!Uninstalls(g)
    BY DEF Metadata!Uninstalls
  <1>10. CASE UNCHANGED metaVars
    BY <1>7, <1>10 DEF metaVars
  <1>11. ASSUME NEW p \in Metadata!Path, NEW i \in Image, Metadata!Shoots(p, i)
         PROVE  sidecar' = sidecar
    BY <1>11 DEF Metadata!Shoots
  <1>12. ASSUME NEW i \in Image, Metadata!Deletes(i) PROVE sidecar' = sidecar
    BY <1>12 DEF Metadata!Deletes, Metadata!files
  <1>13. ASSUME NEW c \in Caller,
                \/ \E p \in Metadata!Path : Metadata!Registers(c, p)
                \/ Metadata!Inserts(c) \/ Metadata!Lists(c) \/ Metadata!Retries(c)
                \/ Metadata!NextCapture(c) \/ Metadata!NextFile(c) \/ Metadata!Weighs(c)
                \/ Metadata!Confirms(c) \/ Metadata!Ends(c)
         PROVE  sidecar' = sidecar
    BY <1>13 DEF Metadata!Registers, Metadata!Inserts, Metadata!Lists, Metadata!Retries,
       Metadata!NextCapture, Metadata!NextFile, Metadata!Weighs, Metadata!Confirms, Metadata!Ends,
       Metadata!files
  <1> QED
    BY <1>2, <1>4, <1>5, <1>6, <1>7, <1>8, <1>9, <1>10, <1>11, <1>12, <1>13 DEF Metadata!Next

-----------------------------------------------------------------------------
(* The services beside each other *)

\* A step is one of a service's, or nothing happens to it.
LEMMA EachAlone ==
    ASSUME [Next]_vars
    PROVE  /\ Notes!Next \/ UNCHANGED noteVars
           /\ Manifests!Next \/ UNCHANGED manifestVars
           /\ Bridge!Next \/ UNCHANGED bridgeVars
           /\ Metadata!Next \/ UNCHANGED metaVars
  <1>1. CASE Next
    BY <1>1 DEF Next, NotesNext, ManifestsNext, BridgeNext, MetadataNext
  <1>2. CASE UNCHANGED vars
    BY <1>2 DEF vars
  <1> QED
    BY <1>1, <1>2

\* Neither what the user wrote nor what another program wrote to the note is lost,
\* whatever runs beside the synchronisation (notes_sync_service).
THEOREM NotesKept == ASSUME MirrorAssumption PROVE Spec => []NothingLost
  <1>1. Init => NoteInv
    BY NoteStart DEF Init
  <1>2. NoteInv /\ [Next]_vars => NoteInv'
    BY NoteStep, EachAlone
  <1>3. NoteInv => NothingLost
    BY DEF NoteInv, NothingLost, Notes!NothingLost
  <1> QED
    BY <1>1, <1>2, <1>3, PTL DEF Spec

\* What the program has in a game directory is recorded, so that it can be replaced
\* and removed, and the bridges are told what is saved (renpy_bridge_service).
THEOREM BridgeRegistered == ASSUME MirrorAssumption PROVE Spec => []BridgeOwned
  <1>1. Init => BridgeInv
    BY BridgeStart DEF Init
  <1>2. BridgeInv /\ [Next]_vars => BridgeInv'
    BY BridgeStep, EachAlone
  <1>3. BridgeInv => BridgeOwned
    <2> SUFFICES ASSUME BridgeInv PROVE Bridge!BridgeOwned
      BY DEF BridgeOwned
    <2>1. locks.bridge = None => Clean
      BY BridgeFree, BridgeNone
    <2>2. locks.policy = None => Told
      BY DEF BridgeInv
    <2> QED
      BY <2>1, <2>2 DEF Bridge!BridgeOwned, Clean, Told, Tells, Registered, Reliable, Targets
  <1> QED
    BY <1>1, <1>2, <1>3, PTL DEF Spec

\* No command replaces or removes a file of the user, and an uninstall leaves nothing
\* (ensure_target_is_ours, remove_verified_files).
THEOREM UninstallLeavesNothing == ASSUME MirrorAssumption PROVE Spec => UninstallExact
  <1>1. Init => BridgeInv
    BY BridgeStart DEF Init
  <1>2. BridgeInv /\ [Next]_vars => BridgeInv'
    BY BridgeStep, EachAlone
  <1>3. BridgeInv /\ [Next]_vars => (OnlyOthers /\ NothingStays) \/ UNCHANGED Bridge!vars
    BY BridgeExact, EachAlone DEF bridgeVars, Bridge!vars
  <1> QED
    BY <1>1, <1>2, <1>3, PTL DEF Spec, UninstallExact, Bridge!UninstallExact, OnlyOthers, NothingStays

\* Once nothing is under way, the manifests say what is archived and under which names
\* (archive_manifest_service).
THEOREM ManifestsRight == ASSUME MirrorAssumption PROVE Spec => []ManifestTrue
  <1>1. Init => ManifestInv
    BY ManifestStart DEF Init
  <1>2. ManifestInv /\ [Next]_vars => ManifestInv'
    BY ManifestStep, EachAlone
  <1>3. ManifestInv => ManifestTrue
    <2> SUFFICES ASSUME ManifestInv, Manifests!Settled, Steady, NEW d \in Dir
                 PROVE  manifest[d] = IF Manifests!Described(d) = {} THEN None
                                      ELSE Manifests!Described(d)
      BY DEF ManifestTrue, Manifests!ManifestTrue, Steady
    <2>1. \A i \in Item : Quiet(i)
      BY DEF Manifests!Settled, Quiet, Gone
    <2>2. rebuilds[Background].pc = "idle" /\ pending = None
      BY ManifestNone DEF Manifests!Settled, Manifests!Idle
    <2>3. Written(d)
      BY <2>2 DEF ManifestInv, ManifestRight, WriterFits
    <2>4. PICK s \in SUBSET Entry : manifest[d] = (IF s = {} THEN None ELSE s) /\ Says(s, d)
      BY <2>3 DEF Written
    <2>5. Manifests!Described(d) \subseteq Entry
      <3>1. row \in [Item -> Manifests!Row] /\ name \in [Char -> Nat]
        BY DEF ManifestInv, ManifestRight, ManifestType
      <3>2. ASSUME NEW i \in Item
            PROVE  <<i, row[i].char, IF row[i].char = None THEN 0 ELSE name[row[i].char]>> \in Entry
        <4>1. row[i].char \in Char \cup {None}
          BY <3>1 DEF Manifests!Row
        <4> QED
          BY <3>1, <4>1 DEF Entry
      <3> QED
        BY <3>2 DEF Manifests!Described
    <2>6. \A e \in Entry : e \in s <=> e \in Manifests!Described(d)
      BY <2>1, <2>4 DEF Says, Entry
    <2>7. s = Manifests!Described(d)
      BY <2>4, <2>5, <2>6
    <2> QED
      BY <2>4, <2>7
  <1> QED
    BY <1>1, <1>2, <1>3, PTL DEF Spec

\* A capture is told only what was said of its own picture, and what was said goes only
\* when its picture has it or is known otherwise (engine_metadata_service). Games that
\* lie within each other keep their bridges here.
THEOREM SidecarsAreExact == ASSUME MirrorAssumption, Apart PROVE Spec => SidecarsExact
  <1>1. Init => MetaInv
    BY MetaStart DEF Init
  <1>2. MetaInv /\ [Next]_vars => MetaInv'
    BY MetaStep, EachAlone
  <1>3. MetaInv => Metadata!ToldOwn
    BY DEF MetaInv, MetaRight, CaptureFits, Metadata!ToldOwn
  <1>4. MetaInv /\ [Next]_vars => Metadata!KnownGoes
    BY MetaKnownGoes, EachAlone
  <1> QED
    BY <1>1, <1>2, <1>3, <1>4, PTL DEF Spec, SidecarsExact, Metadata!SidecarsExact
=============================================================================

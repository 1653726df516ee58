------------------------------- MODULE NotesSync -------------------------------
(***************************************************************************)
(* The note of a project (notes_service): a command stores what the user   *)
(* wrote and writes it to the archive directory at once, a background loop *)
(* writes what is still due, and another program edits the same file.      *)
(***************************************************************************)
EXTENDS Naturals, FiniteSets

CONSTANTS
    Text,      \* what the user writes
    Foreign,   \* what another program writes to the file
    Editor,    \* windows with a save under way
    Loop,      \* run_background
    None, Empty,
    MaxNow,    \* seconds a backup may be named after
    Budgets    \* what users, other programs and faults may do, and how often

Proc == Editor \cup {Loop}
Note == [content : Text \cup {Empty}, status : {"pending", "failed", "synced"},
         attempts : Nat, due : BOOLEAN, last : Text \cup {None, Empty}]

NotesAssumption ==
    /\ {None, Empty} \cap (Text \cup Foreign) = {} /\ None # Empty /\ None \notin Note
    /\ Text \cap Foreign = {} /\ Loop \notin Editor
    /\ MaxNow \in Nat /\ Budgets \subseteq [ops : SUBSET STRING, left : Nat]

VARIABLES
    note,    \* the row of project_notes, or None
    remote,  \* the file, or None
    backup,  \* the backups by the second in their name
    online,  \* the archive directory answers
    call,    \* commands and the round of the loop
    wrote,   \* history: the last text written to the file
    lost,    \* history: foreign texts that are nowhere any more
    now, budget

vars == <<note, remote, backup, online, call, wrote, lost, now, budget>>

Content == Text \cup Foreign \cup {Empty}
Idle == [pc |-> "idle"]
Fresh == [content |-> Empty, status |-> "pending", attempts |-> 0, due |-> TRUE, last |-> None]

\* A project without a note, or with one that was written long ago.
Init ==
    /\ note \in {None, [Fresh EXCEPT !.status = "synced", !.last = Empty]}
    /\ remote = IF note = None THEN None ELSE Empty
    /\ backup = [t \in 0 .. MaxNow |-> None]
    /\ online = TRUE
    /\ call = [p \in Proc |-> Idle]
    /\ wrote = IF note = None THEN None ELSE Empty
    /\ lost = {} /\ now = 0 /\ budget \in Budgets

Uses(op) == op \in budget.ops /\ budget.left > 0 /\ budget' = [budget EXCEPT !.left = @ - 1]
Goes(p, c) == call' = [call EXCEPT ![p] = c]
Quiet == \A p \in Proc : call[p].pc \in {"idle", "found"}
At(p, pc) == call[p].pc = pc

-----------------------------------------------------------------------------
(* get_or_create and update_content *)

\* "overlap": the user saves while the loop writes the previous revision.
Saves(p) ==
    /\ Uses("save") /\ call[p] = Idle /\ ("overlap" \in budget.ops \/ Quiet)
    /\ \E t \in Text : Goes(p, [pc |-> IF note = None THEN "insert" ELSE "found", text |-> t])
    /\ UNCHANGED <<note, remote, backup, online, wrote, lost, now>>

\* Opening the window creates the note as well.
Opens(p) ==
    /\ Uses("open") /\ call[p] = Idle /\ note = None
    /\ Goes(p, [pc |-> "insert", text |-> None])
    /\ UNCHANGED <<note, remote, backup, online, wrote, lost, now>>

\* project_id is unique: the second of two inserts is refused.
Inserts(p) ==
    /\ At(p, "insert")
    /\ note' = IF note = None THEN Fresh ELSE note
    /\ Goes(p, IF note = None /\ call[p].text # None THEN [call[p] EXCEPT !.pc = "found"]
               ELSE Idle)
    /\ UNCHANGED <<remote, backup, online, wrote, lost, now, budget>>

\* Wrong on purpose: it goes on with the row it had read.
Stale_Updates(p) ==
    /\ At(p, "found") /\ ("overlap" \in budget.ops \/ Quiet)
    /\ note' = [note EXCEPT !.content = call[p].text, !.status = "pending",
                            !.attempts = 0, !.due = TRUE]
    /\ Goes(p, [pc |-> "read", note |-> note])
    /\ UNCHANGED <<remote, backup, online, wrote, lost, now, budget>>

\* A save that goes on to the file with the row it got back
Updates(p) ==
    LET new == [note EXCEPT !.content = call[p].text, !.status = "pending",
                            !.attempts = 0, !.due = TRUE]
    IN  /\ At(p, "found") /\ ("overlap" \in budget.ops \/ Quiet)
        /\ note' = new
        /\ Goes(p, [pc |-> "read", note |-> new])
        /\ UNCHANGED <<remote, backup, online, wrote, lost, now, budget>>

Open(status) == status \in {"pending", "failed"}

\* sync_once: a note that is due
Picks ==
    /\ call[Loop] = Idle /\ note # None /\ Open(note.status) /\ note.due
    /\ Goes(Loop, [pc |-> "read", note |-> note])
    /\ UNCHANGED <<note, remote, backup, online, wrote, lost, now, budget>>

-----------------------------------------------------------------------------
(* write_remote *)

Ours(n, existing) ==
    existing \in {None, n.content, IF n.last = None THEN Empty ELSE n.last}

Reads(p) ==
    /\ At(p, "read")
    /\ Goes(p, IF ~online THEN [pc |-> "fail"]
               ELSE [pc |-> IF Ours(call[p].note, remote) THEN "write" ELSE "back",
                     note |-> call[p].note, found |-> remote])
    /\ UNCHANGED <<note, remote, backup, online, wrote, lost, now, budget>>

Lost(file, copies) ==
    {x \in Foreign : x \in {remote} \cup {backup[t] : t \in DOMAIN backup}
                     /\ x \notin {file} \cup {copies[t] : t \in DOMAIN copies}}

\* A backup is named after the second; one of the same name is written over.
\* "second": two conflicts of one second.
BacksUp(p) ==
    /\ At(p, "back")
    /\ "second" \in budget.ops \/ backup[now] \in {None, call[p].found}
    /\ IF online
       THEN /\ backup' = [backup EXCEPT ![now] = call[p].found]
            /\ Goes(p, [call[p] EXCEPT !.pc = "write"])
       ELSE UNCHANGED backup /\ Goes(p, [pc |-> "fail"])
    /\ lost' = lost \cup Lost(remote, backup')
    /\ UNCHANGED <<note, remote, online, wrote, now, budget>>

\* The file is written under a name of its own and renamed.
Writes(p) ==
    /\ At(p, "write")
    /\ IF online
       THEN /\ remote' = call[p].note.content
            /\ wrote' = remote'
            /\ Goes(p, [call[p] EXCEPT !.pc = "mark"])
       ELSE UNCHANGED <<remote, wrote>> /\ Goes(p, [pc |-> "fail"])
    /\ lost' = lost \cup Lost(remote', backup)
    /\ UNCHANGED <<note, backup, online, now, budget>>

\* mark_synced
Marks(p) ==
    /\ At(p, "mark")
    /\ note' = [note EXCEPT !.status = "synced", !.attempts = 0, !.due = TRUE,
                            !.last = call[p].note.content]
    /\ Goes(p, Idle)
    /\ UNCHANGED <<remote, backup, online, wrote, lost, now, budget>>

\* mark_sync_failure counts in two statements.
Counts(p) ==
    /\ At(p, "fail")
    /\ Goes(p, [pc |-> "failed", attempt |-> note.attempts + 1])
    /\ UNCHANGED <<note, remote, backup, online, wrote, lost, now, budget>>

\* Every failure has a next attempt, also the fourth; from there on the count is
\* not told apart.
Fails(p) ==
    /\ At(p, "failed")
    /\ note' = [note EXCEPT !.status = IF call[p].attempt < 4 THEN "pending" ELSE "failed",
                            !.attempts = IF call[p].attempt < 4 THEN call[p].attempt ELSE 4,
                            !.due = FALSE]
    /\ Goes(p, Idle)
    /\ UNCHANGED <<remote, backup, online, wrote, lost, now, budget>>

-----------------------------------------------------------------------------
(* Time, the share, other programs and crashes *)

Comes ==
    /\ note # None /\ ~note.due
    /\ note' = [note EXCEPT !.due = TRUE]
    /\ UNCHANGED <<remote, backup, online, call, wrote, lost, now, budget>>

Ticks ==
    /\ now < MaxNow /\ now' = now + 1
    /\ UNCHANGED <<note, remote, backup, online, call, wrote, lost, budget>>

Downs ==
    /\ Uses("down") /\ online /\ online' = FALSE
    /\ UNCHANGED <<note, remote, backup, call, wrote, lost, now>>

Ups ==
    /\ ~online /\ online' = TRUE
    /\ UNCHANGED <<note, remote, backup, call, wrote, lost, now, budget>>

\* Another program saves the file: at any time but between the look at the file
\* and the rename that replaces it.
Edits(x) ==
    /\ Uses("edit") /\ online /\ \A p \in Proc : call[p].pc \notin {"back", "write"}
    /\ remote' = x
    /\ UNCHANGED <<note, backup, online, call, wrote, lost, now>>

Crashes ==
    /\ Uses("crash") /\ \E p \in Proc : call[p] # Idle
    /\ call' = [p \in Proc |-> Idle]
    /\ UNCHANGED <<note, remote, backup, online, wrote, lost, now>>

Syncs(p) == Inserts(p) \/ Updates(p) \/ Reads(p) \/ BacksUp(p) \/ Writes(p)
            \/ Marks(p) \/ Counts(p) \/ Fails(p)

Next ==
    \/ \E p \in Editor : Saves(p) \/ Opens(p)
    \/ \E p \in Proc : Syncs(p)
    \/ Picks \/ Comes \/ Ticks \/ Downs \/ Ups \/ Crashes
    \/ \E x \in Foreign : Edits(x)

Spec == Init /\ [][Next]_vars

-----------------------------------------------------------------------------
(* Properties *)

\* Neither the user's text nor another program's is lost. When nothing is under
\* way, a note is the last text that was written to the file, or still open and
\* tried again; a save while the loop writes ("overlap") breaks this. What another
\* program wrote is never written over before it is backed up; two conflicts
\* within one second ("second") share a backup.
NothingLost ==
    /\ "overlap" \notin budget.ops /\ note # None /\ (\A p \in Proc : call[p] = Idle) =>
          wrote = note.content \/ Open(note.status)
    /\ "second" \notin budget.ops => lost = {}
================================================================================

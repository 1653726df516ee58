---------------------------- MODULE AtomicRestore ----------------------------
(***************************************************************************)
(* What restoring a backup promises: a start of the application either     *)
(* replaces the whole database by the requested one, or leaves it as it    *)
(* was.  DatabaseRestore does it with copies, removals and renames.        *)
(***************************************************************************)
CONSTANTS Content, None

VARIABLES
    db,        \* the database, as its user sees it
    request,   \* the content a start is to install
    up         \* the application works on its database

avars == <<db, request, up>>

AInit == db \in Content /\ request = None /\ up = TRUE

\* The application works on its database.
Write == up /\ db' \in Content /\ UNCHANGED <<request, up>>

\* A restore is requested, or the request withdrawn.
Ask == request' \in Content \cup {None} /\ UNCHANGED <<db, up>>

Stop == up /\ up' = FALSE /\ UNCHANGED <<db, request>>

\* A start without a request, or with one that was found impossible: the
\* database is as it was.
Start == ~up /\ up' = TRUE /\ UNCHANGED db /\ request' \in {request, None}

\* A start carries the request out as a whole.
Install == ~up /\ request # None /\ db' = request /\ request' = None /\ up' = TRUE

ANext == Write \/ Ask \/ Stop \/ Start \/ Install
ASpec == AInit /\ [][ANext]_avars
=============================================================================

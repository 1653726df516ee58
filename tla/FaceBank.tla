------------------------------ MODULE FaceBank ------------------------------
(***************************************************************************)
(* Faces, samples and suggestions: recognition_service, capture_roi_service*)
(* and what labelling, processing, undoing a classification, merging and   *)
(* deleting characters and choosing another recognizer do to them.         *)
(*                                                                         *)
(* A call runs the steps of its program: each step is one transaction, or  *)
(* one read, and between two of them anything else may run.                *)
(* Most calls begin with the item lock; a rejection and the worker's pass  *)
(* over a queued capture do not take it.                                   *)
(*                                                                         *)
(* A vector is known by what it was made from: the region and the model.   *)
(* Which character is most alike, and by how much, is left open.           *)
(***************************************************************************)
EXTENDS Naturals, Sequences

CONSTANTS
    Item, Char, Proc, None,
    Worker,      \* the background worker, one of Proc
    Models,      \* recognizers
    Budgets      \* what may happen, how often, to which captures and by whose
                 \* calls, and how the captures begin: "new" or "labelled"

ASSUME WorkerAssumption == Worker \in Proc
ASSUME BudgetAssumption ==
    Budgets \subseteq [ops : SUBSET STRING, left : Nat, items : SUBSET Item,
                       callers : SUBSET (Proc \ {Worker}), start : SUBSET {"new", "labelled"}]

VARIABLES
    row,     \* columns of capture_items
    face,    \* the primary row of capture_faces
    sample,  \* sample[c][i]: character_face_samples
    chars,   \* the characters that exist
    model,   \* the recognizer of the vision settings
    here,    \* here[i]: the source of i is the registered file
    lock,    \* lock[i]: who holds the item lock
    call,    \* call[p]: what p is doing
    gone,    \* the captures whose row was deleted: nothing reads row[i] any more
    removal, \* removal[c]: the captures delete_character found for c, whose locks
             \* it waits for; None when it is not under way
    budget   \* calls and faults left

data == <<row, face, sample, chars, model, here>>
vars == <<row, face, sample, chars, model, here, lock, call, gone, removal, budget>>

Region == {"auto", "framed"}
Row == [status  : {"awaiting", "queued", "processing", "pending", "completed", "failed"},
        class   : {"unclassified", "person", "other"},
        char    : Char \cup {None},
        version : Nat,                  \* processing_version
        region  : Region,               \* manual_face_roi_json
        ready   : BOOLEAN,              \* manual_face_roi_ready
        deferred : BOOLEAN,             \* recognition_deferred
        flagged : BOOLEAN,              \* verification_status = 'flagged'
        sug     : Char \cup {None},     \* suggested_character_id, by the face bank
        banked  : BOOLEAN,              \* recognition_source = 'face_bank'
        review  : {"none", "pending", "accepted", "rejected"}]
\* vector: NULL, the marker [] of a picture without a face, or a feature.
\* good: it passes the quality gate.
Face   == [region : Region, model : Models, vector : {"null", "empty", "feature"},
           good : BOOLEAN]
Sample == [region : Region, model : Models, active : BOOLEAN, flagged : BOOLEAN]
ASSUME NoneAssumption == None \notin Item \cup Char \cup Proc \cup Models \cup Face \cup Sample

\* A call works on the capture "at", and then on those of "rest"; the other
\* fields are its locals.
Idle == [kind |-> "none", op |-> "end", at |-> None, rest |-> {}, arg |-> None, soft |-> FALSE,
         model |-> None, version |-> 0, item |-> None, face |-> None, flagged |-> FALSE,
         pick |-> None]

NewRow == [status |-> "awaiting", class |-> "unclassified", char |-> None, version |-> 0,
           region |-> "auto", ready |-> FALSE, deferred |-> FALSE, flagged |-> FALSE,
           sug |-> None, banked |-> FALSE, review |-> "none"]
Busy(i) == row[i].status \in {"queued", "processing", "pending"}

\* A labelled capture was processed, archived and enrolled.
Init ==
    /\ chars = Char
    /\ budget \in Budgets
    /\ \E m \in Models, was \in [Item -> budget.start \cup {"new"}], c \in [Item -> Char] :
          /\ \A i \in Item : was[i] \in IF i \in budget.items THEN budget.start ELSE {"new"}
          /\ model = m
          /\ row = [i \in Item |-> IF was[i] = "new" THEN NewRow
                       ELSE [NewRow EXCEPT !.status = "completed", !.class = "person",
                                           !.char = c[i]]]
          /\ face = [i \in Item |-> IF was[i] = "new" THEN None
                       ELSE [region |-> "auto", model |-> m, vector |-> "feature", good |-> TRUE]]
          /\ sample = [d \in Char |-> [i \in Item |->
                         IF was[i] = "new" \/ c[i] # d THEN None
                         ELSE [region |-> "auto", model |-> m, active |-> TRUE, flagged |-> FALSE]]]
    /\ here = [i \in Item |-> TRUE]
    /\ lock = [i \in Item |-> None]
    /\ call = [p \in Proc |-> Idle]
    /\ gone = {}
    /\ removal = [c \in Char |-> None]

-----------------------------------------------------------------------------
(* Programs *)

\* What a call does to a capture. Enrolling is four steps, suggesting three.
Program ==
    [label    |-> <<"take", "label", "verify", "readItem", "readFace", "readVerified", "enrol",
                    "resolve", "release">>,
     scene    |-> <<"take", "label", "moot", "release">>,
     relabel  |-> <<"take", "relabel", "release">>,
     again    |-> <<"take", "again", "release">>,
     reset    |-> <<"take", "reset", "release">>,
     refresh  |-> <<"take", "begin", "store", "readItem", "readFace", "readVerified", "enrol",
                    "clear", "match", "suggest", "release">>,
     frame    |-> <<"take", "frame", "begin", "store", "readItem", "readFace", "readVerified",
                    "enrol", "clear", "match", "suggest", "ready", "release">>,
     suggest  |-> <<"take", "clear", "match", "suggest", "release">>,
     accept   |-> <<"offer">>,
     accepted |-> <<"look", "accepted">>,
     reject   |-> <<"look", "rejected">>,
     anchor   |-> <<"look", "rejected", "readItem", "readFace", "readVerified", "enrol">>,
     dismiss  |-> <<"dismiss", "readItem", "readFace", "readVerified", "enrol">>,
     rebuild  |-> <<"take", "rebuild", "store", "readItem", "readFace", "readVerified", "enrol",
                    "release">>,
     waiting  |-> <<"take", "clear", "match", "suggest", "release">>,
     switch   |-> <<"switchRows", "switchFaces", "switchModel">>,
     process  |-> <<"complete", "readItem", "readFace", "readVerified", "enrol",
                    "clear", "match", "suggest", "archive">>,
     archive  |-> <<"archive">>,
     prelabel |-> <<"take", "prelabel", "store", "clear", "match", "suggest", "release">>]

After(kind, op) ==
    LET steps == Program[kind]
        k == CHOOSE k \in DOMAIN steps : steps[k] = op
    IN  IF k = Len(steps) THEN "end" ELSE steps[k + 1]

At(p, op) == call[p].op = op
Here(p)   == call[p].at

\* The call goes on with the op; at the end, with the next capture. A rebuild
\* then lists those that wait for a label.
Goes(p, c, op) ==
    \/ op # "end" /\ call' = [call EXCEPT ![p] = [c EXCEPT !.op = op]]
    \/ /\ op = "end" /\ c.rest = {}
       /\ call' = [call EXCEPT ![p] = IF c.kind # "rebuild" THEN Idle
                      ELSE [Idle EXCEPT !.kind = "waiting", !.op = "listWaiting"]]
    \/ /\ op = "end"
       /\ \E i \in c.rest :
             call' = [call EXCEPT ![p] = [Idle EXCEPT
                         !.kind = c.kind, !.op = Head(Program[c.kind]), !.at = i,
                         !.rest = c.rest \ {i}, !.model = c.model]]
Keeps(p, c)  == Goes(p, c, After(c.kind, c.op))
Next1(p)     == Keeps(p, call[p])
Stops(p)     == call' = [call EXCEPT ![p] = Idle]
\* A part of the call is over: what it read is forgotten.
Forgets(c)   == [c EXCEPT !.version = 0, !.item = None, !.face = None, !.flagged = FALSE,
                          !.pick = None]
Done(p, op)  == Goes(p, Forgets(call[p]), After(call[p].kind, op))
\* An error, and the continue of a loop: the guard of the item is dropped.
Leaves(p)    == IF lock[Here(p)] = p THEN Goes(p, Forgets(call[p]), "release") ELSE Stops(p)
\* An error that ends a loop as well.
Ends(p)      == Goes(p, [Forgets(call[p]) EXCEPT !.rest = {}], "release")

Uses(op) == op \in budget.ops /\ budget.left > 0 /\ budget' = [budget EXCEPT !.left = @ - 1]
Starts(p, kind, op, i, arg) ==
    /\ At(p, "end")
    /\ call' = [call EXCEPT ![p] = [Idle EXCEPT !.kind = kind, !.op = op, !.at = i, !.arg = arg,
                                                !.soft = kind = "label"]]
    /\ UNCHANGED <<row, face, sample, chars, model, here, lock>>

Sets(i, r) == row' = [row EXCEPT ![i] = r]
Unsuggested(r) == [r EXCEPT !.sug = None, !.banked = FALSE, !.review = "none"]
\* remove_face_samples
NoSamples(i) == sample' = [c \in Char |-> [sample[c] EXCEPT ![i] = None]]
Has(i) == face[i] # None /\ face[i].vector = "feature"

-----------------------------------------------------------------------------
(* The item lock *)

Takes(p) ==
    /\ At(p, "take") /\ lock[Here(p)] = None
    /\ lock' = [lock EXCEPT ![Here(p)] = p]
    /\ Next1(p) /\ UNCHANGED <<data, budget>>

Releases(p) ==
    /\ At(p, "release")
    /\ lock' = [lock EXCEPT ![Here(p)] = None]
    /\ Next1(p) /\ UNCHANGED <<data, budget>>

-----------------------------------------------------------------------------
(* enroll_face_sample *)

ReadsItem(p) ==
    /\ At(p, "readItem")
    /\ Keeps(p, [call[p] EXCEPT !.item = [class |-> row[Here(p)].class, char |-> row[Here(p)].char]])
    /\ UNCHANGED <<data, lock, budget>>

ReadsFace(p) ==
    LET i == Here(p) IN
    /\ At(p, "readFace")
    /\ IF call[p].item.class = "person" /\ call[p].item.char # None
       THEN Keeps(p, [call[p] EXCEPT !.face = face[i]]) /\ UNCHANGED sample
       ELSE NoSamples(i) /\ Done(p, "enrol")
    /\ UNCHANGED <<row, face, chars, model, here, lock, budget>>

\* No feature, or one that does not pass the gate: no sample.
ReadsVerified(p) ==
    LET i == Here(p)  f == call[p].face IN
    /\ At(p, "readVerified")
    /\ IF f # None /\ f.vector = "feature" /\ f.good
       THEN Keeps(p, [call[p] EXCEPT !.flagged = row[i].flagged]) /\ UNCHANGED sample
       ELSE NoSamples(i) /\ Done(p, "enrol")
    /\ UNCHANGED <<row, face, chars, model, here, lock, budget>>

\* Wrong on purpose: the verdict on the label is not looked at.
Blind_Enrolled(p, old) ==
    [region |-> call[p].face.region, model |-> call[p].face.model, active |-> TRUE,
     flagged |-> old # None /\ old.flagged]

Enrolled(p, old) ==
    [region |-> call[p].face.region, model |-> call[p].face.model, active |-> TRUE,
     flagged |-> call[p].flagged \/ (old # None /\ old.flagged)]

\* One transaction; the foreign key rolls it back when the character is gone.
Enrol(p) ==
    LET i == Here(p)  c == call[p].item.char IN
    /\ At(p, "enrol")
    /\ IF c \in chars
       THEN sample' = [d \in Char |-> [sample[d] EXCEPT ![i] =
                          IF d = c THEN Enrolled(p, sample[c][i]) ELSE None]]
       ELSE UNCHANGED sample
    /\ IF c \in chars \/ call[p].soft THEN Done(p, "enrol") ELSE Leaves(p)
    /\ UNCHANGED <<row, face, chars, model, here, lock, budget>>

-----------------------------------------------------------------------------
(* suggest_from_face_bank *)

Clears(p) ==
    LET i == Here(p) IN
    /\ At(p, "clear")
    /\ Sets(i, IF row[i].banked THEN Unsuggested(row[i]) ELSE row[i])
    /\ Keeps(p, [call[p] EXCEPT !.item = [class |-> row[i].class, char |-> row[i].char]])
    /\ UNCHANGED <<face, sample, chars, model, here, lock, budget>>

\* Wrong on purpose: the samples of the capture's own character count.
Own_Candidates(i, own) ==
    {c \in chars : \E j \in Item \ {i} :
        /\ sample[c][j] # None /\ row[j].class = "person"
        /\ sample[c][j].active /\ ~sample[c][j].flagged
        /\ sample[c][j].model = face[i].model}

Candidates(i, own) ==
    {c \in chars \ {own} : \E j \in Item \ {i} :
        /\ sample[c][j] # None /\ row[j].class = "person"
        /\ sample[c][j].active /\ ~sample[c][j].flagged
        /\ sample[c][j].model = face[i].model}

Matches(p) ==
    LET i == Here(p) IN
    /\ At(p, "match")
    /\ \/ \E c \in IF Has(i) THEN Candidates(i, call[p].item.char) ELSE {} :
             Keeps(p, [call[p] EXCEPT !.pick = c])
       \/ Done(p, "suggest")
    /\ UNCHANGED <<data, lock, budget>>

Suggest(p) ==
    LET i == Here(p) IN
    /\ At(p, "suggest")
    /\ IF call[p].pick \in chars
       THEN /\ Sets(i, [row[i] EXCEPT !.sug = call[p].pick, !.banked = TRUE, !.review = "pending"])
            /\ Done(p, "suggest")
       ELSE UNCHANGED row /\ IF call[p].soft THEN Done(p, "suggest") ELSE Ends(p)
    /\ UNCHANGED <<face, sample, chars, model, here, lock, budget>>

-----------------------------------------------------------------------------
(* Extraction: the answer of the engine is chosen when it is asked. *)

Answers(i, m) == [region : {row[i].region}, model : {m}, vector : {"feature"}, good : BOOLEAN]
                 \cup [region : {row[i].region}, model : {m}, vector : {"empty"}, good : {FALSE}]

Asks(p, m) ==
    \/ \E f \in Answers(Here(p), m) :
          Keeps(p, [call[p] EXCEPT !.face = f, !.version = row[Here(p)].version])
    \/ Leaves(p)

\* refresh_capture_face_feature
Begins(p) ==
    LET i == Here(p) IN
    /\ At(p, "begin")
    /\ IF row[i].class = "other" \/ Busy(i) \/ ~here[i] THEN Leaves(p) ELSE Asks(p, model)
    /\ UNCHANGED <<data, lock, budget>>

\* process_awaiting_label_feature, after the lock
Prelabels(p) ==
    LET i == Here(p) IN
    /\ At(p, "prelabel")
    /\ IF row[i].status # "awaiting" \/ row[i].deferred \/ ~here[i]
       THEN Leaves(p) ELSE Asks(p, call[p].model)
    /\ UNCHANGED <<data, lock, budget>>

\* rebuild_face_bank: a capture whose source is missing loses its sample; a busy
\* one, and one whose source was replaced, keep it.
Rebuilds(p) ==
    LET i == Here(p) IN
    /\ At(p, "rebuild")
    /\ UNCHANGED sample \/ (~Busy(i) /\ ~here[i] /\ NoSamples(i))
    /\ IF Busy(i) \/ ~here[i] THEN Leaves(p) ELSE Asks(p, call[p].model)
    /\ UNCHANGED <<row, face, chars, model, here, lock, budget>>

\* validate_result, store_face_feature
Stores(p) ==
    LET i == Here(p) IN
    /\ At(p, "store")
    /\ IF row[i].version = call[p].version /\ here[i]
       THEN /\ face' = [face EXCEPT ![i] = call[p].face]
            /\ Sets(i, Unsuggested(row[i])) /\ Done(p, "store")
       ELSE Leaves(p) /\ UNCHANGED <<row, face>>
    /\ UNCHANGED <<sample, chars, model, here, lock, budget>>

-----------------------------------------------------------------------------
(* Labels *)

\* label_capture
Labels(p) ==
    LET i == Here(p)  c == call[p].arg IN
    /\ At(p, "label")
    /\ IF /\ row[i].status \in {"awaiting", "failed"}
          /\ c # None => c \in chars /\ (row[i].region = "framed" => row[i].ready)
       THEN /\ Sets(i, [row[i] EXCEPT !.char = c, !.status = "queued",
                                      !.class = IF c = None THEN "other" ELSE "person"])
            /\ Next1(p)
       ELSE Leaves(p) /\ UNCHANGED row
    /\ UNCHANGED <<face, sample, chars, model, here, lock, budget>>

\* compute_verification, persist_verification. Without a sample to compare
\* with, or with verification switched off, the level is unverified.
Verifies(p) ==
    LET i == Here(p)
        compared == Has(i) /\ \E j \in Item : LET s == sample[call[p].arg][j] IN
                       /\ s # None /\ row[j].class = "person"
                       /\ s.active /\ ~s.flagged /\ s.model = face[i].model
    IN
    /\ At(p, "verify")
    /\ \E doubt \in {FALSE} \cup {compared} : Sets(i, [row[i] EXCEPT !.flagged = doubt])
    /\ Next1(p)
    /\ UNCHANGED <<face, sample, chars, model, here, lock, budget>>

\* The label answered the suggestion it agrees with.
Resolves(p) ==
    LET i == Here(p) IN
    /\ At(p, "resolve")
    /\ Sets(i, IF row[i].sug = call[p].arg /\ row[i].review = "pending"
               THEN [row[i] EXCEPT !.review = "accepted"] ELSE row[i])
    /\ Next1(p)
    /\ UNCHANGED <<face, sample, chars, model, here, lock, budget>>

Moots(p) ==
    /\ At(p, "moot")
    /\ Sets(Here(p), Unsuggested(row[Here(p)]))
    /\ Next1(p)
    /\ UNCHANGED <<face, sample, chars, model, here, lock, budget>>

Requeued(r) == [Unsuggested(r) EXCEPT !.status = "queued", !.flagged = FALSE,
                   !.version = IF r.status = "completed" THEN r.version + 1 ELSE r.version]

\* Wrong on purpose: the samples of the old label stay.
Kept_Relabels(p) ==
    LET i == Here(p)  c == call[p].arg IN
    /\ At(p, "relabel")
    /\ IF /\ row[i].status \notin {"processing", "pending"}
          /\ c # None => c \in chars
          /\ row[i].char # c \/ row[i].class # IF c = None THEN "other" ELSE "person"
       THEN /\ Sets(i, [Requeued(row[i]) EXCEPT !.char = c,
                           !.class = IF c = None THEN "other" ELSE "person"])
            /\ Next1(p) /\ UNCHANGED <<sample>>
       ELSE Leaves(p) /\ UNCHANGED <<row, sample>>
    /\ UNCHANGED <<face, chars, model, here, lock, budget>>

\* relabel_capture_item, and accept_suggestion: then call[p].pick is the
\* suggestion it read before the lock.
Relabels(p) ==
    LET i == Here(p)  c == call[p].arg  expected == call[p].pick IN
    /\ At(p, "relabel")
    /\ IF /\ row[i].status \notin {"processing", "pending"}
          /\ row[i].status = "completed" => here[i]
          /\ c # None => c \in chars
          /\ IF expected = None
             THEN row[i].char # c \/ row[i].class # IF c = None THEN "other" ELSE "person"
             ELSE row[i].sug = expected /\ row[i].review = "pending"
       THEN /\ Sets(i, [Requeued(row[i]) EXCEPT !.char = c,
                           !.class = IF c = None THEN "other" ELSE "person"])
            /\ NoSamples(i) /\ Next1(p)
       ELSE Leaves(p) /\ UNCHANGED <<row, sample>>
    /\ UNCHANGED <<face, chars, model, here, lock, budget>>

\* requeue_completed_capture and retry_capture
Again(p) ==
    LET i == Here(p) IN
    /\ At(p, "again")
    /\ IF row[i].status \in {"completed", "failed"} /\ here[i]
       THEN IF row[i].status = "completed"
            THEN Sets(i, Requeued(row[i])) /\ NoSamples(i)
            ELSE /\ Sets(i, [row[i] EXCEPT !.status = IF row[i].char # None THEN "queued"
                                                      ELSE "awaiting"])
                 /\ UNCHANGED sample
       ELSE UNCHANGED <<row, sample>>
    /\ Next1(p)
    /\ UNCHANGED <<face, chars, model, here, lock, budget>>

\* The last transaction of a reset; ResetCleanup has what comes before.
Resets(p) ==
    LET i == Here(p) IN
    /\ At(p, "reset")
    /\ IF row[i].class # "unclassified" /\ ~Busy(i) /\ here[i]
       THEN /\ Sets(i, [NewRow EXCEPT !.version = row[i].version + 1])
            /\ face' = [face EXCEPT ![i] = None]
            /\ NoSamples(i)
       ELSE UNCHANGED <<row, face, sample>>
    /\ Next1(p)
    /\ UNCHANGED <<chars, model, here, lock, budget>>

-----------------------------------------------------------------------------
(* The manual region: capture_roi_service *)

\* Wrong on purpose: the face of the old region stays until a new one is found.
Lazy_Frames(p) ==
    LET i == Here(p) IN
    /\ At(p, "frame")
    /\ IF row[i].status = "awaiting" /\ row[i].class = "unclassified" /\ here[i]
       THEN /\ Sets(i, [Unsuggested(row[i]) EXCEPT !.region = call[p].arg, !.ready = FALSE,
                           !.version = row[i].version + 1, !.deferred = TRUE])
            /\ NoSamples(i) /\ Next1(p)
       ELSE Leaves(p) /\ UNCHANGED <<row, sample>>
    /\ UNCHANGED <<face, chars, model, here, lock, budget>>

Frames(p) ==
    LET i == Here(p) IN
    /\ At(p, "frame")
    /\ IF row[i].status = "awaiting" /\ row[i].class = "unclassified" /\ here[i]
       THEN /\ Sets(i, [Unsuggested(row[i]) EXCEPT !.region = call[p].arg, !.ready = FALSE,
                           !.version = row[i].version + 1, !.deferred = TRUE])
            /\ face' = [face EXCEPT ![i] = None]
            /\ NoSamples(i) /\ Next1(p)
       ELSE Leaves(p) /\ UNCHANGED <<row, face, sample>>
    /\ UNCHANGED <<chars, model, here, lock, budget>>

Readies(p) ==
    /\ At(p, "ready")
    /\ Sets(Here(p), [row[Here(p)] EXCEPT !.ready = TRUE])
    /\ Next1(p)
    /\ UNCHANGED <<face, sample, chars, model, here, lock, budget>>

-----------------------------------------------------------------------------
(* The worker's pass over a queued capture *)

Completes(p) ==
    LET i == Here(p)
        done(f) == /\ face' = [face EXCEPT ![i] = f]
                   /\ Sets(i, [Unsuggested(row[i]) EXCEPT !.status = "pending"])
                   /\ Next1(p)
    IN
    /\ At(p, "complete")
    /\ \/ here[i] /\ \E f \in Answers(i, call[p].model) :
             done([f EXCEPT !.vector = IF @ = "empty" THEN "null" ELSE @])
       \/ \* no engine is configured
          /\ Sets(i, [row[i] EXCEPT !.status = "pending"])
          /\ Next1(p) /\ UNCHANGED face
       \/ Sets(i, [row[i] EXCEPT !.status = "failed"])
          /\ Stops(p) /\ UNCHANGED face
    /\ UNCHANGED <<sample, chars, model, here, lock, budget>>

\* Under the item lock: ArchivePromotion has the files.
Archives(p) ==
    /\ At(p, "archive") /\ lock[Here(p)] = None
    /\ \E s \in {"completed", "failed"} : Sets(Here(p), [row[Here(p)] EXCEPT !.status = s])
    /\ Next1(p)
    /\ UNCHANGED <<face, sample, chars, model, here, lock, budget>>

-----------------------------------------------------------------------------
(* Reviews *)

\* accept_suggestion reads the suggestion it is about before it has the lock.
Offers(p) ==
    LET i == Here(p)  r == row[i] IN
    /\ At(p, "offer")
    /\ IF r.sug # None /\ r.review = "pending"
       THEN LET kind == IF r.char = r.sug /\ r.class = "person" THEN "accepted" ELSE "relabel"
            IN  Goes(p, [call[p] EXCEPT !.kind = kind, !.arg = r.sug, !.pick = r.sug],
                     Head(Program[kind]))
       ELSE Stops(p)
    /\ UNCHANGED <<data, lock, budget>>

\* review_suggestion looks first and writes by id.
Looks(p) ==
    /\ At(p, "look")
    /\ IF row[Here(p)].sug # None THEN Next1(p) ELSE Stops(p)
    /\ UNCHANGED <<data, lock, budget>>

Reviews(p) ==
    LET i == Here(p) IN
    /\ \/ At(p, "accepted") /\ Sets(i, [row[i] EXCEPT !.review = "accepted"])
       \/ At(p, "rejected") /\ Sets(i, [Unsuggested(row[i]) EXCEPT !.review = "rejected"])
       \/ At(p, "dismiss")  /\ Sets(i, Unsuggested(row[i]))
    /\ Next1(p)
    /\ UNCHANGED <<face, sample, chars, model, here, lock, budget>>

\* batch_reject_and_enroll and the two loops of rebuild_face_bank list the
\* captures once.
Listed(p) ==
    CASE At(p, "listPending") -> {i \in Item : /\ row[i].char = call[p].arg
                                               /\ row[i].class = "person"
                                               /\ row[i].sug # None /\ row[i].review = "pending"}
      [] At(p, "listPersons") -> {i \in Item : row[i].class = "person"}
      [] OTHER -> {i \in Item : row[i].class = "unclassified" /\ (row[i].banked \/ Has(i))}

Lists(p) ==
    /\ At(p, "listPending") \/ At(p, "listPersons") \/ At(p, "listWaiting")
    /\ Goes(p, [call[p] EXCEPT !.rest = Listed(p) \ gone], "end")
    /\ UNCHANGED <<data, lock, budget>>

-----------------------------------------------------------------------------
(* Single statements *)

\* UPDATE OR IGNORE, then DELETE: the target's own row of a capture wins.
Merged(s, t) == [c \in Char |-> [i \in Item |->
    IF c = s THEN None
    ELSE IF c = t /\ sample[t][i] = None THEN sample[s][i] ELSE sample[c][i]]]

Merges(s, t) ==
    /\ Uses("merge") /\ s # t /\ {s, t} \subseteq chars
    /\ row' = [i \in Item |-> [row[i] EXCEPT !.char = IF @ = s THEN t ELSE @,
                                             !.sug = IF @ = s THEN t ELSE @]]
    /\ sample' = Merged(s, t)
    /\ chars' = chars \ {s}
    /\ UNCHANGED <<face, model, here, lock, call>>

\* set_face_sample_flagged: restoring also verifies the capture.
Flags(c, i, on) ==
    /\ Uses("flag") /\ sample[c][i] # None /\ sample[c][i].flagged # on
    /\ sample' = [sample EXCEPT ![c][i].flagged = on]
    /\ Sets(i, [row[i] EXCEPT !.flagged = @ /\ on])
    /\ UNCHANGED <<face, chars, model, here, lock, call>>

\* set_face_sample_status
Revokes(c, i, on) ==
    /\ Uses("revoke") /\ sample[c][i] # None /\ sample[c][i].active # on
    /\ sample' = [sample EXCEPT ![c][i].active = on]
    /\ UNCHANGED <<row, face, chars, model, here, lock, call>>

\* vision_settings_service::update, when the recognizer changes: suggestions,
\* features and the settings are three statements without a transaction.
Switches(p) ==
    /\ \/ /\ At(p, "switchRows")
          /\ row' = [i \in Item |-> IF row[i].review = "pending" /\ row[i].sug # None
                                    THEN Unsuggested(row[i]) ELSE row[i]]
          /\ UNCHANGED <<face, model>>
       \/ /\ At(p, "switchFaces")
          /\ face' = [i \in Item |-> IF face[i] # None /\ row[i].status = "awaiting"
                                     THEN [face[i] EXCEPT !.vector = "null"] ELSE face[i]]
          /\ UNCHANGED <<row, model>>
       \/ /\ At(p, "switchModel")
          /\ model' = call[p].arg
          /\ UNCHANGED <<row, face>>
    /\ Next1(p)
    /\ UNCHANGED <<sample, chars, here, lock, budget>>

Moves(i) ==
    /\ Uses("move") /\ here' = [here EXCEPT ![i] = ~@]
    /\ UNCHANGED <<row, face, sample, chars, model, lock, call>>

-----------------------------------------------------------------------------
(* capture_deletion_service: a character goes with its captures. The files it *)
(* removes first are those of ArchivePromotion.                             *)

OfCharacter(c) == {i \in Item \ gone : row[i].char = c}

\* delete_character lists the captures, then takes their locks one by one.
Loads(c) ==
    /\ Uses("deleteCharacter") /\ c \in chars /\ removal[c] = None
    /\ removal' = [removal EXCEPT ![c] = OfCharacter(c)]
    /\ UNCHANGED <<data, lock, call, gone>>

\* One transaction, which reads the captures again: one labelled meanwhile goes
\* without its lock. ON DELETE CASCADE takes faces and samples; ON DELETE SET
\* NULL takes the suggestion of another capture and leaves its review alone.
\* Without effect: a busy or reset capture, a missing character, a file that
\* cannot be removed.
Deletes(c) ==
    LET doomed == OfCharacter(c) IN
    /\ removal[c] # None /\ \A i \in removal[c] : lock[i] = None
    /\ removal' = [removal EXCEPT ![c] = None]
    /\ \/ /\ c \in chars /\ \A i \in doomed : ~Busy(i)
          /\ chars' = chars \ {c} /\ gone' = gone \cup doomed
          /\ row' = [i \in Item |-> IF i \in doomed THEN Unsuggested(row[i])
                        ELSE [row[i] EXCEPT !.sug = IF @ = c THEN None ELSE @]]
          /\ face' = [i \in Item |-> IF i \in doomed THEN None ELSE face[i]]
          /\ sample' = [d \in Char |-> [i \in Item |->
                           IF d = c \/ i \in doomed THEN None ELSE sample[d][i]]]
       \/ UNCHANGED <<row, face, sample, chars, gone>>
    /\ UNCHANGED <<model, here, lock, call, budget>>

\* The row a call works on is gone: its statement finds none. The call, or its
\* loop, is over.
Vanished(p) == Here(p) \in gone /\ call[p].op \notin {"take", "release"}
Vanishes(p) ==
    /\ Vanished(p)
    /\ Leaves(p) \/ (lock[Here(p)] = p /\ Ends(p))
    /\ UNCHANGED <<data, lock, budget>>

-----------------------------------------------------------------------------
(* Calls *)

\* A command on one capture
Command(p, kind, i, arg) == Starts(p, kind, Head(Program[kind]), i, arg)

Commands(p) ==
    \/ \E i \in budget.items, c \in Char : Uses("label") /\ Command(p, "label", i, c)
    \/ \E i \in budget.items, c \in Char \cup {None} :
          Uses("relabel") /\ Command(p, "relabel", i, c)
    \/ \E i \in budget.items, kind \in {"scene", "accept", "again", "reset", "refresh", "suggest",
                                        "reject", "anchor"} :
          Uses(kind) /\ Command(p, kind, i, None)
    \/ \E i \in budget.items, r \in Region : Uses("frame") /\ Command(p, "frame", i, r)
    \/ \E c \in chars : Uses("anchor") /\ Starts(p, "dismiss", "listPending", None, c)
    \/ \E m \in Models \ {model} : Uses("switch") /\ Command(p, "switch", None, m)

\* label_capture and the worker go on when enrolling or suggesting fails.
SoftStarts(p, kind, i) ==
    /\ At(p, "end")
    /\ call' = [call EXCEPT ![p] = [Idle EXCEPT !.kind = kind, !.op = Head(Program[kind]), !.at = i,
                                                !.model = model, !.soft = TRUE]]
    /\ UNCHANGED <<face, sample, chars, model, here, lock, budget>>

RebuildStarts(p) ==
    /\ Uses("rebuild") /\ At(p, "end")
    /\ call' = [call EXCEPT ![p] = [Idle EXCEPT !.kind = "rebuild", !.op = "listPersons",
                                                !.model = model]]
    /\ UNCHANGED <<data, lock>>

\* claim_next_queued; the settings were read before.
Claims(i) ==
    /\ row[i].status = "queued"
    /\ Sets(i, [row[i] EXCEPT !.status = IF row[i].class = "person" THEN "processing" ELSE "pending"])
    /\ SoftStarts(Worker, IF row[i].class = "person" THEN "process" ELSE "archive", i)

\* next_awaiting_label_without_feature, when nothing is queued
Picks(i) ==
    /\ \A j \in Item : row[j].status # "queued"
    /\ row[i].status = "awaiting" /\ ~row[i].deferred /\ here[i]
    /\ face[i] # None => face[i].vector = "null"
    /\ UNCHANGED row
    /\ SoftStarts(Worker, "prelabel", i)

\* The steps of a call that leave the lock alone
Onwards(p) ==
    \/ ReadsItem(p) \/ ReadsFace(p) \/ ReadsVerified(p) \/ Enrol(p)
    \/ Clears(p) \/ Matches(p) \/ Suggest(p)
    \/ Begins(p) \/ Prelabels(p) \/ Rebuilds(p) \/ Stores(p)
    \/ Labels(p) \/ Verifies(p) \/ Resolves(p) \/ Moots(p) \/ Relabels(p) \/ Again(p)
    \/ Resets(p) \/ Frames(p) \/ Readies(p) \/ Completes(p) \/ Archives(p)
    \/ Offers(p) \/ Looks(p) \/ Reviews(p) \/ Lists(p) \/ Switches(p)
Steps(p) == Takes(p) \/ Releases(p) \/ Vanishes(p) \/ (~Vanished(p) /\ Onwards(p))

\* What leaves the captures in place
Works ==
    \/ \E p \in Proc : Steps(p)
    \/ \E p \in budget.callers : Commands(p) \/ RebuildStarts(p)
    \/ \E i \in budget.items \ gone : Claims(i) \/ Picks(i) \/ Moves(i)
    \/ \E s, t \in Char : Merges(s, t)
    \/ \E c \in Char, i \in budget.items, on \in BOOLEAN : Flags(c, i, on) \/ Revokes(c, i, on)

Next ==
    \/ Works /\ UNCHANGED <<gone, removal>>
    \/ \E c \in Char : Loads(c) \/ Deletes(c)

Spec == Init /\ [][Next]_vars

-----------------------------------------------------------------------------
(* Properties *)

\* A call is in the middle of its work on i.
Touches(p, i) == Here(p) = i /\ call[p].op \notin {"end", "take", "archive"}
Settled(i) == \A p \in Proc : ~Touches(p, i)

\* capture_roi_service: a face is of the region the user drew last; an answer
\* about an older region never comes after it.
RegionCurrent == \A i \in Item : face[i] # None => face[i].region = row[i].region

\* A sample that no call is working on belongs to the character its capture is
\* labelled with, and is of the region that capture has. Three things break it
\* and are left out: a failed capture labelled as a scene keeps its sample, a
\* rejection enrols without the item lock, and a merge between the steps of a
\* label makes its enrolment fail and the old sample stay.
Follows == /\ budget.ops \cap {"scene", "anchor"} = {}
           /\ "label" \in budget.ops => "merge" \notin budget.ops
SampleMatches ==
    \A i \in Item, c \in Char :
        Follows /\ Settled(i) /\ sample[c][i] # None =>
        row[i].class = "person" /\ row[i].char = c /\ sample[c][i].region = row[i].region

\* suggest_from_face_bank: what waits for a review names an existing character,
\* and never the one the capture is labelled with. When that character is deleted
\* the review goes on waiting for none, until the face bank is asked again, which
\* knows it by its source; nothing else may leave it so. Merging characters
\* rewrites both columns and may make them equal.
SuggestsOther ==
    \A i \in Item : "merge" \notin budget.ops /\ Settled(i) /\ row[i].review = "pending" =>
        /\ row[i].sug = None => row[i].banked /\ chars # Char
        /\ row[i].sug # None => row[i].sug \in chars
        /\ row[i].class = "person" => row[i].sug # row[i].char

\* persist_verification: the sample of a label confirmed against the evidence
\* stays out of the matching until the user restores it. Left out: a rejection
\* that enrols beside the label, without the lock, with the verdict before it,
\* and a merge between the steps of a label, as above.
Doubted == "label" \in budget.ops => budget.ops \cap {"merge", "anchor"} = {}
DoubtExcludes ==
    \A i \in Item, c \in Char :
        Doubted /\ Settled(i) /\ row[i].flagged /\ sample[c][i] # None => sample[c][i].flagged
=============================================================================

---------------------------- MODULE FaceBankProofs ----------------------------
(* Proofs about FaceBank, for any captures, characters, recognizers and any  *)
(* number of calls.                                                          *)
(*                                                                           *)
(* A call is followed by its program: which kinds of call are at a step      *)
(* (Placed), which of them hold the item lock there (Holds), and what their  *)
(* locals then are (Kinded, Loaded).  The rest relates those locals to the   *)
(* row, the face and the samples that other calls may have changed.          *)
EXTENDS FaceBank, TLAPS

-----------------------------------------------------------------------------
(* The steps of the programs *)

LockKinds == {"label", "scene", "relabel", "again", "reset", "refresh", "frame", "suggest",
              "rebuild", "waiting", "prelabel"}
Enrolling == {"label", "refresh", "frame", "anchor", "dismiss", "rebuild", "process"}
Suggesting == {"refresh", "frame", "suggest", "waiting", "process", "prelabel"}
Storing == {"refresh", "frame", "rebuild", "prelabel"}
Listing == {"listPending", "listPersons", "listWaiting"}
Switching == {"switchRows", "switchFaces", "switchModel"}
Kinds == LockKinds \cup {"none", "anchor", "dismiss", "process", "accept", "accepted", "reject",
                         "switch", "archive"}
Ops == {"end", "take", "release", "label", "verify", "resolve", "moot", "relabel", "again", "reset",
        "begin", "frame", "ready", "rebuild", "prelabel", "store", "readItem", "readFace",
        "readVerified", "enrol", "clear", "match", "suggest", "offer", "look", "accepted",
        "rejected", "dismiss", "complete", "archive"} \cup Switching \cup Listing

\* A call of kind k can be at the op.
Placed(k, op) ==
    /\ op = "end" <=> k = "none"
    /\ op \in {"take", "release"} => k \in LockKinds
    /\ op = "label" => k \in {"label", "scene"}
    /\ op \in {"verify", "resolve"} => k = "label"
    /\ op = "moot" => k = "scene"
    /\ op = "relabel" => k = "relabel"
    /\ op = "again" => k = "again"
    /\ op = "reset" => k = "reset"
    /\ op = "begin" => k \in {"refresh", "frame"}
    /\ op \in {"frame", "ready"} => k = "frame"
    /\ op = "rebuild" => k = "rebuild"
    /\ op = "prelabel" => k = "prelabel"
    /\ op = "store" => k \in Storing
    /\ op \in {"readItem", "readFace", "readVerified", "enrol"} => k \in Enrolling
    /\ op \in {"clear", "match", "suggest"} => k \in Suggesting
    /\ op = "offer" => k = "accept"
    /\ op = "look" => k \in {"accepted", "reject", "anchor"}
    /\ op = "accepted" => k = "accepted"
    /\ op = "rejected" => k \in {"reject", "anchor"}
    /\ op = "dismiss" => k = "dismiss"
    /\ op = "complete" => k = "process"
    /\ op = "archive" => k \in {"process", "archive"}
    /\ op \in Switching => k = "switch"
    /\ op = "listPending" => k = "dismiss"
    /\ op = "listPersons" => k = "rebuild"
    /\ op = "listWaiting" => k = "waiting"

LEMMA AfterTake ==
    /\ After("label", "take") = "label" /\ After("scene", "take") = "label"
    /\ After("relabel", "take") = "relabel" /\ After("again", "take") = "again"
    /\ After("reset", "take") = "reset" /\ After("refresh", "take") = "begin"
    /\ After("frame", "take") = "frame" /\ After("suggest", "take") = "clear"
    /\ After("rebuild", "take") = "rebuild" /\ After("waiting", "take") = "clear"
    /\ After("prelabel", "take") = "prelabel"
  BY DEF After, Program

LEMMA AfterRelease ==
    ASSUME NEW k \in LockKinds
    PROVE  After(k, "release") = "end"
<1>1. /\ After("label", "release") = "end" /\ After("scene", "release") = "end"
      /\ After("relabel", "release") = "end" /\ After("again", "release") = "end"
      /\ After("reset", "release") = "end" /\ After("refresh", "release") = "end"
  BY DEF After, Program
<1>2. /\ After("frame", "release") = "end" /\ After("suggest", "release") = "end"
      /\ After("rebuild", "release") = "end" /\ After("waiting", "release") = "end"
      /\ After("prelabel", "release") = "end"
  BY DEF After, Program
<1> QED BY <1>1, <1>2 DEF LockKinds

LEMMA AfterReads ==
    ASSUME NEW k \in Enrolling
    PROVE  /\ After(k, "readItem") = "readFace"
           /\ After(k, "readFace") = "readVerified"
           /\ After(k, "readVerified") = "enrol"
<1>1. /\ After("label", "readItem") = "readFace" /\ After("refresh", "readItem") = "readFace"
      /\ After("frame", "readItem") = "readFace" /\ After("anchor", "readItem") = "readFace"
      /\ After("dismiss", "readItem") = "readFace" /\ After("rebuild", "readItem") = "readFace"
      /\ After("process", "readItem") = "readFace"
  BY DEF After, Program
<1>2. /\ After("label", "readFace") = "readVerified" /\ After("refresh", "readFace") = "readVerified"
      /\ After("frame", "readFace") = "readVerified" /\ After("anchor", "readFace") = "readVerified"
      /\ After("dismiss", "readFace") = "readVerified"
      /\ After("rebuild", "readFace") = "readVerified"
      /\ After("process", "readFace") = "readVerified"
  BY DEF After, Program
<1>3. /\ After("label", "readVerified") = "enrol" /\ After("refresh", "readVerified") = "enrol"
      /\ After("frame", "readVerified") = "enrol" /\ After("anchor", "readVerified") = "enrol"
      /\ After("dismiss", "readVerified") = "enrol" /\ After("rebuild", "readVerified") = "enrol"
      /\ After("process", "readVerified") = "enrol"
  BY DEF After, Program
<1> QED BY <1>1, <1>2, <1>3 DEF Enrolling

LEMMA AfterEnrol ==
    /\ After("label", "enrol") = "resolve" /\ After("refresh", "enrol") = "clear"
    /\ After("frame", "enrol") = "clear" /\ After("anchor", "enrol") = "end"
    /\ After("dismiss", "enrol") = "end" /\ After("rebuild", "enrol") = "release"
    /\ After("process", "enrol") = "clear"
  BY DEF After, Program

LEMMA AfterMatch ==
    ASSUME NEW k \in Suggesting
    PROVE  After(k, "clear") = "match" /\ After(k, "match") = "suggest"
<1>1. /\ After("refresh", "clear") = "match" /\ After("frame", "clear") = "match"
      /\ After("suggest", "clear") = "match" /\ After("waiting", "clear") = "match"
      /\ After("process", "clear") = "match" /\ After("prelabel", "clear") = "match"
  BY DEF After, Program
<1>2. /\ After("refresh", "match") = "suggest" /\ After("frame", "match") = "suggest"
      /\ After("suggest", "match") = "suggest" /\ After("waiting", "match") = "suggest"
      /\ After("process", "match") = "suggest" /\ After("prelabel", "match") = "suggest"
  BY DEF After, Program
<1> QED BY <1>1, <1>2 DEF Suggesting

LEMMA AfterSuggest ==
    /\ After("refresh", "suggest") = "release" /\ After("frame", "suggest") = "ready"
    /\ After("suggest", "suggest") = "release" /\ After("waiting", "suggest") = "release"
    /\ After("process", "suggest") = "archive" /\ After("prelabel", "suggest") = "release"
  BY DEF After, Program

LEMMA AfterExtraction ==
    /\ After("refresh", "begin") = "store" /\ After("frame", "begin") = "store"
    /\ After("rebuild", "rebuild") = "store" /\ After("prelabel", "prelabel") = "store"
    /\ After("refresh", "store") = "readItem" /\ After("frame", "store") = "readItem"
    /\ After("rebuild", "store") = "readItem" /\ After("prelabel", "store") = "clear"
  BY DEF After, Program

LEMMA AfterOthers ==
    /\ After("label", "label") = "verify" /\ After("scene", "label") = "moot"
    /\ After("label", "verify") = "readItem" /\ After("label", "resolve") = "release"
    /\ After("scene", "moot") = "release" /\ After("relabel", "relabel") = "release"
    /\ After("again", "again") = "release" /\ After("reset", "reset") = "release"
    /\ After("frame", "frame") = "begin" /\ After("frame", "ready") = "release"
    /\ After("process", "complete") = "readItem"
    /\ After("process", "archive") = "end" /\ After("archive", "archive") = "end"
  BY DEF After, Program

LEMMA AfterReviews ==
    /\ After("accepted", "look") = "accepted" /\ After("reject", "look") = "rejected"
    /\ After("anchor", "look") = "rejected" /\ After("accepted", "accepted") = "end"
    /\ After("reject", "rejected") = "end" /\ After("anchor", "rejected") = "readItem"
    /\ After("dismiss", "dismiss") = "readItem"
    /\ After("switch", "switchRows") = "switchFaces"
    /\ After("switch", "switchFaces") = "switchModel" /\ After("switch", "switchModel") = "end"
  BY DEF After, Program

LEMMA Heads ==
    /\ Head(Program["label"]) = "take" /\ Head(Program["scene"]) = "take"
    /\ Head(Program["relabel"]) = "take" /\ Head(Program["again"]) = "take"
    /\ Head(Program["reset"]) = "take" /\ Head(Program["refresh"]) = "take"
    /\ Head(Program["frame"]) = "take" /\ Head(Program["suggest"]) = "take"
    /\ Head(Program["rebuild"]) = "take" /\ Head(Program["waiting"]) = "take"
    /\ Head(Program["prelabel"]) = "take" /\ Head(Program["accept"]) = "offer"
    /\ Head(Program["accepted"]) = "look" /\ Head(Program["reject"]) = "look"
    /\ Head(Program["anchor"]) = "look" /\ Head(Program["dismiss"]) = "dismiss"
    /\ Head(Program["switch"]) = "switchRows" /\ Head(Program["process"]) = "complete"
    /\ Head(Program["archive"]) = "archive"
  BY DEF Program

-----------------------------------------------------------------------------
(* Calls *)

Label == [class : {"unclassified", "person", "other"}, char : Char \cup {None}]
Call == [kind : Kinds, op : Ops, at : Item \cup {None}, rest : SUBSET Item,
         arg : Char \cup {None} \cup Region \cup Models, soft : BOOLEAN,
         model : Models \cup {None}, version : Nat, item : Label \cup {None},
         face : Face \cup {None}, flagged : BOOLEAN, pick : Char \cup {None}]

Workers == {"process", "archive", "prelabel"}
Looping == {"dismiss", "rebuild", "waiting"}

\* Who makes a call of the kind, on what, and with which argument.
Kinded(p, c, ops) ==
    /\ c.kind \notin {"none", "switch"} /\ c.op \notin Listing => c.at \in Item
    /\ c.rest # {} => c.kind \in Looping
    /\ c.kind \in Workers => p = Worker /\ c.soft
    /\ c.kind \in Workers \cup {"rebuild"} => c.model \in Models
    /\ p = Worker => c.kind \in Workers \cup {"none"}
    /\ c.kind = "label" => c.arg \in Char /\ "label" \in ops
    /\ c.kind = "scene" => c.arg = None /\ "scene" \in ops
    /\ c.kind \in {"anchor", "dismiss"} => "anchor" \in ops
    /\ c.kind = "relabel" => c.arg \in Char \cup {None}
    /\ c.kind = "frame" => c.arg \in Region
    /\ c.kind = "switch" => c.arg \in Models

\* What a call has read by the time it is at its op.
Loaded(c) ==
    /\ c.op \in {"readFace", "readVerified", "enrol", "match", "suggest"} => c.item \in Label
    /\ c.op \in {"readVerified", "enrol"} => c.item.class = "person" /\ c.item.char # None
    /\ c.op = "enrol" => c.face \in Face /\ c.face.vector = "feature" /\ c.face.good
    /\ c.op = "suggest" => c.pick \in Char /\ c.pick # c.item.char
    /\ c.op = "store" => c.face \in Face

Shape(p, c, ops) == c \in Call /\ Placed(c.kind, c.op) /\ Kinded(p, c, ops) /\ Loaded(c)
Holds(c) == c.kind \in LockKinds /\ c.op \notin {"take", "listPersons", "listWaiting"}

Starting == {"end", "take", "dismiss", "look", "offer", "switchRows"} \cup Listing
\* The call keeps its place and what it holds, or is about to start anew.
Onward(c, d) ==
    /\ Holds(d) <=> Holds(c)
    /\ d.op \in Starting \/ (d.kind = c.kind /\ d.at = c.at /\ d.arg = c.arg)
Became(p, d) == call' = [call EXCEPT ![p] = d] /\ Shape(p, d, budget.ops)

TypeOK ==
    /\ row \in [Item -> Row]
    /\ face \in [Item -> Face \cup {None}]
    /\ sample \in [Char -> [Item -> Sample \cup {None}]]
    /\ chars \in SUBSET Char
    /\ model \in Models
    /\ here \in [Item -> BOOLEAN]
    /\ lock \in [Item -> Proc \cup {None}]
    /\ call \in [Proc -> Call]
    /\ budget \in [ops : SUBSET STRING, left : Nat, items : SUBSET Item,
                   callers : SUBSET (Proc \ {Worker}), start : SUBSET {"new", "labelled"}]
ShapeInv == \A p \in Proc : Shape(p, call[p], budget.ops)
LockInv == \A p \in Proc, i \in Item :
               lock[i] = p <=> Holds(call[p]) /\ call[p].at = i
CallInv == TypeOK /\ ShapeInv /\ LockInv

\* A call that goes on at an op of its program that needs nothing new.
LEMMA GoesOn ==
    ASSUME NEW p \in Proc, NEW c \in Call, NEW op \in Ops, NEW ops,
           Goes(p, c, op), op # "end", c.op \notin Listing,
           Placed(c.kind, op), Kinded(p, c, ops), Loaded([c EXCEPT !.op = op])
    PROVE  /\ call' = [call EXCEPT ![p] = [c EXCEPT !.op = op]]
           /\ Shape(p, [c EXCEPT !.op = op], ops)
<1>1. call' = [call EXCEPT ![p] = [c EXCEPT !.op = op]]
  BY DEF Goes
<1>2. [c EXCEPT !.op = op] \in Call
  BY DEF Call
<1>3. Kinded(p, [c EXCEPT !.op = op], ops) /\ Placed([c EXCEPT !.op = op].kind, [c EXCEPT !.op = op].op)
  BY DEF Call, Kinded
<1> QED BY <1>1, <1>2, <1>3 DEF Shape

LEMMA IdleShape ==
    ASSUME NEW p \in Proc, NEW ops
    PROVE  Shape(p, Idle, ops) /\ Idle.op \in Starting /\ ~Holds(Idle)
<1>1. Idle.kind = "none" /\ Idle.op = "end" /\ Idle.rest = {}
  BY DEF Idle
<1>2. Idle \in Call
  BY DEF Idle, Call, Kinds, Ops
<1>3. Placed(Idle.kind, Idle.op) /\ Kinded(p, Idle, ops)
  BY <1>1 DEF Placed, Kinded, Workers, Looping, Listing, Switching
<1>4. Loaded(Idle) /\ Idle.op \in Starting /\ ~Holds(Idle)
  BY <1>1 DEF Loaded, Starting, Holds, LockKinds
<1> QED BY <1>2, <1>3, <1>4 DEF Shape

\* A call whose program is over.
LEMMA GoesEnd ==
    ASSUME NEW p \in Proc, NEW c \in Call, NEW ops,
           Goes(p, c, "end"), Kinded(p, c, ops)
    PROVE  \E d : /\ call' = [call EXCEPT ![p] = d] /\ Shape(p, d, ops)
                  /\ d.op \in Starting /\ ~Holds(d)
<1>1. CASE c.rest = {} /\ c.kind # "rebuild"
  <2>1. call' = [call EXCEPT ![p] = Idle]
    BY <1>1 DEF Goes
  <2> QED BY <2>1, IdleShape
<1>2. CASE c.rest = {} /\ c.kind = "rebuild"
  <2> DEFINE d == [Idle EXCEPT !.kind = "waiting", !.op = "listWaiting"]
  <2>1. call' = [call EXCEPT ![p] = d]
    BY <1>2 DEF Goes
  <2>2. p # Worker
    BY <1>2 DEF Kinded, Workers
  <2>3. d \in Call
    BY DEF Call, Idle, Kinds, LockKinds, Ops, Listing
  <2>4. d.kind = "waiting" /\ d.op = "listWaiting" /\ d.rest = {}
    BY DEF Idle
  <2>5. Placed(d.kind, d.op) /\ Kinded(p, d, ops)
    BY <2>2, <2>4 DEF Placed, Kinded, Workers, Looping, Listing, Switching
  <2>6. Loaded(d) /\ d.op \in Starting /\ ~Holds(d)
    BY <2>4 DEF Loaded, Starting, Holds, Listing
  <2> QED BY <2>1, <2>3, <2>5, <2>6 DEF Shape
<1>3. CASE c.rest # {}
  <2>1. PICK i \in c.rest : call' = [call EXCEPT ![p] = [Idle EXCEPT
                         !.kind = c.kind, !.op = Head(Program[c.kind]), !.at = i,
                         !.rest = c.rest \ {i}, !.model = c.model]]
    BY <1>3 DEF Goes
  <2>2. c.kind \in Looping /\ p # Worker
    BY <1>3 DEF Kinded, Workers, Looping
  <2> DEFINE o == IF c.kind = "dismiss" THEN "dismiss" ELSE "take"
             d == [Idle EXCEPT !.kind = c.kind, !.op = o, !.at = i,
                               !.rest = c.rest \ {i}, !.model = c.model]
  <2>3. Head(Program[c.kind]) = o
    BY <2>2, Heads DEF Looping
  <2>4. call' = [call EXCEPT ![p] = d]
    BY <2>1, <2>3
  <2>5. i \in Item
    BY DEF Call
  <2>11. o \in Ops /\ c.kind \in Kinds /\ c.rest \ {i} \in SUBSET Item
         /\ c.model \in Models \cup {None}
    BY DEF Call, Ops
  <2>6. d \in Call
    <3> HIDE DEF o
    <3> QED BY <2>5, <2>11 DEF Call, Idle
  <2>7. /\ d.kind = c.kind /\ d.op = o /\ d.at = i /\ d.model = c.model
    BY DEF Idle
  <2>8. Placed(d.kind, d.op)
    BY <2>2, <2>7 DEF Placed, LockKinds, Looping, Listing, Switching
  <2>9. Kinded(p, d, ops)
    BY <2>2, <2>5, <2>7 DEF Kinded, Looping, Workers
  <2>10. Loaded(d) /\ d.op \in Starting /\ ~Holds(d)
    BY <2>7, <2>2 DEF Loaded, Starting, Holds, Looping, LockKinds
  <2> QED BY <2>4, <2>6, <2>8, <2>9, <2>10 DEF Shape
<1> QED BY <1>1, <1>2, <1>3

\* Forgetting changes nothing but what was read.
LEMMA Forgotten ==
    ASSUME NEW p \in Proc, NEW c \in Call, NEW ops, Kinded(p, c, ops)
    PROVE  /\ Forgets(c) \in Call
           /\ Kinded(p, Forgets(c), ops)
           /\ Forgets(c).kind = c.kind /\ Forgets(c).op = c.op /\ Forgets(c).at = c.at
           /\ Forgets(c).arg = c.arg /\ Forgets(c).rest = c.rest
<1>1. Forgets(c) \in Call
  BY DEF Forgets, Call
<1>2. /\ Forgets(c).kind = c.kind /\ Forgets(c).op = c.op /\ Forgets(c).at = c.at
      /\ Forgets(c).arg = c.arg /\ Forgets(c).rest = c.rest /\ Forgets(c).soft = c.soft
      /\ Forgets(c).model = c.model
  BY DEF Forgets, Call
<1> QED BY <1>1, <1>2 DEF Kinded

LEMMA Facts ==
    ASSUME CallInv, NEW p \in Proc
    PROVE  /\ call[p] \in Call
           /\ Placed(call[p].kind, call[p].op)
           /\ Kinded(p, call[p], budget.ops)
           /\ Loaded(call[p])
           /\ call[p].kind \in Kinds /\ call[p].op \in Ops
           /\ \A i \in Item : lock[i] = p <=> Holds(call[p]) /\ call[p].at = i
BY DEF CallInv, TypeOK, ShapeInv, LockInv, Shape, Call

\* Other locals: the same call.
LEMMA Locals ==
    ASSUME NEW p, NEW c \in Call, NEW d \in Call, NEW ops, Kinded(p, c, ops),
           d.kind = c.kind, d.op = c.op, d.at = c.at, d.arg = c.arg,
           d.rest = c.rest \/ d.rest = {}, d.soft = c.soft, d.model = c.model
    PROVE  Kinded(p, d, ops)
BY DEF Kinded

LEMMA Advances ==
    ASSUME CallInv, NEW p \in Proc, NEW c \in Call, NEW op \in Ops \ ({"end", "take"} \cup Listing),
           Goes(p, c, op), c.op \notin Listing \cup {"take"}, Placed(c.kind, op),
           Kinded(p, c, budget.ops), Loaded([c EXCEPT !.op = op]),
           c.kind = call[p].kind, c.at = call[p].at, c.arg = call[p].arg, c.op = call[p].op
    PROVE  Became(p, [c EXCEPT !.op = op]) /\ Onward(call[p], [c EXCEPT !.op = op])
<1>1. Became(p, [c EXCEPT !.op = op])
  BY GoesOn DEF Became
<1>2. /\ [c EXCEPT !.op = op].kind = c.kind /\ [c EXCEPT !.op = op].at = c.at
      /\ [c EXCEPT !.op = op].arg = c.arg /\ [c EXCEPT !.op = op].op = op
  BY DEF Call
<1>3. Onward(call[p], [c EXCEPT !.op = op])
  BY <1>2 DEF Onward, Holds, Listing
<1> QED BY <1>1, <1>3

LEMMA Finishes ==
    ASSUME CallInv, NEW p \in Proc, NEW c \in Call,
           Goes(p, c, "end"), Kinded(p, c, budget.ops), ~Holds(call[p])
    PROVE  \E d : Became(p, d) /\ Onward(call[p], d) /\ d.op \in Starting
<1>1. PICK d : /\ call' = [call EXCEPT ![p] = d] /\ Shape(p, d, budget.ops)
               /\ d.op \in Starting /\ ~Holds(d)
  BY GoesEnd
<1> QED BY <1>1 DEF Became, Onward

LEMMA Stopping ==
    ASSUME CallInv, NEW p \in Proc, Stops(p), ~Holds(call[p])
    PROVE  \E d : Became(p, d) /\ Onward(call[p], d) /\ d.op \in Starting
BY IdleShape DEF Became, Onward, Stops

\* An error, and the continue of a loop.
LEMMA Leaving ==
    ASSUME CallInv, NEW p \in Proc, Leaves(p), call[p].at \in Item,
           call[p].op \notin Listing \cup {"take"}
    PROVE  \E d : Became(p, d) /\ Onward(call[p], d) /\ d.op \in {"release"} \cup Starting
<1>1. CASE lock[call[p].at] = p
  <2> DEFINE c == Forgets(call[p])
  <2>1. c \in Call /\ Kinded(p, c, budget.ops) /\ c.kind = call[p].kind /\ c.at = call[p].at
        /\ c.arg = call[p].arg /\ c.op = call[p].op
    BY Facts, Forgotten
  <2>2. c.kind \in LockKinds
    BY <1>1, <2>1, Facts DEF Holds
  <2>3. Placed(c.kind, "release") /\ "release" \in Ops \ ({"end", "take"} \cup Listing)
    BY <2>2 DEF Placed, LockKinds, Ops, Listing, Switching
  <2>4. Loaded([c EXCEPT !.op = "release"])
    BY <2>1 DEF Loaded, Call
  <2>5. Goes(p, c, "release")
    BY <1>1 DEF Leaves, Here
  <2> HIDE DEF c
  <2>6. Became(p, [c EXCEPT !.op = "release"]) /\ Onward(call[p], [c EXCEPT !.op = "release"])
    BY <2>1, <2>3, <2>4, <2>5, Advances
  <2>7. [c EXCEPT !.op = "release"].op = "release"
    BY <2>1 DEF Call
  <2> QED BY <2>6, <2>7
<1>2. CASE lock[call[p].at] # p
  <2>1. Stops(p) /\ ~Holds(call[p])
    BY <1>2, Facts DEF Leaves, Here
  <2> QED BY <2>1, Stopping
<1> QED BY <1>1, <1>2

\* Enrolling is over; a label then answers the suggestion.
LEMMA EnrolOver ==
    ASSUME CallInv, NEW p \in Proc, Done(p, "enrol"), call[p].kind \in Enrolling,
           call[p].op \notin Listing \cup {"take"}
    PROVE  \E d : /\ Became(p, d) /\ Onward(call[p], d)
                  /\ d.op \in {"resolve", "clear", "release"} \cup Starting
                  /\ call[p].kind = "label" => d.op = "resolve"
<1> DEFINE c == Forgets(call[p])
           o == After(call[p].kind, "enrol")
<1>1. c \in Call /\ Kinded(p, c, budget.ops) /\ c.kind = call[p].kind /\ c.at = call[p].at
      /\ c.arg = call[p].arg /\ c.op = call[p].op
  BY Facts, Forgotten
<1>2. Goes(p, c, o)
  BY DEF Done
<1>3. CASE call[p].kind \in {"anchor", "dismiss"}
  <2>1. o = "end" /\ ~Holds(call[p])
    BY <1>3, AfterEnrol DEF Holds, LockKinds
  <2> HIDE DEF c, o
  <2>2. PICK d : Became(p, d) /\ Onward(call[p], d) /\ d.op \in Starting
    BY <1>1, <1>2, <2>1, Finishes
  <2> QED BY <1>3, <2>2
<1>4. CASE call[p].kind \in {"label", "refresh", "frame", "rebuild", "process"}
  <2>1. /\ o \in {"resolve", "clear", "release"} /\ Placed(call[p].kind, o)
        /\ call[p].kind = "label" => o = "resolve"
    <3>1. CASE call[p].kind = "label"
      BY <3>1, AfterEnrol DEF Placed, Listing, Switching
    <3>2. CASE call[p].kind \in {"refresh", "frame", "process"}
      BY <3>2, AfterEnrol DEF Placed, Listing, Switching, Suggesting
    <3>3. CASE call[p].kind = "rebuild"
      BY <3>3, AfterEnrol DEF Placed, Listing, Switching, LockKinds
    <3> QED BY <1>4, <3>1, <3>2, <3>3
  <2> HIDE DEF c, o
  <2>2. Loaded([c EXCEPT !.op = o])
    BY <1>1, <2>1 DEF Loaded, Call
  <2>3. o \in Ops \ ({"end", "take"} \cup Listing)
    BY <2>1 DEF Ops, Listing
  <2>4. Became(p, [c EXCEPT !.op = o]) /\ Onward(call[p], [c EXCEPT !.op = o])
    BY <1>1, <1>2, <2>1, <2>2, <2>3, Advances
  <2>5. [c EXCEPT !.op = o].op = o
    BY <1>1 DEF Call
  <2> QED BY <2>1, <2>4, <2>5
<1> QED BY <1>3, <1>4 DEF Enrolling

LEMMA SuggestOver ==
    ASSUME CallInv, NEW p \in Proc, Done(p, "suggest"), call[p].kind \in Suggesting,
           call[p].op \notin Listing \cup {"take"}
    PROVE  \E d : /\ Became(p, d) /\ Onward(call[p], d)
                  /\ d.op \in {"release", "ready", "archive"}
<1> DEFINE c == Forgets(call[p])
           o == After(call[p].kind, "suggest")
<1>1. c \in Call /\ Kinded(p, c, budget.ops) /\ c.kind = call[p].kind /\ c.at = call[p].at
      /\ c.arg = call[p].arg /\ c.op = call[p].op
  BY Facts, Forgotten
<1>2. Goes(p, c, o)
  BY DEF Done
<1>3. o \in {"release", "ready", "archive"} /\ Placed(call[p].kind, o)
  <2>1. CASE call[p].kind \in {"refresh", "suggest", "waiting", "prelabel"}
    BY <2>1, AfterSuggest DEF Placed, Listing, Switching, LockKinds
  <2>2. CASE call[p].kind = "frame"
    BY <2>2, AfterSuggest DEF Placed, Listing, Switching
  <2>3. CASE call[p].kind = "process"
    BY <2>3, AfterSuggest DEF Placed, Listing, Switching
  <2> QED BY <2>1, <2>2, <2>3 DEF Suggesting
<1> HIDE DEF c, o
<1>4. Loaded([c EXCEPT !.op = o])
  BY <1>1, <1>3 DEF Loaded, Call
<1>5. o \in Ops \ ({"end", "take"} \cup Listing)
  BY <1>3 DEF Ops, Listing
<1>6. Became(p, [c EXCEPT !.op = o]) /\ Onward(call[p], [c EXCEPT !.op = o])
  BY <1>1, <1>2, <1>3, <1>4, <1>5, Advances
<1>7. [c EXCEPT !.op = o].op = o
  BY <1>1 DEF Call
<1> QED BY <1>3, <1>6, <1>7

-----------------------------------------------------------------------------
(* What each step does to its call *)

\* Steps after which a call has read something.
Reading == {"readFace", "readVerified", "enrol", "match", "suggest", "store"}

\* A step that reads nothing.
LEMMA NextOn ==
    ASSUME CallInv, NEW p \in Proc, NEW o \in Ops \ ({"end", "take"} \cup Listing \cup Reading),
           Next1(p), After(call[p].kind, call[p].op) = o, Placed(call[p].kind, o),
           call[p].op \notin Listing \cup {"take"}
    PROVE  Became(p, [call[p] EXCEPT !.op = o]) /\ Onward(call[p], [call[p] EXCEPT !.op = o])
<1>1. Goes(p, call[p], o)
  BY DEF Next1, Keeps
<1>2. Loaded([call[p] EXCEPT !.op = o])
  BY Facts DEF Loaded, Call, Reading
<1>3. o \in Ops \ ({"end", "take"} \cup Listing)
  OBVIOUS
<1> QED BY <1>1, <1>2, <1>3, Facts, Advances

LEMMA NextEnd ==
    ASSUME CallInv, NEW p \in Proc, Next1(p), After(call[p].kind, call[p].op) = "end",
           ~Holds(call[p])
    PROVE  \E d : Became(p, d) /\ Onward(call[p], d) /\ d.op \in Starting
BY Facts, Finishes DEF Next1, Keeps

LEMMA TakesCall ==
    ASSUME CallInv, NEW p \in Proc, Takes(p)
    PROVE  \E o \in {"label", "relabel", "again", "reset", "begin", "frame", "clear", "rebuild",
                     "prelabel"} :
              /\ Became(p, [call[p] EXCEPT !.op = o])
              /\ Holds([call[p] EXCEPT !.op = o]) /\ ~Holds(call[p])
              /\ call[p].at \in Item
<1> DEFINE k == call[p].kind
           o == After(k, "take")
<1>1. call[p].op = "take" /\ k \in LockKinds /\ call[p].at \in Item
  <2>1. call[p].op = "take"
    BY DEF Takes, At
  <2>2. k \in LockKinds
    BY <2>1, Facts DEF Placed
  <2>3. call[p].at \in Item
    BY <2>1, <2>2, Facts DEF Kinded, LockKinds, Listing
  <2> QED BY <2>1, <2>2, <2>3
<1>2. /\ o \in {"label", "relabel", "again", "reset", "begin", "frame", "clear", "rebuild",
                "prelabel"}
      /\ Placed(k, o)
  <2>1. CASE k \in {"label", "scene"}
    BY <2>1, AfterTake DEF Placed, Switching
  <2>2. CASE k \in {"relabel", "again", "reset"}
    BY <2>2, AfterTake DEF Placed, Switching
  <2>3. CASE k \in {"refresh", "frame"}
    BY <2>3, AfterTake DEF Placed, Switching
  <2>4. CASE k \in {"suggest", "waiting"}
    BY <2>4, AfterTake DEF Placed, Switching, Suggesting
  <2>5. CASE k \in {"rebuild", "prelabel"}
    BY <2>5, AfterTake DEF Placed, Switching
  <2> QED BY <1>1, <2>1, <2>2, <2>3, <2>4, <2>5 DEF LockKinds
<1>3. Goes(p, call[p], o)
  BY <1>1 DEF Takes, Next1, Keeps
<1> HIDE DEF o
<1>4. Loaded([call[p] EXCEPT !.op = o])
  BY <1>2, Facts DEF Loaded, Call
<1>5. o \in Ops /\ o # "end" /\ call[p].op \notin Listing
  BY <1>1, <1>2 DEF Ops, Listing
<1>6. Became(p, [call[p] EXCEPT !.op = o])
  BY <1>2, <1>3, <1>4, <1>5, Facts, GoesOn DEF Became
<1>7. [call[p] EXCEPT !.op = o].op = o /\ [call[p] EXCEPT !.op = o].kind = k
  BY Facts DEF Call
<1>8. Holds([call[p] EXCEPT !.op = o]) /\ ~Holds(call[p])
  BY <1>1, <1>2, <1>7 DEF Holds
<1> QED BY <1>1, <1>2, <1>6, <1>8

LEMMA ReleasesCall ==
    ASSUME CallInv, NEW p \in Proc, Releases(p)
    PROVE  \E d : /\ Became(p, d) /\ d.op \in Starting /\ ~Holds(d)
                  /\ Holds(call[p]) /\ call[p].at \in Item
<1>1. call[p].op = "release"
  BY DEF Releases, At
<1>2. call[p].kind \in LockKinds
  BY <1>1, Facts DEF Placed
<1>3. call[p].at \in Item
  BY <1>1, <1>2, Facts DEF Kinded, LockKinds, Listing
<1>4. Goes(p, call[p], "end")
  BY <1>1, <1>2, AfterRelease DEF Releases, Next1, Keeps
<1>5. PICK d : /\ call' = [call EXCEPT ![p] = d] /\ Shape(p, d, budget.ops)
               /\ d.op \in Starting /\ ~Holds(d)
  BY <1>4, Facts, GoesEnd
<1>6. Holds(call[p])
  BY <1>1, <1>2 DEF Holds
<1> QED BY <1>3, <1>5, <1>6 DEF Became

LEMMA ReadsItemCall ==
    ASSUME CallInv, NEW p \in Proc, ReadsItem(p)
    PROVE  /\ call[p].at \in Item /\ call[p].kind \in Enrolling /\ call[p].op = "readItem"
           /\ \E d : /\ Became(p, d) /\ Onward(call[p], d)
                     /\ d = [call[p] EXCEPT !.item = [class |-> row[call[p].at].class,
                                                      char |-> row[call[p].at].char],
                                            !.op = "readFace"]
<1>1. call[p].op = "readItem" /\ call[p].kind \in Enrolling
  BY Facts DEF ReadsItem, At, Placed
<1>2. call[p].at \in Item
  BY <1>1, Facts DEF Kinded, Enrolling, Listing
<1> DEFINE l == [class |-> row[call[p].at].class, char |-> row[call[p].at].char]
           c == [call[p] EXCEPT !.item = l]
<1>3. l \in Label
  BY <1>2 DEF CallInv, TypeOK, Row, Label
<1> HIDE DEF l
<1>4. /\ c \in Call /\ c.kind = call[p].kind /\ c.at = call[p].at /\ c.arg = call[p].arg
      /\ c.op = call[p].op /\ c.rest = call[p].rest /\ c.soft = call[p].soft
      /\ c.model = call[p].model /\ c.item = l
  BY <1>3, Facts DEF Call
<1>6. Goes(p, c, "readFace")
  BY <1>1, <1>4, AfterReads DEF ReadsItem, Keeps, Here, l
<1> HIDE DEF c
<1>5. Kinded(p, c, budget.ops)
  BY <1>4, Facts, Locals
<1>7. Loaded([c EXCEPT !.op = "readFace"])
  BY <1>3, <1>4 DEF Loaded, Call
<1>8. Placed(c.kind, "readFace") /\ "readFace" \in Ops \ ({"end", "take"} \cup Listing)
      /\ c.op \notin Listing \cup {"take"}
  BY <1>1, <1>4 DEF Placed, Enrolling, Ops, Listing, Switching
<1>9. Became(p, [c EXCEPT !.op = "readFace"]) /\ Onward(call[p], [c EXCEPT !.op = "readFace"])
  BY <1>4, <1>5, <1>6, <1>7, <1>8, Advances
<1>10. [c EXCEPT !.op = "readFace"] = [call[p] EXCEPT !.item = l, !.op = "readFace"]
  BY Facts DEF c, Call
<1> QED BY <1>1, <1>2, <1>9, <1>10 DEF l

LEMMA ReadsFaceCall ==
    ASSUME CallInv, NEW p \in Proc, ReadsFace(p)
    PROVE  /\ call[p].at \in Item /\ call[p].kind \in Enrolling /\ call[p].op = "readFace"
           /\ \/ \E d : /\ Became(p, d) /\ Onward(call[p], d)
                        /\ d = [call[p] EXCEPT !.face = face[call[p].at], !.op = "readVerified"]
                        /\ sample' = sample
              \/ \E d : /\ Became(p, d) /\ Onward(call[p], d)
                        /\ d.op \in {"resolve", "clear", "release"} \cup Starting
                        /\ call[p].kind = "label" => d.op = "resolve"
                        /\ NoSamples(call[p].at)
                        /\ ~(call[p].item.class = "person" /\ call[p].item.char # None)
<1>1. call[p].op = "readFace" /\ call[p].kind \in Enrolling
  BY Facts DEF ReadsFace, At, Placed
<1>2. call[p].at \in Item
  BY <1>1, Facts DEF Kinded, Enrolling, Listing
<1>3. CASE call[p].item.class = "person" /\ call[p].item.char # None
  <2> DEFINE c == [call[p] EXCEPT !.face = face[call[p].at]]
  <2>1. face[call[p].at] \in Face \cup {None}
    BY <1>2 DEF CallInv, TypeOK
  <2>2. /\ c \in Call /\ c.kind = call[p].kind /\ c.at = call[p].at /\ c.arg = call[p].arg
        /\ c.op = call[p].op /\ c.rest = call[p].rest /\ c.soft = call[p].soft
        /\ c.model = call[p].model /\ c.item = call[p].item
    BY <2>1, Facts DEF Call
  <2>3. Goes(p, c, "readVerified") /\ sample' = sample
    BY <1>1, <1>3, <2>2, AfterReads DEF ReadsFace, Keeps, Here
  <2>4. [c EXCEPT !.op = "readVerified"]
          = [call[p] EXCEPT !.face = face[call[p].at], !.op = "readVerified"]
    BY Facts DEF Call
  <2> HIDE DEF c
  <2>5. Kinded(p, c, budget.ops)
    BY <2>2, Facts, Locals
  <2>6. Loaded([c EXCEPT !.op = "readVerified"])
    BY <1>1, <1>3, <2>2, Facts DEF Loaded, Call
  <2>7. Placed(c.kind, "readVerified") /\ "readVerified" \in Ops \ ({"end", "take"} \cup Listing)
        /\ c.op \notin Listing \cup {"take"}
    BY <1>1, <2>2 DEF Placed, Enrolling, Ops, Listing, Switching
  <2>8. /\ Became(p, [c EXCEPT !.op = "readVerified"])
        /\ Onward(call[p], [c EXCEPT !.op = "readVerified"])
    BY <2>2, <2>3, <2>5, <2>6, <2>7, Advances
  <2> QED BY <1>1, <1>2, <2>3, <2>4, <2>8
<1>4. CASE ~(call[p].item.class = "person" /\ call[p].item.char # None)
  <2>1. NoSamples(call[p].at) /\ Done(p, "enrol")
    BY <1>4 DEF ReadsFace, Here
  <2>2. call[p].op \notin Listing \cup {"take"}
    BY <1>1 DEF Listing
  <2> QED BY <1>1, <1>2, <1>4, <2>1, <2>2, EnrolOver
<1> QED BY <1>3, <1>4

LEMMA ReadsVerifiedCall ==
    ASSUME CallInv, NEW p \in Proc, ReadsVerified(p)
    PROVE  /\ call[p].at \in Item /\ call[p].kind \in Enrolling /\ call[p].op = "readVerified"
           /\ \/ \E d : /\ Became(p, d) /\ Onward(call[p], d)
                        /\ d = [call[p] EXCEPT !.flagged = row[call[p].at].flagged, !.op = "enrol"]
                        /\ sample' = sample
              \/ \E d : /\ Became(p, d) /\ Onward(call[p], d)
                        /\ d.op \in {"resolve", "clear", "release"} \cup Starting
                        /\ call[p].kind = "label" => d.op = "resolve"
                        /\ NoSamples(call[p].at)
                        /\ ~(/\ call[p].face # None /\ call[p].face.vector = "feature"
                             /\ call[p].face.good)
<1>1. call[p].op = "readVerified" /\ call[p].kind \in Enrolling
  BY Facts DEF ReadsVerified, At, Placed
<1>2. call[p].at \in Item
  BY <1>1, Facts DEF Kinded, Enrolling, Listing
<1> DEFINE sound == /\ call[p].face # None /\ call[p].face.vector = "feature"
                    /\ call[p].face.good
<1>3. CASE sound
  <2> DEFINE c == [call[p] EXCEPT !.flagged = row[call[p].at].flagged]
  <2>1. row[call[p].at].flagged \in BOOLEAN
    BY <1>2 DEF CallInv, TypeOK, Row
  <2>2. /\ c \in Call /\ c.kind = call[p].kind /\ c.at = call[p].at /\ c.arg = call[p].arg
        /\ c.op = call[p].op /\ c.rest = call[p].rest /\ c.soft = call[p].soft
        /\ c.model = call[p].model /\ c.item = call[p].item /\ c.face = call[p].face
    BY <2>1, Facts DEF Call
  <2>3. Goes(p, c, "enrol") /\ sample' = sample
    BY <1>1, <1>3, <2>2, AfterReads DEF ReadsVerified, Keeps, Here
  <2>4. [c EXCEPT !.op = "enrol"]
          = [call[p] EXCEPT !.flagged = row[call[p].at].flagged, !.op = "enrol"]
    BY Facts DEF Call
  <2> HIDE DEF c
  <2>5. Kinded(p, c, budget.ops)
    BY <2>2, Facts, Locals
  <2>9. call[p].face \in Face
    BY <1>3, Facts DEF Call
  <2>6. Loaded([c EXCEPT !.op = "enrol"])
    BY <1>1, <1>3, <2>2, <2>9, Facts DEF Loaded, Call
  <2>7. Placed(c.kind, "enrol") /\ "enrol" \in Ops \ ({"end", "take"} \cup Listing)
        /\ c.op \notin Listing \cup {"take"}
    BY <1>1, <2>2 DEF Placed, Enrolling, Ops, Listing, Switching
  <2>8. Became(p, [c EXCEPT !.op = "enrol"]) /\ Onward(call[p], [c EXCEPT !.op = "enrol"])
    BY <2>2, <2>3, <2>5, <2>6, <2>7, Advances
  <2> QED BY <1>1, <1>2, <2>3, <2>4, <2>8
<1>4. CASE ~sound
  <2>1. NoSamples(call[p].at) /\ Done(p, "enrol")
    BY <1>4 DEF ReadsVerified, Here
  <2>2. call[p].op \notin Listing \cup {"take"}
    BY <1>1 DEF Listing
  <2> QED BY <1>1, <1>2, <1>4, <2>1, <2>2, EnrolOver
<1> QED BY <1>3, <1>4

LEMMA EnrolCall ==
    ASSUME CallInv, NEW p \in Proc, Enrol(p)
    PROVE  /\ call[p].at \in Item /\ call[p].kind \in Enrolling /\ call[p].op = "enrol"
           /\ \E d : /\ Became(p, d) /\ Onward(call[p], d)
                     /\ d.op \in {"resolve", "clear", "release"} \cup Starting
                     /\ call[p].kind = "label" /\ call[p].item.char \in chars => d.op = "resolve"
<1>1. call[p].op = "enrol" /\ call[p].kind \in Enrolling
  BY Facts DEF Enrol, At, Placed
<1>2. call[p].at \in Item
  BY <1>1, Facts DEF Kinded, Enrolling, Listing
<1>3. call[p].op \notin Listing \cup {"take"}
  BY <1>1 DEF Listing
<1>4. CASE call[p].item.char \in chars \/ call[p].soft
  <2>1. Done(p, "enrol")
    BY <1>4 DEF Enrol
  <2> QED BY <1>1, <1>2, <1>3, <2>1, EnrolOver
<1>5. CASE ~(call[p].item.char \in chars \/ call[p].soft)
  <2>1. Leaves(p)
    BY <1>5 DEF Enrol
  <2> QED BY <1>1, <1>2, <1>3, <1>5, <2>1, Leaving
<1> QED BY <1>4, <1>5

LEMMA ClearsCall ==
    ASSUME CallInv, NEW p \in Proc, Clears(p)
    PROVE  /\ call[p].at \in Item /\ call[p].kind \in Suggesting /\ call[p].op = "clear"
           /\ \E d : /\ Became(p, d) /\ Onward(call[p], d)
                     /\ d = [call[p] EXCEPT !.item = [class |-> row[call[p].at].class,
                                                      char |-> row[call[p].at].char],
                                            !.op = "match"]
<1>1. call[p].op = "clear" /\ call[p].kind \in Suggesting
  BY Facts DEF Clears, At, Placed
<1>2. call[p].at \in Item
  BY <1>1, Facts DEF Kinded, Suggesting, Listing
<1> DEFINE l == [class |-> row[call[p].at].class, char |-> row[call[p].at].char]
           c == [call[p] EXCEPT !.item = l]
<1>3. l \in Label
  BY <1>2 DEF CallInv, TypeOK, Row, Label
<1> HIDE DEF l
<1>4. /\ c \in Call /\ c.kind = call[p].kind /\ c.at = call[p].at /\ c.arg = call[p].arg
      /\ c.op = call[p].op /\ c.rest = call[p].rest /\ c.soft = call[p].soft
      /\ c.model = call[p].model /\ c.item = l
  BY <1>3, Facts DEF Call
<1>5. Goes(p, c, "match")
  BY <1>1, <1>4, AfterMatch DEF Clears, Keeps, Here, l
<1> HIDE DEF c
<1>6. Kinded(p, c, budget.ops)
  BY <1>4, Facts, Locals
<1>7. Loaded([c EXCEPT !.op = "match"])
  BY <1>3, <1>4 DEF Loaded, Call
<1>8. Placed(c.kind, "match") /\ "match" \in Ops \ ({"end", "take"} \cup Listing)
      /\ c.op \notin Listing \cup {"take"}
  BY <1>1, <1>4 DEF Placed, Suggesting, Ops, Listing, Switching
<1>9. Became(p, [c EXCEPT !.op = "match"]) /\ Onward(call[p], [c EXCEPT !.op = "match"])
  BY <1>4, <1>5, <1>6, <1>7, <1>8, Advances
<1>10. [c EXCEPT !.op = "match"] = [call[p] EXCEPT !.item = l, !.op = "match"]
  BY Facts DEF c, Call
<1> QED BY <1>1, <1>2, <1>9, <1>10 DEF l

LEMMA MatchesCall ==
    ASSUME CallInv, NEW p \in Proc, Matches(p)
    PROVE  /\ call[p].at \in Item /\ call[p].kind \in Suggesting /\ call[p].op = "match"
           /\ \E d : /\ Became(p, d) /\ Onward(call[p], d)
                     /\ \/ d.op = "suggest" /\ d.item = call[p].item
                        \/ d.op \in {"release", "ready", "archive"}
<1>1. call[p].op = "match" /\ call[p].kind \in Suggesting
  BY Facts DEF Matches, At, Placed
<1>2. call[p].at \in Item
  BY <1>1, Facts DEF Kinded, Suggesting, Listing
<1>3. call[p].op \notin Listing \cup {"take"}
  BY <1>1 DEF Listing
<1>4. CASE Done(p, "suggest")
  BY <1>1, <1>2, <1>3, <1>4, SuggestOver
<1>5. ASSUME NEW x \in Candidates(call[p].at, call[p].item.char),
             Keeps(p, [call[p] EXCEPT !.pick = x])
      PROVE  \E d : Became(p, d) /\ Onward(call[p], d) /\ d.op = "suggest" /\ d.item = call[p].item
  <2> DEFINE c == [call[p] EXCEPT !.pick = x]
  <2>1. x \in Char /\ x # call[p].item.char
    BY DEF Candidates, CallInv, TypeOK
  <2>2. /\ c \in Call /\ c.kind = call[p].kind /\ c.at = call[p].at /\ c.arg = call[p].arg
        /\ c.op = call[p].op /\ c.rest = call[p].rest /\ c.soft = call[p].soft
        /\ c.model = call[p].model /\ c.item = call[p].item /\ c.pick = x
    BY <2>1, Facts DEF Call
  <2>3. Goes(p, c, "suggest")
    BY <1>1, <1>5, <2>2, AfterMatch DEF Keeps
  <2> HIDE DEF c
  <2>4. Kinded(p, c, budget.ops)
    BY <2>2, Facts, Locals
  <2>5. Loaded([c EXCEPT !.op = "suggest"])
    BY <1>1, <2>1, <2>2, Facts DEF Loaded, Call
  <2>6. Placed(c.kind, "suggest") /\ "suggest" \in Ops \ ({"end", "take"} \cup Listing)
        /\ c.op \notin Listing \cup {"take"}
    BY <1>1, <2>2 DEF Placed, Suggesting, Ops, Listing, Switching
  <2>7. Became(p, [c EXCEPT !.op = "suggest"]) /\ Onward(call[p], [c EXCEPT !.op = "suggest"])
    BY <2>2, <2>3, <2>4, <2>5, <2>6, Advances
  <2>8. [c EXCEPT !.op = "suggest"].op = "suggest" /\ [c EXCEPT !.op = "suggest"].item = c.item
    BY <2>2 DEF Call
  <2> QED BY <2>2, <2>7, <2>8
<1>6. \/ Done(p, "suggest")
      \/ \E x \in Candidates(call[p].at, call[p].item.char) : Keeps(p, [call[p] EXCEPT !.pick = x])
  BY DEF Matches, Here
<1> QED BY <1>1, <1>2, <1>4, <1>5, <1>6

LEMMA EndsCall ==
    ASSUME CallInv, NEW p \in Proc, Ends(p), call[p].kind \in LockKinds,
           call[p].op \notin Listing \cup {"take"}
    PROVE  \E d : Became(p, d) /\ Onward(call[p], d) /\ d.op = "release"
<1> DEFINE c == [Forgets(call[p]) EXCEPT !.rest = {}]
<1>2. /\ Forgets(call[p]) \in Call /\ Kinded(p, Forgets(call[p]), budget.ops)
      /\ Forgets(call[p]).kind = call[p].kind /\ Forgets(call[p]).op = call[p].op
      /\ Forgets(call[p]).at = call[p].at /\ Forgets(call[p]).arg = call[p].arg
  BY Facts, Forgotten
<1>3. /\ c \in Call /\ c.kind = Forgets(call[p]).kind /\ c.op = Forgets(call[p]).op
      /\ c.at = Forgets(call[p]).at /\ c.arg = Forgets(call[p]).arg /\ c.rest = {}
      /\ c.soft = Forgets(call[p]).soft /\ c.model = Forgets(call[p]).model
  BY <1>2 DEF Call
<1>4. Goes(p, c, "release")
  BY DEF Ends
<1> HIDE DEF c
<1>5. Kinded(p, c, budget.ops)
  BY <1>2, <1>3, Locals
<1>6. Placed(c.kind, "release") /\ "release" \in Ops \ ({"end", "take"} \cup Listing)
      /\ c.op \notin Listing \cup {"take"}
  BY <1>2, <1>3 DEF Placed, LockKinds, Ops, Listing, Switching
<1>7. Loaded([c EXCEPT !.op = "release"]) /\ [c EXCEPT !.op = "release"].op = "release"
  BY <1>3 DEF Loaded, Call
<1>8. Became(p, [c EXCEPT !.op = "release"]) /\ Onward(call[p], [c EXCEPT !.op = "release"])
  BY <1>2, <1>3, <1>4, <1>5, <1>6, <1>7, Advances
<1> QED BY <1>7, <1>8

LEMMA SuggestCall ==
    ASSUME CallInv, NEW p \in Proc, Suggest(p)
    PROVE  /\ call[p].at \in Item /\ call[p].kind \in Suggesting /\ call[p].op = "suggest"
           /\ \E d : /\ Became(p, d) /\ Onward(call[p], d)
                     /\ d.op \in {"release", "ready", "archive"}
<1>1. call[p].op = "suggest" /\ call[p].kind \in Suggesting
  BY Facts DEF Suggest, At, Placed
<1>2. call[p].at \in Item
  BY <1>1, Facts DEF Kinded, Suggesting, Listing
<1>3. call[p].op \notin Listing \cup {"take"}
  BY <1>1 DEF Listing
<1>4. CASE Done(p, "suggest")
  BY <1>1, <1>2, <1>3, <1>4, SuggestOver
<1>5. CASE Ends(p) /\ ~call[p].soft
  <2>1. call[p].kind \in LockKinds
    BY <1>1, <1>5, Facts DEF Kinded, Suggesting, Workers, LockKinds
  <2>2. \E d : Became(p, d) /\ Onward(call[p], d) /\ d.op = "release"
    BY SMTT(30), <1>3, <1>5, <2>1, EndsCall
  <2> QED BY <1>1, <1>2, <2>2
<1> QED BY <1>4, <1>5 DEF Suggest

\* The engine is asked, or refuses.
LEMMA AsksCall ==
    ASSUME CallInv, NEW p \in Proc, NEW m \in Models, Asks(p, m), call[p].at \in Item,
           call[p].op \in {"begin", "rebuild", "prelabel"}
    PROVE  \E d : /\ Became(p, d) /\ Onward(call[p], d)
                  /\ \/ d.op = "store" /\ d.face.region = row[call[p].at].region
                     \/ d.op \in {"release"} \cup Starting
<1>1. /\ call[p].kind \in Storing
      /\ After(call[p].kind, call[p].op) = "store"
  BY Facts, AfterExtraction DEF Placed, Storing
<1>2. call[p].op \notin Listing \cup {"take"}
  BY DEF Listing
<1>3. CASE Leaves(p)
  BY <1>2, <1>3, Leaving
<1>4. ASSUME NEW f \in Answers(call[p].at, m),
             Keeps(p, [call[p] EXCEPT !.face = f, !.version = row[call[p].at].version])
      PROVE  \E d : /\ Became(p, d) /\ Onward(call[p], d)
                    /\ d.op = "store" /\ d.face.region = row[call[p].at].region
  <2> DEFINE v == row[call[p].at].version
             c == [call[p] EXCEPT !.face = f, !.version = v]
  <2>1. row[call[p].at].region \in Region /\ v \in Nat
    BY DEF CallInv, TypeOK, Row
  <2>2. f \in Face /\ f.region = row[call[p].at].region
    BY <2>1 DEF Answers, Face
  <2> HIDE DEF v
  <2>10. c \in Call
    <3>1. call[p] \in Call /\ f \in Face \cup {None} /\ v \in Nat
      BY <2>1, <2>2, Facts
    <3> QED BY <3>1 DEF Call
  <2>3. /\ c.kind = call[p].kind /\ c.at = call[p].at /\ c.arg = call[p].arg
        /\ c.op = call[p].op /\ c.rest = call[p].rest /\ c.soft = call[p].soft
        /\ c.model = call[p].model /\ c.face = f
    <3>1. call[p] \in Call
      BY Facts
    <3> QED BY <3>1 DEF Call
  <2>4. Goes(p, c, "store")
    BY <1>1, <1>4, <2>3 DEF Keeps, v
  <2> HIDE DEF c
  <2>5. Kinded(p, c, budget.ops)
    BY <2>3, <2>10, Facts, Locals
  <2>6. Loaded([c EXCEPT !.op = "store"])
    BY <2>2, <2>3, <2>10 DEF Loaded, Call
  <2>7. Placed(c.kind, "store") /\ "store" \in Ops \ ({"end", "take"} \cup Listing)
        /\ c.op \notin Listing \cup {"take"}
    BY <1>1, <1>2, <2>3 DEF Placed, Storing, Ops, Listing, Switching
  <2>8. Became(p, [c EXCEPT !.op = "store"]) /\ Onward(call[p], [c EXCEPT !.op = "store"])
    BY <2>3, <2>4, <2>5, <2>6, <2>7, <2>10, Advances
  <2>9. [c EXCEPT !.op = "store"].op = "store" /\ [c EXCEPT !.op = "store"].face = f
    BY <2>3, <2>10 DEF Call
  <2> QED BY <2>2, <2>8, <2>9
<1> QED BY <1>3, <1>4 DEF Asks, Here

\* The three that ask: of a capture that nobody processes.
LEMMA AskersCall ==
    ASSUME CallInv, NEW p \in Proc, Begins(p) \/ Prelabels(p) \/ Rebuilds(p)
    PROVE  /\ call[p].at \in Item /\ call[p].kind \in Storing
           /\ call[p].op \in {"begin", "rebuild", "prelabel"}
           /\ \E d : /\ Became(p, d) /\ Onward(call[p], d)
                     /\ \/ /\ d.op = "store" /\ d.face.region = row[call[p].at].region
                           /\ ~Busy(call[p].at)
                        \/ d.op \in {"release"} \cup Starting
<1>1. call[p].op \in {"begin", "rebuild", "prelabel"}
  BY DEF Begins, Prelabels, Rebuilds, At
<1>2. call[p].kind \in Storing
  BY <1>1, Facts DEF Placed, Storing
<1>3. call[p].at \in Item
  BY <1>1, <1>2, Facts DEF Kinded, Storing, Listing
<1>4. call[p].op \notin Listing \cup {"take"}
  BY <1>1 DEF Listing
<1>5. CASE Leaves(p)
  BY <1>1, <1>2, <1>3, <1>4, <1>5, Leaving
<1>6. CASE ~Leaves(p)
  <2>1. \E m \in Models : Asks(p, m) /\ ~Busy(call[p].at)
    <3>1. CASE Begins(p)
      BY <1>6, <3>1 DEF Begins, Here, CallInv, TypeOK
    <3>2. CASE Prelabels(p)
      <4>1. call[p].op = "prelabel"
        BY <3>2 DEF Prelabels, At
      <4>2. call[p].kind = "prelabel"
        BY <4>1, Facts DEF Placed
      <4>3. call[p].model \in Models
        BY <4>2, Facts DEF Kinded, Workers
      <4> QED BY <1>6, <3>2, <4>3 DEF Prelabels, Here, Busy
    <3>3. CASE Rebuilds(p)
      <4>1. call[p].op = "rebuild"
        BY <3>3 DEF Rebuilds, At
      <4>2. call[p].kind = "rebuild"
        BY <4>1, Facts DEF Placed
      <4>3. call[p].model \in Models
        BY <4>2, Facts DEF Kinded, Workers
      <4> QED BY <1>6, <3>3, <4>3 DEF Rebuilds, Here
    <3> QED BY <3>1, <3>2, <3>3
  <2> QED BY <1>1, <1>2, <1>3, <2>1, AsksCall
<1> QED BY <1>5, <1>6

LEMMA StoresCall ==
    ASSUME CallInv, NEW p \in Proc, Stores(p)
    PROVE  /\ call[p].at \in Item /\ call[p].kind \in Storing /\ call[p].op = "store"
           /\ \E d : /\ Became(p, d) /\ Onward(call[p], d)
                     /\ d.op \in {"readItem", "clear", "release"} \cup Starting
<1>1. call[p].op = "store" /\ call[p].kind \in Storing
  BY Facts DEF Stores, At, Placed
<1>2. call[p].at \in Item
  BY <1>1, Facts DEF Kinded, Storing, Listing
<1>3. call[p].op \notin Listing \cup {"take"}
  BY <1>1 DEF Listing
<1>4. CASE Leaves(p)
  BY <1>1, <1>2, <1>3, <1>4, Leaving
<1>5. CASE Done(p, "store")
  <2> DEFINE c == Forgets(call[p])
             o == After(call[p].kind, "store")
  <2>1. c \in Call /\ Kinded(p, c, budget.ops) /\ c.kind = call[p].kind /\ c.at = call[p].at
        /\ c.arg = call[p].arg /\ c.op = call[p].op
    BY Facts, Forgotten
  <2>2. Goes(p, c, o)
    BY <1>5 DEF Done
  <2>3. o \in {"readItem", "clear"} /\ Placed(call[p].kind, o)
    <3>1. CASE call[p].kind = "prelabel"
      BY <3>1, AfterExtraction DEF Placed, Listing, Switching, Suggesting
    <3>2. CASE call[p].kind \in {"refresh", "frame", "rebuild"}
      BY <3>2, AfterExtraction DEF Placed, Listing, Switching, Enrolling
    <3> QED BY <1>1, <3>1, <3>2 DEF Storing
  <2> HIDE DEF c, o
  <2>4. Loaded([c EXCEPT !.op = o])
    BY <2>1, <2>3 DEF Loaded, Call
  <2>5. o \in Ops \ ({"end", "take"} \cup Listing)
    BY <2>3 DEF Ops, Listing
  <2>6. Became(p, [c EXCEPT !.op = o]) /\ Onward(call[p], [c EXCEPT !.op = o])
    BY <1>3, <2>1, <2>2, <2>3, <2>4, <2>5, Advances
  <2>7. [c EXCEPT !.op = o].op = o
    BY <2>1 DEF Call
  <2> QED BY <1>1, <1>2, <2>3, <2>6, <2>7
<1> QED BY <1>4, <1>5 DEF Stores

LEMMA LabelsCall ==
    ASSUME CallInv, NEW p \in Proc, Labels(p)
    PROVE  /\ call[p].at \in Item /\ call[p].kind \in {"label", "scene"} /\ call[p].op = "label"
           /\ \E d : /\ Became(p, d) /\ Onward(call[p], d)
                     /\ \/ Next1(p) /\ d.op \in {"verify", "moot"}
                        \/ Leaves(p) /\ d.op \in {"release"} \cup Starting
                     /\ call[p].kind = "label" /\ Next1(p) => d.op = "verify"
<1>1. call[p].op = "label" /\ call[p].kind \in {"label", "scene"}
  BY Facts DEF Labels, At, Placed
<1>2. call[p].at \in Item
  BY <1>1, Facts DEF Kinded, Listing
<1>3. call[p].op \notin Listing \cup {"take"}
  BY <1>1 DEF Listing
<1>4. CASE Next1(p)
  <2> DEFINE o == IF call[p].kind = "label" THEN "verify" ELSE "moot"
  <2>1. After(call[p].kind, call[p].op) = o
    BY <1>1, AfterOthers
  <2>2. o \in {"verify", "moot"} /\ Placed(call[p].kind, o)
    BY <1>1 DEF Placed, Listing, Switching
  <2> HIDE DEF o
  <2>3. o \in Ops \ ({"end", "take"} \cup Listing \cup Reading)
    BY <2>2 DEF Ops, Listing, Reading
  <2>4. Became(p, [call[p] EXCEPT !.op = o]) /\ Onward(call[p], [call[p] EXCEPT !.op = o])
    BY <1>3, <1>4, <2>1, <2>2, <2>3, NextOn
  <2>5. [call[p] EXCEPT !.op = o].op = o
    BY Facts DEF Call
  <2> QED BY <1>1, <1>2, <1>4, <2>2, <2>4, <2>5 DEF o
<1>5. CASE ~Next1(p) /\ Leaves(p)
  BY <1>1, <1>2, <1>3, <1>5, Leaving
<1> QED BY <1>4, <1>5 DEF Labels

LEMMA VerifiesCall ==
    ASSUME CallInv, NEW p \in Proc, Verifies(p)
    PROVE  /\ call[p].at \in Item /\ call[p].kind = "label" /\ call[p].op = "verify"
           /\ \E d : Became(p, d) /\ Onward(call[p], d) /\ d.op = "readItem"
<1>1. call[p].op = "verify" /\ call[p].kind = "label"
  BY Facts DEF Verifies, At, Placed
<1>2. call[p].at \in Item
  BY <1>1, Facts DEF Kinded, Listing
<1>3. After(call[p].kind, call[p].op) = "readItem"
  BY <1>1, AfterOthers
<1>4. /\ "readItem" \in Ops \ ({"end", "take"} \cup Listing \cup Reading)
      /\ Placed(call[p].kind, "readItem") /\ call[p].op \notin Listing \cup {"take"}
  BY <1>1 DEF Ops, Listing, Reading, Placed, Enrolling, Switching
<1>5. /\ Became(p, [call[p] EXCEPT !.op = "readItem"])
      /\ Onward(call[p], [call[p] EXCEPT !.op = "readItem"])
  BY <1>3, <1>4, NextOn DEF Verifies
<1>6. [call[p] EXCEPT !.op = "readItem"].op = "readItem"
  BY Facts DEF Call
<1> QED BY <1>1, <1>2, <1>5, <1>6

\* Steps that end what a call does under the lock.
LEMMA ReleaseNext ==
    ASSUME CallInv, NEW p \in Proc, Next1(p), call[p].kind \in LockKinds,
           After(call[p].kind, call[p].op) = "release", call[p].op \notin Listing \cup {"take"}
    PROVE  \E d : Became(p, d) /\ Onward(call[p], d) /\ d.op = "release"
<1>1. /\ "release" \in Ops \ ({"end", "take"} \cup Listing \cup Reading)
      /\ Placed(call[p].kind, "release")
  BY DEF Ops, Listing, Reading, Placed, LockKinds, Switching
<1>2. /\ Became(p, [call[p] EXCEPT !.op = "release"])
      /\ Onward(call[p], [call[p] EXCEPT !.op = "release"])
  BY <1>1, NextOn
<1>3. [call[p] EXCEPT !.op = "release"].op = "release"
  BY Facts DEF Call
<1> QED BY <1>2, <1>3

LEMMA LastCall ==
    ASSUME CallInv, NEW p \in Proc,
           Resolves(p) \/ Moots(p) \/ Relabels(p) \/ Again(p) \/ Resets(p) \/ Readies(p)
    PROVE  /\ call[p].at \in Item /\ call[p].kind \in LockKinds
           /\ call[p].op \in {"resolve", "moot", "relabel", "again", "reset", "ready"}
           /\ \E d : Became(p, d) /\ Onward(call[p], d) /\ d.op \in {"release"} \cup Starting
<1>1. call[p].op \in {"resolve", "moot", "relabel", "again", "reset", "ready"}
  BY DEF Resolves, Moots, Relabels, Again, Resets, Readies, At
<1>2. /\ call[p].kind \in {"label", "scene", "relabel", "again", "reset", "frame"}
      /\ After(call[p].kind, call[p].op) = "release"
  BY <1>1, Facts, AfterOthers DEF Placed
<1>3. call[p].kind \in LockKinds
  BY <1>2 DEF LockKinds
<1>4. call[p].at \in Item /\ call[p].op \notin Listing \cup {"take"}
  BY <1>1, <1>2, Facts DEF Kinded, Listing
<1>5. Next1(p) \/ Leaves(p)
  BY DEF Resolves, Moots, Relabels, Again, Resets, Readies
<1> QED BY <1>1, <1>2, <1>3, <1>4, <1>5, ReleaseNext, Leaving

LEMMA FramesCall ==
    ASSUME CallInv, NEW p \in Proc, Frames(p)
    PROVE  /\ call[p].at \in Item /\ call[p].kind = "frame" /\ call[p].op = "frame"
           /\ call[p].arg \in Region
           /\ \E d : /\ Became(p, d) /\ Onward(call[p], d)
                     /\ d.op \in {"begin", "release"} \cup Starting
<1>1. call[p].op = "frame" /\ call[p].kind = "frame"
  BY Facts DEF Frames, At, Placed
<1>2. call[p].at \in Item /\ call[p].arg \in Region
  BY <1>1, Facts DEF Kinded, Listing
<1>3. call[p].op \notin Listing \cup {"take"}
  BY <1>1 DEF Listing
<1>4. CASE Next1(p)
  <2>1. After(call[p].kind, call[p].op) = "begin"
    BY <1>1, AfterOthers
  <2>2. /\ "begin" \in Ops \ ({"end", "take"} \cup Listing \cup Reading)
        /\ Placed(call[p].kind, "begin")
    BY <1>1 DEF Ops, Listing, Reading, Placed, Switching
  <2>3. /\ Became(p, [call[p] EXCEPT !.op = "begin"])
        /\ Onward(call[p], [call[p] EXCEPT !.op = "begin"])
    BY <1>3, <1>4, <2>1, <2>2, NextOn
  <2>4. [call[p] EXCEPT !.op = "begin"].op = "begin"
    BY Facts DEF Call
  <2> QED BY <1>1, <1>2, <2>3, <2>4
<1>5. CASE Leaves(p)
  BY <1>1, <1>2, <1>3, <1>5, Leaving
<1> QED BY <1>4, <1>5 DEF Frames

LEMMA CompletesCall ==
    ASSUME CallInv, NEW p \in Proc, Completes(p)
    PROVE  /\ call[p].at \in Item /\ call[p].kind = "process" /\ call[p].op = "complete"
           /\ p = Worker /\ call[p].model \in Models
           /\ \E d : /\ Became(p, d) /\ Onward(call[p], d)
                     /\ \/ Next1(p) /\ d.op = "readItem"
                        \/ Stops(p) /\ d.op \in Starting
<1>1. call[p].op = "complete" /\ call[p].kind = "process"
  BY Facts DEF Completes, At, Placed
<1>2. call[p].at \in Item /\ p = Worker /\ call[p].model \in Models
  BY <1>1, Facts DEF Kinded, Listing, Workers
<1>3. call[p].op \notin Listing \cup {"take"}
  BY <1>1 DEF Listing
<1>4. CASE Next1(p)
  <2>1. After(call[p].kind, call[p].op) = "readItem"
    BY <1>1, AfterOthers
  <2>2. /\ "readItem" \in Ops \ ({"end", "take"} \cup Listing \cup Reading)
        /\ Placed(call[p].kind, "readItem")
    BY <1>1 DEF Ops, Listing, Reading, Placed, Switching, Enrolling
  <2>3. /\ Became(p, [call[p] EXCEPT !.op = "readItem"])
        /\ Onward(call[p], [call[p] EXCEPT !.op = "readItem"])
    BY <1>3, <1>4, <2>1, <2>2, NextOn
  <2>4. [call[p] EXCEPT !.op = "readItem"].op = "readItem"
    BY Facts DEF Call
  <2> QED BY <1>1, <1>2, <1>4, <2>3, <2>4
<1>5. CASE Stops(p)
  <2>1. ~Holds(call[p])
    BY <1>1 DEF Holds, LockKinds
  <2> QED BY <1>1, <1>2, <1>5, <2>1, Stopping
<1> QED BY <1>4, <1>5 DEF Completes

LEMMA ArchivesCall ==
    ASSUME CallInv, NEW p \in Proc, Archives(p)
    PROVE  /\ call[p].at \in Item /\ call[p].kind \in {"process", "archive"}
           /\ call[p].op = "archive" /\ p = Worker
           /\ \E d : Became(p, d) /\ Onward(call[p], d) /\ d.op \in Starting
<1>1. call[p].op = "archive" /\ call[p].kind \in {"process", "archive"}
  BY Facts DEF Archives, At, Placed
<1>2. call[p].at \in Item /\ p = Worker
  BY <1>1, Facts DEF Kinded, Listing, Workers
<1>3. After(call[p].kind, call[p].op) = "end" /\ ~Holds(call[p])
  BY <1>1, AfterOthers DEF Holds, LockKinds
<1> QED BY <1>1, <1>2, <1>3, NextEnd DEF Archives

LEMMA OffersCall ==
    ASSUME CallInv, NEW p \in Proc, Offers(p)
    PROVE  /\ ~Holds(call[p])
           /\ \E d : Became(p, d) /\ Onward(call[p], d) /\ d.op \in Starting
<1>1. call[p].op = "offer" /\ call[p].kind = "accept"
  BY Facts DEF Offers, At, Placed
<1>2. call[p].at \in Item /\ p # Worker /\ call[p].rest = {}
  BY <1>1, Facts DEF Kinded, Listing, Workers, Looping
<1>3. ~Holds(call[p])
  BY <1>1 DEF Holds, LockKinds
<1> DEFINE r == row[call[p].at]
<1>4. CASE r.sug # None /\ r.review = "pending"
  <2> DEFINE k == IF r.char = r.sug /\ r.class = "person" THEN "accepted" ELSE "relabel"
             o == IF k = "accepted" THEN "look" ELSE "take"
             x == r.sug
             c == [call[p] EXCEPT !.kind = k, !.arg = x, !.pick = x]
  <2>1. Goes(p, c, Head(Program[k]))
    BY <1>4 DEF Offers, Here
  <2>2. x \in Char
    BY <1>2, <1>4 DEF CallInv, TypeOK, Row
  <2>3. k \in {"accepted", "relabel"}
    OBVIOUS
  <2> HIDE DEF k, x
  <2>4. Head(Program[k]) = o /\ o \in {"look", "take"} /\ Placed(k, o)
    BY <2>3, Heads DEF Placed, LockKinds, Switching, Listing
  <2>5. c \in Call
    <3>1. /\ call[p] \in Call /\ k \in Kinds /\ x \in Char \cup {None} \cup Region \cup Models
          /\ x \in Char \cup {None}
      BY <2>2, <2>3, Facts DEF Kinds, LockKinds
    <3> QED BY <3>1 DEF Call
  <2>6. /\ c.kind = k /\ c.at = call[p].at /\ c.arg = x /\ c.op = "offer" /\ c.rest = {}
    <3>1. call[p] \in Call
      BY Facts
    <3> QED BY <1>1, <1>2, <3>1 DEF Call
  <2> HIDE DEF o, c
  <2>7. Kinded(p, c, budget.ops)
    BY <1>2, <2>2, <2>3, <2>6 DEF Kinded, Workers
  <2>8. Loaded([c EXCEPT !.op = o])
    BY <2>4, <2>5 DEF Loaded, Call
  <2>9. o \in Ops /\ o # "end" /\ c.op \notin Listing
    BY <2>4, <2>6 DEF Ops, Listing
  <2>10. Became(p, [c EXCEPT !.op = o])
    BY <2>1, <2>4, <2>5, <2>6, <2>7, <2>8, <2>9, GoesOn DEF Became
  <2>11. [c EXCEPT !.op = o].op = o /\ [c EXCEPT !.op = o].kind = k
    BY <2>5, <2>6 DEF Call
  <2>12. Onward(call[p], [c EXCEPT !.op = o]) /\ o \in Starting
    BY <1>3, <2>3, <2>4, <2>11 DEF Onward, Starting, Holds, LockKinds, o
  <2> QED BY <1>3, <2>10, <2>11, <2>12
<1>5. CASE ~(r.sug # None /\ r.review = "pending")
  <2>1. Stops(p)
    BY <1>5 DEF Offers, Here
  <2> QED BY <1>3, <2>1, Stopping
<1> QED BY <1>4, <1>5

LEMMA LooksCall ==
    ASSUME CallInv, NEW p \in Proc, Looks(p)
    PROVE  \E d : Became(p, d) /\ Onward(call[p], d) /\ d.op \in {"accepted", "rejected"} \cup Starting
<1>1. call[p].op = "look" /\ call[p].kind \in {"accepted", "reject", "anchor"}
  BY Facts DEF Looks, At, Placed
<1>2. ~Holds(call[p]) /\ call[p].op \notin Listing \cup {"take"}
  BY <1>1 DEF Holds, LockKinds, Listing
<1>3. CASE Stops(p)
  BY <1>2, <1>3, Stopping
<1>4. CASE Next1(p)
  <2> DEFINE o == IF call[p].kind = "accepted" THEN "accepted" ELSE "rejected"
  <2>1. After(call[p].kind, call[p].op) = o
    BY <1>1, AfterReviews
  <2>2. o \in {"accepted", "rejected"} /\ Placed(call[p].kind, o)
    BY <1>1 DEF Placed, Listing, Switching
  <2> HIDE DEF o
  <2>3. o \in Ops \ ({"end", "take"} \cup Listing \cup Reading)
    BY <2>2 DEF Ops, Listing, Reading
  <2>4. Became(p, [call[p] EXCEPT !.op = o]) /\ Onward(call[p], [call[p] EXCEPT !.op = o])
    BY <1>2, <1>4, <2>1, <2>2, <2>3, NextOn
  <2>5. [call[p] EXCEPT !.op = o].op = o
    BY Facts DEF Call
  <2> QED BY <2>2, <2>4, <2>5
<1> QED BY <1>3, <1>4 DEF Looks

LEMMA ReviewsCall ==
    ASSUME CallInv, NEW p \in Proc, Reviews(p)
    PROVE  /\ call[p].at \in Item
           /\ \E d : Became(p, d) /\ Onward(call[p], d) /\ d.op \in {"readItem"} \cup Starting
<1>1. /\ call[p].op \in {"accepted", "rejected", "dismiss"}
      /\ call[p].kind \in {"accepted", "reject", "anchor", "dismiss"}
  BY Facts DEF Reviews, At, Placed
<1>2. ~Holds(call[p]) /\ call[p].op \notin Listing \cup {"take"}
  BY <1>1 DEF Holds, LockKinds, Listing
<1>3. call[p].at \in Item
  BY <1>1, Facts DEF Kinded, Listing
<1>4. CASE After(call[p].kind, call[p].op) = "end"
  BY <1>2, <1>3, <1>4, NextEnd DEF Reviews
<1>5. CASE After(call[p].kind, call[p].op) # "end"
  <2>1. After(call[p].kind, call[p].op) = "readItem" /\ Placed(call[p].kind, "readItem")
    BY <1>1, <1>5, Facts, AfterReviews DEF Placed, Listing, Switching, Enrolling
  <2>2. "readItem" \in Ops \ ({"end", "take"} \cup Listing \cup Reading)
    BY DEF Ops, Listing, Reading
  <2>3. /\ Became(p, [call[p] EXCEPT !.op = "readItem"])
        /\ Onward(call[p], [call[p] EXCEPT !.op = "readItem"])
    BY <1>2, <2>1, <2>2, NextOn DEF Reviews
  <2>4. [call[p] EXCEPT !.op = "readItem"].op = "readItem"
    BY Facts DEF Call
  <2> QED BY <1>3, <2>3, <2>4
<1> QED BY <1>4, <1>5

LEMMA ListsCall ==
    ASSUME CallInv, NEW p \in Proc, Lists(p)
    PROVE  \E d : Became(p, d) /\ Onward(call[p], d) /\ d.op \in Starting
<1>1. call[p].op \in Listing /\ call[p].kind \in Looping
  BY Facts DEF Lists, At, Placed, Listing, Looping
<1>2. ~Holds(call[p])
  BY Facts DEF Lists, At, Placed, Holds, LockKinds
<1> DEFINE s == Listed(p) \ gone
           c == [call[p] EXCEPT !.rest = s]
<1>3. s \in SUBSET Item
  BY DEF Listed
<1>4. Goes(p, c, "end")
  BY DEF Lists
<1> HIDE DEF s
<1>5. c \in Call
  <2>1. call[p] \in Call
    BY Facts
  <2> QED BY <1>3, <2>1 DEF Call
<1>6. /\ c.kind = call[p].kind /\ c.op = call[p].op /\ c.at = call[p].at /\ c.arg = call[p].arg
      /\ c.soft = call[p].soft /\ c.model = call[p].model
  <2>1. call[p] \in Call
    BY Facts
  <2> QED BY <2>1 DEF Call
<1> HIDE DEF c
<1>7. Kinded(p, c, budget.ops)
  BY <1>1, <1>6, Facts DEF Kinded
<1> QED BY <1>2, <1>4, <1>5, <1>7, Finishes

LEMMA SwitchesCall ==
    ASSUME CallInv, NEW p \in Proc, Switches(p)
    PROVE  /\ call[p].arg \in Models
           /\ \E d : /\ Became(p, d) /\ Onward(call[p], d)
                     /\ d.op \in {"switchFaces", "switchModel"} \cup Starting
<1>1. call[p].op \in Switching /\ call[p].kind = "switch"
  BY Facts DEF Switches, At, Placed, Switching
<1>2. ~Holds(call[p]) /\ call[p].op \notin Listing \cup {"take"}
  BY <1>1 DEF Holds, LockKinds, Listing, Switching
<1>3. call[p].arg \in Models
  BY <1>1, Facts DEF Kinded
<1>4. CASE call[p].op = "switchModel"
  BY <1>1, <1>2, <1>3, <1>4, AfterReviews, NextEnd DEF Switches
<1>5. CASE call[p].op # "switchModel"
  <2> DEFINE o == IF call[p].op = "switchRows" THEN "switchFaces" ELSE "switchModel"
  <2>1. After(call[p].kind, call[p].op) = o
    BY <1>1, <1>5, AfterReviews DEF Switching
  <2>2. o \in {"switchFaces", "switchModel"} /\ Placed(call[p].kind, o)
    BY <1>1 DEF Placed, Listing, Switching
  <2> HIDE DEF o
  <2>3. o \in Ops \ ({"end", "take"} \cup Listing \cup Reading)
    BY <2>2 DEF Ops, Listing, Reading, Switching
  <2>4. Became(p, [call[p] EXCEPT !.op = o]) /\ Onward(call[p], [call[p] EXCEPT !.op = o])
    BY <1>2, <2>1, <2>2, <2>3, NextOn DEF Switches
  <2>5. [call[p] EXCEPT !.op = o].op = o
    BY Facts DEF Call
  <2> QED BY <1>3, <2>2, <2>4, <2>5
<1> QED BY <1>4, <1>5

LEMMA StartsCall ==
    ASSUME CallInv, NEW p \in Proc \ {Worker}, NEW k \in Kinds, NEW o \in Starting,
           NEW i \in Item \cup {None}, NEW x \in Char \cup {None} \cup Region \cup Models,
           Starts(p, k, o, i, x), Placed(k, o), o # "end", k \notin Workers,
           k = "switch" \/ o \in Listing \/ i \in Item,
           k = "label" => x \in Char /\ "label" \in budget.ops,
           k = "scene" => x = None /\ "scene" \in budget.ops,
           k \in {"anchor", "dismiss"} => "anchor" \in budget.ops,
           k = "relabel" => x \in Char \cup {None},
           k = "frame" => x \in Region, k = "switch" => x \in Models, k # "rebuild"
    PROVE  \E d : Became(p, d) /\ Onward(call[p], d) /\ d.op \in Starting
<1> DEFINE d == [Idle EXCEPT !.kind = k, !.op = o, !.at = i, !.arg = x, !.soft = k = "label"]
<1>1. call' = [call EXCEPT ![p] = d] /\ call[p].op = "end"
  BY DEF Starts, At
<1>2. /\ d.kind = k /\ d.op = o /\ d.at = i /\ d.arg = x /\ d.rest = {}
  BY DEF Idle
<1>3. d \in Call
  <2> DEFINE soft == k = "label"
  <2>1. o \in Ops /\ soft \in BOOLEAN
    BY DEF Starting, Ops, Listing, Switching
  <2>2. Idle \in Call
    BY DEF Idle, Call, Kinds, Ops
  <2>3. d = [Idle EXCEPT !.kind = k, !.op = o, !.at = i, !.arg = x, !.soft = soft]
    OBVIOUS
  <2> HIDE DEF d, soft
  <2>4. [Idle EXCEPT !.kind = k, !.op = o, !.at = i, !.arg = x, !.soft = soft] \in Call
    BY ZenonT(60), <2>1, <2>2 DEF Call
  <2> QED BY <2>3, <2>4
<1> HIDE DEF d
<1>4. Kinded(p, d, budget.ops)
  BY <1>2 DEF Kinded, Workers
<1>5. Loaded(d)
  BY <1>2 DEF Loaded, Starting, Listing
<1>6. call[p].kind = "none"
  BY <1>1, Facts DEF Placed
<1>7. ~Holds(d) /\ ~Holds(call[p])
  <2>1. ~Holds(call[p])
    BY <1>6 DEF Holds, LockKinds
  <2>2. ~Holds(d)
    BY <1>2 DEF Holds, LockKinds, Starting, Listing, Placed, Switching
  <2> QED BY <2>1, <2>2
<1> QED BY <1>1, <1>2, <1>3, <1>4, <1>5, <1>7 DEF Became, Onward, Shape

LEMMA CommandsCall ==
    ASSUME CallInv, NEW p \in budget.callers, Commands(p)
    PROVE  /\ p \in Proc
           /\ \E d : Became(p, d) /\ Onward(call[p], d) /\ d.op \in Starting
<1>1. p \in Proc \ {Worker} /\ budget.items \subseteq Item
  BY DEF CallInv, TypeOK
<1>2. chars \subseteq Char
  BY DEF CallInv, TypeOK
<1>3. ASSUME NEW i \in budget.items, NEW c \in Char, Uses("label"), Command(p, "label", i, c)
      PROVE  \E d : Became(p, d) /\ Onward(call[p], d) /\ d.op \in Starting
  <2>1. Starts(p, "label", "take", i, c)
    BY <1>3, Heads DEF Command
  <2>2. /\ "label" \in Kinds /\ "take" \in Starting /\ Placed("label", "take")
        /\ "label" \notin Workers
    BY DEF Kinds, LockKinds, Starting, Placed, Switching, Listing, Workers
  <2> QED BY <1>1, <1>3, <2>1, <2>2, StartsCall DEF Uses
<1>4. ASSUME NEW i \in budget.items, NEW c \in Char \cup {None}, Command(p, "relabel", i, c)
      PROVE  \E d : Became(p, d) /\ Onward(call[p], d) /\ d.op \in Starting
  <2>1. Starts(p, "relabel", "take", i, c)
    BY <1>4, Heads DEF Command
  <2>2. /\ "relabel" \in Kinds /\ "take" \in Starting /\ Placed("relabel", "take")
        /\ "relabel" \notin Workers
    BY DEF Kinds, LockKinds, Starting, Placed, Switching, Listing, Workers
  <2> QED BY <1>1, <1>4, <2>1, <2>2, StartsCall
<1>5. ASSUME NEW i \in budget.items,
             NEW k \in {"scene", "accept", "again", "reset", "refresh", "suggest", "reject", "anchor"},
             Uses(k), Command(p, k, i, None)
      PROVE  \E d : Became(p, d) /\ Onward(call[p], d) /\ d.op \in Starting
  <2> DEFINE o == IF k = "accept" THEN "offer" ELSE
                  IF k \in {"reject", "anchor"} THEN "look" ELSE "take"
  <2>1. Head(Program[k]) = o
    BY Heads
  <2>2. Starts(p, k, o, i, None)
    BY <1>5, <2>1 DEF Command
  <2>3. /\ k \in Kinds /\ o \in Starting /\ o # "end" /\ k \notin Workers /\ k \in budget.ops
    BY <1>5 DEF Kinds, LockKinds, Starting, Workers, Uses
  <2>4. Placed(k, o)
    BY DEF LockKinds, Placed, Switching, Listing
  <2> HIDE DEF o
  <2> QED BY <1>1, <2>2, <2>3, <2>4, StartsCall
<1>6. ASSUME NEW i \in budget.items, NEW r \in Region, Command(p, "frame", i, r)
      PROVE  \E d : Became(p, d) /\ Onward(call[p], d) /\ d.op \in Starting
  <2>1. Starts(p, "frame", "take", i, r)
    BY <1>6, Heads DEF Command
  <2>2. /\ "frame" \in Kinds /\ "take" \in Starting /\ Placed("frame", "take")
        /\ "frame" \notin Workers
    BY DEF Kinds, LockKinds, Starting, Placed, Switching, Listing, Workers
  <2> QED BY <1>1, <1>6, <2>1, <2>2, StartsCall
<1>7. ASSUME NEW c \in chars, Uses("anchor"), Starts(p, "dismiss", "listPending", None, c)
      PROVE  \E d : Became(p, d) /\ Onward(call[p], d) /\ d.op \in Starting
  <2>1. /\ "dismiss" \in Kinds /\ "listPending" \in Starting /\ Placed("dismiss", "listPending")
        /\ "dismiss" \notin Workers /\ "listPending" \in Listing
    BY DEF Kinds, LockKinds, Starting, Placed, Switching, Listing, Workers
  <2> QED BY <1>1, <1>2, <1>7, <2>1, StartsCall DEF Uses
<1>8. ASSUME NEW m \in Models \ {model}, Command(p, "switch", None, m)
      PROVE  \E d : Became(p, d) /\ Onward(call[p], d) /\ d.op \in Starting
  <2>1. Starts(p, "switch", "switchRows", None, m)
    BY <1>8, Heads DEF Command
  <2>2. /\ "switch" \in Kinds /\ "switchRows" \in Starting /\ Placed("switch", "switchRows")
        /\ "switch" \notin Workers
    BY DEF Kinds, LockKinds, Starting, Placed, Switching, Listing, Workers
  <2> QED BY <1>1, <1>8, <2>1, <2>2, StartsCall
<1> QED BY <1>1, <1>3, <1>4, <1>5, <1>6, <1>7, <1>8 DEF Commands

LEMMA RebuildStartsCall ==
    ASSUME CallInv, NEW p \in budget.callers, RebuildStarts(p)
    PROVE  /\ p \in Proc
           /\ \E d : Became(p, d) /\ Onward(call[p], d) /\ d.op \in Starting
<1>1. p \in Proc \ {Worker} /\ model \in Models
  BY DEF CallInv, TypeOK
<1> DEFINE d == [Idle EXCEPT !.kind = "rebuild", !.op = "listPersons", !.model = model]
<1>2. call' = [call EXCEPT ![p] = d] /\ call[p].op = "end"
  BY DEF RebuildStarts, At
<1>3. /\ d.kind = "rebuild" /\ d.op = "listPersons" /\ d.model = model /\ d.rest = {}
  BY DEF Idle
<1>4. d \in Call
  BY <1>1 DEF Idle, Call, Kinds, LockKinds, Ops, Listing
<1> HIDE DEF d
<1>5. Placed(d.kind, d.op) /\ Loaded(d)
  BY <1>3 DEF Placed, Loaded, Listing, Switching
<1>6. Kinded(p, d, budget.ops)
  BY <1>1, <1>3 DEF Kinded, Workers, Listing
<1>7. call[p].kind = "none"
  BY <1>1, <1>2, Facts DEF Placed
<1>8. ~Holds(d) /\ ~Holds(call[p]) /\ d.op \in Starting
  BY <1>3, <1>7 DEF Holds, LockKinds, Starting, Listing
<1> QED BY <1>1, <1>2, <1>4, <1>5, <1>6, <1>8 DEF Became, Onward, Shape

\* The worker begins.
LEMMA SoftStartsCall ==
    ASSUME CallInv, NEW i \in Item, NEW k \in Workers, SoftStarts(Worker, k, i)
    PROVE  \E d : /\ Became(Worker, d) /\ d.kind = k /\ d.at = i
                  /\ d.op \in {"complete", "archive", "take"}
                  /\ ~Holds(d) /\ ~Holds(call[Worker])
<1>1. call[Worker].op = "end" /\ call[Worker].kind = "none"
  BY WorkerAssumption, Facts DEF SoftStarts, At, Placed
<1> DEFINE o == IF k = "process" THEN "complete" ELSE IF k = "archive" THEN "archive" ELSE "take"
           d == [Idle EXCEPT !.kind = k, !.op = o, !.at = i, !.model = model, !.soft = TRUE]
<1>2. Head(Program[k]) = o
  BY Heads DEF Workers
<1>3. call' = [call EXCEPT ![Worker] = d]
  BY <1>2 DEF SoftStarts
<1>4. /\ o \in {"complete", "archive", "take"} /\ Placed(k, o) /\ model \in Models
      /\ k \in Kinds /\ o \in Ops
  BY DEF Placed, Workers, Switching, Listing, LockKinds, CallInv, TypeOK, Kinds, Ops
<1> HIDE DEF o
<1>5. /\ d.kind = k /\ d.op = o /\ d.at = i /\ d.model = model /\ d.rest = {} /\ d.soft
  BY DEF Idle
<1>6. d \in Call
  <2>1. Idle \in Call
    BY DEF Idle, Call, Kinds, Ops
  <2> QED BY <1>4, <2>1 DEF Call
<1> HIDE DEF d
<1>7. Loaded(d)
  BY <1>4, <1>5 DEF Loaded
<1>8. Kinded(Worker, d, budget.ops)
  BY <1>4, <1>5 DEF Kinded, Workers
<1>9. ~Holds(d) /\ ~Holds(call[Worker])
  BY <1>1, <1>4, <1>5 DEF Holds, LockKinds, Workers, o
<1> QED BY <1>3, <1>4, <1>5, <1>6, <1>7, <1>8, <1>9 DEF Became, Shape

-----------------------------------------------------------------------------
(* Every step keeps the calls in their programs *)

LEMMA StartingHolds ==
    ASSUME NEW p, NEW d, NEW ops, Shape(p, d, ops), d.op \in Starting
    PROVE  ~Holds(d)
BY DEF Shape, Placed, Starting, Holds, LockKinds, Listing, Switching

\* What stays of a call's place.
LEMMA OnwardAt ==
    ASSUME NEW p, NEW c, NEW d, NEW ops, Shape(p, d, ops), Onward(c, d), Holds(c)
    PROVE  d.at = c.at /\ d.kind = c.kind /\ Holds(d) /\ d.op \notin Starting
BY StartingHolds DEF Onward

LEMMA ShapesKept ==
    ASSUME CallInv, NEW p \in Proc, NEW d, Became(p, d), budget'.ops = budget.ops
    PROVE  /\ call' \in [Proc -> Call] /\ ShapeInv' /\ call'[p] = d
           /\ \A q \in Proc \ {p} : call'[q] = call[q]
<1>1. d \in Call /\ call \in [Proc -> Call]
  BY DEF Became, Shape, CallInv, TypeOK
<1>2. call' \in [Proc -> Call] /\ call'[p] = d /\ \A q \in Proc \ {p} : call'[q] = call[q]
  BY <1>1 DEF Became
<1>3. ASSUME NEW q \in Proc
      PROVE  Shape(q, call[q], budget.ops)'
  <2>1. CASE q = p
    <3>1. Shape(p, call'[p], budget'.ops)
      BY <1>2 DEF Became
    <3> QED BY <2>1, <3>1 DEF Shape, Kinded
  <2>2. CASE q # p
    <3>1. call'[q] = call[q] /\ Shape(q, call[q], budget.ops)
      BY <1>2, <2>2 DEF CallInv, ShapeInv
    <3>2. Shape(q, call'[q], budget'.ops)
      BY <3>1
    <3> QED BY <3>2 DEF Shape, Kinded
  <2> QED BY <2>1, <2>2
<1> QED BY <1>2, <1>3 DEF ShapeInv

LEMMA LockKept ==
    ASSUME CallInv, NEW p \in Proc, NEW d, Became(p, d), budget'.ops = budget.ops,
           Onward(call[p], d), lock' = lock
    PROVE  LockInv'
<1>1. call'[p] = d /\ \A q \in Proc \ {p} : call'[q] = call[q]
  BY ShapesKept
<1>2. ASSUME NEW q \in Proc, NEW i \in Item
      PROVE  lock'[i] = q <=> Holds(call'[q]) /\ call'[q].at = i
  <2>1. CASE q = p
    <3>1. Shape(p, d, budget.ops)
      BY DEF Became
    <3>2. Holds(d) <=> Holds(call[p])
      BY DEF Onward
    <3>3. Holds(call[p]) => d.at = call[p].at
      BY <3>1, OnwardAt
    <3> QED BY <1>1, <2>1, <3>2, <3>3 DEF CallInv, LockInv
  <2>2. CASE q # p
    BY <1>1, <2>2 DEF CallInv, LockInv
  <2> QED BY <2>1, <2>2
<1> QED BY <1>2 DEF LockInv, Holds

\* The row of the call is gone.
LEMMA VanishesCall ==
    ASSUME CallInv, NEW p \in Proc, Vanishes(p), gone \in SUBSET Item
    PROVE  /\ call[p].at \in gone
           /\ \E d : Became(p, d) /\ Onward(call[p], d) /\ d.op \in {"release"} \cup Starting
<1>1. call[p].at \in gone /\ call[p].at \in Item /\ call[p].op # "take"
  BY DEF Vanishes, Vanished, Here
<1>2. CASE lock[call[p].at] = p
  <2>1. Holds(call[p])
    BY <1>1, <1>2, Facts
  <2>2. call[p].kind \in LockKinds /\ call[p].op \notin Listing \cup {"take"}
    BY <1>1, <2>1 DEF Holds, LockKinds, Listing, CallInv, ShapeInv, Shape, Placed
  <2>3. Leaves(p) \/ Ends(p)
    BY DEF Vanishes
  <2> QED BY <1>1, <2>2, <2>3, Leaving, EndsCall
<1>3. CASE lock[call[p].at] # p
  <2>1. Stops(p) /\ ~Holds(call[p])
    BY <1>1, <1>3, Facts DEF Vanishes, Leaves, Here
  <2> QED BY <1>1, <2>1, Stopping
<1> QED BY <1>2, <1>3

LEMMA OnwardsCall ==
    ASSUME CallInv, NEW p \in Proc, Onwards(p)
    PROVE  \E d : Became(p, d) /\ Onward(call[p], d)
<1>1. CASE ReadsItem(p) \/ ReadsFace(p) \/ ReadsVerified(p) \/ Enrol(p)
  BY <1>1, ReadsItemCall, ReadsFaceCall, ReadsVerifiedCall, EnrolCall
<1>2. CASE Clears(p) \/ Matches(p) \/ Suggest(p)
  BY <1>2, ClearsCall, MatchesCall, SuggestCall
<1>3. CASE Begins(p) \/ Prelabels(p) \/ Rebuilds(p) \/ Stores(p)
  BY <1>3, AskersCall, StoresCall
<1>4. CASE Labels(p) \/ Verifies(p)
  BY <1>4, LabelsCall, VerifiesCall
<1>5. CASE Resolves(p) \/ Moots(p) \/ Relabels(p) \/ Again(p) \/ Resets(p) \/ Readies(p)
  BY <1>5, LastCall
<1>6. CASE Frames(p) \/ Completes(p) \/ Archives(p)
  BY <1>6, FramesCall, CompletesCall, ArchivesCall
<1>7. CASE Offers(p) \/ Looks(p) \/ Reviews(p) \/ Lists(p) \/ Switches(p)
  BY <1>7, OffersCall, LooksCall, ReviewsCall, ListsCall, SwitchesCall
<1> QED BY SMTT(30), <1>1, <1>2, <1>3, <1>4, <1>5, <1>6, <1>7 DEF Onwards

DataOK ==
    /\ row \in [Item -> Row]
    /\ face \in [Item -> Face \cup {None}]
    /\ sample \in [Char -> [Item -> Sample \cup {None}]]
    /\ chars \in SUBSET Char
    /\ model \in Models
    /\ here \in [Item -> BOOLEAN]

LEMMA RowSet ==
    ASSUME row \in [Item -> Row], NEW i \in Item, NEW r \in Row, Sets(i, r)
    PROVE  row' \in [Item -> Row] /\ row'[i] = r /\ \A j \in Item \ {i} : row'[j] = row[j]
BY DEF Sets

LEMMA FaceSet ==
    ASSUME face \in [Item -> Face \cup {None}], NEW i \in Item, NEW f \in Face \cup {None},
           face' = [face EXCEPT ![i] = f]
    PROVE  /\ face' \in [Item -> Face \cup {None}] /\ face'[i] = f
           /\ \A j \in Item \ {i} : face'[j] = face[j]
OBVIOUS

LEMMA SamplesGone ==
    ASSUME sample \in [Char -> [Item -> Sample \cup {None}]], NEW i \in Item, NoSamples(i)
    PROVE  /\ sample' \in [Char -> [Item -> Sample \cup {None}]]
           /\ \A c \in Char : sample'[c][i] = None
           /\ \A c \in Char, j \in Item \ {i} : sample'[c][j] = sample[c][j]
<1>1. ASSUME NEW c \in Char
      PROVE  /\ [sample[c] EXCEPT ![i] = None] \in [Item -> Sample \cup {None}]
             /\ [sample[c] EXCEPT ![i] = None][i] = None
             /\ \A j \in Item \ {i} : [sample[c] EXCEPT ![i] = None][j] = sample[c][j]
  <2>1. sample[c] \in [Item -> Sample \cup {None}]
    OBVIOUS
  <2> QED BY <2>1
<1> QED BY <1>1 DEF NoSamples

\* What an enrolment stores.
LEMMA SampleSet ==
    ASSUME CallInv, NEW p \in Proc, Enrol(p), call[p].item.char \in chars
    PROVE  LET i == call[p].at  c == call[p].item.char IN
           /\ sample' \in [Char -> [Item -> Sample \cup {None}]]
           /\ sample'[c][i] = Enrolled(p, sample[c][i]) /\ sample'[c][i] \in Sample
           /\ \A d \in Char \ {c} : sample'[d][i] = None
           /\ \A d \in Char, j \in Item \ {i} : sample'[d][j] = sample[d][j]
<1> DEFINE i == call[p].at
           c == call[p].item.char
           e == Enrolled(p, sample[c][i])
<1>1. i \in Item /\ call[p].op = "enrol"
  BY EnrolCall
<1>2. c \in Char
  BY DEF CallInv, TypeOK
<1>3. call[p].face \in Face
  BY <1>1, Facts DEF Loaded
<1>4. e \in Sample
  <2>1. sample[c][i] \in Sample \cup {None}
    BY <1>1, <1>2 DEF CallInv, TypeOK
  <2> DEFINE b == call[p].flagged \/ (sample[c][i] # None /\ sample[c][i].flagged)
  <2>2. e = [region |-> call[p].face.region, model |-> call[p].face.model, active |-> TRUE,
             flagged |-> b]
    BY DEF Enrolled
  <2>3. b \in BOOLEAN
    OBVIOUS
  <2>4. call[p].face.region \in Region /\ call[p].face.model \in Models
    BY <1>3 DEF Face
  <2> HIDE DEF b, e
  <2> QED BY <2>2, <2>3, <2>4 DEF Sample
<1>5. sample' = [d \in Char |-> [sample[d] EXCEPT ![i] = IF d = c THEN e ELSE None]]
  BY DEF Enrol, Here
<1> HIDE DEF e, i, c
<1>6. ASSUME NEW d \in Char, NEW x \in Sample \cup {None}
      PROVE  /\ [sample[d] EXCEPT ![i] = x] \in [Item -> Sample \cup {None}]
             /\ [sample[d] EXCEPT ![i] = x][i] = x
             /\ \A j \in Item \ {i} : [sample[d] EXCEPT ![i] = x][j] = sample[d][j]
  <2>1. sample[d] \in [Item -> Sample \cup {None}]
    BY DEF CallInv, TypeOK
  <2> QED BY <1>1, <2>1
<1>7. /\ sample' \in [Char -> [Item -> Sample \cup {None}]]
      /\ sample'[c][i] = e
      /\ \A d \in Char \ {c} : sample'[d][i] = None
      /\ \A d \in Char, j \in Item \ {i} : sample'[d][j] = sample[d][j]
  BY <1>2, <1>4, <1>5, <1>6
<1> QED BY <1>4, <1>7 DEF e, i, c

LEMMA CallSteps ==
    ASSUME CallInv, NEW p \in Proc,
           ReadsItem(p) \/ Matches(p) \/ Begins(p) \/ Prelabels(p) \/ Offers(p) \/ Looks(p) \/ Lists(p)
    PROVE  UNCHANGED <<data, lock, budget>>
BY DEF ReadsItem, Matches, Begins, Prelabels, Offers, Looks, Lists

LEMMA RowSteps ==
    ASSUME CallInv, NEW p \in Proc,
           \/ Clears(p) \/ Suggest(p) \/ Labels(p) \/ Verifies(p) \/ Resolves(p) \/ Moots(p)
           \/ Readies(p) \/ Archives(p) \/ Reviews(p)
    PROVE  /\ call[p].at \in Item /\ row' \in [Item -> Row]
           /\ \A j \in Item \ {call[p].at} : row'[j] = row[j]
           /\ UNCHANGED <<face, sample, chars, model, here, lock, budget>>
<1> DEFINE i == call[p].at
<1>1. i \in Item
  BY ClearsCall, SuggestCall, LabelsCall, VerifiesCall, LastCall, ArchivesCall, ReviewsCall
<1>2. row \in [Item -> Row] /\ row[i] \in Row
  BY <1>1 DEF CallInv, TypeOK
<1> HIDE DEF i
<1>3. CASE Clears(p)
  <2>1. (IF row[i].banked THEN Unsuggested(row[i]) ELSE row[i]) \in Row
    BY ZenonT(60), <1>2 DEF Unsuggested, Row
  <2> QED BY <1>1, <1>2, <1>3, <2>1, RowSet DEF Clears, Here, i
<1>4. CASE Suggest(p)
  <2>1. CASE call[p].pick \in chars
    <3>1. call[p].pick \in Char
      BY <2>1 DEF CallInv, TypeOK
    <3>2. [row[i] EXCEPT !.sug = call[p].pick, !.banked = TRUE, !.review = "pending"] \in Row
      BY <1>2, <3>1 DEF Row
    <3> QED BY <1>1, <1>2, <1>4, <2>1, <3>2, RowSet DEF Suggest, Here, i
  <2>2. CASE call[p].pick \notin chars
    BY <1>1, <1>2, <1>4, <2>2 DEF Suggest, i
  <2> QED BY <2>1, <2>2
<1>5. CASE Labels(p)
  <2>1. call[p].arg \in Char \cup {None}
    BY <1>5, Facts, LabelsCall DEF Kinded
  <2>2. [row[i] EXCEPT !.char = call[p].arg, !.status = "queued",
                       !.class = IF call[p].arg = None THEN "other" ELSE "person"] \in Row
    BY <1>2, <2>1 DEF Row
  <2> QED BY <1>1, <1>2, <1>5, <2>2, RowSet DEF Labels, Here, i
<1>6. CASE Verifies(p)
  <2>1. \A b \in BOOLEAN : [row[i] EXCEPT !.flagged = b] \in Row
    BY SMTT(30), <1>2 DEF Row
  <2>2. \E b \in BOOLEAN : Sets(i, [row[i] EXCEPT !.flagged = b])
    BY <1>6 DEF Verifies, Here, i
  <2> QED BY <1>1, <1>2, <1>6, <2>1, <2>2, RowSet DEF Verifies, i
<1>7. CASE Resolves(p)
  <2>1. [row[i] EXCEPT !.review = "accepted"] \in Row
    BY <1>2 DEF Row
  <2> QED BY <1>1, <1>2, <1>7, <2>1, RowSet DEF Resolves, Here, i
<1>8. CASE Moots(p)
  <2>1. Unsuggested(row[i]) \in Row
    BY <1>2 DEF Unsuggested, Row
  <2> QED BY <1>1, <1>2, <1>8, <2>1, RowSet DEF Moots, Here, i
<1>9. CASE Readies(p)
  <2>1. [row[i] EXCEPT !.ready = TRUE] \in Row
    BY <1>2 DEF Row
  <2> QED BY <1>1, <1>2, <1>9, <2>1, RowSet DEF Readies, Here, i
<1>10. CASE Archives(p)
  <2>1. \A s \in {"completed", "failed"} : [row[i] EXCEPT !.status = s] \in Row
    BY <1>2 DEF Row
  <2> QED BY <1>1, <1>2, <1>10, <2>1, RowSet DEF Archives, Here, i
<1>11. CASE Reviews(p)
  <2>1. /\ [row[i] EXCEPT !.review = "accepted"] \in Row
        /\ [Unsuggested(row[i]) EXCEPT !.review = "rejected"] \in Row
        /\ Unsuggested(row[i]) \in Row
    BY <1>2 DEF Unsuggested, Row
  <2> QED BY <1>1, <1>2, <1>11, <2>1, RowSet DEF Reviews, Here, i
<1> QED BY <1>3, <1>4, <1>5, <1>6, <1>7, <1>8, <1>9, <1>10, <1>11 DEF i

LEMMA RequeuedRow ==
    ASSUME NEW r \in Row
    PROVE  /\ Requeued(r) \in Row /\ Unsuggested(r) \in Row
           /\ Requeued(r).region = r.region /\ Requeued(r).class = r.class
           /\ Requeued(r).char = r.char /\ Requeued(r).status = "queued"
           /\ ~Requeued(r).flagged /\ Requeued(r).sug = None /\ Requeued(r).review = "none"
<1>1. Unsuggested(r) \in Row
  BY DEF Unsuggested, Row
<1>2. PICK v \in Nat : v = IF r.status = "completed" THEN r.version + 1 ELSE r.version
  BY DEF Row
<1>3. Requeued(r) = [Unsuggested(r) EXCEPT !.status = "queued", !.flagged = FALSE, !.version = v]
  BY <1>2 DEF Requeued
<1>4. Requeued(r) \in Row
  BY <1>1, <1>3 DEF Row
<1>5. /\ Unsuggested(r).region = r.region /\ Unsuggested(r).class = r.class
      /\ Unsuggested(r).char = r.char /\ Unsuggested(r).sug = None
      /\ Unsuggested(r).review = "none"
  BY DEF Unsuggested, Row
<1> QED BY <1>1, <1>3, <1>4, <1>5 DEF Row

LEMMA NewRowOK == NewRow \in Row
BY DEF NewRow, Row, Region

\* relabel, again and reset: the samples go with the row.
LEMMA RelabelsData ==
    ASSUME CallInv, NEW p \in Proc, Relabels(p)
    PROVE  /\ call[p].at \in Item
           /\ \/ UNCHANGED <<data, lock, budget>>
              \/ /\ row[call[p].at].status \notin {"processing", "pending"}
                 /\ call[p].arg # None => call[p].arg \in chars
                 /\ row'[call[p].at]
                      = [Requeued(row[call[p].at]) EXCEPT !.char = call[p].arg,
                           !.class = IF call[p].arg = None THEN "other" ELSE "person"]
                 /\ row' \in [Item -> Row] /\ \A j \in Item \ {call[p].at} : row'[j] = row[j]
                 /\ NoSamples(call[p].at)
                 /\ UNCHANGED <<face, chars, model, here, lock, budget>>
<1> DEFINE i == call[p].at
           new == [Requeued(row[i]) EXCEPT !.char = call[p].arg,
                           !.class = IF call[p].arg = None THEN "other" ELSE "person"]
<1>1. i \in Item /\ call[p].op = "relabel"
  BY LastCall DEF Relabels, At
<1>2. row \in [Item -> Row] /\ row[i] \in Row
  BY <1>1 DEF CallInv, TypeOK
<1>3. call[p].arg \in Char \cup {None}
  BY <1>1, Facts DEF Kinded, Placed
<1>4. new \in Row
  <2>1. Requeued(row[i]) \in Row
    BY <1>2, RequeuedRow
  <2> QED BY <1>3, <2>1 DEF Row
<1>5. \/ UNCHANGED <<data, lock, budget>>
      \/ /\ row[i].status \notin {"processing", "pending"}
         /\ call[p].arg # None => call[p].arg \in chars
         /\ Sets(i, new) /\ NoSamples(i)
         /\ UNCHANGED <<face, chars, model, here, lock, budget>>
  BY DEF Relabels, Here, data
<1> HIDE DEF new
<1>6. Sets(i, new) => /\ row' \in [Item -> Row] /\ row'[i] = new
                      /\ \A j \in Item \ {i} : row'[j] = row[j]
  BY <1>1, <1>2, <1>4, RowSet
<1> QED BY <1>1, <1>5, <1>6 DEF new

LEMMA AgainData ==
    ASSUME CallInv, NEW p \in Proc, Again(p)
    PROVE  /\ call[p].at \in Item
           /\ \/ UNCHANGED <<data, lock, budget>>
              \/ /\ row[call[p].at].status = "completed"
                 /\ row'[call[p].at] = Requeued(row[call[p].at])
                 /\ row' \in [Item -> Row] /\ \A j \in Item \ {call[p].at} : row'[j] = row[j]
                 /\ NoSamples(call[p].at)
                 /\ UNCHANGED <<face, chars, model, here, lock, budget>>
              \/ /\ row[call[p].at].status = "failed"
                 /\ row'[call[p].at] = [row[call[p].at] EXCEPT !.status =
                       IF row[call[p].at].char # None THEN "queued" ELSE "awaiting"]
                 /\ row' \in [Item -> Row] /\ \A j \in Item \ {call[p].at} : row'[j] = row[j]
                 /\ UNCHANGED <<face, sample, chars, model, here, lock, budget>>
<1> DEFINE i == call[p].at
           new == [row[i] EXCEPT !.status = IF row[i].char # None THEN "queued" ELSE "awaiting"]
<1>1. i \in Item
  BY LastCall
<1>2. row \in [Item -> Row] /\ row[i] \in Row
  BY <1>1 DEF CallInv, TypeOK
<1>3. new \in Row /\ Requeued(row[i]) \in Row
  BY <1>2, RequeuedRow DEF Row
<1>4. \/ UNCHANGED <<data, lock, budget>>
      \/ /\ row[i].status = "completed" /\ Sets(i, Requeued(row[i])) /\ NoSamples(i)
         /\ UNCHANGED <<face, chars, model, here, lock, budget>>
      \/ /\ row[i].status = "failed" /\ Sets(i, new)
         /\ UNCHANGED <<face, sample, chars, model, here, lock, budget>>
  BY DEF Again, Here, data
<1> HIDE DEF new
<1>5. \A r \in Row : Sets(i, r) => /\ row' \in [Item -> Row] /\ row'[i] = r
                                   /\ \A j \in Item \ {i} : row'[j] = row[j]
  BY <1>1, <1>2, RowSet
<1> QED BY <1>1, <1>3, <1>4, <1>5 DEF new

LEMMA ResetsData ==
    ASSUME CallInv, NEW p \in Proc, Resets(p)
    PROVE  /\ call[p].at \in Item
           /\ \/ UNCHANGED <<data, lock, budget>>
              \/ /\ ~Busy(call[p].at)
                 /\ \E v \in Nat : row'[call[p].at] = [NewRow EXCEPT !.version = v]
                 /\ row' \in [Item -> Row] /\ \A j \in Item \ {call[p].at} : row'[j] = row[j]
                 /\ face' \in [Item -> Face \cup {None}] /\ face'[call[p].at] = None
                 /\ \A j \in Item \ {call[p].at} : face'[j] = face[j]
                 /\ NoSamples(call[p].at)
                 /\ UNCHANGED <<chars, model, here, lock, budget>>
<1> DEFINE i == call[p].at
<1>1. i \in Item
  BY LastCall
<1>2. row \in [Item -> Row] /\ row[i] \in Row /\ face \in [Item -> Face \cup {None}]
  BY <1>1 DEF CallInv, TypeOK
<1>3. PICK v \in Nat : v = row[i].version + 1
  BY <1>2 DEF Row
<1>4. [NewRow EXCEPT !.version = v] \in Row
  BY NewRowOK DEF Row
<1>5. \/ UNCHANGED <<data, lock, budget>>
      \/ /\ ~Busy(i) /\ Sets(i, [NewRow EXCEPT !.version = v]) /\ NoSamples(i)
         /\ face' = [face EXCEPT ![i] = None]
         /\ UNCHANGED <<chars, model, here, lock, budget>>
  BY <1>3 DEF Resets, Here, data
<1>6. \A r \in Row : Sets(i, r) => /\ row' \in [Item -> Row] /\ row'[i] = r
                                   /\ \A j \in Item \ {i} : row'[j] = row[j]
  BY <1>1, <1>2, RowSet
<1>7. face' = [face EXCEPT ![i] = None] =>
         /\ face' \in [Item -> Face \cup {None}] /\ face'[i] = None
         /\ \A j \in Item \ {i} : face'[j] = face[j]
  BY <1>1, <1>2, FaceSet
<1> QED BY <1>1, <1>4, <1>5, <1>6, <1>7

LEMMA FramesData ==
    ASSUME CallInv, NEW p \in Proc, Frames(p)
    PROVE  /\ call[p].at \in Item
           /\ \/ UNCHANGED <<data, lock, budget>>
              \/ /\ row[call[p].at].status = "awaiting" /\ row[call[p].at].class = "unclassified"
                 /\ row'[call[p].at].class = "unclassified"
                 /\ row'[call[p].at].char = row[call[p].at].char
                 /\ row'[call[p].at].status = "awaiting"
                 /\ row'[call[p].at].review = "none"
                 /\ row'[call[p].at].flagged = row[call[p].at].flagged
                 /\ row' \in [Item -> Row] /\ \A j \in Item \ {call[p].at} : row'[j] = row[j]
                 /\ face' \in [Item -> Face \cup {None}] /\ face'[call[p].at] = None
                 /\ \A j \in Item \ {call[p].at} : face'[j] = face[j]
                 /\ NoSamples(call[p].at)
                 /\ UNCHANGED <<chars, model, here, lock, budget>>
<1> DEFINE i == call[p].at
           x == call[p].arg
<1>1. i \in Item /\ x \in Region
  BY FramesCall
<1>2. row \in [Item -> Row] /\ row[i] \in Row /\ face \in [Item -> Face \cup {None}]
  BY <1>1 DEF CallInv, TypeOK
<1>3. PICK v \in Nat : v = row[i].version + 1
  BY <1>2 DEF Row
<1> DEFINE new == [Unsuggested(row[i]) EXCEPT !.region = x, !.ready = FALSE,
                           !.version = v, !.deferred = TRUE]
<1>4. \/ UNCHANGED <<data, lock, budget>>
      \/ /\ row[i].status = "awaiting" /\ row[i].class = "unclassified"
         /\ Sets(i, new) /\ NoSamples(i) /\ face' = [face EXCEPT ![i] = None]
         /\ UNCHANGED <<chars, model, here, lock, budget>>
  BY <1>3 DEF Frames, Here, data
<1> HIDE DEF x
<1>5. Unsuggested(row[i]) \in Row /\ Unsuggested(row[i]).review = "none"
      /\ Unsuggested(row[i]).class = row[i].class /\ Unsuggested(row[i]).char = row[i].char
      /\ Unsuggested(row[i]).status = row[i].status /\ Unsuggested(row[i]).flagged = row[i].flagged
  BY <1>2 DEF Unsuggested, Row
<1>6. /\ new \in Row /\ new.review = "none" /\ new.class = row[i].class /\ new.char = row[i].char
      /\ new.status = row[i].status /\ new.flagged = row[i].flagged
  BY <1>1, <1>5 DEF Row
<1> HIDE DEF new
<1>7. Sets(i, new) => /\ row' \in [Item -> Row] /\ row'[i] = new
                      /\ \A j \in Item \ {i} : row'[j] = row[j]
  BY <1>1, <1>2, <1>6, RowSet
<1>8. face' = [face EXCEPT ![i] = None] =>
         /\ face' \in [Item -> Face \cup {None}] /\ face'[i] = None
         /\ \A j \in Item \ {i} : face'[j] = face[j]
  BY <1>1, <1>2, FaceSet
<1> QED BY <1>1, <1>4, <1>6, <1>7, <1>8

\* The answer is stored, and the suggestion it was about is gone.
LEMMA StoresData ==
    ASSUME CallInv, NEW p \in Proc, Stores(p)
    PROVE  /\ call[p].at \in Item /\ call[p].face \in Face
           /\ UNCHANGED <<sample, chars, model, here, lock, budget>>
           /\ \/ UNCHANGED <<row, face>>
              \/ /\ row'[call[p].at] = Unsuggested(row[call[p].at])
                 /\ row' \in [Item -> Row] /\ \A j \in Item \ {call[p].at} : row'[j] = row[j]
                 /\ face' \in [Item -> Face \cup {None}] /\ face'[call[p].at] = call[p].face
                 /\ \A j \in Item \ {call[p].at} : face'[j] = face[j]
<1> DEFINE i == call[p].at
<1>1. i \in Item /\ call[p].op = "store"
  BY StoresCall
<1>2. call[p].face \in Face
  BY <1>1, Facts DEF Loaded
<1>3. row \in [Item -> Row] /\ row[i] \in Row /\ face \in [Item -> Face \cup {None}]
  BY <1>1 DEF CallInv, TypeOK
<1>4. Unsuggested(row[i]) \in Row
  BY <1>3, RequeuedRow
<1>5. \A r \in Row : Sets(i, r) => /\ row' \in [Item -> Row] /\ row'[i] = r
                                   /\ \A j \in Item \ {i} : row'[j] = row[j]
  BY <1>1, <1>3, RowSet
<1>6. face' = [face EXCEPT ![i] = call[p].face] =>
         /\ face' \in [Item -> Face \cup {None}] /\ face'[i] = call[p].face
         /\ \A j \in Item \ {i} : face'[j] = face[j]
  BY <1>1, <1>2, <1>3, FaceSet
<1> QED BY <1>1, <1>2, <1>4, <1>5, <1>6 DEF Stores, Here

\* The worker's own extraction, without an engine, or a failure
LEMMA CompletesData ==
    ASSUME CallInv, NEW p \in Proc, Completes(p)
    PROVE  LET i == call[p].at IN
           /\ i \in Item
           /\ UNCHANGED <<sample, chars, model, here, lock, budget>>
           /\ row' \in [Item -> Row] /\ \A j \in Item \ {i} : row'[j] = row[j]
           /\ face' \in [Item -> Face \cup {None}] /\ \A j \in Item \ {i} : face'[j] = face[j]
           /\ \/ row'[i] = [Unsuggested(row[i]) EXCEPT !.status = "pending"]
                 /\ Next1(p) /\ face'[i] \in Face /\ face'[i].region = row[i].region
              \/ row'[i] = [row[i] EXCEPT !.status = "pending"] /\ Next1(p) /\ face' = face
              \/ row'[i] = [row[i] EXCEPT !.status = "failed"] /\ Stops(p) /\ face' = face
<1> DEFINE i == call[p].at
           m == call[p].model
           new == [Unsuggested(row[i]) EXCEPT !.status = "pending"]
<1>1. i \in Item /\ m \in Models
  BY CompletesCall
<1>2. row \in [Item -> Row] /\ row[i] \in Row /\ face \in [Item -> Face \cup {None}]
  BY <1>1 DEF CallInv, TypeOK
<1>3. new \in Row /\ \A s \in {"pending", "failed"} : [row[i] EXCEPT !.status = s] \in Row
  <2>1. Unsuggested(row[i]) \in Row
    BY <1>2, RequeuedRow
  <2> QED BY <1>2, <2>1 DEF Row
<1>4. \A r \in Row : Sets(i, r) => /\ row' \in [Item -> Row] /\ row'[i] = r
                                   /\ \A j \in Item \ {i} : row'[j] = row[j]
  BY <1>1, <1>2, RowSet
<1>5. UNCHANGED <<sample, chars, model, here, lock, budget>>
  BY DEF Completes
<1>6. ASSUME NEW f \in Answers(i, m),
             face' = [face EXCEPT ![i] = [f EXCEPT !.vector = IF @ = "empty" THEN "null" ELSE @]]
      PROVE  /\ face' \in [Item -> Face \cup {None}] /\ \A j \in Item \ {i} : face'[j] = face[j]
             /\ face'[i] \in Face /\ face'[i].region = row[i].region
  <2>1. row[i].region \in Region
    BY <1>2 DEF Row
  <2>2. f \in Face /\ f.region = row[i].region
    BY <1>1, <2>1 DEF Answers, Face
  <2> DEFINE g == [f EXCEPT !.vector = IF @ = "empty" THEN "null" ELSE @]
  <2>3. g \in Face /\ g.region = row[i].region
    BY <2>2 DEF Face
  <2> HIDE DEF g
  <2>4. face' = [face EXCEPT ![i] = g]
    BY <1>6 DEF g
  <2>5. g \in Face \cup {None}
    BY <2>3
  <2> QED BY <1>1, <1>2, <2>3, <2>4, <2>5, FaceSet
<1> HIDE DEF m
<1>7. \/ /\ Sets(i, new) /\ Next1(p)
         /\ \E f \in Answers(i, m) :
               face' = [face EXCEPT ![i] = [f EXCEPT !.vector = IF @ = "empty" THEN "null" ELSE @]]
      \/ Sets(i, [row[i] EXCEPT !.status = "pending"]) /\ Next1(p) /\ face' = face
      \/ Sets(i, [row[i] EXCEPT !.status = "failed"]) /\ Stops(p) /\ face' = face
  BY DEF Completes, Here, m
<1> HIDE DEF i, new
<1>8. CASE /\ Sets(i, new) /\ Next1(p)
           /\ \E f \in Answers(i, m) :
               face' = [face EXCEPT ![i] = [f EXCEPT !.vector = IF @ = "empty" THEN "null" ELSE @]]
  BY <1>1, <1>3, <1>4, <1>5, <1>6, <1>8 DEF i, new
<1>9. CASE Sets(i, [row[i] EXCEPT !.status = "pending"]) /\ Next1(p) /\ face' = face
  BY <1>1, <1>2, <1>3, <1>4, <1>5, <1>9 DEF i
<1>10. CASE Sets(i, [row[i] EXCEPT !.status = "failed"]) /\ Stops(p) /\ face' = face
  BY <1>1, <1>2, <1>3, <1>4, <1>5, <1>10 DEF i
<1> QED BY <1>7, <1>8, <1>9, <1>10

LEMMA SwitchesData ==
    ASSUME CallInv, NEW p \in Proc, Switches(p)
    PROVE  /\ UNCHANGED <<sample, chars, here, lock, budget>> /\ model' \in Models
           /\ row' \in [Item -> Row]
           /\ \A i \in Item : row'[i] = row[i] \/ row'[i] = Unsuggested(row[i])
           /\ face' \in [Item -> Face \cup {None}]
           /\ \A i \in Item : \/ face'[i] = face[i]
                              \/ /\ face[i] # None /\ row[i].status = "awaiting"
                                 /\ face'[i] = [face[i] EXCEPT !.vector = "null"]
                                 /\ face'[i] \in Face
<1>1. row \in [Item -> Row] /\ face \in [Item -> Face \cup {None}] /\ model \in Models
  BY DEF CallInv, TypeOK
<1>2. call[p].arg \in Models
  BY SwitchesCall
<1>3. \A i \in Item : Unsuggested(row[i]) \in Row
  BY <1>1, RequeuedRow
<1>4. \A i \in Item : face[i] # None => [face[i] EXCEPT !.vector = "null"] \in Face
  <2>1. TAKE i \in Item
  <2>2. HAVE face[i] # None
  <2>3. face[i] \in Face
    BY <1>1, <2>2
  <2> QED BY <2>3 DEF Face
<1>5. CASE At(p, "switchRows")
  <2>1. row' = [i \in Item |-> IF row[i].review = "pending" /\ row[i].sug # None
                                    THEN Unsuggested(row[i]) ELSE row[i]]
        /\ UNCHANGED <<face, model, sample, chars, here, lock, budget>>
    BY <1>5 DEF Switches, At
  <2> QED BY <1>1, <1>3, <2>1
<1>6. CASE At(p, "switchFaces")
  <2>1. face' = [i \in Item |-> IF face[i] # None /\ row[i].status = "awaiting"
                                     THEN [face[i] EXCEPT !.vector = "null"] ELSE face[i]]
        /\ UNCHANGED <<row, model, sample, chars, here, lock, budget>>
    BY <1>6 DEF Switches, At
  <2> QED BY <1>1, <1>4, <2>1
<1>7. CASE At(p, "switchModel")
  <2>1. model' = call[p].arg /\ UNCHANGED <<row, face, sample, chars, here, lock, budget>>
    BY <1>7 DEF Switches, At
  <2> QED BY <1>1, <1>2, <2>1
<1> QED BY <1>5, <1>6, <1>7 DEF Switches

LEMMA SampleSteps ==
    ASSUME CallInv, NEW p \in Proc, ReadsFace(p) \/ ReadsVerified(p) \/ Rebuilds(p)
    PROVE  /\ call[p].at \in Item
           /\ UNCHANGED <<row, face, chars, model, here, lock, budget>>
           /\ sample' = sample \/ NoSamples(call[p].at)
<1>1. call[p].at \in Item
  BY ReadsFaceCall, ReadsVerifiedCall, AskersCall
<1>2. CASE ReadsFace(p)
  BY <1>1, <1>2 DEF ReadsFace, Here
<1>3. CASE ReadsVerified(p)
  BY <1>1, <1>3 DEF ReadsVerified, Here
<1>4. CASE Rebuilds(p)
  BY <1>1, <1>4 DEF Rebuilds, Here
<1> QED BY SMTT(30), <1>2, <1>3, <1>4

LEMMA EnrolData ==
    ASSUME CallInv, NEW p \in Proc, Enrol(p)
    PROVE  /\ UNCHANGED <<row, face, chars, model, here, lock, budget>>
           /\ call[p].item.char \notin chars => sample' = sample
BY DEF Enrol

\* What a step leaves of a row
SameLabel(i)  == row'[i].class = row[i].class /\ row'[i].char = row[i].char
SameRegion(i) == row'[i].region = row[i].region
SameStatus(i) == row'[i].status = row[i].status
SameDoubt(i)  == row'[i].flagged = row[i].flagged

LEMMA MergesData ==
    ASSUME CallInv, NEW s \in Char, NEW t \in Char, Merges(s, t)
    PROVE  /\ "merge" \in budget.ops /\ s # t /\ s \in chars /\ t \in chars
           /\ chars' = chars \ {s}
           /\ UNCHANGED <<face, model, here, lock, call>>
           /\ row' \in [Item -> Row]
           /\ \A i \in Item :
                 /\ row'[i].char = (IF row[i].char = s THEN t ELSE row[i].char)
                 /\ row'[i].sug = (IF row[i].sug = s THEN t ELSE row[i].sug)
                 /\ row'[i].class = row[i].class /\ row'[i].review = row[i].review
                 /\ row'[i].banked = row[i].banked
                 /\ SameRegion(i) /\ SameStatus(i) /\ SameDoubt(i)
           /\ sample' \in [Char -> [Item -> Sample \cup {None}]]
           /\ \A i \in Item :
                 /\ sample'[s][i] = None
                 /\ sample'[t][i] = IF sample[t][i] = None THEN sample[s][i] ELSE sample[t][i]
                 /\ \A c \in Char \ {s, t} : sample'[c][i] = sample[c][i]
<1>1. row \in [Item -> Row] /\ sample \in [Char -> [Item -> Sample \cup {None}]]
  BY DEF CallInv, TypeOK
<1>2. ASSUME NEW i \in Item
      PROVE  [row[i] EXCEPT !.char = IF @ = s THEN t ELSE @, !.sug = IF @ = s THEN t ELSE @] \in Row
  <2> DEFINE r == row[i]
             x == IF r.char = s THEN t ELSE r.char
             y == IF r.sug = s THEN t ELSE r.sug
  <2>1. r \in Row
    BY <1>1
  <2>2. x \in Char \cup {None} /\ y \in Char \cup {None}
    BY <2>1 DEF Row
  <2>3. [r EXCEPT !.char = IF @ = s THEN t ELSE @, !.sug = IF @ = s THEN t ELSE @]
          = [r EXCEPT !.char = x, !.sug = y]
    BY <2>1 DEF Row
  <2> HIDE DEF r, x, y
  <2>4. [r EXCEPT !.char = x, !.sug = y] \in Row
    BY <2>1, <2>2 DEF Row
  <2> QED BY <2>3, <2>4 DEF r
<1>3. row' = [i \in Item |-> [row[i] EXCEPT !.char = IF @ = s THEN t ELSE @,
                                            !.sug = IF @ = s THEN t ELSE @]]
  BY DEF Merges
<1>4. row' \in [Item -> Row]
  BY <1>2, <1>3
<1>5. ASSUME NEW i \in Item
      PROVE  /\ row'[i].char = (IF row[i].char = s THEN t ELSE row[i].char)
             /\ row'[i].sug = (IF row[i].sug = s THEN t ELSE row[i].sug)
             /\ row'[i].class = row[i].class /\ row'[i].review = row[i].review
             /\ row'[i].banked = row[i].banked
             /\ SameRegion(i) /\ SameStatus(i) /\ SameDoubt(i)
  <2>1. row'[i] = [row[i] EXCEPT !.char = IF @ = s THEN t ELSE @, !.sug = IF @ = s THEN t ELSE @]
    BY <1>3
  <2>2. row[i] \in Row
    BY <1>1
  <2> QED BY <2>1, <2>2 DEF Row, SameRegion, SameStatus, SameDoubt
<1>6. sample' = [c \in Char |-> [i \in Item |->
         IF c = s THEN None
         ELSE IF c = t /\ sample[t][i] = None THEN sample[s][i] ELSE sample[c][i]]]
  BY DEF Merges, Merged
<1>7. sample' \in [Char -> [Item -> Sample \cup {None}]]
  BY <1>1, <1>6
<1>8. s # t /\ "merge" \in budget.ops /\ chars' = chars \ {s} /\ s \in chars /\ t \in chars
      /\ UNCHANGED <<face, model, here, lock, call>>
  BY DEF Merges, Uses
<1>9. \A i \in Item :
         /\ sample'[s][i] = None
         /\ sample'[t][i] = IF sample[t][i] = None THEN sample[s][i] ELSE sample[t][i]
         /\ \A c \in Char \ {s, t} : sample'[c][i] = sample[c][i]
  BY <1>6, <1>8
<1> QED BY <1>4, <1>5, <1>7, <1>8, <1>9

\* One sample is changed.
LEMMA OneSample ==
    ASSUME sample \in [Char -> [Item -> Sample \cup {None}]], NEW c \in Char, NEW i \in Item,
           NEW x \in Sample, sample' = [sample EXCEPT ![c] = [sample[c] EXCEPT ![i] = x]]
    PROVE  /\ sample' \in [Char -> [Item -> Sample \cup {None}]] /\ sample'[c][i] = x
           /\ \A d \in Char, j \in Item : d # c \/ j # i => sample'[d][j] = sample[d][j]
<1>1. sample[c] \in [Item -> Sample \cup {None}]
  OBVIOUS
<1>2. PICK f \in [Item -> Sample \cup {None}] : f = [sample[c] EXCEPT ![i] = x]
  BY <1>1
<1>3. f[i] = x /\ \A j \in Item \ {i} : f[j] = sample[c][j]
  BY <1>1, <1>2
<1>4. sample' = [sample EXCEPT ![c] = f]
  BY <1>2
<1> QED BY <1>3, <1>4

LEMMA FlagsData ==
    ASSUME CallInv, NEW c \in Char, NEW i \in Item, NEW on \in BOOLEAN, Flags(c, i, on)
    PROVE  /\ UNCHANGED <<face, chars, model, here, lock, call>>
           /\ sample[c][i] \in Sample
           /\ sample' \in [Char -> [Item -> Sample \cup {None}]]
           /\ sample'[c][i] \in Sample /\ sample'[c][i].region = sample[c][i].region
           /\ sample'[c][i].flagged = on
           /\ \A d \in Char, j \in Item : d # c \/ j # i => sample'[d][j] = sample[d][j]
           /\ row' \in [Item -> Row]
           /\ \/ row'[i] = row[i] /\ (row[i].flagged => on)
              \/ row'[i] = [row[i] EXCEPT !.flagged = FALSE]
           /\ \A j \in Item \ {i} : row'[j] = row[j]
<1>1. row \in [Item -> Row] /\ sample \in [Char -> [Item -> Sample \cup {None}]]
  BY DEF CallInv, TypeOK
<1>2. sample[c][i] \in Sample
  BY <1>1 DEF Flags
<1>3. [sample[c][i] EXCEPT !.flagged = on] \in Sample
  BY <1>2 DEF Sample
<1>4. sample' = [sample EXCEPT ![c] = [sample[c] EXCEPT ![i] = [sample[c][i] EXCEPT !.flagged = on]]]
  BY <1>1 DEF Flags
<1>5. PICK b \in BOOLEAN : b = (row[i].flagged /\ on)
  OBVIOUS
<1>6. row[i] \in Row
  BY <1>1
<1>7. [row[i] EXCEPT !.flagged = @ /\ on] = [row[i] EXCEPT !.flagged = b]
  BY <1>5, <1>6 DEF Row
<1>8. [row[i] EXCEPT !.flagged = b] \in Row
  BY <1>6 DEF Row
<1>9. Sets(i, [row[i] EXCEPT !.flagged = b])
  BY <1>7 DEF Flags
<1>10. row' \in [Item -> Row] /\ row'[i] = [row[i] EXCEPT !.flagged = b]
       /\ \A j \in Item \ {i} : row'[j] = row[j]
  BY <1>1, <1>8, <1>9, RowSet
<1>11. /\ sample' \in [Char -> [Item -> Sample \cup {None}]]
       /\ sample'[c][i] \in Sample /\ sample'[c][i].region = sample[c][i].region
       /\ sample'[c][i].flagged = on
       /\ \A d \in Char, j \in Item : d # c \/ j # i => sample'[d][j] = sample[d][j]
  <2>1. PICK x \in Sample : x = [sample[c][i] EXCEPT !.flagged = on]
    BY <1>3
  <2>2. sample' = [sample EXCEPT ![c] = [sample[c] EXCEPT ![i] = x]]
    BY <1>4, <2>1
  <2>3. /\ sample' \in [Char -> [Item -> Sample \cup {None}]] /\ sample'[c][i] = x
        /\ \A d \in Char, j \in Item : d # c \/ j # i => sample'[d][j] = sample[d][j]
    BY <1>1, <2>2, OneSample
  <2>4. x.region = sample[c][i].region /\ x.flagged = on
    BY <1>2, <2>1 DEF Sample
  <2> QED BY <2>3, <2>4
<1>12. UNCHANGED <<face, chars, model, here, lock, call>>
  BY DEF Flags
<1>13. CASE b = FALSE
  BY <1>2, <1>10, <1>11, <1>12, <1>13
<1>14. CASE b = TRUE
  <2>1. row[i].flagged = b /\ on
    BY <1>5, <1>6, <1>14 DEF Row
  <2>2. [row[i] EXCEPT !.flagged = b] = row[i]
    BY <2>1, <1>6 DEF Row
  <2> QED BY <1>2, <1>10, <1>11, <1>12, <2>1, <2>2
<1> QED BY <1>5, <1>13, <1>14

LEMMA RevokesData ==
    ASSUME CallInv, NEW c \in Char, NEW i \in Item, NEW on \in BOOLEAN, Revokes(c, i, on)
    PROVE  /\ UNCHANGED <<row, face, chars, model, here, lock, call>>
           /\ sample[c][i] \in Sample
           /\ sample' \in [Char -> [Item -> Sample \cup {None}]]
           /\ sample'[c][i] \in Sample /\ sample'[c][i].region = sample[c][i].region
           /\ sample'[c][i].flagged = sample[c][i].flagged
           /\ \A d \in Char, j \in Item : d # c \/ j # i => sample'[d][j] = sample[d][j]
<1>1. sample \in [Char -> [Item -> Sample \cup {None}]]
  BY DEF CallInv, TypeOK
<1>2. sample[c][i] \in Sample
  BY <1>1 DEF Revokes
<1>3. [sample[c][i] EXCEPT !.active = on] \in Sample
  BY <1>2 DEF Sample
<1>4. sample' = [sample EXCEPT ![c] = [sample[c] EXCEPT ![i] = [sample[c][i] EXCEPT !.active = on]]]
  BY <1>1 DEF Revokes
<1>5. UNCHANGED <<row, face, chars, model, here, lock, call>>
  BY DEF Revokes
<1>6. PICK x \in Sample : x = [sample[c][i] EXCEPT !.active = on]
  BY <1>3
<1>7. sample' = [sample EXCEPT ![c] = [sample[c] EXCEPT ![i] = x]]
  BY <1>4, <1>6
<1>8. /\ sample' \in [Char -> [Item -> Sample \cup {None}]] /\ sample'[c][i] = x
      /\ \A d \in Char, j \in Item : d # c \/ j # i => sample'[d][j] = sample[d][j]
  BY <1>1, <1>7, OneSample
<1>9. x.region = sample[c][i].region /\ x.flagged = sample[c][i].flagged
  BY <1>2, <1>6 DEF Sample
<1> QED BY <1>2, <1>5, <1>8, <1>9

LEMMA ClaimsData ==
    ASSUME CallInv, NEW i \in Item, Claims(i)
    PROVE  /\ row[i].status = "queued" /\ UNCHANGED <<face, sample, chars, model, here, lock, budget>>
           /\ row' \in [Item -> Row] /\ \A j \in Item \ {i} : row'[j] = row[j]
           /\ row'[i] = [row[i] EXCEPT !.status = IF row[i].class = "person" THEN "processing"
                                                  ELSE "pending"]
           /\ SoftStarts(Worker, IF row[i].class = "person" THEN "process" ELSE "archive", i)
<1> DEFINE new == [row[i] EXCEPT !.status = IF row[i].class = "person" THEN "processing"
                                            ELSE "pending"]
<1>1. row \in [Item -> Row]
  BY DEF CallInv, TypeOK
<1>2. new \in Row
  BY <1>1 DEF Row
<1>3. Sets(i, new) /\ row[i].status = "queued"
      /\ SoftStarts(Worker, IF row[i].class = "person" THEN "process" ELSE "archive", i)
  BY DEF Claims
<1> HIDE DEF new
<1>4. row' \in [Item -> Row] /\ row'[i] = new /\ \A j \in Item \ {i} : row'[j] = row[j]
  BY <1>1, <1>2, <1>3, RowSet
<1> QED BY <1>3, <1>4 DEF new, SoftStarts

\* A character goes: rows keep what is not about the suggestion.
Fewer(j) == /\ face'[j] \in {face[j], None}
            /\ \A d \in Char : sample'[d][j] \in {sample[d][j], None}

LEMMA DeletesData ==
    ASSUME CallInv, NEW c \in Char, Deletes(c)
    PROVE  /\ DataOK' /\ UNCHANGED <<model, here, lock, call, budget>>
           /\ chars' \subseteq chars
           /\ \A j \in Item : /\ SameLabel(j) /\ SameRegion(j) /\ SameStatus(j) /\ SameDoubt(j)
                               /\ Fewer(j)
<1>1. /\ row \in [Item -> Row] /\ face \in [Item -> Face \cup {None}]
      /\ sample \in [Char -> [Item -> Sample \cup {None}]]
      /\ chars \in SUBSET Char /\ model \in Models /\ here \in [Item -> BOOLEAN]
  BY DEF CallInv, TypeOK
<1>2. UNCHANGED <<model, here, lock, call, budget>>
  BY DEF Deletes
<1>3. CASE UNCHANGED <<row, face, sample, chars, gone>>
  <2>1. DataOK'
    BY <1>1, <1>2, <1>3 DEF DataOK
  <2> QED BY <1>2, <1>3, <2>1 DEF SameLabel, SameRegion, SameStatus, SameDoubt, Fewer
<1>4. CASE ~UNCHANGED <<row, face, sample, chars, gone>>
  <2>1. PICK doomed \in {OfCharacter(c)} :
           /\ chars' = chars \ {c}
           /\ row' = [i \in Item |-> IF i \in doomed THEN Unsuggested(row[i])
                         ELSE [row[i] EXCEPT !.sug = IF @ = c THEN None ELSE @]]
           /\ face' = [i \in Item |-> IF i \in doomed THEN None ELSE face[i]]
           /\ sample' = [d \in Char |-> [i \in Item |->
                            IF d = c \/ i \in doomed THEN None ELSE sample[d][i]]]
    BY <1>4 DEF Deletes
  <2>2. ASSUME NEW j \in Item
        PROVE  /\ row'[j] \in Row
               /\ SameLabel(j) /\ SameRegion(j) /\ SameStatus(j) /\ SameDoubt(j)
    <3>1. PICK x \in Char \cup {None} : x = IF row[j].sug = c THEN None ELSE row[j].sug
      BY <1>1 DEF Row
    <3>2. row[j] \in Row
      BY <1>1
    <3>3. row'[j] = Unsuggested(row[j]) \/ row'[j] = [row[j] EXCEPT !.sug = x]
      BY <2>1, <3>1, <3>2 DEF Row
    <3>4. CASE row'[j] = Unsuggested(row[j])
      BY <3>2, <3>4 DEF Unsuggested, Row, SameLabel, SameRegion, SameStatus, SameDoubt
    <3>5. CASE row'[j] = [row[j] EXCEPT !.sug = x]
      BY <3>1, <3>2, <3>5 DEF Row, SameLabel, SameRegion, SameStatus, SameDoubt
    <3> QED BY <3>3, <3>4, <3>5
  <2>3. row' \in [Item -> Row]
    BY <2>1, <2>2
  <2>4. \A j \in Item : Fewer(j)
    BY <2>1 DEF Fewer
  <2>5. /\ face' \in [Item -> Face \cup {None}]
        /\ sample' \in [Char -> [Item -> Sample \cup {None}]]
        /\ chars' \in SUBSET Char
    BY <1>1, <2>1
  <2>6. DataOK'
    BY <1>1, <1>2, <2>3, <2>5 DEF DataOK
  <2> QED BY <1>2, <2>1, <2>2, <2>4, <2>6
<1> QED BY <1>3, <1>4

LEMMA StepsData ==
    ASSUME CallInv, NEW p \in Proc, Onwards(p)
    PROVE  DataOK' /\ UNCHANGED <<lock, budget>>
<1>1. /\ row \in [Item -> Row] /\ face \in [Item -> Face \cup {None}]
      /\ sample \in [Char -> [Item -> Sample \cup {None}]]
      /\ chars \in SUBSET Char /\ model \in Models /\ here \in [Item -> BOOLEAN]
  BY DEF CallInv, TypeOK
<1>2. CASE ReadsItem(p) \/ Matches(p) \/ Begins(p) \/ Prelabels(p) \/ Offers(p) \/ Looks(p) \/ Lists(p)
  BY <1>1, <1>2, CallSteps DEF data, DataOK
<1>3. CASE \/ Clears(p) \/ Suggest(p) \/ Labels(p) \/ Verifies(p) \/ Resolves(p) \/ Moots(p)
           \/ Readies(p) \/ Archives(p) \/ Reviews(p)
  BY <1>1, <1>3, RowSteps DEF DataOK
<1>4. CASE ReadsFace(p) \/ ReadsVerified(p) \/ Rebuilds(p)
  <2>1. call[p].at \in Item /\ UNCHANGED <<row, face, chars, model, here, lock, budget>>
        /\ (sample' = sample \/ NoSamples(call[p].at))
    BY <1>4, SampleSteps
  <2>2. sample' \in [Char -> [Item -> Sample \cup {None}]]
    BY <1>1, <2>1, SamplesGone
  <2> QED BY <1>1, <2>1, <2>2 DEF DataOK
<1>5. CASE Enrol(p)
  <2>1. UNCHANGED <<row, face, chars, model, here, lock, budget>>
    BY <1>5, EnrolData
  <2>2. sample' \in [Char -> [Item -> Sample \cup {None}]]
    BY <1>1, <1>5, EnrolData, SampleSet
  <2> QED BY <1>1, <2>1, <2>2 DEF DataOK
<1>6. CASE Relabels(p)
  BY <1>1, <1>6, RelabelsData, SamplesGone DEF DataOK, data
<1>7. CASE Again(p)
  BY <1>1, <1>7, AgainData, SamplesGone DEF DataOK, data
<1>8. CASE Resets(p)
  BY <1>1, <1>8, ResetsData, SamplesGone DEF DataOK, data
<1>9. CASE Frames(p)
  BY <1>1, <1>9, FramesData, SamplesGone DEF DataOK, data
<1>10. CASE Stores(p)
  BY <1>1, <1>10, StoresData DEF DataOK
<1>11. CASE Completes(p)
  BY <1>1, <1>11, CompletesData DEF DataOK
<1>12. CASE Switches(p)
  BY <1>1, <1>12, SwitchesData DEF DataOK
<1> QED BY <1>2, <1>3, <1>4, <1>5, <1>6, <1>7, <1>8, <1>9, <1>10, <1>11, <1>12 DEF Onwards

\* One of the calls and faults is used.
Spent ==
    /\ budget'.ops = budget.ops /\ budget'.items = budget.items
    /\ budget'.callers = budget.callers
    /\ budget' \in [ops : SUBSET STRING, left : Nat, items : SUBSET Item,
                    callers : SUBSET (Proc \ {Worker}), start : SUBSET {"new", "labelled"}]

LEMMA UsesBudget ==
    ASSUME CallInv, NEW op, Uses(op)
    PROVE  Spent
<1>1. /\ budget \in [ops : SUBSET STRING, left : Nat, items : SUBSET Item,
                     callers : SUBSET (Proc \ {Worker}), start : SUBSET {"new", "labelled"}]
      /\ budget.left > 0 /\ budget' = [budget EXCEPT !.left = budget.left - 1]
  BY DEF CallInv, TypeOK, Uses
<1>2. budget.left - 1 \in Nat
  BY <1>1
<1> QED BY <1>1, <1>2 DEF Spent

LEMMA MovesData ==
    ASSUME CallInv, NEW i \in Item, Moves(i)
    PROVE  /\ UNCHANGED <<row, face, sample, chars, model, lock, call>>
           /\ here' \in [Item -> BOOLEAN] /\ Spent
<1>1. here \in [Item -> BOOLEAN]
  BY DEF CallInv, TypeOK
<1>2. Uses("move") /\ UNCHANGED <<row, face, sample, chars, model, lock, call>>
      /\ here' = [here EXCEPT ![i] = ~@]
  BY DEF Moves
<1> QED BY <1>1, <1>2, UsesBudget

LEMMA CommandsData ==
    ASSUME CallInv, NEW p \in budget.callers, Commands(p)
    PROVE  UNCHANGED <<data, lock>> /\ Spent
<1>1. CASE \E i \in budget.items, c \in Char : Uses("label") /\ Command(p, "label", i, c)
  BY <1>1, UsesBudget DEF Command, Starts, data
<1>2. CASE \E i \in budget.items, c \in Char \cup {None} :
              Uses("relabel") /\ Command(p, "relabel", i, c)
  BY <1>2, UsesBudget DEF Command, Starts, data
<1>3. CASE \E i \in budget.items, kind \in {"scene", "accept", "again", "reset", "refresh",
                                            "suggest", "reject", "anchor"} :
              Uses(kind) /\ Command(p, kind, i, None)
  BY <1>3, UsesBudget DEF Command, Starts, data
<1>4. CASE \E i \in budget.items, r \in Region : Uses("frame") /\ Command(p, "frame", i, r)
  BY <1>4, UsesBudget DEF Command, Starts, data
<1>5. CASE \E c \in chars : Uses("anchor") /\ Starts(p, "dismiss", "listPending", None, c)
  BY <1>5, UsesBudget DEF Command, Starts, data
<1>6. CASE \E m \in Models \ {model} : Uses("switch") /\ Command(p, "switch", None, m)
  BY <1>6, UsesBudget DEF Command, Starts, data
<1> QED BY <1>1, <1>2, <1>3, <1>4, <1>5, <1>6 DEF Commands

\* With new data and the calls in their programs, everything has its type.
LEMMA TypesKept ==
    ASSUME CallInv, DataOK', call' \in [Proc -> Call], lock' \in [Item -> Proc \cup {None}],
           budget' = budget \/ Spent
    PROVE  TypeOK'
BY DEF CallInv, TypeOK, DataOK, Spent

LEMMA TakesKeeps ==
    ASSUME CallInv, NEW p \in Proc, Takes(p)
    PROVE  CallInv' /\ UNCHANGED <<data, budget>>
<1> DEFINE i == call[p].at
<1>1. PICK o : /\ Became(p, [call[p] EXCEPT !.op = o])
               /\ Holds([call[p] EXCEPT !.op = o]) /\ ~Holds(call[p]) /\ i \in Item
  BY TakesCall
<1>2. PICK d : d = [call[p] EXCEPT !.op = o]
  OBVIOUS
<1>3. Became(p, d) /\ Holds(d) /\ d.at = i
  BY <1>1, <1>2, Facts DEF Call
<1>4. UNCHANGED <<data, budget>> /\ lock[i] = None /\ lock' = [lock EXCEPT ![i] = p]
  BY DEF Takes, Here
<1>5. call' \in [Proc -> Call] /\ ShapeInv' /\ call'[p] = d /\ \A q \in Proc \ {p} : call'[q] = call[q]
  BY <1>3, <1>4, ShapesKept
<1>6. lock \in [Item -> Proc \cup {None}] /\ lock' \in [Item -> Proc \cup {None}]
  BY <1>1, <1>4 DEF CallInv, TypeOK
<1>7. lock'[i] = p /\ \A j \in Item \ {i} : lock'[j] = lock[j]
  BY <1>1, <1>4, <1>6
<1>8. DataOK'
  BY <1>4 DEF CallInv, TypeOK, DataOK, data
<1>9. TypeOK'
  BY <1>4, <1>5, <1>6, <1>8, TypesKept
<1>10. ASSUME NEW q \in Proc, NEW j \in Item
       PROVE  lock'[j] = q <=> Holds(call'[q]) /\ call'[q].at = j
  <2>1. lock[j] = q <=> Holds(call[q]) /\ call[q].at = j
    BY DEF CallInv, LockInv
  <2>2. CASE q = p
    BY <1>1, <1>3, <1>5, <1>7, <2>1, <2>2
  <2>3. CASE q # p
    BY <1>4, <1>5, <1>7, <2>1, <2>3, NoneAssumption
  <2> QED BY <2>2, <2>3
<1>11. LockInv'
  BY <1>10 DEF LockInv, Holds
<1> QED BY <1>4, <1>5, <1>9, <1>11 DEF CallInv

LEMMA ReleasesKeeps ==
    ASSUME CallInv, NEW p \in Proc, Releases(p)
    PROVE  CallInv' /\ UNCHANGED <<data, budget>>
<1> DEFINE i == call[p].at
<1>1. PICK d : /\ Became(p, d) /\ d.op \in Starting /\ ~Holds(d)
               /\ Holds(call[p]) /\ i \in Item
  BY ReleasesCall
<1>4. UNCHANGED <<data, budget>> /\ lock' = [lock EXCEPT ![i] = None]
  BY DEF Releases, Here
<1>5. call' \in [Proc -> Call] /\ ShapeInv' /\ call'[p] = d /\ \A q \in Proc \ {p} : call'[q] = call[q]
  BY <1>1, <1>4, ShapesKept
<1>6. lock \in [Item -> Proc \cup {None}] /\ lock' \in [Item -> Proc \cup {None}]
  BY <1>1, <1>4 DEF CallInv, TypeOK
<1>7. lock'[i] = None /\ \A j \in Item \ {i} : lock'[j] = lock[j]
  BY <1>1, <1>4, <1>6
<1>8. DataOK'
  BY <1>4 DEF CallInv, TypeOK, DataOK, data
<1>9. TypeOK'
  BY <1>4, <1>5, <1>6, <1>8, TypesKept
<1>10. ASSUME NEW q \in Proc, NEW j \in Item
       PROVE  lock'[j] = q <=> Holds(call'[q]) /\ call'[q].at = j
  <2>1. /\ lock[j] = q <=> Holds(call[q]) /\ call[q].at = j
        /\ lock[i] = p
        /\ lock[j] = p <=> Holds(call[p]) /\ call[p].at = j
    BY <1>1 DEF CallInv, LockInv
  <2>2. CASE q = p
    BY <1>1, <1>5, <1>7, <2>1, <2>2, NoneAssumption
  <2>3. CASE q # p
    BY <1>5, <1>7, <2>1, <2>3, NoneAssumption
  <2> QED BY <2>2, <2>3
<1>11. LockInv'
  BY <1>10 DEF LockInv, Holds
<1> QED BY <1>4, <1>5, <1>9, <1>11 DEF CallInv

\* A step of a call that leaves the lock alone
LEMMA OnwardKeeps ==
    ASSUME CallInv, NEW p \in Proc, NEW d, Became(p, d), Onward(call[p], d), lock' = lock,
           DataOK', budget' = budget \/ Spent
    PROVE  CallInv'
<1>1. budget'.ops = budget.ops
  BY DEF Spent
<1>2. call' \in [Proc -> Call] /\ ShapeInv'
  BY <1>1, ShapesKept
<1>3. lock' \in [Item -> Proc \cup {None}]
  BY DEF CallInv, TypeOK
<1>4. TypeOK'
  BY <1>2, <1>3, TypesKept
<1>5. LockInv'
  BY <1>1, LockKept
<1> QED BY <1>2, <1>4, <1>5 DEF CallInv

\* A step of no call
LEMMA StillKeeps ==
    ASSUME CallInv, UNCHANGED <<lock, call>>, DataOK', budget' = budget \/ Spent
    PROVE  CallInv'
<1>1. lock' \in [Item -> Proc \cup {None}] /\ call' \in [Proc -> Call]
  BY DEF CallInv, TypeOK
<1>2. TypeOK'
  BY <1>1, TypesKept
<1>3. LockInv'
  BY DEF CallInv, LockInv, Holds
<1>4. ASSUME NEW p \in Proc
      PROVE  Shape(p, call[p], budget.ops)'
  <2>1. Shape(p, call[p], budget.ops) /\ budget'.ops = budget.ops
    BY DEF CallInv, ShapeInv, Spent
  <2>2. Shape(p, call'[p], budget'.ops)
    BY <2>1
  <2> QED BY <2>2 DEF Shape, Kinded
<1> QED BY <1>2, <1>3, <1>4 DEF CallInv, ShapeInv

\* The worker begins, holding nothing.
LEMMA SoftStartsKeeps ==
    ASSUME CallInv, NEW i \in Item, NEW k \in Workers, SoftStarts(Worker, k, i), row' \in [Item -> Row]
    PROVE  CallInv'
<1>1. PICK d : Became(Worker, d) /\ ~Holds(d) /\ ~Holds(call[Worker])
  BY SoftStartsCall
<1>2. UNCHANGED <<face, sample, chars, model, here, lock, budget>> /\ Worker \in Proc
  BY WorkerAssumption DEF SoftStarts
<1>3. /\ call' \in [Proc -> Call] /\ ShapeInv' /\ call'[Worker] = d
      /\ \A q \in Proc \ {Worker} : call'[q] = call[q]
  BY <1>1, <1>2, ShapesKept
<1>4. DataOK'
  BY <1>2 DEF CallInv, TypeOK, DataOK
<1>5. lock' \in [Item -> Proc \cup {None}]
  BY <1>2 DEF CallInv, TypeOK
<1>6. TypeOK'
  BY <1>2, <1>3, <1>4, <1>5, TypesKept
<1>7. ASSUME NEW q \in Proc, NEW j \in Item
      PROVE  lock'[j] = q <=> Holds(call'[q]) /\ call'[q].at = j
  <2>1. lock[j] = q <=> Holds(call[q]) /\ call[q].at = j
    BY DEF CallInv, LockInv
  <2> QED BY <1>1, <1>2, <1>3, <2>1
<1>8. LockInv'
  BY <1>7 DEF LockInv, Holds
<1> QED BY <1>3, <1>6, <1>8 DEF CallInv

LEMMA ClaimsKeeps ==
    ASSUME CallInv, NEW i \in Item, Claims(i)
    PROVE  CallInv'
<1>1. row' \in [Item -> Row]
  BY ClaimsData
<1>2. CASE row[i].class = "person"
  <2>1. SoftStarts(Worker, "process", i) /\ "process" \in Workers
    BY <1>2, ClaimsData DEF Workers
  <2> QED BY <1>1, <2>1, SoftStartsKeeps
<1>3. CASE row[i].class # "person"
  <2>1. SoftStarts(Worker, "archive", i) /\ "archive" \in Workers
    BY <1>3, ClaimsData DEF Workers
  <2> QED BY <1>1, <2>1, SoftStartsKeeps
<1> QED BY <1>2, <1>3

LEMMA PicksKeeps ==
    ASSUME CallInv, NEW i \in Item, Picks(i)
    PROVE  CallInv' /\ UNCHANGED <<data, lock, budget>>
<1>1. row' = row /\ SoftStarts(Worker, "prelabel", i) /\ "prelabel" \in Workers
  BY DEF Picks, Workers
<1>2. row' \in [Item -> Row]
  BY <1>1 DEF CallInv, TypeOK
<1>3. UNCHANGED <<data, lock, budget>>
  BY <1>1 DEF SoftStarts, data
<1> QED BY <1>1, <1>2, <1>3, SoftStartsKeeps

LEMMA DataTyped ==
    ASSUME CallInv
    PROVE  DataOK /\ (UNCHANGED data => DataOK')
BY DEF CallInv, TypeOK, DataOK, data

LEMMA OnwardsKeeps ==
    ASSUME CallInv, NEW p \in Proc, Onwards(p)
    PROVE  CallInv'
<1>1. PICK d : Became(p, d) /\ Onward(call[p], d)
  BY OnwardsCall
<1>2. DataOK' /\ UNCHANGED <<lock, budget>>
  BY StepsData
<1> QED BY <1>1, <1>2, OnwardKeeps

LEMMA CallersKeep ==
    ASSUME CallInv, NEW p \in budget.callers, Commands(p) \/ RebuildStarts(p)
    PROVE  CallInv' /\ UNCHANGED <<data, lock>>
<1>1. p \in Proc /\ \E d : Became(p, d) /\ Onward(call[p], d)
  BY CommandsCall, RebuildStartsCall
<1>2. UNCHANGED <<data, lock>> /\ Spent
  BY CommandsData, UsesBudget DEF RebuildStarts
<1> QED BY <1>1, <1>2, DataTyped, OnwardKeeps

LEMMA MovesKeeps ==
    ASSUME CallInv, NEW i \in Item, Moves(i)
    PROVE  CallInv'
<1>1. DataOK' /\ UNCHANGED <<lock, call>> /\ Spent
  BY MovesData, DataTyped DEF DataOK
<1> QED BY <1>1, StillKeeps

LEMMA MergesKeeps ==
    ASSUME CallInv, NEW s \in Char, NEW t \in Char, Merges(s, t)
    PROVE  CallInv'
<1>1. UNCHANGED <<face, model, here, lock, call>> /\ chars' = chars \ {s}
      /\ row' \in [Item -> Row] /\ sample' \in [Char -> [Item -> Sample \cup {None}]]
  BY MergesData
<1>2. DataOK'
  BY <1>1, DataTyped DEF DataOK
<1>3. Spent
  BY UsesBudget DEF Merges
<1> QED BY <1>1, <1>2, <1>3, StillKeeps

LEMMA FlagsKeeps ==
    ASSUME CallInv, NEW c \in Char, NEW i \in Item, NEW on \in BOOLEAN, Flags(c, i, on)
    PROVE  CallInv'
<1>1. UNCHANGED <<face, chars, model, here, lock, call>>
      /\ row' \in [Item -> Row] /\ sample' \in [Char -> [Item -> Sample \cup {None}]]
  BY FlagsData
<1>2. DataOK'
  BY <1>1, DataTyped DEF DataOK
<1>3. Spent
  BY UsesBudget DEF Flags
<1> QED BY <1>1, <1>2, <1>3, StillKeeps

LEMMA RevokesKeeps ==
    ASSUME CallInv, NEW c \in Char, NEW i \in Item, NEW on \in BOOLEAN, Revokes(c, i, on)
    PROVE  CallInv'
<1>1. UNCHANGED <<row, face, chars, model, here, lock, call>>
      /\ sample' \in [Char -> [Item -> Sample \cup {None}]]
  BY RevokesData
<1>2. DataOK'
  BY <1>1, DataTyped DEF DataOK
<1>3. Spent
  BY UsesBudget DEF Revokes
<1> QED BY <1>1, <1>2, <1>3, StillKeeps

LEMMA VanishesKeeps ==
    ASSUME CallInv, NEW p \in Proc, Vanishes(p), gone \in SUBSET Item
    PROVE  CallInv' /\ UNCHANGED <<data, lock, budget>>
<1>1. PICK d : Became(p, d) /\ Onward(call[p], d)
  BY VanishesCall
<1>2. UNCHANGED <<data, lock, budget>>
  BY DEF Vanishes
<1> QED BY <1>1, <1>2, DataTyped, OnwardKeeps

LEMMA LoadsKeeps ==
    ASSUME CallInv, NEW c \in Char, Loads(c)
    PROVE  CallInv' /\ UNCHANGED <<data, lock, call, gone>>
<1>1. UNCHANGED <<data, lock, call, gone>> /\ Spent
  BY UsesBudget DEF Loads
<1> QED BY <1>1, DataTyped, StillKeeps

LEMMA DeletesKeeps ==
    ASSUME CallInv, NEW c \in Char, Deletes(c)
    PROVE  CallInv'
BY DeletesData, StillKeeps

\* What is gone, and what a deletion waits for.
GoneTyped == gone \in SUBSET Item /\ removal \in [Char -> {None} \cup SUBSET Item]

LEMMA GoneTypedKept ==
    ASSUME GoneTyped, [Next]_vars
    PROVE  GoneTyped'
<1>1. CASE UNCHANGED <<gone, removal>>
  BY <1>1 DEF GoneTyped
<1>2. ASSUME NEW c \in Char, Loads(c)
      PROVE  GoneTyped'
  <2>1. OfCharacter(c) \in SUBSET Item
    BY DEF OfCharacter
  <2> QED BY <1>2, <2>1 DEF Loads, GoneTyped
<1>3. ASSUME NEW c \in Char, Deletes(c)
      PROVE  GoneTyped'
  <2>1. OfCharacter(c) \in SUBSET Item
    BY DEF OfCharacter
  <2>2. gone' = gone \/ gone' = gone \cup OfCharacter(c)
    BY <1>3 DEF Deletes
  <2>3. removal' = [removal EXCEPT ![c] = None]
    BY <1>3 DEF Deletes
  <2> QED BY <2>1, <2>2, <2>3 DEF GoneTyped
<1> QED BY <1>1, <1>2, <1>3 DEF Next, vars

LEMMA StepsSplit ==
    ASSUME NEW p, Steps(p)
    PROVE  Takes(p) \/ Releases(p) \/ Vanishes(p) \/ (Onwards(p) /\ ~Vanished(p))
BY DEF Steps

LEMMA Inside ==
    ASSUME CallInv
    PROVE  budget.items \subseteq Item /\ budget.callers \subseteq Proc \ {Worker}
BY DEF CallInv, TypeOK

LEMMA CallInvKept ==
    ASSUME CallInv, GoneTyped, [Next]_vars
    PROVE  CallInv'
<1>1. ASSUME NEW p \in Proc, Steps(p)
      PROVE  CallInv'
  BY <1>1, StepsSplit, TakesKeeps, ReleasesKeeps, VanishesKeeps, OnwardsKeeps DEF GoneTyped
<1>2. ASSUME NEW p \in budget.callers, Commands(p) \/ RebuildStarts(p)
      PROVE  CallInv'
  BY <1>2, CallersKeep
<1>3. ASSUME NEW i \in budget.items, Claims(i) \/ Picks(i) \/ Moves(i)
      PROVE  CallInv'
  BY <1>3, Inside, ClaimsKeeps, PicksKeeps, MovesKeeps
<1>4. ASSUME NEW s \in Char, NEW t \in Char, Merges(s, t)
      PROVE  CallInv'
  BY <1>4, MergesKeeps
<1>5. ASSUME NEW c \in Char, NEW i \in budget.items, NEW on \in BOOLEAN,
             Flags(c, i, on) \/ Revokes(c, i, on)
      PROVE  CallInv'
  BY <1>5, Inside, FlagsKeeps, RevokesKeeps
<1>6. CASE UNCHANGED vars
  <2>1. UNCHANGED <<row, face, sample, chars, model, here, lock, call, budget>>
    BY <1>6 DEF vars
  <2> QED BY <2>1 DEF CallInv, TypeOK, ShapeInv, LockInv, Shape, Kinded, Holds
<1>7. ASSUME NEW c \in Char, Loads(c) \/ Deletes(c)
      PROVE  CallInv'
  BY <1>7, LoadsKeeps, DeletesKeeps
<1> QED BY <1>1, <1>2, <1>3, <1>4, <1>5, <1>6, <1>7 DEF Next, Works

LEMMA CallInvInit ==
    ASSUME Init
    PROVE  CallInv
<1>1. PICK m \in Models, was \in [Item -> budget.start \cup {"new"}], c \in [Item -> Char] :
          /\ \A i \in Item : was[i] \in IF i \in budget.items THEN budget.start ELSE {"new"}
          /\ model = m
          /\ row = [i \in Item |-> IF was[i] = "new" THEN NewRow
                       ELSE [NewRow EXCEPT !.status = "completed", !.class = "person",
                                           !.char = c[i]]]
          /\ face = [i \in Item |-> IF was[i] = "new" THEN None
                       ELSE [region |-> "auto", model |-> m, vector |-> "feature", good |-> TRUE]]
          /\ sample = [d \in Char |-> [i \in Item |->
                         IF was[i] = "new" \/ c[i] # d THEN None
                         ELSE [region |-> "auto", model |-> m, active |-> TRUE, flagged |-> FALSE]]]
  BY ZenonT(30) DEF Init
<1>2. budget \in Budgets /\ chars = Char /\ here = [i \in Item |-> TRUE]
      /\ lock = [i \in Item |-> None] /\ call = [p \in Proc |-> Idle]
  BY DEF Init
<1>3. ASSUME NEW i \in Item
      PROVE  row[i] \in Row
  <2>1. row[i] = NewRow
        \/ row[i] = [NewRow EXCEPT !.status = "completed", !.class = "person", !.char = c[i]]
    BY <1>1
  <2>2. [NewRow EXCEPT !.status = "completed", !.class = "person", !.char = c[i]] \in Row
    BY NewRowOK DEF Row
  <2> QED BY <2>1, <2>2, NewRowOK
<1>4. row \in [Item -> Row]
  BY <1>1, <1>3
<1>5. face \in [Item -> Face \cup {None}]
  BY <1>1 DEF Face, Region
<1>6. sample \in [Char -> [Item -> Sample \cup {None}]]
  BY <1>1 DEF Sample, Region
<1>7. lock \in [Item -> Proc \cup {None}] /\ here \in [Item -> BOOLEAN] /\ chars \in SUBSET Char
  BY <1>2
<1>8. ASSUME NEW p \in Proc
      PROVE  Shape(p, call[p], budget.ops) /\ call[p] \in Call /\ ~Holds(call[p])
  <2>1. call[p] = Idle /\ Shape(p, Idle, budget.ops) /\ ~Holds(Idle)
    BY <1>2, IdleShape
  <2> QED BY <2>1 DEF Shape
<1>9. call \in [Proc -> Call]
  BY <1>2, <1>8
<1>10. budget \in [ops : SUBSET STRING, left : Nat, items : SUBSET Item,
                   callers : SUBSET (Proc \ {Worker}), start : SUBSET {"new", "labelled"}]
  BY <1>2, BudgetAssumption
<1>11. TypeOK
  BY <1>1, <1>4, <1>5, <1>6, <1>7, <1>9, <1>10 DEF TypeOK
<1>12. LockInv
  BY <1>2, <1>8, NoneAssumption DEF LockInv
<1> QED BY <1>8, <1>11, <1>12 DEF CallInv, ShapeInv

LEMMA GoneTypedInit ==
    ASSUME Init
    PROVE  GoneTyped
BY DEF Init, GoneTyped

\* Every call stays in its program, and a capture is locked by the one call that
\* holds it.
THEOREM CallsInProgram == Spec => [](CallInv /\ GoneTyped)
<1>1. Init => CallInv /\ GoneTyped
  BY CallInvInit, GoneTypedInit
<1>2. CallInv /\ GoneTyped /\ [Next]_vars => (CallInv /\ GoneTyped)'
  BY CallInvKept, GoneTypedKept
<1> QED BY <1>1, <1>2, PTL DEF Spec

-----------------------------------------------------------------------------
(* What a step does to a row *)

Same(i) == SameLabel(i) /\ SameRegion(i) /\ SameStatus(i) /\ SameDoubt(i)
Relabelled(i, c) == /\ row'[i].char = c
                    /\ row'[i].class = IF c = None THEN "other" ELSE "person"

RowLabels(p, i) ==
    /\ Labels(p) /\ Next1(p) /\ row[i].status \in {"awaiting", "failed"}
    /\ row'[i].status = "queued" /\ Relabelled(i, call[p].arg)
    /\ call[p].arg # None => call[p].arg \in chars
    /\ SameRegion(i) /\ SameDoubt(i)
RowVerifies(p, i) == Verifies(p) /\ SameLabel(i) /\ SameRegion(i) /\ SameStatus(i)
RowRelabels(p, i) ==
    /\ Relabels(p) /\ row[i].status \notin {"processing", "pending"}
    /\ row'[i].status = "queued" /\ ~row'[i].flagged /\ Relabelled(i, call[p].arg)
    /\ call[p].arg # None => call[p].arg \in chars
    /\ SameRegion(i) /\ NoSamples(i)
RowAgain(p, i) ==
    /\ Again(p) /\ row[i].status \in {"completed", "failed"} /\ SameLabel(i) /\ SameRegion(i)
    /\ SameDoubt(i) \/ (~row'[i].flagged /\ NoSamples(i))
RowResets(p, i) ==
    /\ Resets(p) /\ ~Busy(i) /\ row'[i].status = "awaiting" /\ ~row'[i].flagged
    /\ row'[i].class = "unclassified" /\ row'[i].char = None /\ NoSamples(i) /\ face'[i] = None
RowFrames(p, i) ==
    /\ Frames(p) /\ row[i].status = "awaiting" /\ SameLabel(i) /\ SameStatus(i) /\ SameDoubt(i)
    /\ NoSamples(i) /\ face'[i] = None
RowWorked(p, i) ==
    /\ Archives(p) \/ (Completes(p) /\ row'[i].status \in {"pending", "failed"})
    /\ SameLabel(i) /\ SameRegion(i) /\ SameDoubt(i)

RowChanges(p, i) ==
    \/ RowLabels(p, i) \/ RowVerifies(p, i) \/ RowRelabels(p, i) \/ RowAgain(p, i)
    \/ RowResets(p, i) \/ RowFrames(p, i) \/ RowWorked(p, i)

LEMMA UnsuggestedSame ==
    ASSUME NEW r \in Row
    PROVE  /\ Unsuggested(r).class = r.class /\ Unsuggested(r).char = r.char
           /\ Unsuggested(r).region = r.region /\ Unsuggested(r).status = r.status
           /\ Unsuggested(r).flagged = r.flagged /\ Unsuggested(r).sug = None
           /\ Unsuggested(r).review = "none"
BY DEF Unsuggested, Row

LEMMA DeletesRow ==
    ASSUME CallInv, NEW c \in Char, Deletes(c), NEW j \in Item
    PROVE  /\ Same(j) /\ face'[j] \in {face[j], None}
           /\ \A d \in Char : sample'[d][j] # None => sample'[d][j] = sample[d][j]
           /\ call' = call /\ budget' = budget /\ chars' \subseteq chars
<1>1. UNCHANGED <<model, here, lock, call, budget>> /\ chars' \subseteq chars
  BY DeletesData
<1>2. SameLabel(j) /\ SameRegion(j) /\ SameStatus(j) /\ SameDoubt(j) /\ Fewer(j)
  BY DeletesData
<1> QED BY <1>1, <1>2 DEF Same, Fewer

\* A deletion goes through, or leaves everything as it is.
LEMMA DeletesGone ==
    ASSUME NEW c \in Char, Deletes(c)
    PROVE  \/ UNCHANGED <<row, face, sample, chars, gone>>
           \/ /\ c \in chars /\ chars' = chars \ {c} /\ gone' = gone \cup OfCharacter(c)
              /\ \A j \in OfCharacter(c) : ~Busy(j)
              /\ row' = [j \in Item |-> IF j \in OfCharacter(c) THEN Unsuggested(row[j])
                            ELSE [row[j] EXCEPT !.sug = IF @ = c THEN None ELSE @]]
              /\ \A d \in Char, j \in Item :
                    sample'[d][j] = IF d = c \/ j \in OfCharacter(c) THEN None ELSE sample[d][j]
              /\ \A j \in Item : face'[j] = IF j \in OfCharacter(c) THEN None ELSE face[j]
<1>1. CASE UNCHANGED <<row, face, sample, chars, gone>>
  BY <1>1
<1>2. CASE ~UNCHANGED <<row, face, sample, chars, gone>>
  <2>1. PICK doomed \in {OfCharacter(c)} :
           /\ c \in chars /\ \A i \in doomed : ~Busy(i)
           /\ chars' = chars \ {c} /\ gone' = gone \cup doomed
           /\ row' = [i \in Item |-> IF i \in doomed THEN Unsuggested(row[i])
                         ELSE [row[i] EXCEPT !.sug = IF @ = c THEN None ELSE @]]
           /\ face' = [i \in Item |-> IF i \in doomed THEN None ELSE face[i]]
           /\ sample' = [d \in Char |-> [i \in Item |->
                            IF d = c \/ i \in doomed THEN None ELSE sample[d][i]]]
    BY <1>2 DEF Deletes
  <2>2. doomed = OfCharacter(c)
    BY <2>1
  <2>3. \A d \in Char, j \in Item :
            sample'[d][j] = IF d = c \/ j \in doomed THEN None ELSE sample[d][j]
    BY <2>1
  <2>4. \A j \in Item : face'[j] = IF j \in doomed THEN None ELSE face[j]
    BY <2>1
  <2> QED BY <2>1, <2>2, <2>3, <2>4
<1> QED BY <1>1, <1>2

\* The steps that touch only the suggestion
LEMMA ReviewRows ==
    ASSUME CallInv, NEW p \in Proc, NEW i \in Item,
           Clears(p) \/ Suggest(p) \/ Resolves(p) \/ Moots(p) \/ Readies(p) \/ Reviews(p)
    PROVE  Same(i)
<1> DEFINE j == call[p].at
<1>1. j \in Item /\ row' \in [Item -> Row] /\ \A k \in Item \ {j} : row'[k] = row[k]
  BY RowSteps
<1>2. row \in [Item -> Row] /\ row[j] \in Row
  BY <1>1 DEF CallInv, TypeOK
<1>3. CASE i # j
  BY <1>1, <1>3 DEF Same, SameLabel, SameRegion, SameStatus, SameDoubt
<1>4. CASE i = j
  <2> HIDE DEF j
  <2>1. ASSUME NEW r, Sets(j, r)
        PROVE  row'[j] = r
    BY <1>1, <1>2, <2>1 DEF Sets
  <2>2. CASE Clears(p)
    <3>1. row'[j] = Unsuggested(row[j]) \/ row'[j] = row[j]
      BY <2>1, <2>2 DEF Clears, Here, j
    <3> QED BY <1>2, <1>4, <3>1, UnsuggestedSame DEF Same, SameLabel, SameRegion, SameStatus, SameDoubt
  <2>3. CASE Suggest(p)
    <3>1. \/ row'[j] = [row[j] EXCEPT !.sug = call[p].pick, !.banked = TRUE, !.review = "pending"]
          \/ row'[j] = row[j]
      BY <2>1, <2>3 DEF Suggest, Here, j
    <3> QED BY <1>2, <1>4, <3>1 DEF Same, SameLabel, SameRegion, SameStatus, SameDoubt, Row
  <2>4. CASE Resolves(p)
    <3>1. row'[j] = [row[j] EXCEPT !.review = "accepted"] \/ row'[j] = row[j]
      BY <2>1, <2>4 DEF Resolves, Here, j
    <3> QED BY <1>2, <1>4, <3>1 DEF Same, SameLabel, SameRegion, SameStatus, SameDoubt, Row
  <2>5. CASE Moots(p)
    <3>1. row'[j] = Unsuggested(row[j])
      BY <2>1, <2>5 DEF Moots, Here, j
    <3> QED BY <1>2, <1>4, <3>1, UnsuggestedSame DEF Same, SameLabel, SameRegion, SameStatus, SameDoubt
  <2>6. CASE Readies(p)
    <3>1. row'[j] = [row[j] EXCEPT !.ready = TRUE]
      BY <2>1, <2>6 DEF Readies, Here, j
    <3> QED BY <1>2, <1>4, <3>1 DEF Same, SameLabel, SameRegion, SameStatus, SameDoubt, Row
  <2>7. CASE Reviews(p)
    <3>0. Unsuggested(row[j]) \in Row
      BY <1>2, RequeuedRow
    <3>1. \/ row'[j] = [row[j] EXCEPT !.review = "accepted"]
          \/ row'[j] = [Unsuggested(row[j]) EXCEPT !.review = "rejected"]
          \/ row'[j] = Unsuggested(row[j])
      BY <2>1, <2>7 DEF Reviews, Here, j
    <3> QED BY <3>0, <1>2, <1>4, <3>1, UnsuggestedSame DEF Same, SameLabel, SameRegion, SameStatus, SameDoubt, Row
  <2> QED BY <2>2, <2>3, <2>4, <2>5, <2>6, <2>7
<1> QED BY <1>3, <1>4

LEMMA LabelRows ==
    ASSUME CallInv, NEW p \in Proc, NEW i \in Item, Labels(p) \/ Verifies(p) \/ Archives(p)
    PROVE  Same(i) \/ (call[p].at = i /\ RowChanges(p, i))
<1> DEFINE j == call[p].at
<1>1. j \in Item /\ row' \in [Item -> Row] /\ \A k \in Item \ {j} : row'[k] = row[k]
  BY RowSteps
<1>2. row \in [Item -> Row] /\ row[j] \in Row
  BY <1>1 DEF CallInv, TypeOK
<1>3. CASE i # j
  BY <1>1, <1>3 DEF Same, SameLabel, SameRegion, SameStatus, SameDoubt
<1>4. CASE i = j
  <2> HIDE DEF j
  <2>1. ASSUME NEW r, Sets(j, r)
        PROVE  row'[j] = r
    BY <1>1, <1>2, <2>1 DEF Sets
  <2>2. CASE Labels(p)
    <3> DEFINE c == call[p].arg
    <3>1. CASE row' = row
      BY <3>1 DEF Same, SameLabel, SameRegion, SameStatus, SameDoubt
    <3>2. CASE row' # row
      <4>1. /\ row[j].status \in {"awaiting", "failed"} /\ Next1(p)
            /\ c # None => c \in chars
            /\ row'[j] = [row[j] EXCEPT !.char = c, !.status = "queued",
                                        !.class = IF c = None THEN "other" ELSE "person"]
        BY <2>1, <2>2, <3>2 DEF Labels, Here, j
      <4>2. RowLabels(p, j)
        BY <1>2, <2>2, <4>1 DEF RowLabels, Relabelled, SameRegion, SameDoubt, Row
      <4> QED BY <1>4, <4>2 DEF RowChanges, j
    <3> QED BY <3>1, <3>2
  <2>3. CASE Verifies(p)
    <3>1. \E doubt : row'[j] = [row[j] EXCEPT !.flagged = doubt]
      BY <2>1, <2>3 DEF Verifies, Here, j
    <3>2. RowVerifies(p, j)
      BY <1>2, <2>3, <3>1 DEF RowVerifies, SameLabel, SameRegion, SameStatus, Row
    <3> QED BY SMTT(30), <1>4, <3>2 DEF RowChanges, j
  <2>4. CASE Archives(p)
    <3>1. \E s : row'[j] = [row[j] EXCEPT !.status = s]
      BY <2>1, <2>4 DEF Archives, Here, j
    <3>2. RowWorked(p, j)
      BY <1>2, <2>4, <3>1 DEF RowWorked, SameLabel, SameRegion, SameDoubt, Row
    <3> QED BY <1>4, <3>2 DEF RowChanges, j
  <2> QED BY <2>2, <2>3, <2>4
<1> QED BY <1>3, <1>4

LEMMA QueueRows ==
    ASSUME CallInv, NEW p \in Proc, NEW i \in Item, Relabels(p) \/ Again(p)
    PROVE  Same(i) \/ (call[p].at = i /\ RowChanges(p, i))
<1>1. row \in [Item -> Row] /\ row[i] \in Row
  BY DEF CallInv, TypeOK
<1>2. row' = row => Same(i)
  BY DEF Same, SameLabel, SameRegion, SameStatus, SameDoubt
<1>3. CASE Relabels(p)
  <2>1. CASE UNCHANGED <<data, lock, budget>>
    BY <1>2, <2>1 DEF data
  <2>2. CASE ~UNCHANGED <<data, lock, budget>> /\ call[p].at # i
    <3>1. row'[i] = row[i]
      BY <1>3, <2>2, RelabelsData
    <3> QED BY <3>1 DEF Same, SameLabel, SameRegion, SameStatus, SameDoubt
  <2>3. CASE ~UNCHANGED <<data, lock, budget>> /\ call[p].at = i
    <3>1. /\ row[i].status \notin {"processing", "pending"}
          /\ call[p].arg # None => call[p].arg \in chars
          /\ row'[i] = [Requeued(row[i]) EXCEPT !.char = call[p].arg,
                          !.class = IF call[p].arg = None THEN "other" ELSE "person"]
          /\ NoSamples(i)
      BY <1>3, <2>3, RelabelsData
    <3>2. /\ Requeued(row[i]) \in Row /\ Requeued(row[i]).region = row[i].region
          /\ Requeued(row[i]).status = "queued" /\ ~Requeued(row[i]).flagged
      BY <1>1, RequeuedRow
    <3>3. RowRelabels(p, i)
      BY <1>3, <3>1, <3>2 DEF RowRelabels, Relabelled, SameRegion, Row
    <3> QED BY <2>3, <3>3 DEF RowChanges
  <2> QED BY <2>1, <2>2, <2>3
<1>4. CASE Again(p)
  <2>1. CASE UNCHANGED <<data, lock, budget>>
    BY <1>2, <2>1 DEF data
  <2>2. CASE ~UNCHANGED <<data, lock, budget>> /\ call[p].at # i
    <3>1. row'[i] = row[i]
      BY <1>4, <2>2, AgainData
    <3> QED BY <3>1 DEF Same, SameLabel, SameRegion, SameStatus, SameDoubt
  <2>3. CASE ~UNCHANGED <<data, lock, budget>> /\ call[p].at = i
    <3>1. \/ row[i].status = "completed" /\ row'[i] = Requeued(row[i]) /\ NoSamples(i)
          \/ /\ row[i].status = "failed"
             /\ row'[i] = [row[i] EXCEPT !.status = IF row[i].char # None THEN "queued" ELSE "awaiting"]
      BY <1>4, <2>3, AgainData
    <3>2. RowAgain(p, i)
      BY <1>1, <1>4, <3>1, RequeuedRow DEF RowAgain, SameLabel, SameRegion, SameDoubt, Row
    <3> QED BY <2>3, <3>2 DEF RowChanges
  <2> QED BY <2>1, <2>2, <2>3
<1> QED BY <1>3, <1>4

LEMMA FrameRows ==
    ASSUME CallInv, NEW p \in Proc, NEW i \in Item, Resets(p) \/ Frames(p) \/ Completes(p)
    PROVE  Same(i) \/ (call[p].at = i /\ RowChanges(p, i))
<1>1. row \in [Item -> Row] /\ row[i] \in Row
  BY DEF CallInv, TypeOK
<1>2. row' = row => Same(i)
  BY DEF Same, SameLabel, SameRegion, SameStatus, SameDoubt
<1>3. CASE Resets(p)
  <2>1. CASE UNCHANGED <<data, lock, budget>>
    BY <1>2, <2>1 DEF data
  <2>2. CASE ~UNCHANGED <<data, lock, budget>> /\ call[p].at # i
    <3>1. row'[i] = row[i]
      BY <1>3, <2>2, ResetsData
    <3> QED BY <3>1 DEF Same, SameLabel, SameRegion, SameStatus, SameDoubt
  <2>3. CASE ~UNCHANGED <<data, lock, budget>> /\ call[p].at = i
    <3>1. /\ ~Busy(i) /\ \E v \in Nat : row'[i] = [NewRow EXCEPT !.version = v]
          /\ face'[i] = None /\ NoSamples(i)
      BY <1>3, <2>3, ResetsData
    <3>2. RowResets(p, i)
      BY <1>3, <3>1 DEF RowResets, NewRow
    <3> QED BY <2>3, <3>2 DEF RowChanges
  <2> QED BY <2>1, <2>2, <2>3
<1>4. CASE Frames(p)
  <2>1. CASE UNCHANGED <<data, lock, budget>>
    BY <1>2, <2>1 DEF data
  <2>2. CASE ~UNCHANGED <<data, lock, budget>> /\ call[p].at # i
    <3>1. row'[i] = row[i]
      BY <1>4, <2>2, FramesData
    <3> QED BY <3>1 DEF Same, SameLabel, SameRegion, SameStatus, SameDoubt
  <2>3. CASE ~UNCHANGED <<data, lock, budget>> /\ call[p].at = i
    <3>1. RowFrames(p, i)
      BY <1>4, <2>3, FramesData DEF RowFrames, SameLabel, SameStatus, SameDoubt
    <3> QED BY <2>3, <3>1 DEF RowChanges
  <2> QED BY <2>1, <2>2, <2>3
<1>5. CASE Completes(p)
  <2>1. CASE call[p].at # i
    <3>1. row'[i] = row[i]
      BY <1>5, <2>1, CompletesData
    <3> QED BY <3>1 DEF Same, SameLabel, SameRegion, SameStatus, SameDoubt
  <2>2. CASE call[p].at = i
    <3>1. \/ row'[i] = [Unsuggested(row[i]) EXCEPT !.status = "pending"]
          \/ row'[i] = [row[i] EXCEPT !.status = "pending"]
          \/ row'[i] = [row[i] EXCEPT !.status = "failed"]
      BY <1>5, <2>2, CompletesData
    <3>2. Unsuggested(row[i]) \in Row
      BY <1>1, RequeuedRow
    <3>3. RowWorked(p, i)
      BY <1>1, <1>5, <3>1, <3>2, UnsuggestedSame DEF RowWorked, SameLabel, SameRegion, SameDoubt, Row
    <3> QED BY <2>2, <3>3 DEF RowChanges
  <2> QED BY <2>1, <2>2
<1> QED BY <1>3, <1>4, <1>5

LEMMA StoreRows ==
    ASSUME CallInv, NEW p \in Proc, NEW i \in Item, Stores(p) \/ Switches(p)
    PROVE  Same(i)
<1>1. row \in [Item -> Row] /\ row[i] \in Row
  BY DEF CallInv, TypeOK
<1>2. row'[i] = row[i] \/ row'[i] = Unsuggested(row[i])
  BY StoresData, SwitchesData
<1> QED BY <1>1, <1>2, UnsuggestedSame DEF Same, SameLabel, SameRegion, SameStatus, SameDoubt

LEMMA Rows ==
    ASSUME CallInv, NEW p \in Proc, NEW i \in Item, Onwards(p)
    PROVE  Same(i) \/ (call[p].at = i /\ RowChanges(p, i))
<1>1. row' = row => Same(i)
  BY DEF Same, SameLabel, SameRegion, SameStatus, SameDoubt
<1>2. CASE ReadsItem(p) \/ Matches(p) \/ Begins(p) \/ Prelabels(p) \/ Offers(p) \/ Looks(p) \/ Lists(p)
  BY <1>1, <1>2, CallSteps DEF data
<1>3. CASE ReadsFace(p) \/ ReadsVerified(p) \/ Rebuilds(p) \/ Enrol(p)
  BY <1>1, <1>3, SampleSteps, EnrolData
<1>4. CASE Clears(p) \/ Suggest(p) \/ Resolves(p) \/ Moots(p) \/ Readies(p) \/ Reviews(p)
  BY <1>4, ReviewRows
<1>5. CASE Labels(p) \/ Verifies(p) \/ Archives(p)
  BY <1>5, LabelRows
<1>6. CASE Relabels(p) \/ Again(p)
  BY <1>6, QueueRows
<1>7. CASE Resets(p) \/ Frames(p) \/ Completes(p)
  BY <1>7, FrameRows
<1>8. CASE Stores(p) \/ Switches(p)
  BY <1>8, StoreRows
<1> QED BY <1>2, <1>3, <1>4, <1>5, <1>6, <1>7, <1>8 DEF Onwards

\* What a step does to a face
FaceChanges(p, i) ==
    \/ Stores(p) /\ face'[i] = call[p].face
    \/ Completes(p) /\ face'[i] \in Face /\ face'[i].region = row[i].region
    \/ (Resets(p) \/ Frames(p)) /\ ~Busy(i) /\ face'[i] = None
Cleared(i) == /\ face[i] # None /\ row[i].status = "awaiting"
              /\ face'[i] = [face[i] EXCEPT !.vector = "null"]

LEMMA Faces ==
    ASSUME CallInv, NEW p \in Proc, NEW i \in Item, Onwards(p)
    PROVE  face'[i] = face[i] \/ (call[p].at = i /\ FaceChanges(p, i)) \/ (Switches(p) /\ Cleared(i))
<1>1. CASE ReadsItem(p) \/ Matches(p) \/ Begins(p) \/ Prelabels(p) \/ Offers(p) \/ Looks(p) \/ Lists(p)
  BY <1>1, CallSteps DEF data
<1>2. CASE ReadsFace(p) \/ ReadsVerified(p) \/ Rebuilds(p) \/ Enrol(p)
  BY <1>2, SampleSteps, EnrolData
<1>3. CASE \/ Clears(p) \/ Suggest(p) \/ Labels(p) \/ Verifies(p) \/ Resolves(p) \/ Moots(p)
           \/ Readies(p) \/ Archives(p) \/ Reviews(p)
  BY SMTT(30), <1>3, RowSteps
<1>4. CASE Relabels(p) \/ Again(p)
  BY <1>4, RelabelsData, AgainData DEF data
<1>5. CASE Resets(p)
  BY <1>5, ResetsData DEF data, FaceChanges
<1>6. CASE Frames(p)
  BY <1>6, FramesData DEF data, FaceChanges, Busy
<1>7. CASE Completes(p)
  BY <1>7, CompletesData DEF FaceChanges
<1>8. CASE Stores(p)
  BY <1>8, StoresData DEF FaceChanges
<1>9. CASE Switches(p)
  BY <1>9, SwitchesData DEF Cleared
<1> QED BY <1>1, <1>2, <1>3, <1>4, <1>5, <1>6, <1>7, <1>8, <1>9 DEF Onwards

\* What a step does to the samples of a capture
Kept(i) == \A c \in Char : sample'[c][i] = sample[c][i]

LEMMA Samples ==
    ASSUME CallInv, NEW p \in Proc, NEW i \in Item, Onwards(p)
    PROVE  \/ Kept(i)
           \/ /\ call[p].at = i
              /\ NoSamples(i) \/ (Enrol(p) /\ call[p].item.char \in chars)
<1>1. sample' = sample => Kept(i)
  BY DEF Kept
<1>2. ASSUME NoSamples(call[p].at), call[p].at \in Item
      PROVE  Kept(i) \/ (call[p].at = i /\ NoSamples(i))
  <2>1. sample \in [Char -> [Item -> Sample \cup {None}]]
    BY DEF CallInv, TypeOK
  <2>2. \A c \in Char, j \in Item \ {call[p].at} : sample'[c][j] = sample[c][j]
    BY <1>2, <2>1, SamplesGone
  <2> QED BY <1>2, <2>2 DEF Kept
<1>3. CASE ReadsItem(p) \/ Matches(p) \/ Begins(p) \/ Prelabels(p) \/ Offers(p) \/ Looks(p) \/ Lists(p)
  BY <1>1, <1>3, CallSteps DEF data
<1>4. CASE ReadsFace(p) \/ ReadsVerified(p) \/ Rebuilds(p)
  BY <1>1, <1>2, <1>4, SampleSteps
<1>5. CASE \/ Clears(p) \/ Suggest(p) \/ Labels(p) \/ Verifies(p) \/ Resolves(p) \/ Moots(p)
           \/ Readies(p) \/ Archives(p) \/ Reviews(p)
  BY <1>1, <1>5, RowSteps
<1>6. CASE Relabels(p)
  BY <1>1, <1>2, <1>6, RelabelsData DEF data
<1>7. CASE Again(p)
  BY <1>1, <1>2, <1>7, AgainData DEF data
<1>8. CASE Resets(p)
  BY <1>1, <1>2, <1>8, ResetsData DEF data
<1>9. CASE Frames(p)
  BY <1>1, <1>2, <1>9, FramesData DEF data
<1>10. CASE Completes(p) \/ Stores(p) \/ Switches(p)
  BY <1>1, <1>10, CompletesData, StoresData, SwitchesData
<1>11. CASE Enrol(p)
  <2>1. CASE call[p].item.char \notin chars
    BY <1>1, <1>11, <2>1, EnrolData
  <2>2. CASE call[p].item.char \in chars /\ call[p].at # i
    BY <1>11, <2>2, SampleSet DEF Kept
  <2>3. CASE call[p].item.char \in chars /\ call[p].at = i
    BY <1>11, <2>3
  <2> QED BY <2>1, <2>2, <2>3
<1> QED BY <1>3, <1>4, <1>5, <1>6, <1>7, <1>8, <1>9, <1>10, <1>11 DEF Onwards

-----------------------------------------------------------------------------
(* Who moves, and where to *)

LEMMA AtOps ==
    ASSUME NEW p
    PROVE  /\ ReadsItem(p) => call[p].op = "readItem"
           /\ ReadsFace(p) => call[p].op = "readFace"
           /\ ReadsVerified(p) => call[p].op = "readVerified"
           /\ Enrol(p) => call[p].op = "enrol"
           /\ Clears(p) => call[p].op = "clear"
           /\ Matches(p) => call[p].op = "match"
           /\ Suggest(p) => call[p].op = "suggest"
           /\ Begins(p) => call[p].op = "begin"
           /\ Prelabels(p) => call[p].op = "prelabel"
           /\ Rebuilds(p) => call[p].op = "rebuild"
           /\ Stores(p) => call[p].op = "store"
           /\ Labels(p) => call[p].op = "label"
           /\ Verifies(p) => call[p].op = "verify"
           /\ Resolves(p) => call[p].op = "resolve"
           /\ Moots(p) => call[p].op = "moot"
           /\ Relabels(p) => call[p].op = "relabel"
           /\ Again(p) => call[p].op = "again"
           /\ Resets(p) => call[p].op = "reset"
           /\ Frames(p) => call[p].op = "frame"
           /\ Readies(p) => call[p].op = "ready"
           /\ Completes(p) => call[p].op = "complete"
           /\ Archives(p) => call[p].op = "archive"
           /\ Offers(p) => call[p].op = "offer"
           /\ Looks(p) => call[p].op = "look"
           /\ Reviews(p) => call[p].op \in {"accepted", "rejected", "dismiss"}
           /\ Lists(p) => call[p].op \in Listing
           /\ Switches(p) => call[p].op \in Switching
<1>1. /\ ReadsItem(p) => call[p].op = "readItem"
      /\ ReadsFace(p) => call[p].op = "readFace"
      /\ ReadsVerified(p) => call[p].op = "readVerified"
      /\ Enrol(p) => call[p].op = "enrol"
  BY DEF ReadsItem, ReadsFace, ReadsVerified, Enrol, At
<1>2. /\ Clears(p) => call[p].op = "clear"
      /\ Matches(p) => call[p].op = "match"
      /\ Suggest(p) => call[p].op = "suggest"
  BY DEF Clears, Matches, Suggest, At
<1>3. /\ Begins(p) => call[p].op = "begin"
      /\ Prelabels(p) => call[p].op = "prelabel"
      /\ Rebuilds(p) => call[p].op = "rebuild"
      /\ Stores(p) => call[p].op = "store"
  BY DEF Begins, Prelabels, Rebuilds, Stores, At
<1>4. /\ Labels(p) => call[p].op = "label"
      /\ Verifies(p) => call[p].op = "verify"
      /\ Resolves(p) => call[p].op = "resolve"
      /\ Moots(p) => call[p].op = "moot"
  BY DEF Labels, Verifies, Resolves, Moots, At
<1>5. /\ Relabels(p) => call[p].op = "relabel"
      /\ Again(p) => call[p].op = "again"
      /\ Resets(p) => call[p].op = "reset"
      /\ Frames(p) => call[p].op = "frame"
      /\ Readies(p) => call[p].op = "ready"
  BY DEF Relabels, Again, Resets, Frames, Readies, At
<1>6. /\ Completes(p) => call[p].op = "complete"
      /\ Archives(p) => call[p].op = "archive"
      /\ Offers(p) => call[p].op = "offer"
      /\ Looks(p) => call[p].op = "look"
  BY DEF Completes, Archives, Offers, Looks, At
<1>7. /\ Reviews(p) => call[p].op \in {"accepted", "rejected", "dismiss"}
      /\ Lists(p) => call[p].op \in Listing
      /\ Switches(p) => call[p].op \in Switching
  BY DEF Reviews, Lists, Switches, At, Listing, Switching
<1> QED BY <1>1, <1>2, <1>3, <1>4, <1>5, <1>6, <1>7

\* Steps at which an invariant says something of a call.
Telling == {"store", "verify", "readItem", "readFace", "readVerified", "enrol", "resolve", "match",
            "suggest"}
Stays(p, d) == d.kind = call[p].kind /\ d.at = call[p].at /\ d.arg = call[p].arg

\* How a call gets to a telling step.
Arrival(p, d) ==
    \/ d.op = "readItem" /\ Stays(p, d) /\ (Verifies(p) \/ Stores(p) \/ Completes(p) \/ Reviews(p))
    \/ /\ d.op = "readFace" /\ Stays(p, d) /\ ReadsItem(p)
       /\ d.item = [class |-> row[call[p].at].class, char |-> row[call[p].at].char]
    \/ /\ d.op = "readVerified" /\ Stays(p, d) /\ ReadsFace(p)
       /\ d.item = call[p].item /\ d.face = face[call[p].at] /\ sample' = sample
    \/ /\ d.op = "enrol" /\ Stays(p, d) /\ ReadsVerified(p)
       /\ d.item = call[p].item /\ d.face = call[p].face /\ d.flagged = row[call[p].at].flagged
       /\ sample' = sample
    \/ /\ d.op = "resolve" /\ Stays(p, d) /\ call[p].kind = "label"
       /\ Enrol(p) \/ ((ReadsFace(p) \/ ReadsVerified(p)) /\ NoSamples(call[p].at))
    \/ /\ d.op = "match" /\ Stays(p, d) /\ Clears(p)
       /\ d.item = [class |-> row[call[p].at].class, char |-> row[call[p].at].char]
    \/ d.op = "suggest" /\ Stays(p, d) /\ Matches(p) /\ d.item = call[p].item
    \/ /\ d.op = "store" /\ Stays(p, d) /\ (Begins(p) \/ Prelabels(p) \/ Rebuilds(p))
       /\ d.face.region = row[call[p].at].region /\ ~Busy(call[p].at)
    \/ d.op = "verify" /\ Stays(p, d) /\ Labels(p) /\ Next1(p)

LEMMA OnwardStays ==
    ASSUME NEW p, NEW d, Onward(call[p], d), d.op \in Telling
    PROVE  Stays(p, d)
BY DEF Onward, Starting, Telling, Listing, Stays

LEMMA ResolveIsLabel ==
    ASSUME NEW p, NEW d, Became(p, d), Onward(call[p], d), d.op = "resolve"
    PROVE  call[p].kind = "label"
BY OnwardStays DEF Became, Shape, Placed, Stays, Telling

LEMMA Arrives ==
    ASSUME CallInv, NEW p \in Proc, Onwards(p)
    PROVE  \E d : /\ Became(p, d) /\ Onward(call[p], d)
                  /\ d.op \in Telling => Arrival(p, d)
<1>1. CASE ReadsItem(p)
  <2>1. PICK d : /\ Became(p, d) /\ Onward(call[p], d)
                 /\ d = [call[p] EXCEPT !.item = [class |-> row[call[p].at].class,
                                                  char |-> row[call[p].at].char],
                                        !.op = "readFace"]
    BY <1>1, ReadsItemCall
  <2>2. d.op = "readFace" /\ d.item = [class |-> row[call[p].at].class, char |-> row[call[p].at].char]
    BY <2>1, Facts DEF Call
  <2>3. Stays(p, d)
    BY <2>1, <2>2, OnwardStays DEF Telling
  <2> QED BY <1>1, <2>1, <2>2, <2>3 DEF Arrival
<1>2. CASE ReadsFace(p)
  <2>1. CASE \E d : /\ Became(p, d) /\ Onward(call[p], d)
                    /\ d = [call[p] EXCEPT !.face = face[call[p].at], !.op = "readVerified"]
                    /\ sample' = sample
    <3>1. PICK d : /\ Became(p, d) /\ Onward(call[p], d)
                   /\ d = [call[p] EXCEPT !.face = face[call[p].at], !.op = "readVerified"]
                   /\ sample' = sample
      BY <2>1
    <3>2. d.op = "readVerified" /\ d.item = call[p].item /\ d.face = face[call[p].at]
      BY <3>1, Facts DEF Call
    <3>3. Stays(p, d)
      BY <3>1, <3>2, OnwardStays DEF Telling
    <3> QED BY <1>2, <3>1, <3>2, <3>3 DEF Arrival
  <2>2. CASE \E d : /\ Became(p, d) /\ Onward(call[p], d)
                    /\ d.op \in {"resolve", "clear", "release"} \cup Starting
                    /\ NoSamples(call[p].at)
    <3>1. PICK d : /\ Became(p, d) /\ Onward(call[p], d)
                   /\ d.op \in {"resolve", "clear", "release"} \cup Starting
                   /\ NoSamples(call[p].at)
      BY <2>2
    <3>2. d.op \in Telling => d.op = "resolve"
      BY <3>1 DEF Telling, Starting, Listing
    <3> QED BY <1>2, <3>1, <3>2, OnwardStays, ResolveIsLabel DEF Arrival
  <2> QED BY <1>2, <2>1, <2>2, ReadsFaceCall
<1>3. CASE ReadsVerified(p)
  <2>1. CASE \E d : /\ Became(p, d) /\ Onward(call[p], d)
                    /\ d = [call[p] EXCEPT !.flagged = row[call[p].at].flagged, !.op = "enrol"]
                    /\ sample' = sample
    <3>1. PICK d : /\ Became(p, d) /\ Onward(call[p], d)
                   /\ d = [call[p] EXCEPT !.flagged = row[call[p].at].flagged, !.op = "enrol"]
                   /\ sample' = sample
      BY <2>1
    <3>2. d.op = "enrol" /\ d.item = call[p].item /\ d.face = call[p].face
          /\ d.flagged = row[call[p].at].flagged
      BY <3>1, Facts DEF Call
    <3>3. Stays(p, d)
      BY <3>1, <3>2, OnwardStays DEF Telling
    <3> QED BY <1>3, <3>1, <3>2, <3>3 DEF Arrival
  <2>2. CASE \E d : /\ Became(p, d) /\ Onward(call[p], d)
                    /\ d.op \in {"resolve", "clear", "release"} \cup Starting
                    /\ NoSamples(call[p].at)
    <3>1. PICK d : /\ Became(p, d) /\ Onward(call[p], d)
                   /\ d.op \in {"resolve", "clear", "release"} \cup Starting
                   /\ NoSamples(call[p].at)
      BY <2>2
    <3>2. d.op \in Telling => d.op = "resolve"
      BY <3>1 DEF Telling, Starting, Listing
    <3> QED BY <1>3, <3>1, <3>2, OnwardStays, ResolveIsLabel DEF Arrival
  <2> QED BY <1>3, <2>1, <2>2, ReadsVerifiedCall
<1>4. CASE Enrol(p)
  <2>1. PICK d : /\ Became(p, d) /\ Onward(call[p], d)
                 /\ d.op \in {"resolve", "clear", "release"} \cup Starting
    BY <1>4, EnrolCall
  <2>2. d.op \in Telling => d.op = "resolve"
    BY <2>1 DEF Telling, Starting, Listing
  <2> QED BY <1>4, <2>1, <2>2, OnwardStays, ResolveIsLabel DEF Arrival
<1>5. CASE Clears(p)
  <2>1. PICK d : /\ Became(p, d) /\ Onward(call[p], d)
                 /\ d = [call[p] EXCEPT !.item = [class |-> row[call[p].at].class,
                                                  char |-> row[call[p].at].char],
                                        !.op = "match"]
    BY <1>5, ClearsCall
  <2>2. d.op = "match" /\ d.item = [class |-> row[call[p].at].class, char |-> row[call[p].at].char]
    BY <2>1, Facts DEF Call
  <2>3. Stays(p, d)
    BY <2>1, <2>2, OnwardStays DEF Telling
  <2> QED BY <1>5, <2>1, <2>2, <2>3 DEF Arrival
<1>6. CASE Matches(p)
  <2>1. PICK d : /\ Became(p, d) /\ Onward(call[p], d)
                 /\ \/ d.op = "suggest" /\ d.item = call[p].item
                    \/ d.op \in {"release", "ready", "archive"}
    BY <1>6, MatchesCall
  <2>2. d.op = "suggest" => Stays(p, d)
    BY <2>1, OnwardStays DEF Telling
  <2> QED BY <1>6, <2>1, <2>2 DEF Arrival, Telling
<1>7. CASE Begins(p) \/ Prelabels(p) \/ Rebuilds(p)
  <2>1. PICK d : /\ Became(p, d) /\ Onward(call[p], d)
                 /\ \/ /\ d.op = "store" /\ d.face.region = row[call[p].at].region
                       /\ ~Busy(call[p].at)
                    \/ d.op \in {"release"} \cup Starting
    BY <1>7, AskersCall
  <2>2. d.op = "store" => Stays(p, d)
    BY <2>1, OnwardStays DEF Telling
  <2>3. d.op \in Telling => d.op = "store"
    BY <2>1 DEF Telling, Starting, Listing
  <2> QED BY <1>7, <2>1, <2>2, <2>3 DEF Arrival, Telling, Starting, Listing
<1>8. CASE Labels(p)
  <2>1. PICK d : /\ Became(p, d) /\ Onward(call[p], d)
                 /\ \/ Next1(p) /\ d.op \in {"verify", "moot"}
                    \/ d.op \in {"release"} \cup Starting
    BY <1>8, LabelsCall
  <2>2. d.op \in Telling => d.op = "verify" /\ Next1(p)
    BY <2>1 DEF Telling, Starting, Listing
  <2>3. d.op = "verify" => Stays(p, d)
    BY <2>1, OnwardStays DEF Telling
  <2> QED BY <1>8, <2>1, <2>2, <2>3 DEF Arrival
<1>9. CASE Verifies(p) \/ Stores(p) \/ Completes(p) \/ Reviews(p)
  <2>1. PICK d : /\ Became(p, d) /\ Onward(call[p], d)
                 /\ d.op \in {"readItem", "clear", "release"} \cup Starting
    BY <1>9, VerifiesCall, StoresCall, CompletesCall, ReviewsCall
  <2>2. d.op \in Telling => d.op = "readItem"
    BY <2>1 DEF Telling, Starting, Listing
  <2> QED BY <1>9, <2>1, <2>2, OnwardStays DEF Arrival
<1>10. CASE \/ Suggest(p) \/ Resolves(p) \/ Moots(p) \/ Relabels(p) \/ Again(p) \/ Resets(p)
            \/ Readies(p) \/ Frames(p) \/ Archives(p)
  <2>1. \E d : /\ Became(p, d) /\ Onward(call[p], d)
               /\ d.op \in {"release", "ready", "archive", "begin"} \cup Starting
    BY <1>10, SuggestCall, LastCall, FramesCall, ArchivesCall
  <2> QED BY <2>1 DEF Telling, Starting, Listing
<1>11. CASE Offers(p) \/ Looks(p) \/ Lists(p) \/ Switches(p)
  <2>1. \E d : /\ Became(p, d) /\ Onward(call[p], d)
               /\ d.op \in {"accepted", "rejected", "switchFaces", "switchModel"} \cup Starting
    BY <1>11, OffersCall, LooksCall, ListsCall, SwitchesCall
  <2> QED BY <2>1 DEF Telling, Starting, Listing
<1> QED BY <1>1, <1>2, <1>3, <1>4, <1>5, <1>6, <1>7, <1>8, <1>9, <1>10, <1>11 DEF Onwards

\* One call moves.
LEMMA Mover ==
    ASSUME CallInv, NEW p \in Proc, Onwards(p)
    PROVE  /\ call'[p].op \in Telling => Arrival(p, call'[p])
           /\ \A q \in Proc \ {p} : call'[q] = call[q]
           /\ Shape(p, call'[p], budget.ops) /\ Onward(call[p], call'[p])
           /\ UNCHANGED <<lock, budget>>
<1>1. PICK d : Became(p, d) /\ Onward(call[p], d) /\ (d.op \in Telling => Arrival(p, d))
  BY Arrives
<1>2. UNCHANGED <<lock, budget>>
  BY StepsData
<1>3. call'[p] = d /\ \A q \in Proc \ {p} : call'[q] = call[q]
  BY <1>1, <1>2, ShapesKept
<1> QED BY <1>1, <1>2, <1>3 DEF Became

\* A step that changes neither data nor a telling call, unless its capture is gone
Gentle ==
    /\ UNCHANGED <<row, face, sample, chars, gone>> /\ budget'.ops = budget.ops
    /\ \A q \in Proc : \/ call'[q] = call[q]
                       \/ /\ call[q].op \notin Telling \/ call[q].at \in gone
                          /\ call'[q].op \notin Telling /\ call'[q].kind # "process"

LEMMA StartingKind ==
    ASSUME NEW p, NEW d, NEW ops, Shape(p, d, ops), d.op \in Starting
    PROVE  d.kind # "process" /\ d.op \notin Telling
<1>1. Placed(d.kind, d.op)
  BY DEF Shape
<1>2. d.op \notin Telling
  BY DEF Starting, Telling, Listing
<1>3. CASE d.kind = "process"
  BY <1>1, <1>3 DEF Placed, Starting, Listing, LockKinds, Switching
<1> QED BY <1>2, <1>3

LEMMA TakesGentle ==
    ASSUME CallInv, NEW p \in Proc, Takes(p) \/ Releases(p), gone' = gone
    PROVE  Gentle
<1>1. UNCHANGED <<data, budget>>
  BY TakesKeeps, ReleasesKeeps
<1>2. call[p].op \notin Telling
  BY DEF Takes, Releases, At, Telling
<1>3. \E d : Became(p, d) /\ d.op \notin Telling /\ d.kind # "process"
  <2>1. CASE Takes(p)
    <3>1. PICK o \in {"label", "relabel", "again", "reset", "begin", "frame", "clear", "rebuild",
                      "prelabel"} : Became(p, [call[p] EXCEPT !.op = o])
      BY <2>1, TakesCall
    <3>2. [call[p] EXCEPT !.op = o].op = o /\ [call[p] EXCEPT !.op = o].kind = call[p].kind
      BY Facts DEF Call
    <3>3. call[p].kind # "process"
      BY <2>1, Facts DEF Takes, At, Placed, LockKinds
    <3> QED BY <3>1, <3>2, <3>3 DEF Telling
  <2>2. CASE Releases(p)
    BY <2>2, ReleasesCall, StartingKind DEF Became
  <2> QED BY <2>1, <2>2
<1>4. PICK d : Became(p, d) /\ d.op \notin Telling /\ d.kind # "process"
  BY <1>3
<1>5. call'[p] = d /\ \A q \in Proc \ {p} : call'[q] = call[q]
  BY <1>1, <1>4, ShapesKept
<1> QED BY <1>1, <1>2, <1>4, <1>5 DEF Gentle, data

LEMMA CallersGentle ==
    ASSUME CallInv, NEW p \in budget.callers, Commands(p) \/ RebuildStarts(p), gone' = gone
    PROVE  Gentle
<1>1. p \in Proc /\ \E d : Became(p, d) /\ d.op \in Starting
  BY CommandsCall, RebuildStartsCall
<1>2. UNCHANGED <<data, lock>> /\ Spent
  BY CommandsData, UsesBudget DEF RebuildStarts
<1>3. PICK d : Became(p, d) /\ d.op \in Starting
  BY <1>1
<1>4. d.op \notin Telling /\ d.kind # "process"
  BY <1>3, StartingKind DEF Became
<1>5. call'[p] = d /\ \A q \in Proc \ {p} : call'[q] = call[q]
  BY <1>1, <1>2, <1>3, ShapesKept DEF Spent
<1>6. call[p].op \notin Telling
  <2>1. call[p].op = "end"
    <3>1. CASE RebuildStarts(p)
      BY SMTT(30), <3>1 DEF RebuildStarts, At
    <3>2. CASE Commands(p)
      BY <3>2 DEF Commands, Command, Starts, At
    <3> QED BY <3>1, <3>2
  <2> QED BY <2>1 DEF Telling
<1> QED BY <1>1, <1>2, <1>5, <1>6, <1>4 DEF Gentle, data, Spent

LEMMA PicksGentle ==
    ASSUME CallInv, NEW i \in Item, Picks(i), gone' = gone
    PROVE  Gentle
<1>1. UNCHANGED <<data, lock, budget>> /\ Worker \in Proc /\ call[Worker].op = "end"
  BY PicksKeeps, WorkerAssumption DEF Picks, SoftStarts, At
<1>2. SoftStarts(Worker, "prelabel", i) /\ "prelabel" \in Workers
  BY DEF Picks, Workers
<1>3. PICK d : Became(Worker, d) /\ d.kind = "prelabel" /\ d.op \in {"complete", "archive", "take"}
  BY <1>2, SoftStartsCall
<1>4. call'[Worker] = d /\ \A q \in Proc \ {Worker} : call'[q] = call[q]
  BY <1>1, <1>3, ShapesKept
<1> QED BY <1>1, <1>3, <1>4 DEF Gentle, data, Telling

\* The worker claims a queued capture.
LEMMA ClaimsCall ==
    ASSUME CallInv, NEW i \in Item, Claims(i)
    PROVE  /\ Worker \in Proc /\ call[Worker].op = "end"
           /\ call'[Worker].op \notin Telling /\ call'[Worker].at = i
           /\ \A q \in Proc \ {Worker} : call'[q] = call[q]
           /\ UNCHANGED <<face, sample, chars, model, here, lock, budget>>
           /\ \A j \in Item : SameLabel(j) /\ SameRegion(j) /\ SameDoubt(j)
           /\ \A j \in Item \ {i} : row'[j] = row[j]
           /\ row[i].status = "queued" /\ row'[i].status \in {"processing", "pending"}
           /\ row'[i].sug = row[i].sug /\ row'[i].review = row[i].review
           /\ row'[i].banked = row[i].banked
<1> DEFINE k == IF row[i].class = "person" THEN "process" ELSE "archive"
<1>1. Worker \in Proc
  BY WorkerAssumption
<1>2. /\ row[i].status = "queued" /\ UNCHANGED <<face, sample, chars, model, here, lock, budget>>
      /\ row' \in [Item -> Row] /\ \A j \in Item \ {i} : row'[j] = row[j]
      /\ row'[i] = [row[i] EXCEPT !.status = IF row[i].class = "person" THEN "processing"
                                             ELSE "pending"]
      /\ SoftStarts(Worker, k, i)
  BY ClaimsData
<1>3. row[i] \in Row
  BY DEF CallInv, TypeOK
<1>4. k \in Workers
  BY DEF Workers
<1> HIDE DEF k
<1>5. PICK d : Became(Worker, d) /\ d.at = i /\ d.op \in {"complete", "archive", "take"}
  BY <1>2, <1>4, SoftStartsCall
<1>6. call'[Worker] = d /\ \A q \in Proc \ {Worker} : call'[q] = call[q]
  BY <1>1, <1>2, <1>5, ShapesKept
<1>7. call[Worker].op = "end"
  BY <1>2 DEF SoftStarts, At
<1>8. SameLabel(i) /\ SameRegion(i) /\ SameDoubt(i) /\ row'[i].status \in {"processing", "pending"}
      /\ row'[i].sug = row[i].sug /\ row'[i].review = row[i].review
      /\ row'[i].banked = row[i].banked
  BY <1>2, <1>3 DEF SameLabel, SameRegion, SameDoubt, Row
<1>9. \A j \in Item \ {i} : SameLabel(j) /\ SameRegion(j) /\ SameDoubt(j)
  BY <1>2 DEF SameLabel, SameRegion, SameDoubt
<1> QED BY <1>1, <1>2, <1>5, <1>6, <1>7, <1>8, <1>9 DEF Telling

LEMMA VanishesGentle ==
    ASSUME CallInv, GoneTyped, NEW p \in Proc, Vanishes(p), gone' = gone
    PROVE  Gentle
<1>1. UNCHANGED <<data, lock, budget>> /\ call[p].at \in gone
  BY VanishesKeeps, VanishesCall DEF GoneTyped
<1>2. PICK d : Became(p, d) /\ d.op \in {"release"} \cup Starting
  BY VanishesCall DEF GoneTyped
<1>3. d.op \notin Telling /\ d.kind # "process"
  <2>1. CASE d.op = "release"
    BY <1>2, <2>1 DEF Became, Shape, Placed, LockKinds, Telling
  <2>2. CASE d.op \in Starting
    BY <1>2, <2>2, StartingKind DEF Became
  <2> QED BY <1>2, <2>1, <2>2
<1>4. call'[p] = d /\ \A q \in Proc \ {p} : call'[q] = call[q]
  BY <1>1, <1>2, ShapesKept
<1> QED BY <1>1, <1>3, <1>4 DEF Gentle, data

LEMMA LoadsGentle ==
    ASSUME CallInv, NEW c \in Char, Loads(c)
    PROVE  Gentle
<1>1. UNCHANGED <<data, lock, call, gone>> /\ Spent
  BY UsesBudget DEF Loads
<1> QED BY <1>1 DEF Gentle, data, Spent

LEMMA NextCases ==
    ASSUME CallInv, GoneTyped, [Next]_vars
    PROVE  \/ Gentle
           \/ \E p \in Proc : Onwards(p) /\ ~Vanished(p) /\ gone' = gone
           \/ \E i \in Item : Claims(i) /\ i \notin gone /\ gone' = gone
           \/ \E s, t \in Char : Merges(s, t) /\ gone' = gone
           \/ \E c \in Char, i \in Item, on \in BOOLEAN :
                 (Flags(c, i, on) \/ Revokes(c, i, on)) /\ gone' = gone
           \/ \E c \in Char : Deletes(c)
<1>1. ASSUME NEW p \in Proc, Steps(p), gone' = gone
      PROVE  Gentle \/ (Onwards(p) /\ ~Vanished(p))
  BY <1>1, StepsSplit, TakesGentle, VanishesGentle
<1>2. ASSUME NEW p \in budget.callers, Commands(p) \/ RebuildStarts(p), gone' = gone
      PROVE  Gentle
  BY <1>2, CallersGentle
<1>3. ASSUME NEW i \in budget.items \ gone, Claims(i) \/ Picks(i) \/ Moves(i), gone' = gone
      PROVE  Gentle \/ (i \in Item /\ i \notin gone /\ Claims(i))
  <2>1. i \in Item
    BY Inside
  <2>2. CASE Moves(i)
    <3>1. UNCHANGED <<row, face, sample, chars, call>> /\ Spent
      BY <2>1, <2>2, MovesData
    <3> QED BY <1>3, <3>1 DEF Gentle, Spent
  <2> QED BY <1>3, <2>1, <2>2, PicksGentle
<1>4. CASE UNCHANGED vars
  BY <1>4 DEF vars, Gentle
<1>5. CASE Works /\ UNCHANGED <<gone, removal>>
  <2>1. gone' = gone
    BY <1>5
  <2>2. CASE \E p \in Proc : Steps(p)
    BY <1>1, <2>1, <2>2
  <2>3. CASE \E p \in budget.callers : Commands(p) \/ RebuildStarts(p)
    BY <1>2, <2>1, <2>3
  <2>4. CASE \E i \in budget.items \ gone : Claims(i) \/ Picks(i) \/ Moves(i)
    BY <1>3, <2>1, <2>4
  <2>5. CASE \E s, t \in Char : Merges(s, t)
    BY <2>1, <2>5
  <2>6. CASE \E c \in Char, i \in budget.items, on \in BOOLEAN : Flags(c, i, on) \/ Revokes(c, i, on)
    BY <2>1, <2>6, Inside
  <2> QED BY <1>5, <2>2, <2>3, <2>4, <2>5, <2>6 DEF Works
<1>6. ASSUME NEW c \in Char, Loads(c)
      PROVE  Gentle
  BY <1>6, LoadsGentle
<1> QED BY <1>4, <1>5, <1>6 DEF Next

-----------------------------------------------------------------------------
(* The lock keeps other calls out *)

LEMMA Exclusive ==
    ASSUME CallInv, NEW p \in Proc, NEW q \in Proc, p # q, Holds(call[p]), Holds(call[q]),
           call[q].at \in Item
    PROVE  call[p].at # call[q].at
BY DEF CallInv, LockInv

\* Those who change a row hold its lock, or work for the queue.
LEMMA Changers ==
    ASSUME CallInv, NEW p \in Proc, NEW i \in Item, RowChanges(p, i)
    PROVE  Holds(call[p]) \/ (p = Worker /\ RowWorked(p, i))
<1>1. CASE \/ RowLabels(p, i) \/ RowVerifies(p, i) \/ RowRelabels(p, i) \/ RowAgain(p, i)
           \/ RowResets(p, i) \/ RowFrames(p, i)
  <2>1. call[p].op \in {"label", "verify", "relabel", "again", "reset", "frame"}
    BY <1>1, AtOps DEF RowLabels, RowVerifies, RowRelabels, RowAgain, RowResets, RowFrames
  <2> QED BY <2>1, Facts DEF Holds, Placed, LockKinds
<1>2. CASE RowWorked(p, i)
  <2>1. call[p].op \in {"complete", "archive"}
    BY <1>2, AtOps DEF RowWorked
  <2>2. p = Worker
    BY <2>1, Facts DEF Placed, Kinded, Workers
  <2> QED BY <1>2, <2>2
<1> QED BY <1>1, <1>2 DEF RowChanges

LEMMA FaceChangers ==
    ASSUME CallInv, NEW p \in Proc, NEW i \in Item, FaceChanges(p, i)
    PROVE  \/ Holds(call[p])
           \/ p = Worker /\ Completes(p) /\ face'[i] \in Face /\ face'[i].region = row[i].region
<1>1. CASE Stores(p) \/ Resets(p) \/ Frames(p)
  <2>1. call[p].op \in {"store", "reset", "frame"}
    BY <1>1, AtOps
  <2> QED BY <2>1, Facts DEF Holds, Placed, LockKinds, Storing
<1>2. CASE Completes(p) /\ face'[i] \in Face /\ face'[i].region = row[i].region
  BY <1>2, CompletesCall
<1> QED BY <1>1, <1>2 DEF FaceChanges

\* What another call may do to a locked capture
LEMMA Locked ==
    ASSUME CallInv, NEW p \in Proc, NEW q \in Proc, p # q, Onwards(p), Holds(call[q]), call[q].at \in Item
    PROVE  /\ \/ Same(call[q].at)
              \/ p = Worker /\ RowWorked(p, call[q].at) /\ call[p].at = call[q].at
           /\ \/ face'[call[q].at] = face[call[q].at]
              \/ /\ p = Worker /\ Completes(p) /\ call[p].at = call[q].at
                 /\ face'[call[q].at] \in Face
                 /\ face'[call[q].at].region = row[call[q].at].region
              \/ Cleared(call[q].at)
<1> DEFINE i == call[q].at
<1>1. Holds(call[p]) => call[p].at # i
  BY Exclusive
<1>2. Same(i) \/ (call[p].at = i /\ RowChanges(p, i))
  BY Rows
<1>3. face'[i] = face[i] \/ (call[p].at = i /\ FaceChanges(p, i)) \/ Cleared(i)
  BY Faces
<1> QED BY <1>1, <1>2, <1>3, Changers, FaceChangers

-----------------------------------------------------------------------------
(* What a call has read, and what is there *)

\* A class goes with a label.
RowInv == \A i \in Item : row[i].class = "person" <=> row[i].char # None

\* The worker's capture stays its own.  A face found under the lock is stored
\* and enrolled while nobody processes the capture.
WorkInv == \A p \in Proc :
    call[p].kind = "process" => row[call[p].at].status \in {"processing", "pending"}
QuietInv == \A p \in Proc :
    /\ call[p].kind \in Storing
    /\ call[p].op \in {"store", "readItem", "readFace", "readVerified", "enrol"}
    => ~Busy(call[p].at)
OwnInv == CallInv /\ GoneTyped /\ RowInv /\ WorkInv /\ QuietInv

\* What another call may do to the capture the worker has
LEMMA Worked ==
    ASSUME OwnInv, NEW p \in Proc, NEW q \in Proc, p # q, Onwards(p), call[q].kind = "process",
           call[q].at \in Item
    PROVE  /\ q = Worker
           /\ SameLabel(call[q].at) /\ SameRegion(call[q].at) /\ SameStatus(call[q].at)
           /\ Same(call[q].at) \/ (RowVerifies(p, call[q].at) /\ call[p].at = call[q].at)
           /\ face'[call[q].at] = face[call[q].at]
<1> DEFINE i == call[q].at
<1>1. q = Worker /\ row[i].status \in {"processing", "pending"} /\ CallInv
  BY Facts DEF OwnInv, WorkInv, Kinded, Workers
<1>2. Same(i) \/ (call[p].at = i /\ RowChanges(p, i))
  BY <1>1, Rows
<1>3. ~RowWorked(p, i)
  BY <1>1, CompletesCall, ArchivesCall DEF RowWorked
<1>4. RowChanges(p, i) => RowVerifies(p, i)
  BY <1>1, <1>3 DEF RowChanges, RowLabels, RowRelabels, RowAgain, RowResets, RowFrames, Busy
<1>5. face'[i] = face[i] \/ (call[p].at = i /\ FaceChanges(p, i)) \/ Cleared(i)
  BY <1>1, Faces
<1>6. ~Cleared(i)
  BY <1>1 DEF Cleared
<1>7. call[p].at = i => ~FaceChanges(p, i)
  <2>1. ~Completes(p)
    BY <1>1, CompletesCall
  <2>2. Stores(p) /\ call[p].at = i => ~Busy(i)
    BY <1>1, StoresCall DEF OwnInv, QuietInv
  <2> QED BY <1>1, <2>1, <2>2 DEF FaceChanges, Busy
<1> QED BY <1>1, <1>2, <1>4, <1>5, <1>6, <1>7 DEF Same, RowVerifies

\* The single statements
LEMMA FlagsRow ==
    ASSUME CallInv, NEW c \in Char, NEW i \in Item, NEW on \in BOOLEAN,
           Flags(c, i, on) \/ Revokes(c, i, on), NEW j \in Item
    PROVE  /\ SameLabel(j) /\ SameRegion(j) /\ SameStatus(j) /\ (row'[j].flagged => row[j].flagged)
           /\ row'[j].sug = row[j].sug /\ row'[j].review = row[j].review
           /\ row'[j].banked = row[j].banked
           /\ UNCHANGED <<face, chars, call>> /\ budget'.ops = budget.ops
<1>1. row[j] \in Row
  BY DEF CallInv, TypeOK
<1>2. row'[j] = row[j] \/ row'[j] = [row[j] EXCEPT !.flagged = FALSE]
  BY FlagsData, RevokesData
<1>3. UNCHANGED <<face, chars, call>>
  BY FlagsData, RevokesData
<1>4. Spent
  BY UsesBudget DEF Flags, Revokes
<1> QED BY <1>1, <1>2, <1>3, <1>4 DEF SameLabel, SameRegion, SameStatus, Row, Spent

LEMMA MergesRow ==
    ASSUME CallInv, NEW s \in Char, NEW t \in Char, Merges(s, t), NEW j \in Item
    PROVE  /\ row'[j].char = (IF row[j].char = s THEN t ELSE row[j].char)
           /\ row'[j].class = row[j].class
           /\ SameRegion(j) /\ SameStatus(j) /\ SameDoubt(j)
           /\ UNCHANGED <<face, call>> /\ budget'.ops = budget.ops /\ "merge" \in budget.ops
<1>1. Spent
  BY UsesBudget DEF Merges
<1> QED BY <1>1, MergesData DEF Spent

LEMMA RowInvKept ==
    ASSUME OwnInv, [Next]_vars
    PROVE  RowInv'
<1>1. CallInv /\ GoneTyped /\ RowInv
  BY DEF OwnInv
<1>2. CASE Gentle
  BY <1>1, <1>2 DEF Gentle, RowInv
<1>3. ASSUME NEW p \in Proc, Onwards(p), NEW i \in Item
      PROVE  row'[i].class = "person" <=> row'[i].char # None
  <2>1. CASE SameLabel(i)
    BY <1>1, <2>1 DEF RowInv, SameLabel
  <2>2. CASE Relabelled(i, call[p].arg)
    BY <2>2 DEF Relabelled
  <2>3. CASE RowResets(p, i)
    BY <2>3 DEF RowResets
  <2>4. Same(i) \/ RowChanges(p, i)
    BY <1>1, <1>3, Rows
  <2> QED BY <2>1, <2>2, <2>3, <2>4
       DEF Same, RowChanges, RowLabels, RowVerifies, RowRelabels, RowAgain, RowFrames, RowWorked
<1>4. ASSUME NEW j \in Item, Claims(j), NEW i \in Item
      PROVE  row'[i].class = "person" <=> row'[i].char # None
  <2>1. SameLabel(i)
    BY <1>1, <1>4, ClaimsCall
  <2> QED BY <1>1, <2>1 DEF RowInv, SameLabel
<1>5. ASSUME NEW s \in Char, NEW t \in Char, Merges(s, t), NEW i \in Item
      PROVE  row'[i].class = "person" <=> row'[i].char # None
  <2>1. row'[i].char = (IF row[i].char = s THEN t ELSE row[i].char) /\ row'[i].class = row[i].class
    BY <1>1, <1>5, MergesRow
  <2> QED BY <1>1, <2>1, NoneAssumption DEF RowInv
<1>6. ASSUME NEW c \in Char, NEW j \in Item, NEW on \in BOOLEAN, Flags(c, j, on) \/ Revokes(c, j, on),
             NEW i \in Item
      PROVE  row'[i].class = "person" <=> row'[i].char # None
  <2>1. SameLabel(i)
    BY <1>1, <1>6, FlagsRow
  <2> QED BY <1>1, <2>1 DEF RowInv, SameLabel
<1>7. ASSUME NEW c \in Char, Deletes(c), NEW i \in Item
      PROVE  row'[i].class = "person" <=> row'[i].char # None
  <2>1. SameLabel(i)
    BY <1>1, <1>7, DeletesRow DEF Same
  <2> QED BY <1>1, <2>1 DEF RowInv, SameLabel
<1> QED BY <1>1, <1>2, <1>3, <1>4, <1>5, <1>6, <1>7, NextCases DEF RowInv

LEMMA WorkInvKept ==
    ASSUME OwnInv, [Next]_vars
    PROVE  WorkInv'
<1>1. CallInv /\ GoneTyped /\ WorkInv
  BY DEF OwnInv
<1>2. CASE Gentle
  BY <1>1, <1>2 DEF Gentle, WorkInv
<1>3. ASSUME NEW p \in Proc, Onwards(p), NEW q \in Proc, call'[q].kind = "process"
      PROVE  row'[call'[q].at].status \in {"processing", "pending"}
  <2>1. CASE q # p
    <3>1. call'[q] = call[q] /\ call[q].kind = "process"
      BY <1>1, <1>3, <2>1, Mover
    <3>2. call[q].at \in Item
      BY <1>1, <3>1, Facts DEF Kinded, Placed, Listing
    <3>3. SameStatus(call[q].at)
      BY <1>3, <2>1, <3>1, <3>2, Worked
    <3> QED BY <1>1, <3>1, <3>3 DEF WorkInv, SameStatus
  <2>2. CASE q = p
    <3>1. Shape(p, call'[p], budget.ops) /\ Onward(call[p], call'[p])
      BY <1>1, <1>3, Mover
    <3>2. call'[p].op \notin Starting
      BY <1>3, <2>2, <3>1, StartingKind
    <3>3. call[p].kind = "process" /\ call'[p].at = call[p].at
      BY <1>3, <2>2, <3>1, <3>2 DEF Onward
    <3>4. call[p].at \in Item /\ row[call[p].at].status \in {"processing", "pending"}
          /\ ~Holds(call[p])
      BY <1>1, <3>3, Facts DEF Kinded, Placed, Listing, WorkInv, Holds, LockKinds
    <3>5. Same(call[p].at) \/ RowChanges(p, call[p].at)
      BY <1>1, <1>3, <3>4, Rows
    <3>6. CASE Same(call[p].at)
      BY <2>2, <3>3, <3>4, <3>6 DEF Same, SameStatus
    <3>7. CASE RowWorked(p, call[p].at)
      <4>1. CASE Archives(p)
        <5>1. call'[p].op \in Starting
          <6>1. \E d : Became(p, d) /\ d.op \in Starting
            BY <1>1, <4>1, ArchivesCall
          <6>2. budget' = budget
            BY <1>1, <1>3, Mover
          <6> QED BY <1>1, <6>1, <6>2, ShapesKept
        <5> QED BY <3>2, <5>1
      <4>2. CASE Completes(p) /\ row'[call[p].at].status = "pending"
        BY <2>2, <3>3, <4>2
      <4>3. CASE Completes(p) /\ row'[call[p].at].status = "failed"
        <5>1. call'[p] = Idle
          <6>1. row'[call[p].at] = [row[call[p].at] EXCEPT !.status = "failed"] /\ Stops(p)
            <7>1. row[call[p].at] \in Row
              BY <1>1, <3>4 DEF CallInv, TypeOK
            <7>2. Unsuggested(row[call[p].at]) \in Row
              BY <7>1, RequeuedRow
            <7>3. ~(row'[call[p].at] = [Unsuggested(row[call[p].at]) EXCEPT !.status = "pending"])
              BY <4>3, <7>2 DEF Row
            <7>4. ~(row'[call[p].at] = [row[call[p].at] EXCEPT !.status = "pending"])
              BY <4>3, <7>1 DEF Row
            <7> QED BY <1>1, <4>3, <7>3, <7>4, CompletesData
          <6> QED BY <1>1, <6>1 DEF Stops, CallInv, TypeOK
        <5> QED BY <3>2, <5>1 DEF Idle, Starting
      <4> QED BY <3>7, <4>1, <4>2, <4>3 DEF RowWorked
    <3> QED BY <1>1, <3>4, <3>5, <3>6, <3>7, Changers
  <2> QED BY <2>1, <2>2
<1>4. ASSUME NEW i \in Item, Claims(i), NEW q \in Proc, call'[q].kind = "process"
      PROVE  row'[call'[q].at].status \in {"processing", "pending"}
  <2>1. CASE q = Worker
    BY <1>1, <1>4, <2>1, ClaimsCall
  <2>2. CASE q # Worker
    <3>1. call'[q] = call[q]
      BY <1>1, <1>4, <2>2, ClaimsCall
    <3> QED BY <1>1, <1>4, <2>2, <3>1, Facts DEF Kinded, Workers
  <2> QED BY <2>1, <2>2
<1>5. ASSUME NEW s \in Char, NEW t \in Char, Merges(s, t), NEW q \in Proc, call'[q].kind = "process"
      PROVE  row'[call'[q].at].status \in {"processing", "pending"}
  <2>1. call' = call
    BY <1>1, <1>5, MergesData
  <2>2. call[q].at \in Item
    BY <1>1, <1>5, <2>1, Facts DEF Kinded, Placed, Listing
  <2>3. SameStatus(call[q].at)
    BY <1>1, <1>5, <2>2, MergesRow
  <2> QED BY <1>1, <1>5, <2>1, <2>3 DEF WorkInv, SameStatus
<1>6. ASSUME NEW c \in Char, NEW i \in Item, NEW on \in BOOLEAN, Flags(c, i, on) \/ Revokes(c, i, on),
             NEW q \in Proc, call'[q].kind = "process"
      PROVE  row'[call'[q].at].status \in {"processing", "pending"}
  <2>1. call' = call
    BY <1>1, <1>6, FlagsData, RevokesData
  <2>2. call[q].at \in Item
    BY <1>1, <1>6, <2>1, Facts DEF Kinded, Placed, Listing
  <2>3. SameStatus(call[q].at)
    BY <1>1, <1>6, <2>2, FlagsRow
  <2> QED BY <1>1, <1>6, <2>1, <2>3 DEF WorkInv, SameStatus
<1>7. ASSUME NEW c \in Char, Deletes(c), NEW q \in Proc, call'[q].kind = "process"
      PROVE  row'[call'[q].at].status \in {"processing", "pending"}
  <2>1. call' = call
    BY <1>7 DEF Deletes
  <2>2. call[q].at \in Item
    BY <1>1, <1>7, <2>1, Facts DEF Kinded, Placed, Listing
  <2>3. SameStatus(call[q].at)
    BY <1>1, <1>7, <2>2, DeletesRow DEF Same
  <2> QED BY <1>1, <1>7, <2>1, <2>3 DEF WorkInv, SameStatus
<1> QED BY <1>1, <1>2, <1>3, <1>4, <1>5, <1>6, <1>7, NextCases DEF WorkInv

LEMMA TellingAt ==
    ASSUME CallInv, NEW p \in Proc, call[p].op \in Telling
    PROVE  /\ call[p].at \in Item
           /\ Holds(call[p]) \/ call[p].kind \in {"process", "anchor", "dismiss"}
           /\ call[p].kind \in Storing \cup {"label"} => Holds(call[p])
           /\ Holds(call[p]) => lock[call[p].at] = p
<1>1. Placed(call[p].kind, call[p].op) /\ Kinded(p, call[p], budget.ops)
      /\ \A i \in Item : lock[i] = p <=> Holds(call[p]) /\ call[p].at = i
  BY Facts
<1>2. call[p].kind \in {"label"} \cup Enrolling \cup Storing \cup Suggesting
  BY <1>1 DEF Placed, Telling
<1>3. call[p].at \in Item
  BY <1>1, <1>2 DEF Kinded, Telling, Enrolling, Storing, Suggesting, Listing
<1>4. Holds(call[p]) \/ call[p].kind \in {"process", "anchor", "dismiss"}
  BY <1>2 DEF Holds, LockKinds, Enrolling, Storing, Suggesting, Telling
<1> QED BY <1>1, <1>3, <1>4 DEF Storing

LEMMA QuietInvKept ==
    ASSUME OwnInv, [Next]_vars
    PROVE  QuietInv'
<1> DEFINE Working == {"store", "readItem", "readFace", "readVerified", "enrol"}
<1>1. CallInv /\ GoneTyped /\ WorkInv /\ QuietInv /\ Working \subseteq Telling
  BY DEF OwnInv, Telling
<1>2. CASE Gentle
  BY <1>1, <1>2 DEF Gentle, QuietInv, Busy
<1>3. ASSUME NEW p \in Proc, Onwards(p), NEW q \in Proc,
             call'[q].kind \in Storing, call'[q].op \in Working
      PROVE  row'[call'[q].at].status \notin {"queued", "processing", "pending"}
  <2>1. CASE q # p
    <3>1. call'[q] = call[q]
      BY <1>1, <1>3, <2>1, Mover
    <3>2. call[q].at \in Item /\ Holds(call[q]) /\ lock[call[q].at] = q
      BY <1>1, <1>3, <3>1, TellingAt
    <3>3. ~Busy(call[q].at)
      BY <1>1, <1>3, <3>1 DEF QuietInv
    <3>4. ~(RowWorked(p, call[q].at) /\ call[p].at = call[q].at)
      <4>1. ~Archives(p) \/ call[p].at # call[q].at
        BY <3>2, NoneAssumption DEF Archives, Here
      <4>2. ~Completes(p) \/ call[p].at # call[q].at
        BY <1>1, <3>3, CompletesCall DEF WorkInv, Busy
      <4> QED BY <4>1, <4>2 DEF RowWorked
    <3>5. Same(call[q].at)
      BY <1>1, <1>3, <2>1, <3>2, <3>4, Locked
    <3> QED BY <3>1, <3>3, <3>5 DEF Same, SameStatus, Busy
  <2>2. CASE q = p
    <3>1. Arrival(p, call'[p])
      BY <1>1, <1>3, <2>2, Mover
    <3>2. Stays(p, call'[p])
      BY <1>3, <2>2, <3>1 DEF Arrival
    <3>3. \/ Stores(p) \/ ReadsItem(p) \/ ReadsFace(p) \/ ReadsVerified(p)
          \/ (Begins(p) \/ Prelabels(p) \/ Rebuilds(p)) /\ ~Busy(call[p].at)
      <4>1. call[p].kind \in Storing
        BY <1>3, <2>2, <3>2 DEF Stays
      <4>2. ~Verifies(p) /\ ~Completes(p) /\ ~Reviews(p)
        BY <1>1, <4>1, AtOps, Facts DEF Placed, Storing
      <4>3. call'[p].op \in Working
        BY SMTT(30), <1>3, <2>2
      <4> QED BY <3>1, <4>2, <4>3 DEF Arrival
    <3>4. call[p].at \in Item
      BY <1>1, <3>3, StoresCall, ReadsItemCall, ReadsFaceCall, ReadsVerifiedCall, AskersCall
    <3>5. ~Busy(call[p].at)
      <4>1. CASE Stores(p) \/ ReadsItem(p) \/ ReadsFace(p) \/ ReadsVerified(p)
        BY <1>1, <1>3, <2>2, <3>2, <4>1, AtOps DEF QuietInv, Stays
      <4> QED BY <3>3, <4>1
    <3>6. Same(call[p].at)
      <4>1. CASE Stores(p)
        BY <1>1, <3>4, <4>1, StoreRows
      <4>2. CASE ReadsItem(p) \/ ReadsFace(p) \/ ReadsVerified(p) \/ Begins(p) \/ Prelabels(p) \/ Rebuilds(p)
        <5>1. row' = row
          BY <1>1, <4>2, CallSteps, SampleSteps DEF data
        <5> QED BY <5>1 DEF Same, SameLabel, SameRegion, SameStatus, SameDoubt
      <4> QED BY <3>3, <4>1, <4>2
    <3> QED BY <2>2, <3>2, <3>5, <3>6 DEF Same, SameStatus, Stays, Busy
  <2> QED BY <2>1, <2>2
<1>4. ASSUME NEW i \in Item, Claims(i), NEW q \in Proc,
             call'[q].kind \in Storing, call'[q].op \in Working
      PROVE  row'[call'[q].at].status \notin {"queued", "processing", "pending"}
  <2>1. q # Worker /\ call'[q] = call[q]
    BY <1>1, <1>4, ClaimsCall
  <2>2. ~Busy(call[q].at)
    BY <1>1, <1>4, <2>1 DEF QuietInv
  <2>3. call[q].at \in Item \ {i}
    BY <1>1, <1>4, <2>1, <2>2, TellingAt, ClaimsCall DEF Busy
  <2>4. row'[call[q].at] = row[call[q].at]
    BY <1>1, <1>4, <2>3, ClaimsCall
  <2> QED BY <2>1, <2>2, <2>4 DEF Busy
<1>5. ASSUME NEW s \in Char, NEW t \in Char, Merges(s, t), NEW q \in Proc,
             call'[q].kind \in Storing, call'[q].op \in Working
      PROVE  row'[call'[q].at].status \notin {"queued", "processing", "pending"}
  <2>1. call' = call
    BY <1>1, <1>5, MergesData
  <2>2. call[q].at \in Item
    BY <1>1, <1>5, <2>1, TellingAt
  <2>3. SameStatus(call[q].at)
    BY <1>1, <1>5, <2>2, MergesRow
  <2> QED BY <1>1, <1>5, <2>1, <2>3 DEF QuietInv, SameStatus, Busy
<1>6. ASSUME NEW c \in Char, NEW i \in Item, NEW on \in BOOLEAN, Flags(c, i, on) \/ Revokes(c, i, on),
             NEW q \in Proc, call'[q].kind \in Storing, call'[q].op \in Working
      PROVE  row'[call'[q].at].status \notin {"queued", "processing", "pending"}
  <2>1. call' = call
    BY <1>1, <1>6, FlagsData, RevokesData
  <2>2. call[q].at \in Item
    BY <1>1, <1>6, <2>1, TellingAt
  <2>3. SameStatus(call[q].at)
    BY <1>1, <1>6, <2>2, FlagsRow
  <2> QED BY <1>1, <1>6, <2>1, <2>3 DEF QuietInv, SameStatus, Busy
<1>7. ASSUME NEW c \in Char, Deletes(c), NEW q \in Proc, call'[q].kind \in Storing,
             call'[q].op \in Working
      PROVE  row'[call'[q].at].status \notin {"queued", "processing", "pending"}
  <2>1. call' = call
    BY <1>7 DEF Deletes
  <2>2. call[q].at \in Item
    BY <1>1, <1>7, <2>1, TellingAt
  <2>3. SameStatus(call[q].at)
    BY <1>1, <1>7, <2>2, DeletesRow DEF Same
  <2> QED BY <1>1, <1>7, <2>1, <2>3 DEF QuietInv, SameStatus, Busy
<1> QED BY <1>1, <1>2, <1>3, <1>4, <1>5, <1>6, <1>7, NextCases DEF QuietInv, Busy

LEMMA CharsSame ==
    ASSUME CallInv, NEW p \in Proc, Onwards(p)
    PROVE  chars' = chars
<1>1. CASE ReadsItem(p) \/ Matches(p) \/ Begins(p) \/ Prelabels(p) \/ Offers(p) \/ Looks(p) \/ Lists(p)
  BY <1>1, CallSteps DEF data
<1>2. CASE ReadsFace(p) \/ ReadsVerified(p) \/ Rebuilds(p) \/ Enrol(p)
  BY <1>2, SampleSteps, EnrolData
<1>3. CASE \/ Clears(p) \/ Suggest(p) \/ Labels(p) \/ Verifies(p) \/ Resolves(p) \/ Moots(p)
           \/ Readies(p) \/ Archives(p) \/ Reviews(p)
  BY <1>3, RowSteps
<1>4. CASE Relabels(p) \/ Again(p) \/ Resets(p) \/ Frames(p)
  BY <1>4 DEF Relabels, Again, Resets, Frames
<1>5. CASE Completes(p) \/ Stores(p) \/ Switches(p)
  BY <1>5, CompletesData, StoresData, SwitchesData
<1> QED BY <1>1, <1>2, <1>3, <1>4, <1>5 DEF Onwards

\* A rejection enrols without the lock; every other call in the middle of its
\* work keeps others from the label and the region.
Firm(c) == c.kind \notin {"anchor", "dismiss"}

LEMMA Foreign ==
    ASSUME OwnInv, NEW p \in Proc, NEW q \in Proc, p # q, Onwards(p), call[q].op \in Telling,
           Firm(call[q])
    PROVE  /\ call'[q] = call[q] /\ call[q].at \in Item
           /\ SameLabel(call[q].at) /\ SameRegion(call[q].at)
<1>1. CallInv
  BY DEF OwnInv
<1>2. call'[q] = call[q] /\ call[q].at \in Item
  BY <1>1, Mover, TellingAt
<1>3. CASE call[q].kind = "process"
  BY <1>2, <1>3, Worked
<1>4. CASE Holds(call[q])
  BY <1>1, <1>2, <1>4, Locked DEF Same, RowWorked
<1> QED BY <1>1, <1>2, <1>3, <1>4, TellingAt DEF Firm

\* What was read of the label still holds, or its character was merged away.
Reread == {"readFace", "readVerified", "enrol", "match", "suggest"}
ItemInv == \A p \in Proc : Firm(call[p]) /\ call[p].op \in Reread =>
    /\ call[p].item.class = row[call[p].at].class
    /\ call[p].item.class = "person" <=> call[p].item.char # None
    /\ "merge" \notin budget.ops \/ call[p].item.char \in chars
       => call[p].item.char = row[call[p].at].char

LEMMA ItemInvKept ==
    ASSUME OwnInv, ItemInv, [Next]_vars
    PROVE  ItemInv'
<1> DEFINE Good(q) == /\ call'[q].item.class = row'[call'[q].at].class
                      /\ call'[q].item.class = "person" <=> call'[q].item.char # None
                      /\ "merge" \notin budget'.ops \/ call'[q].item.char \in chars'
                         => call'[q].item.char = row'[call'[q].at].char
<1>1. CallInv /\ GoneTyped /\ RowInv /\ Reread \subseteq Telling
  BY DEF OwnInv, Telling, Reread
<1>2. ASSUME NEW q \in Proc, call'[q] = call[q], Firm(call[q]), call[q].op \in Reread,
             SameLabel(call[q].at), chars' \subseteq chars, budget'.ops = budget.ops
      PROVE  Good(q)
  BY <1>2 DEF ItemInv, SameLabel
<1>3. CASE Gentle
  BY <1>1, <1>3 DEF Gentle, ItemInv, Firm
<1>4. ASSUME NEW p \in Proc, Onwards(p), NEW q \in Proc, Firm(call'[q]), call'[q].op \in Reread
      PROVE  Good(q)
  <2>1. CASE q # p
    <3>1. call'[q] = call[q]
      BY <1>1, <1>4, <2>1, Mover
    <3>2. SameLabel(call[q].at)
      BY <1>1, <1>4, <2>1, <3>1, Foreign
    <3>3. chars' \subseteq chars /\ budget'.ops = budget.ops
      BY <1>1, <1>4, CharsSame, Mover
    <3> QED BY <1>2, <1>4, <3>1, <3>2, <3>3
  <2>2. CASE q = p
    <3>1. Arrival(p, call'[p])
      BY <1>1, <1>4, <2>2, Mover
    <3>2. Stays(p, call'[p]) /\ chars' = chars /\ budget' = budget
      BY <1>1, <1>4, <2>2, <3>1, CharsSame, Mover DEF Arrival
    <3>3. CASE /\ ReadsItem(p) \/ Clears(p)
               /\ call'[p].item = [class |-> row[call[p].at].class, char |-> row[call[p].at].char]
      <4>1. call[p].at \in Item
        BY <1>1, <3>3, ReadsItemCall, ClearsCall
      <4>2. SameLabel(call[p].at)
        BY <1>1, <3>3, <4>1, ReviewRows, CallSteps DEF Same, SameLabel, data
      <4> QED BY <1>1, <2>2, <3>2, <3>3, <4>1, <4>2 DEF RowInv, SameLabel, Stays
    <3>4. CASE /\ ReadsFace(p) \/ ReadsVerified(p) \/ Matches(p)
               /\ call'[p].item = call[p].item
      <4>1. Firm(call[p]) /\ call[p].op \in Reread
        BY <1>4, <2>2, <3>2, <3>4, AtOps DEF Firm, Stays, Reread
      <4>2. row' = row
        BY <1>1, <3>4, SampleSteps, CallSteps DEF data
      <4> QED BY <2>2, <3>2, <3>4, <4>1, <4>2 DEF ItemInv, Stays
    <3> QED BY <1>4, <2>2, <3>1, <3>3, <3>4 DEF Arrival, Reread
  <2> QED BY <2>1, <2>2
<1>5. ASSUME NEW i \in Item, Claims(i), NEW q \in Proc, Firm(call'[q]), call'[q].op \in Reread
      PROVE  Good(q)
  <2>1. q # Worker /\ call'[q] = call[q] /\ chars' = chars /\ budget' = budget
    BY <1>1, <1>5, ClaimsCall
  <2>2. SameLabel(call[q].at)
    BY <1>1, <1>5, <2>1, TellingAt, ClaimsCall
  <2> QED BY <1>2, <1>5, <2>1, <2>2
<1>6. ASSUME NEW s \in Char, NEW t \in Char, Merges(s, t), NEW q \in Proc, Firm(call'[q]),
             call'[q].op \in Reread
      PROVE  Good(q)
  <2>1. call' = call /\ chars' = chars \ {s}
    BY <1>1, <1>6, MergesData
  <2>2. call[q].at \in Item
    BY <1>1, <1>6, <2>1, TellingAt
  <2>3. /\ row'[call[q].at].char = (IF row[call[q].at].char = s THEN t ELSE row[call[q].at].char)
        /\ row'[call[q].at].class = row[call[q].at].class
        /\ "merge" \in budget'.ops
    BY <1>1, <1>6, <2>2, MergesRow
  <2> QED BY <1>6, <2>1, <2>3 DEF ItemInv
<1>7. ASSUME NEW c \in Char, NEW i \in Item, NEW on \in BOOLEAN, Flags(c, i, on) \/ Revokes(c, i, on),
             NEW q \in Proc, Firm(call'[q]), call'[q].op \in Reread
      PROVE  Good(q)
  <2>1. call' = call /\ chars' = chars
    BY <1>1, <1>7, FlagsData, RevokesData
  <2>2. call[q].at \in Item
    BY <1>1, <1>7, <2>1, TellingAt
  <2>3. SameLabel(call[q].at) /\ budget'.ops = budget.ops
    BY <1>1, <1>7, <2>2, FlagsRow
  <2> QED BY <1>2, <1>7, <2>1, <2>3
<1>8. ASSUME NEW c \in Char, Deletes(c), NEW q \in Proc, Firm(call'[q]), call'[q].op \in Reread
      PROVE  Good(q)
  <2>1. call' = call
    BY <1>8 DEF Deletes
  <2>2. call[q].at \in Item
    BY <1>1, <1>8, <2>1, TellingAt
  <2>3. SameLabel(call[q].at) /\ chars' \subseteq chars /\ budget' = budget
    BY <1>1, <1>8, <2>2, DeletesRow DEF Same
  <2> QED BY <1>2, <1>8, <2>1, <2>3
<1> QED BY <1>1, <1>3, <1>4, <1>5, <1>6, <1>7, <1>8, NextCases DEF ItemInv, Firm

\* An answer that waits to be stored, and a face that was read, are of the
\* region that is current.
Regional(c) == \/ c.op = "store"
               \/ Firm(c) /\ c.op \in {"readVerified", "enrol"} /\ c.face # None
ReadInv == \A p \in Proc :
    Regional(call[p]) => call[p].face.region = row[call[p].at].region

LEMMA RegionalFirm ==
    ASSUME CallInv, NEW q \in Proc, Regional(call[q])
    PROVE  Firm(call[q]) /\ call[q].op \in Telling
BY Facts DEF Regional, Firm, Telling, Placed, Storing

\* The region of a row changes only when its face goes.
LEMMA RegionOrNone ==
    ASSUME CallInv, NEW p \in Proc, NEW i \in Item, Onwards(p)
    PROVE  SameRegion(i) \/ face'[i] = None
BY Rows DEF Same, RowChanges, RowLabels, RowVerifies, RowRelabels, RowAgain, RowResets, RowFrames,
            RowWorked

LEMMA RegionCurrentKept ==
    ASSUME OwnInv, ReadInv, RegionCurrent, [Next]_vars
    PROVE  RegionCurrent'
<1>1. CallInv /\ GoneTyped /\ face \in [Item -> Face \cup {None}]
  BY DEF OwnInv, CallInv, TypeOK
<1>2. CASE Gentle
  BY <1>2 DEF Gentle, RegionCurrent
<1>3. ASSUME NEW p \in Proc, Onwards(p), NEW i \in Item, face'[i] # None
      PROVE  face'[i].region = row'[i].region
  <2>1. SameRegion(i)
    BY <1>1, <1>3, RegionOrNone
  <2>2. CASE face'[i] = face[i]
    BY <1>3, <2>1, <2>2 DEF RegionCurrent, SameRegion
  <2>3. CASE Cleared(i)
    <3>1. face[i] \in Face /\ face'[i].region = face[i].region
      BY <1>1, <2>3 DEF Cleared, Face
    <3> QED BY <2>1, <2>3, <3>1 DEF RegionCurrent, SameRegion, Cleared
  <2>4. CASE call[p].at = i /\ FaceChanges(p, i)
    <3>1. CASE Stores(p) /\ face'[i] = call[p].face
      <4>1. Regional(call[p])
        BY <3>1, AtOps DEF Regional
      <4> QED BY <2>1, <2>4, <3>1, <4>1 DEF ReadInv, SameRegion
    <3>2. CASE face'[i].region = row[i].region
      BY <2>1, <3>2 DEF SameRegion
    <3> QED BY <1>3, <2>4, <3>1, <3>2 DEF FaceChanges
  <2> QED BY <1>1, <1>3, <2>2, <2>3, <2>4, Faces
<1>4. ASSUME NEW j \in Item, Claims(j), NEW i \in Item, face'[i] # None
      PROVE  face'[i].region = row'[i].region
  BY <1>1, <1>4, ClaimsCall DEF RegionCurrent, SameRegion
<1>5. ASSUME NEW s \in Char, NEW t \in Char, Merges(s, t), NEW i \in Item, face'[i] # None
      PROVE  face'[i].region = row'[i].region
  BY <1>1, <1>5, MergesRow DEF RegionCurrent, SameRegion
<1>6. ASSUME NEW c \in Char, NEW j \in Item, NEW on \in BOOLEAN, Flags(c, j, on) \/ Revokes(c, j, on),
             NEW i \in Item, face'[i] # None
      PROVE  face'[i].region = row'[i].region
  BY <1>1, <1>6, FlagsRow DEF RegionCurrent, SameRegion
<1>7. ASSUME NEW c \in Char, Deletes(c), NEW i \in Item, face'[i] # None
      PROVE  face'[i].region = row'[i].region
  BY <1>1, <1>7, DeletesRow DEF RegionCurrent, Same, SameRegion
<1> QED BY <1>1, <1>2, <1>3, <1>4, <1>5, <1>6, <1>7, NextCases DEF RegionCurrent

LEMMA ReadInvKept ==
    ASSUME OwnInv, ReadInv, RegionCurrent, [Next]_vars
    PROVE  ReadInv'
<1>1. CallInv /\ GoneTyped
  BY DEF OwnInv
<1>2. ASSUME NEW q \in Proc, call'[q] = call[q], Regional(call[q]), SameRegion(call[q].at)
      PROVE  call'[q].face.region = row'[call'[q].at].region
  BY <1>2 DEF ReadInv, SameRegion
<1>3. CASE Gentle
  <2>1. ASSUME NEW q \in Proc, Regional(call'[q])
        PROVE  call'[q].face.region = row'[call'[q].at].region
    <3>1. call'[q] = call[q]
      BY <1>3, <2>1 DEF Gentle, Regional, Telling
    <3> QED BY <1>3, <2>1, <3>1 DEF Gentle, ReadInv
  <2> QED BY <2>1 DEF ReadInv, Regional, Firm
<1>4. ASSUME NEW p \in Proc, Onwards(p), NEW q \in Proc, Regional(call'[q])
      PROVE  call'[q].face.region = row'[call'[q].at].region
  <2>1. CASE q # p
    <3>1. call'[q] = call[q]
      BY <1>1, <1>4, <2>1, Mover
    <3>2. SameRegion(call[q].at)
      BY <1>1, <1>4, <2>1, <3>1, RegionalFirm, Foreign
    <3> QED BY <1>2, <1>4, <3>1, <3>2
  <2>2. CASE q = p
    <3>1. Arrival(p, call'[p])
      BY <1>1, <1>4, <2>2, Mover DEF Regional, Telling
    <3>2. Stays(p, call'[p])
      BY <1>4, <2>2, <3>1 DEF Arrival
    <3>3. CASE /\ Begins(p) \/ Prelabels(p) \/ Rebuilds(p)
               /\ call'[p].face.region = row[call[p].at].region
      <4>1. row' = row
        BY <1>1, <3>3, CallSteps, SampleSteps DEF data
      <4> QED BY <2>2, <3>2, <3>3, <4>1 DEF Stays
    <3>4. CASE ReadsFace(p) /\ call'[p].face = face[call[p].at] /\ call'[p].op = "readVerified"
      <4>1. row' = row /\ call[p].at \in Item
        BY <1>1, <3>4, SampleSteps
      <4>2. face[call[p].at] # None
        BY <1>4, <2>2, <3>4 DEF Regional
      <4> QED BY <2>2, <3>2, <3>4, <4>1, <4>2 DEF RegionCurrent, Stays
    <3>5. CASE ReadsVerified(p) /\ call'[p].face = call[p].face /\ call'[p].op = "enrol"
      <4>1. row' = row
        BY <1>1, <3>5, SampleSteps
      <4>2. Regional(call[p])
        BY <1>4, <2>2, <3>2, <3>5, AtOps DEF Regional, Firm, Stays
      <4> QED BY <2>2, <3>2, <3>5, <4>1, <4>2 DEF ReadInv, Stays
    <3> QED BY <1>4, <2>2, <3>1, <3>3, <3>4, <3>5 DEF Arrival, Regional
  <2> QED BY <2>1, <2>2
<1>5. ASSUME NEW i \in Item, Claims(i), NEW q \in Proc, Regional(call'[q])
      PROVE  call'[q].face.region = row'[call'[q].at].region
  <2>1. q # Worker /\ call'[q] = call[q]
    BY <1>1, <1>5, ClaimsCall DEF Regional, Telling
  <2>2. SameRegion(call[q].at)
    BY <1>1, <1>5, <2>1, RegionalFirm, TellingAt, ClaimsCall
  <2> QED BY <1>2, <1>5, <2>1, <2>2
<1>6. ASSUME NEW s \in Char, NEW t \in Char, Merges(s, t), NEW q \in Proc, Regional(call'[q])
      PROVE  call'[q].face.region = row'[call'[q].at].region
  <2>1. call' = call
    BY <1>1, <1>6, MergesData
  <2>2. SameRegion(call[q].at)
    BY <1>1, <1>6, <2>1, RegionalFirm, TellingAt, MergesRow
  <2> QED BY <1>2, <1>6, <2>1, <2>2
<1>7. ASSUME NEW c \in Char, NEW i \in Item, NEW on \in BOOLEAN, Flags(c, i, on) \/ Revokes(c, i, on),
             NEW q \in Proc, Regional(call'[q])
      PROVE  call'[q].face.region = row'[call'[q].at].region
  <2>1. call' = call
    BY <1>1, <1>7, FlagsData, RevokesData
  <2>2. SameRegion(call[q].at)
    BY <1>1, <1>7, <2>1, RegionalFirm, TellingAt, FlagsRow
  <2> QED BY <1>2, <1>7, <2>1, <2>2
<1>8. ASSUME NEW c \in Char, Deletes(c), NEW q \in Proc, Regional(call'[q])
      PROVE  call'[q].face.region = row'[call'[q].at].region
  <2>1. call' = call
    BY <1>8 DEF Deletes
  <2>2. call[q].at \in Item
    BY <1>1, <1>8, <2>1, RegionalFirm, TellingAt
  <2>3. SameRegion(call[q].at)
    BY <1>1, <1>8, <2>2, DeletesRow DEF Same
  <2> QED BY <1>2, <1>8, <2>1, <2>3
<1> QED BY <1>1, <1>3, <1>4, <1>5, <1>6, <1>7, <1>8, NextCases DEF ReadInv, Regional, Firm

\* Neither statement takes a sample away.
LEMMA FlagsSample ==
    ASSUME CallInv, NEW c \in Char, NEW i \in Item, NEW on \in BOOLEAN,
           Flags(c, i, on) \/ Revokes(c, i, on), NEW d \in Char, NEW j \in Item
    PROVE  \/ sample'[d][j] = sample[d][j]
           \/ /\ j = i /\ sample[d][j] \in Sample /\ sample'[d][j] \in Sample
              /\ sample'[d][j].region = sample[d][j].region
              /\ \/ Flags(c, i, on) /\ sample'[d][j].flagged = on
                 \/ sample'[d][j].flagged = sample[d][j].flagged
<1>1. CASE Flags(c, i, on)
  <2>1. sample[c][i] \in Sample /\ sample'[c][i] \in Sample
    BY <1>1, FlagsData
  <2>2. sample'[c][i].region = sample[c][i].region
    BY <1>1, FlagsData
  <2>3. sample'[c][i].flagged = on
    BY ZenonT(60), <1>1, FlagsData
  <2>4. \A e \in Char, k \in Item : e # c \/ k # i => sample'[e][k] = sample[e][k]
    BY <1>1, FlagsData, ZenonT(60)
  <2> QED BY <1>1, <2>1, <2>2, <2>3, <2>4
<1>2. CASE Revokes(c, i, on)
  <2>1. /\ sample[c][i] \in Sample /\ sample'[c][i] \in Sample
        /\ sample'[c][i].region = sample[c][i].region
        /\ sample'[c][i].flagged = sample[c][i].flagged
        /\ \A e \in Char, k \in Item : e # c \/ k # i => sample'[e][k] = sample[e][k]
    BY <1>2, RevokesData
  <2> QED BY <2>1
<1> QED BY <1>1, <1>2

\* The label of a capture exists, unless it was merged away: who deletes a
\* character deletes its captures. Of a capture that is gone nothing is left.
LiveInv == "merge" \notin budget.ops =>
    \A i \in Item \ gone : row[i].char \in chars \cup {None}
GoneInv == \A i \in gone : ~Busy(i) /\ \A c \in Char : sample[c][i] = None
BankInv == OwnInv /\ ItemInv /\ ReadInv /\ RegionCurrent /\ LiveInv /\ GoneInv

LEMMA BankInvInit ==
    ASSUME Init
    PROVE  BankInv
<1>1. CallInv /\ GoneTyped /\ chars = Char /\ gone = {}
  BY CallInvInit, GoneTypedInit DEF Init
<1>2. \A p \in Proc : call[p].kind = "none" /\ call[p].op = "end"
  BY DEF Init, Idle
<1>3. PICK m \in Models, was \in [Item -> budget.start \cup {"new"}], c \in [Item -> Char] :
          /\ \A i \in Item : was[i] \in IF i \in budget.items THEN budget.start ELSE {"new"}
          /\ model = m
          /\ row = [i \in Item |-> IF was[i] = "new" THEN NewRow
                       ELSE [NewRow EXCEPT !.status = "completed", !.class = "person",
                                           !.char = c[i]]]
          /\ face = [i \in Item |-> IF was[i] = "new" THEN None
                       ELSE [region |-> "auto", model |-> m, vector |-> "feature", good |-> TRUE]]
          /\ sample = [d \in Char |-> [i \in Item |->
                         IF was[i] = "new" \/ c[i] # d THEN None
                         ELSE [region |-> "auto", model |-> m, active |-> TRUE, flagged |-> FALSE]]]
  BY ZenonT(30) DEF Init
<1>4. ASSUME NEW i \in Item
      PROVE  /\ row[i].class = "person" <=> row[i].char # None
             /\ row[i].region = "auto" /\ (face[i] # None => face[i].region = "auto")
  <2>1. CASE was[i] = "new"
    <3>1. row[i] = NewRow /\ face[i] = None
      BY <1>3, <2>1
    <3> QED BY <3>1 DEF NewRow
  <2>2. CASE was[i] # "new"
    <3>1. /\ row[i] = [NewRow EXCEPT !.status = "completed", !.class = "person", !.char = c[i]]
          /\ face[i] = [region |-> "auto", model |-> m, vector |-> "feature", good |-> TRUE]
      BY <1>3, <2>2
    <3>2. c[i] \in Char
      OBVIOUS
    <3> QED BY <3>1, <3>2, NoneAssumption DEF NewRow
  <2> QED BY <2>1, <2>2
<1>5. RowInv /\ RegionCurrent
  BY <1>4 DEF RowInv, RegionCurrent
<1>6. WorkInv /\ QuietInv /\ ItemInv /\ ReadInv
  BY <1>2 DEF WorkInv, QuietInv, ItemInv, ReadInv, Reread, Regional, Storing
<1>7. LiveInv /\ GoneInv
  <2>1. ASSUME NEW i \in Item
        PROVE  row[i].char \in chars \cup {None}
    <3>1. row[i] \in Row
      BY <1>1 DEF CallInv, TypeOK
    <3> QED BY <1>1, <3>1 DEF Row
  <2> QED BY <1>1, <2>1 DEF LiveInv, GoneInv
<1> QED BY <1>1, <1>5, <1>6, <1>7 DEF BankInv, OwnInv

\* A step works on a capture that is there.
LEMMA Present ==
    ASSUME NEW p, Onwards(p), ~Vanished(p)
    PROVE  call[p].at \notin gone
BY AtOps DEF Onwards, Vanished, Here, Listing, Switching

LEMMA LiveInvKept ==
    ASSUME CallInv, GoneTyped, LiveInv, [Next]_vars
    PROVE  LiveInv'
<1>1. ASSUME NEW i \in Item, "merge" \notin budget.ops, i \notin gone, SameLabel(i), chars' = chars
      PROVE  row'[i].char \in chars' \cup {None}
  BY <1>1 DEF LiveInv, SameLabel
<1>2. CASE Gentle
  BY <1>2 DEF Gentle, LiveInv
<1>3. ASSUME NEW p \in Proc, Onwards(p), "merge" \notin budget'.ops, NEW i \in Item, i \notin gone
      PROVE  row'[i].char \in chars' \cup {None}
  <2>1. chars' = chars /\ budget' = budget
    BY <1>3, CharsSame, Mover
  <2>2. CASE SameLabel(i)
    BY <1>1, <1>3, <2>1, <2>2
  <2>3. CASE RowLabels(p, i) \/ RowRelabels(p, i) \/ RowResets(p, i)
    BY <2>1, <2>3 DEF RowLabels, RowRelabels, RowResets, Relabelled
  <2> QED BY <1>3, <2>2, <2>3, Rows DEF Same, RowChanges, RowVerifies, RowAgain, RowFrames, RowWorked
<1>4. ASSUME NEW j \in Item, Claims(j), "merge" \notin budget'.ops, NEW i \in Item, i \notin gone
      PROVE  row'[i].char \in chars' \cup {None}
  BY <1>1, <1>4, ClaimsCall
<1>5. ASSUME NEW s \in Char, NEW t \in Char, Merges(s, t)
      PROVE  "merge" \in budget'.ops
  <2>1. Spent
    BY <1>5, UsesBudget DEF Merges
  <2> QED BY <1>5, <2>1 DEF Merges, Uses, Spent
<1>6. ASSUME NEW c \in Char, NEW j \in Item, NEW on \in BOOLEAN, Flags(c, j, on) \/ Revokes(c, j, on),
             "merge" \notin budget'.ops, NEW i \in Item, i \notin gone
      PROVE  row'[i].char \in chars' \cup {None}
  BY <1>1, <1>6, FlagsRow
<1>7. ASSUME NEW c \in Char, Deletes(c), "merge" \notin budget'.ops, NEW i \in Item, i \notin gone'
      PROVE  row'[i].char \in chars' \cup {None}
  <2>1. SameLabel(i) /\ budget' = budget
    BY <1>7, DeletesRow DEF Same
  <2>2. CASE UNCHANGED <<row, face, sample, chars, gone>>
    BY <1>1, <1>7, <2>1, <2>2
  <2>3. CASE chars' = chars \ {c} /\ gone' = gone \cup OfCharacter(c)
    <3>1. row[i].char \in chars \cup {None} /\ row[i].char # c
      BY <1>7, <2>1, <2>3 DEF LiveInv, OfCharacter
    <3> QED BY <2>1, <2>3, <3>1 DEF SameLabel
  <2> QED BY <1>7, <2>2, <2>3, DeletesGone
<1> QED BY <1>2, <1>3, <1>4, <1>5, <1>6, <1>7, NextCases DEF LiveInv

LEMMA GoneInvKept ==
    ASSUME CallInv, GoneTyped, GoneInv, [Next]_vars
    PROVE  GoneInv'
<1> DEFINE Bare(i) == row'[i].status \notin {"queued", "processing", "pending"}
                      /\ \A c \in Char : sample'[c][i] = None
<1>1. gone \subseteq Item
  BY DEF GoneTyped
<1>2. ASSUME NEW i \in gone, SameStatus(i), Kept(i)
      PROVE  Bare(i)
  BY <1>2 DEF GoneInv, Kept, SameStatus, Busy
<1>3. CASE Gentle
  BY <1>3 DEF Gentle, GoneInv, Busy
<1>4. ASSUME NEW p \in Proc, Onwards(p), ~Vanished(p), NEW i \in gone
      PROVE  Bare(i)
  <2>1. call[p].at # i /\ i \in Item
    BY <1>1, <1>4, Present
  <2> QED BY <1>2, <1>4, <2>1, Rows, Samples DEF Same
<1>5. ASSUME NEW j \in Item, Claims(j), j \notin gone, NEW i \in gone
      PROVE  Bare(i)
  <2>1. i \in Item \ {j}
    BY <1>1, <1>5
  <2>2. sample' = sample /\ row'[i] = row[i]
    BY <1>5, <2>1, ClaimsCall
  <2> QED BY <1>2, <2>2 DEF SameStatus, Kept
<1>6. ASSUME NEW s \in Char, NEW t \in Char, Merges(s, t), NEW i \in gone
      PROVE  Bare(i)
  <2>1. i \in Item /\ \A c \in Char : sample[c][i] = None
    BY <1>1 DEF GoneInv
  <2>2. SameStatus(i)
    BY <1>6, <2>1, MergesRow
  <2>3. /\ s # t /\ sample'[s][i] = None
        /\ sample'[t][i] = IF sample[t][i] = None THEN sample[s][i] ELSE sample[t][i]
        /\ \A d \in Char \ {s, t} : sample'[d][i] = sample[d][i]
    BY <1>6, <2>1, MergesData
  <2>4. \A c \in Char : sample'[c][i] = None
    BY <2>1, <2>3
  <2> QED BY <2>2, <2>4 DEF SameStatus, GoneInv, Busy
<1>7. ASSUME NEW c \in Char, NEW j \in Item, NEW on \in BOOLEAN, Flags(c, j, on) \/ Revokes(c, j, on),
             NEW i \in gone
      PROVE  Bare(i)
  <2>1. i \in Item /\ \A d \in Char : sample[d][i] = None
    BY <1>1 DEF GoneInv
  <2>2. SameStatus(i)
    BY <1>7, <2>1, FlagsRow
  <2>3. \A d \in Char : sample'[d][i] = None
    BY <1>7, <2>1, FlagsSample, NoneAssumption
  <2> QED BY <2>2, <2>3 DEF SameStatus, GoneInv, Busy
<1>8. ASSUME NEW c \in Char, Deletes(c), NEW i \in gone'
      PROVE  Bare(i)
  <2>1. i \in Item /\ i \in gone \cup OfCharacter(c)
    BY <1>1, <1>8, DeletesGone DEF OfCharacter
  <2>2. SameStatus(i) /\ \A d \in Char : sample'[d][i] # None => sample'[d][i] = sample[d][i]
    BY <1>8, <2>1, DeletesRow DEF Same
  <2>3. CASE i \in gone
    BY <2>2, <2>3 DEF SameStatus, GoneInv, Busy
  <2>4. CASE i \in OfCharacter(c) /\ i \notin gone
    <3>1. ~Busy(i) /\ \A d \in Char : sample'[d][i] = None
      BY <1>8, <2>1, <2>4, DeletesGone
    <3> QED BY <2>2, <3>1 DEF SameStatus, Busy
  <2> QED BY <2>1, <2>3, <2>4
<1> QED BY <1>1, <1>3, <1>4, <1>5, <1>6, <1>7, <1>8, NextCases DEF GoneInv, Busy

LEMMA BankInvKept ==
    ASSUME BankInv, [Next]_vars
    PROVE  BankInv'
<1>1. OwnInv /\ ItemInv /\ ReadInv /\ RegionCurrent /\ LiveInv /\ GoneInv /\ CallInv /\ GoneTyped
  BY DEF BankInv, OwnInv
<1>2. CallInv' /\ GoneTyped' /\ LiveInv' /\ GoneInv'
  BY <1>1, CallInvKept, GoneTypedKept, LiveInvKept, GoneInvKept
<1>3. RowInv' /\ WorkInv' /\ QuietInv'
  BY <1>1, RowInvKept, WorkInvKept, QuietInvKept
<1>4. ItemInv' /\ ReadInv' /\ RegionCurrent'
  BY <1>1, ItemInvKept, ReadInvKept, RegionCurrentKept
<1> QED BY <1>2, <1>3, <1>4 DEF BankInv, OwnInv

LEMMA BankInvHolds == Spec => []BankInv
<1>1. Init => BankInv
  BY BankInvInit
<1>2. BankInv /\ [Next]_vars => BankInv'
  BY BankInvKept
<1> QED BY <1>1, <1>2, PTL DEF Spec

\* A face is always of the region the user drew last (refresh_capture_face_feature
\* and capture_roi_service, under the item lock), whatever runs beside the call
\* that stores it.
THEOREM FacesOfTheirRegion == Spec => []RegionCurrent
<1>1. BankInv => RegionCurrent
  BY DEF BankInv
<1> QED BY <1>1, BankInvHolds, PTL

\* What is about to be enrolled is the label, and its character exists.
LEMMA Alive ==
    ASSUME BankInv, "merge" \notin budget.ops, NEW p \in Proc, call[p].op = "enrol", Firm(call[p]),
           call[p].at \notin gone
    PROVE  /\ call[p].at \in Item /\ call[p].item.char = row[call[p].at].char
           /\ call[p].item.char \in chars
<1>1. CallInv /\ ItemInv /\ LiveInv
  BY DEF BankInv, OwnInv
<1>2. call[p].at \in Item /\ call[p].item.char # None
  BY <1>1, Facts, TellingAt DEF Loaded, Telling
<1>3. call[p].item.char = row[call[p].at].char
  BY <1>1 DEF ItemInv, Reread
<1> QED BY <1>1, <1>2, <1>3 DEF LiveInv

\* A deletion spares the captures that are being processed, and their samples.
LEMMA DeletesBusy ==
    ASSUME GoneInv, NEW c \in Char, Deletes(c), NEW j \in Item, Busy(j)
    PROVE  /\ face'[j] = face[j]
           /\ \A d \in Char : d = row[j].char => sample'[d][j] = sample[d][j]
<1>1. j \notin gone
  BY DEF GoneInv
<1>2. CASE UNCHANGED <<row, face, sample, chars, gone>>
  BY <1>2
<1>3. CASE /\ \A k \in OfCharacter(c) : ~Busy(k)
           /\ \A d \in Char, k \in Item :
                 sample'[d][k] = IF d = c \/ k \in OfCharacter(c) THEN None ELSE sample[d][k]
           /\ \A k \in Item : face'[k] = IF k \in OfCharacter(c) THEN None ELSE face[k]
  <2>1. j \notin OfCharacter(c)
    BY <1>3
  <2>2. row[j].char # c
    BY <1>1, <2>1 DEF OfCharacter
  <2> QED BY <1>3, <2>1, <2>2
<1> QED BY <1>2, <1>3, DeletesGone

-----------------------------------------------------------------------------
(* Samples *)

\* A label is at work on i: its verdict is open, its sample is being written.
Writing == {"readItem", "readFace", "readVerified", "enrol"}
Deciding == {"verify"} \cup Writing
Labelling(p, i, ops) == call[p].kind = "label" /\ call[p].at = i /\ call[p].op \in ops

LEMMA BecameNow ==
    ASSUME CallInv, NEW p \in Proc, NEW d, Became(p, d), Onwards(p)
    PROVE  call'[p] = d
<1>1. UNCHANGED <<lock, budget>>
  BY StepsData
<1> QED BY <1>1, ShapesKept

\* The next step of a label
LEMMA LabelGoes ==
    ASSUME CallInv, NEW p \in Proc, Onwards(p), call[p].kind = "label", call[p].op \in Deciding
    PROVE  /\ call[p].at \in Item
           /\ \/ /\ call'[p].kind = "label" /\ call'[p].at = call[p].at
                 /\ \/ Verifies(p) /\ call'[p].op = "readItem"
                    \/ ReadsItem(p) /\ call'[p].op = "readFace"
                    \/ ReadsFace(p) /\ call'[p].op = "readVerified" /\ sample' = sample
                    \/ ReadsVerified(p) /\ call'[p].op = "enrol" /\ sample' = sample
                    \/ /\ ReadsFace(p) \/ ReadsVerified(p)
                       /\ call'[p].op = "resolve" /\ NoSamples(call[p].at)
                    \/ Enrol(p) /\ call'[p].op = "resolve"
              \/ Enrol(p) /\ call[p].item.char \notin chars
<1>1. CASE call[p].op = "verify"
  <2>1. Verifies(p)
    BY <1>1, AtOps DEF Onwards, Listing, Switching
  <2>2. call[p].at \in Item /\ \E d : Became(p, d) /\ Onward(call[p], d) /\ d.op = "readItem"
    BY <2>1, VerifiesCall
  <2>3. PICK d : Became(p, d) /\ Onward(call[p], d) /\ d.op = "readItem"
    BY <2>2
  <2>4. call'[p] = d /\ Stays(p, d)
    BY <2>3, BecameNow, OnwardStays DEF Telling
  <2> QED BY <1>1, <2>1, <2>2, <2>3, <2>4 DEF Stays
<1>2. CASE call[p].op = "readItem"
  <2>1. ReadsItem(p)
    BY <1>2, AtOps DEF Onwards, Listing, Switching
  <2>2. call[p].at \in Item /\ \E d : /\ Became(p, d) /\ Onward(call[p], d)
                                      /\ d = [call[p] EXCEPT
                                               !.item = [class |-> row[call[p].at].class,
                                                         char |-> row[call[p].at].char],
                                               !.op = "readFace"]
    BY <2>1, ReadsItemCall
  <2>3. PICK d : /\ Became(p, d) /\ Onward(call[p], d)
                 /\ d = [call[p] EXCEPT !.item = [class |-> row[call[p].at].class,
                                                  char |-> row[call[p].at].char],
                                        !.op = "readFace"]
    BY <2>2
  <2>4. d.op = "readFace"
    BY <2>3, Facts DEF Call
  <2>5. call'[p] = d /\ Stays(p, d)
    BY <2>3, <2>4, BecameNow, OnwardStays DEF Telling
  <2> QED BY <2>1, <2>2, <2>4, <2>5 DEF Stays
<1>3. CASE call[p].op = "readFace"
  <2>1. ReadsFace(p)
    BY <1>3, AtOps DEF Onwards, Listing, Switching
  <2>2. call[p].at \in Item
    BY <2>1, ReadsFaceCall
  <2>3. CASE \E d : /\ Became(p, d) /\ Onward(call[p], d)
                    /\ d = [call[p] EXCEPT !.face = face[call[p].at], !.op = "readVerified"]
                    /\ sample' = sample
    <3>1. PICK d : /\ Became(p, d) /\ Onward(call[p], d)
                   /\ d = [call[p] EXCEPT !.face = face[call[p].at], !.op = "readVerified"]
                   /\ sample' = sample
      BY <2>3
    <3>2. d.op = "readVerified"
      BY <3>1, Facts DEF Call
    <3>3. call'[p] = d /\ Stays(p, d)
      BY <3>1, <3>2, BecameNow, OnwardStays DEF Telling
    <3> QED BY <2>1, <2>2, <3>1, <3>2, <3>3 DEF Stays
  <2>4. CASE \E d : Became(p, d) /\ Onward(call[p], d) /\ d.op = "resolve" /\ NoSamples(call[p].at)
    <3>1. PICK d : Became(p, d) /\ Onward(call[p], d) /\ d.op = "resolve" /\ NoSamples(call[p].at)
      BY <2>4
    <3>2. call'[p] = d /\ Stays(p, d)
      BY <3>1, BecameNow, OnwardStays DEF Telling
    <3> QED BY <2>1, <2>2, <3>1, <3>2 DEF Stays
  <2> QED BY <2>1, <2>3, <2>4, ReadsFaceCall
<1>4. CASE call[p].op = "readVerified"
  <2>1. ReadsVerified(p)
    BY <1>4, AtOps DEF Onwards, Listing, Switching
  <2>2. call[p].at \in Item
    BY <2>1, ReadsVerifiedCall
  <2>3. CASE \E d : /\ Became(p, d) /\ Onward(call[p], d)
                    /\ d = [call[p] EXCEPT !.flagged = row[call[p].at].flagged, !.op = "enrol"]
                    /\ sample' = sample
    <3>1. PICK d : /\ Became(p, d) /\ Onward(call[p], d)
                   /\ d = [call[p] EXCEPT !.flagged = row[call[p].at].flagged, !.op = "enrol"]
                   /\ sample' = sample
      BY <2>3
    <3>2. d.op = "enrol"
      BY <3>1, Facts DEF Call
    <3>3. call'[p] = d /\ Stays(p, d)
      BY <3>1, <3>2, BecameNow, OnwardStays DEF Telling
    <3> QED BY <2>1, <2>2, <3>1, <3>2, <3>3 DEF Stays
  <2>4. CASE \E d : Became(p, d) /\ Onward(call[p], d) /\ d.op = "resolve" /\ NoSamples(call[p].at)
    <3>1. PICK d : Became(p, d) /\ Onward(call[p], d) /\ d.op = "resolve" /\ NoSamples(call[p].at)
      BY <2>4
    <3>2. call'[p] = d /\ Stays(p, d)
      BY <3>1, BecameNow, OnwardStays DEF Telling
    <3> QED BY <2>1, <2>2, <3>1, <3>2 DEF Stays
  <2> QED BY <2>1, <2>3, <2>4, ReadsVerifiedCall
<1>5. CASE call[p].op = "enrol"
  <2>1. Enrol(p)
    BY <1>5, AtOps DEF Onwards, Listing, Switching
  <2>2. call[p].at \in Item /\ \E d : /\ Became(p, d) /\ Onward(call[p], d)
                                      /\ call[p].item.char \in chars => d.op = "resolve"
    BY <2>1, EnrolCall
  <2>3. PICK d : Became(p, d) /\ Onward(call[p], d) /\ (call[p].item.char \in chars => d.op = "resolve")
    BY <2>2
  <2>4. call'[p] = d /\ (call[p].item.char \in chars => Stays(p, d))
    BY <2>3, BecameNow, OnwardStays DEF Telling
  <2> QED BY <2>1, <2>2, <2>3, <2>4 DEF Stays
<1> QED BY <1>1, <1>2, <1>3, <1>4, <1>5 DEF Deciding, Writing

LEMMA LabelBegins ==
    ASSUME CallInv, NEW p \in Proc, Labels(p), Next1(p), call[p].kind = "label"
    PROVE  call'[p].kind = "label" /\ call'[p].at = call[p].at /\ call'[p].arg = call[p].arg
           /\ call'[p].op = "verify"
<1>1. PICK d : Became(p, d) /\ Onward(call[p], d) /\ d.op = "verify"
  BY LabelsCall
<1>2. call'[p] = d /\ Stays(p, d)
  BY <1>1, BecameNow, OnwardStays DEF Telling, Onwards
<1> QED BY <1>1, <1>2 DEF Stays

\* Every sample is of its capture's region and of its label, unless a label of
\* the capture is about to write it.
Owns(i, c) == row[i].class = "person" /\ row[i].char = c
SampleInv == Follows =>
    \A i \in Item, c \in Char : sample[c][i] # None =>
        /\ sample[c][i].region = row[i].region
        /\ Owns(i, c) \/ \E p \in Proc : Labelling(p, i, Deciding)

\* What Follows leaves out
LEMMA FollowsKinds ==
    ASSUME CallInv, Follows, NEW p \in Proc
    PROVE  /\ Firm(call[p]) /\ call[p].kind # "scene"
           /\ call[p].kind = "label" => "merge" \notin budget.ops
BY Facts DEF Follows, Kinded, Firm

LEMMA NoneGone ==
    ASSUME CallInv, NEW i \in Item, NoSamples(i), NEW c \in Char
    PROVE  sample'[c][i] = None
BY SamplesGone DEF CallInv, TypeOK

LEMMA SampleStep ==
    ASSUME BankInv, SampleInv, Follows, NEW p \in Proc, Onwards(p), ~Vanished(p), NEW i \in Item,
           NEW c \in Char, sample'[c][i] # None
    PROVE  /\ sample'[c][i].region = row'[i].region
           /\ Owns(i, c)' \/ \E q \in Proc : Labelling(q, i, Deciding)'
<1>1. CallInv /\ OwnInv /\ ItemInv /\ ReadInv
  BY DEF BankInv, OwnInv
<1>2. ~NoSamples(i)
  BY <1>1, NoneGone
<1>3. CASE Enrol(p) /\ call[p].at = i /\ call[p].item.char \in chars
  <2>1. /\ sample'[call[p].item.char][i] = Enrolled(p, sample[call[p].item.char][i])
        /\ \A d \in Char \ {call[p].item.char} : sample'[d][i] = None
    BY <1>1, <1>3, SampleSet
  <2>2. c = call[p].item.char /\ sample'[c][i].region = call[p].face.region
    BY <2>1 DEF Enrolled
  <2>3. row' = row
    BY <1>1, <1>3, EnrolData
  <2>4. Firm(call[p]) /\ call[p].op = "enrol" /\ Loaded(call[p])
    BY <1>1, <1>3, FollowsKinds, AtOps, Facts
  <2>5. call[p].face.region = row[i].region
    BY <1>1, <1>3, <2>4, NoneAssumption DEF ReadInv, Regional, Loaded
  <2>6. Owns(i, c)
    BY <1>1, <1>3, <2>2, <2>4 DEF ItemInv, Owns, Reread, Loaded
  <2> QED BY <2>2, <2>3, <2>5, <2>6 DEF Owns
<1>4. CASE ~(Enrol(p) /\ call[p].at = i /\ call[p].item.char \in chars)
  <2>1. sample'[c][i] = sample[c][i]
    BY <1>1, <1>2, <1>4, Samples DEF Kept
  <2>2. /\ sample[c][i].region = row[i].region
        /\ Owns(i, c) \/ \E q \in Proc : Labelling(q, i, Deciding)
    BY <2>1 DEF SampleInv
  <2>3. Same(i) \/ (call[p].at = i /\ RowChanges(p, i))
    BY <1>1, Rows
  <2>4. SameRegion(i)
    <3>1. ~RowFrames(p, i) /\ ~RowResets(p, i)
      BY <1>2 DEF RowFrames, RowResets
    <3> QED BY <2>3, <3>1
         DEF Same, RowChanges, RowLabels, RowVerifies, RowRelabels, RowAgain, RowWorked
  <2>5. CASE Owns(i, c)
    <3>1. CASE SameLabel(i)
      BY <2>1, <2>2, <2>4, <2>5, <3>1 DEF Owns, SameLabel, SameRegion
    <3>2. CASE call[p].at = i /\ RowLabels(p, i)
      <4>1. call[p].kind = "label"
        BY <1>1, <3>2, LabelsCall, FollowsKinds DEF RowLabels
      <4>2. Labelling(p, i, Deciding)'
        BY <1>1, <3>2, <4>1, LabelBegins DEF RowLabels, Labelling, Deciding
      <4> QED BY <2>1, <2>2, <2>4, <4>2 DEF SameRegion
    <3>3. ~RowRelabels(p, i) /\ ~RowResets(p, i)
      BY <1>2 DEF RowRelabels, RowResets
    <3> QED BY <2>3, <3>1, <3>2, <3>3
         DEF Same, RowChanges, RowVerifies, RowAgain, RowFrames, RowWorked
  <2>6. CASE \E q \in Proc : Labelling(q, i, Deciding)
    <3>1. PICK q \in Proc : Labelling(q, i, Deciding)
      BY <2>6
    <3>2. Labelling(q, i, Deciding)'
      <4>1. CASE q # p
        BY <1>1, <3>1, <4>1, Mover DEF Labelling
      <4>2. CASE q = p
        <5>1. call[p].item.char \in chars \/ ~Enrol(p)
          <6>1. "merge" \notin budget.ops
            BY <1>1, <3>1, <4>2, FollowsKinds DEF Labelling
          <6>2. call[p].at \notin gone
            BY Present
          <6> QED BY <1>1, <6>1, <6>2, FollowsKinds, AtOps, Alive
        <5>2. ~Enrol(p)
          BY <1>4, <3>1, <4>2, <5>1 DEF Labelling
        <5> QED BY <1>1, <1>2, <3>1, <4>2, <5>2, LabelGoes DEF Labelling, Deciding, Writing
      <4> QED BY <4>1, <4>2
    <3> QED BY <2>1, <2>2, <2>4, <3>2 DEF SameRegion
  <2> QED BY <2>2, <2>5, <2>6
<1> QED BY <1>3, <1>4

LEMMA SampleMerges ==
    ASSUME BankInv, SampleInv, Follows, NEW s \in Char, NEW t \in Char, Merges(s, t),
           NEW i \in Item, NEW c \in Char, sample'[c][i] # None
    PROVE  sample'[c][i].region = row'[i].region /\ Owns(i, c)'
<1>1. CallInv
  BY DEF BankInv, OwnInv
<1>2. /\ row'[i].char = (IF row[i].char = s THEN t ELSE row[i].char)
      /\ row'[i].class = row[i].class /\ SameRegion(i) /\ "merge" \in budget.ops
  BY <1>1, MergesRow
<1>3. \A q \in Proc : ~Labelling(q, i, Deciding)
  BY <1>1, <1>2, FollowsKinds DEF Labelling
<1>4. ASSUME NEW d \in Char, sample[d][i] # None
      PROVE  sample[d][i].region = row[i].region /\ Owns(i, d)
  BY <1>3, <1>4 DEF SampleInv
<1>5. /\ s # t /\ sample'[s][i] = None
      /\ sample'[t][i] = IF sample[t][i] = None THEN sample[s][i] ELSE sample[t][i]
      /\ \A d \in Char \ {s, t} : sample'[d][i] = sample[d][i]
  BY <1>1, MergesData
<1>6. CASE c = t /\ sample[t][i] = None
  BY <1>2, <1>4, <1>5, <1>6 DEF Owns, SameRegion
<1>7. CASE c = t /\ sample[t][i] # None
  BY <1>2, <1>4, <1>5, <1>7 DEF Owns, SameRegion
<1>8. CASE c \notin {s, t}
  BY <1>2, <1>4, <1>5, <1>8 DEF Owns, SameRegion
<1> QED BY <1>5, <1>6, <1>7, <1>8

LEMMA SampleInvKept ==
    ASSUME BankInv, SampleInv, [Next]_vars
    PROVE  SampleInv'
<1>1. CallInv /\ GoneTyped /\ GoneInv /\ (Follows' => Follows)
  <2>1. budget'.ops = budget.ops
    <3>1. ASSUME NEW p \in Proc, Onwards(p)
          PROVE  budget'.ops = budget.ops
      BY <3>1, Mover DEF BankInv, OwnInv
    <3>2. ASSUME NEW s \in Char, NEW t \in Char, Merges(s, t)
          PROVE  budget'.ops = budget.ops
      BY <3>2, UsesBudget DEF Merges, Spent, BankInv, OwnInv
    <3>3. ASSUME NEW c \in Char, Deletes(c)
          PROVE  budget'.ops = budget.ops
      BY <3>3 DEF Deletes
    <3> QED BY <3>1, <3>2, <3>3, NextCases, ClaimsCall, FlagsRow DEF Gentle, BankInv, OwnInv
  <2> QED BY <2>1 DEF Follows, BankInv, OwnInv
<1>2. SUFFICES ASSUME Follows, NEW i \in Item, NEW c \in Char, sample'[c][i] # None
               PROVE  /\ sample'[c][i].region = row'[i].region
                      /\ Owns(i, c)' \/ \E q \in Proc : Labelling(q, i, Deciding)'
  BY <1>1 DEF SampleInv
<1>3. ASSUME sample[c][i] # None, sample'[c][i].region = sample[c][i].region, SameRegion(i),
             SameLabel(i), \A q \in Proc : Labelling(q, i, Deciding) => Labelling(q, i, Deciding)'
      PROVE  /\ sample'[c][i].region = row'[i].region
             /\ Owns(i, c)' \/ \E q \in Proc : Labelling(q, i, Deciding)'
  BY <1>2, <1>3 DEF SampleInv, Owns, SameRegion, SameLabel
<1>4. CASE Gentle
  <2>1. i \notin gone
    BY <1>1, <1>2, <1>4 DEF Gentle, GoneInv
  <2>2. \A q \in Proc : Labelling(q, i, Deciding) => Labelling(q, i, Deciding)'
    BY <1>4, <2>1 DEF Gentle, Labelling, Deciding, Writing, Telling
  <2> QED BY <1>2, <1>3, <1>4, <2>2 DEF Gentle, SameRegion, SameLabel
<1>5. ASSUME NEW p \in Proc, Onwards(p), ~Vanished(p)
      PROVE  /\ sample'[c][i].region = row'[i].region
             /\ Owns(i, c)' \/ \E q \in Proc : Labelling(q, i, Deciding)'
  BY <1>2, <1>5, SampleStep
<1>6. ASSUME NEW j \in Item, Claims(j)
      PROVE  /\ sample'[c][i].region = row'[i].region
             /\ Owns(i, c)' \/ \E q \in Proc : Labelling(q, i, Deciding)'
  <2>1. sample' = sample /\ SameRegion(i) /\ SameLabel(i)
        /\ call[Worker].op = "end" /\ \A q \in Proc \ {Worker} : call'[q] = call[q]
    BY <1>1, <1>6, ClaimsCall
  <2>2. \A q \in Proc : Labelling(q, i, Deciding) => Labelling(q, i, Deciding)'
    BY <2>1 DEF Labelling, Deciding, Writing
  <2> QED BY <1>2, <1>3, <2>1, <2>2
<1>7. ASSUME NEW s \in Char, NEW t \in Char, Merges(s, t)
      PROVE  /\ sample'[c][i].region = row'[i].region
             /\ Owns(i, c)' \/ \E q \in Proc : Labelling(q, i, Deciding)'
  BY <1>2, <1>7, SampleMerges
<1>8. ASSUME NEW d \in Char, NEW j \in Item, NEW on \in BOOLEAN, Flags(d, j, on) \/ Revokes(d, j, on)
      PROVE  /\ sample'[c][i].region = row'[i].region
             /\ Owns(i, c)' \/ \E q \in Proc : Labelling(q, i, Deciding)'
  <2>1. SameLabel(i) /\ SameRegion(i) /\ call' = call
    BY <1>1, <1>8, FlagsRow
  <2>2. sample[c][i] # None /\ sample'[c][i].region = sample[c][i].region
    BY <1>1, <1>2, <1>8, FlagsSample, NoneAssumption
  <2>3. \A q \in Proc : Labelling(q, i, Deciding) => Labelling(q, i, Deciding)'
    BY <2>1 DEF Labelling
  <2> QED BY <1>3, <2>1, <2>2, <2>3
<1>9. ASSUME NEW d \in Char, Deletes(d)
      PROVE  /\ sample'[c][i].region = row'[i].region
             /\ Owns(i, c)' \/ \E q \in Proc : Labelling(q, i, Deciding)'
  <2>1. SameLabel(i) /\ SameRegion(i) /\ call' = call /\ sample'[c][i] = sample[c][i]
    BY <1>1, <1>2, <1>9, DeletesRow DEF Same
  <2>2. \A q \in Proc : Labelling(q, i, Deciding) => Labelling(q, i, Deciding)'
    BY <2>1 DEF Labelling
  <2> QED BY <1>2, <1>3, <2>1, <2>2
<1> QED BY <1>1, <1>4, <1>5, <1>6, <1>7, <1>8, <1>9, NextCases

LEMMA InitRows ==
    ASSUME Init, NEW i \in Item
    PROVE  /\ ~row[i].flagged /\ row[i].review = "none" /\ row[i].region = "auto"
           /\ \A c \in Char : sample[c][i] # None =>
                 Owns(i, c) /\ sample[c][i].region = "auto" /\ ~sample[c][i].flagged
<1>1. PICK m \in Models, was \in [Item -> budget.start \cup {"new"}], c \in [Item -> Char] :
          /\ \A k \in Item : was[k] \in IF k \in budget.items THEN budget.start ELSE {"new"}
          /\ model = m
          /\ row = [k \in Item |-> IF was[k] = "new" THEN NewRow
                       ELSE [NewRow EXCEPT !.status = "completed", !.class = "person",
                                           !.char = c[k]]]
          /\ face = [k \in Item |-> IF was[k] = "new" THEN None
                       ELSE [region |-> "auto", model |-> m, vector |-> "feature", good |-> TRUE]]
          /\ sample = [d \in Char |-> [k \in Item |->
                         IF was[k] = "new" \/ c[k] # d THEN None
                         ELSE [region |-> "auto", model |-> m, active |-> TRUE, flagged |-> FALSE]]]
  BY ZenonT(30) DEF Init
<1>2. \A d \in Char : sample[d][i] = IF was[i] = "new" \/ c[i] # d THEN None
                         ELSE [region |-> "auto", model |-> m, active |-> TRUE, flagged |-> FALSE]
  BY <1>1
<1>3. CASE was[i] = "new"
  <2>1. row[i] = NewRow /\ \A d \in Char : sample[d][i] = None
    BY <1>1, <1>2, <1>3
  <2> QED BY <2>1 DEF NewRow
<1>4. CASE was[i] # "new"
  <2>1. row[i] = [NewRow EXCEPT !.status = "completed", !.class = "person", !.char = c[i]]
    BY <1>1, <1>4
  <2>2. /\ row[i].class = "person" /\ row[i].char = c[i] /\ row[i].region = "auto"
        /\ ~row[i].flagged /\ row[i].review = "none"
    BY <2>1 DEF NewRow
  <2>3. ASSUME NEW d \in Char, sample[d][i] # None
        PROVE  Owns(i, d) /\ sample[d][i].region = "auto" /\ ~sample[d][i].flagged
    <3>1. c[i] = d
      BY <1>2, <2>3
    <3>2. sample[d][i] = [region |-> "auto", model |-> m, active |-> TRUE, flagged |-> FALSE]
      BY <1>2, <2>3
    <3> QED BY <2>2, <3>1, <3>2 DEF Owns
  <2> QED BY <2>2, <2>3
<1> QED BY <1>3, <1>4

LEMMA SamplesHold == Spec => [](BankInv /\ SampleInv)
<1>1. Init => BankInv /\ SampleInv
  <2>1. ASSUME Init, NEW i \in Item, NEW c \in Char, sample[c][i] # None
        PROVE  sample[c][i].region = row[i].region /\ Owns(i, c)
    BY <2>1, InitRows
  <2> QED BY <2>1, BankInvInit DEF SampleInv
<1>2. BankInv /\ SampleInv /\ [Next]_vars => (BankInv /\ SampleInv)'
  BY BankInvKept, SampleInvKept
<1> QED BY <1>1, <1>2, PTL DEF Spec

\* The face bank is in step with the labels: a sample that no call is working on
\* belongs to the character its capture is labelled with, and was made from the
\* region the capture has (enroll_face_sample and what removes samples).
THEOREM SamplesOfTheirLabel == Spec => []SampleMatches
<1>1. BankInv /\ SampleInv => SampleMatches
  <2>1. SUFFICES ASSUME BankInv, SampleInv, NEW i \in Item, NEW c \in Char, Follows, Settled(i),
                        sample[c][i] # None
                 PROVE  row[i].class = "person" /\ row[i].char = c
                        /\ sample[c][i].region = row[i].region
    BY DEF SampleMatches
  <2>2. \A p \in Proc : ~Labelling(p, i, Deciding)
    BY <2>1 DEF Settled, Touches, Here, Labelling, Deciding, Writing
  <2> QED BY <2>1, <2>2 DEF SampleInv, Owns
<1> QED BY <1>1, SamplesHold, PTL

-----------------------------------------------------------------------------
(* Suggestions *)

Untold(i) == /\ row'[i].sug = row[i].sug /\ row'[i].review = row[i].review
             /\ row'[i].banked = row[i].banked

\* A step leaves a suggestion and the label as they are, labels, withdraws the
\* suggestion or answers it, or makes one.
SuggestionStep(p, i) ==
    \/ /\ Untold(i) /\ (SameLabel(i) \/ (call[p].at = i /\ RowLabels(p, i)))
       /\ Resolves(p) /\ call[p].at = i /\ row[i].review = "pending" => row[i].sug # call[p].arg
    \/ row'[i].review # "pending"
    \/ /\ Suggest(p) /\ call[p].at = i /\ SameLabel(i)
       /\ row'[i].sug = call[p].pick /\ call[p].pick \in chars /\ row'[i].banked

LEMMA StillTold ==
    ASSUME NEW p \in Proc, NEW i \in Item, row'[i] = row[i],
           Resolves(p) => call[p].at # i
    PROVE  SuggestionStep(p, i)
BY DEF SuggestionStep, Untold, SameLabel

LEMMA ReviewSuggestions ==
    ASSUME CallInv, NEW p \in Proc, NEW i \in Item,
           Clears(p) \/ Suggest(p) \/ Resolves(p) \/ Moots(p) \/ Readies(p) \/ Reviews(p)
    PROVE  SuggestionStep(p, i)
<1> DEFINE j == call[p].at
<1>1. j \in Item /\ row' \in [Item -> Row] /\ \A k \in Item \ {j} : row'[k] = row[k]
  BY RowSteps
<1>2. row \in [Item -> Row] /\ row[j] \in Row
  BY <1>1 DEF CallInv, TypeOK
<1>3. CASE i # j
  BY <1>1, <1>3, StillTold
<1>4. CASE i = j
  <2>0. SameLabel(j)
    BY <1>1, ReviewRows DEF Same
  <2> HIDE DEF j
  <2>1. ASSUME NEW r, Sets(j, r)
        PROVE  row'[j] = r
    BY <1>1, <1>2, <2>1 DEF Sets
  <2>2. CASE Clears(p)
    <3>1. row'[j] = Unsuggested(row[j]) \/ row'[j] = row[j]
      BY <2>1, <2>2 DEF Clears, Here, j
    <3>2. ~Resolves(p)
      BY <2>2, AtOps
    <3> QED BY <1>2, <1>4, <3>1, <3>2, StillTold, UnsuggestedSame DEF SuggestionStep
  <2>3. CASE Suggest(p)
    <3>1. \/ /\ row'[j] = [row[j] EXCEPT !.sug = call[p].pick, !.banked = TRUE, !.review = "pending"]
             /\ call[p].pick \in chars
          \/ row'[j] = row[j]
      BY <2>1, <2>3 DEF Suggest, Here, j
    <3>2. ~Resolves(p)
      BY <2>3, AtOps
    <3>3. row'[j] = [row[j] EXCEPT !.sug = call[p].pick, !.banked = TRUE, !.review = "pending"]
          => row'[j].sug = call[p].pick /\ row'[j].banked
      BY <1>2 DEF Row
    <3> QED BY <1>4, <2>0, <2>3, <3>1, <3>2, <3>3, StillTold DEF SuggestionStep, j
  <2>4. CASE Resolves(p)
    <3>1. \/ row'[j] = [row[j] EXCEPT !.review = "accepted"]
          \/ /\ row'[j] = row[j]
             /\ ~(row[j].sug = call[p].arg /\ row[j].review = "pending")
      BY <2>1, <2>4 DEF Resolves, Here, j
    <3>2. row'[j] = [row[j] EXCEPT !.review = "accepted"] => row'[j].review # "pending"
      BY <1>2 DEF Row
    <3> QED BY <1>4, <2>0, <3>1, <3>2 DEF SuggestionStep, Untold
  <2>5. CASE Moots(p)
    <3>1. row'[j] = Unsuggested(row[j])
      BY <2>1, <2>5 DEF Moots, Here, j
    <3> QED BY <1>2, <1>4, <3>1, UnsuggestedSame DEF SuggestionStep
  <2>6. CASE Readies(p)
    <3>1. row'[j] = [row[j] EXCEPT !.ready = TRUE]
      BY <2>1, <2>6 DEF Readies, Here, j
    <3>2. Untold(j)
      BY <1>2, <3>1 DEF Untold, Row
    <3>3. ~Resolves(p)
      BY <2>6, AtOps
    <3> QED BY <1>4, <2>0, <3>2, <3>3 DEF SuggestionStep
  <2>7. CASE Reviews(p)
    <3>1. \/ row'[j] = [row[j] EXCEPT !.review = "accepted"]
          \/ row'[j] = [Unsuggested(row[j]) EXCEPT !.review = "rejected"]
          \/ row'[j] = Unsuggested(row[j])
      BY <2>1, <2>7 DEF Reviews, Here, j
    <3>2. Unsuggested(row[j]) \in Row
      BY <1>2, RequeuedRow
    <3>3. row'[j].review # "pending"
      BY <1>2, <3>1, <3>2, UnsuggestedSame DEF Row
    <3> QED BY <1>4, <3>3 DEF SuggestionStep
  <2> QED BY <2>2, <2>3, <2>4, <2>5, <2>6, <2>7
<1> QED BY <1>3, <1>4

LEMMA LabelSuggestions ==
    ASSUME CallInv, NEW p \in Proc, NEW i \in Item, Labels(p) \/ Verifies(p) \/ Archives(p)
    PROVE  SuggestionStep(p, i)
<1> DEFINE j == call[p].at
<1>1. j \in Item /\ row' \in [Item -> Row] /\ \A k \in Item \ {j} : row'[k] = row[k]
  BY RowSteps
<1>2. row \in [Item -> Row] /\ row[j] \in Row
  BY <1>1 DEF CallInv, TypeOK
<1>3. ~Resolves(p) /\ ~Relabels(p) /\ ~Resets(p) /\ ~Again(p) /\ ~Frames(p)
  BY AtOps
<1>4. CASE i # j
  BY <1>1, <1>3, <1>4, StillTold
<1>5. CASE i = j
  <2>1. SameLabel(i) \/ (call[p].at = i /\ RowLabels(p, i))
    BY <1>3, LabelRows DEF Same, RowChanges, RowVerifies, RowRelabels, RowAgain, RowResets, RowFrames,
                          RowWorked
  <2> HIDE DEF j
  <2>2. ASSUME NEW r, Sets(j, r)
        PROVE  row'[j] = r
    BY <1>1, <1>2, <2>2 DEF Sets
  <2>3. \/ row'[j] = row[j]
        \/ row'[j] = [row[j] EXCEPT !.char = call[p].arg, !.status = "queued",
                                    !.class = IF call[p].arg = None THEN "other" ELSE "person"]
        \/ \E doubt : row'[j] = [row[j] EXCEPT !.flagged = doubt]
        \/ \E s : row'[j] = [row[j] EXCEPT !.status = s]
    <3>1. CASE Labels(p)
      BY <2>2, <3>1 DEF Labels, Here, j
    <3>2. CASE Verifies(p)
      BY <2>2, <3>2 DEF Verifies, Here, j
    <3>3. CASE Archives(p)
      BY <2>2, <3>3 DEF Archives, Here, j
    <3> QED BY <3>1, <3>2, <3>3
  <2>4. Untold(j)
    BY <1>2, <2>3 DEF Untold, Row
  <2> QED BY <1>3, <1>5, <2>1, <2>4 DEF SuggestionStep
<1> QED BY <1>4, <1>5

LEMMA QueueSuggestions ==
    ASSUME CallInv, NEW p \in Proc, NEW i \in Item, Relabels(p) \/ Again(p) \/ Resets(p) \/ Frames(p)
    PROVE  SuggestionStep(p, i)
<1>1. row \in [Item -> Row] /\ row[i] \in Row /\ ~Resolves(p)
  BY AtOps DEF CallInv, TypeOK
<1>2. row'[i] = row[i] => SuggestionStep(p, i)
  BY <1>1, StillTold
<1>3. CASE Relabels(p)
  <2>1. \/ row'[i] = row[i]
        \/ row'[i] = [Requeued(row[i]) EXCEPT !.char = call[p].arg,
                        !.class = IF call[p].arg = None THEN "other" ELSE "person"]
    BY <1>3, RelabelsData DEF data
  <2>2. Requeued(row[i]) \in Row /\ Requeued(row[i]).review = "none"
    BY <1>1, RequeuedRow
  <2> QED BY <1>2, <2>1, <2>2 DEF SuggestionStep, Row
<1>4. CASE Again(p)
  <2>1. \/ row'[i] = row[i] \/ row'[i] = Requeued(row[i])
        \/ row'[i] = [row[i] EXCEPT !.status = IF row[i].char # None THEN "queued" ELSE "awaiting"]
    BY <1>4, AgainData DEF data
  <2>2. Requeued(row[i]).review = "none"
    BY <1>1, RequeuedRow
  <2>3. row'[i] = [row[i] EXCEPT !.status = IF row[i].char # None THEN "queued" ELSE "awaiting"]
        => Untold(i) /\ SameLabel(i)
    BY <1>1 DEF Untold, SameLabel, Row
  <2> QED BY <1>1, <1>2, <2>1, <2>2, <2>3 DEF SuggestionStep
<1>5. CASE Resets(p)
  <2>1. row'[i] = row[i] \/ \E v \in Nat : row'[i] = [NewRow EXCEPT !.version = v]
    BY <1>5, ResetsData DEF data
  <2> QED BY <1>2, <2>1 DEF SuggestionStep, NewRow
<1>6. CASE Frames(p)
  <2>1. row'[i] = row[i] \/ row'[i].review = "none"
    BY <1>6, FramesData DEF data
  <2> QED BY <1>2, <2>1 DEF SuggestionStep
<1> QED BY <1>3, <1>4, <1>5, <1>6

LEMMA StoreSuggestions ==
    ASSUME CallInv, NEW p \in Proc, NEW i \in Item, Completes(p) \/ Stores(p) \/ Switches(p)
    PROVE  SuggestionStep(p, i)
<1>1. row \in [Item -> Row] /\ row[i] \in Row /\ ~Resolves(p)
  BY AtOps DEF CallInv, TypeOK, Switching
<1>2. row'[i] = row[i] => SuggestionStep(p, i)
  BY <1>1, StillTold
<1>3. CASE Completes(p)
  <2>1. \/ row'[i] = row[i]
        \/ row'[i] = [Unsuggested(row[i]) EXCEPT !.status = "pending"]
        \/ \E s : row'[i] = [row[i] EXCEPT !.status = s]
    BY <1>3, CompletesData
  <2>2. Unsuggested(row[i]) \in Row /\ Unsuggested(row[i]).review = "none"
    BY <1>1, RequeuedRow, UnsuggestedSame
  <2>3. ASSUME NEW s, row'[i] = [row[i] EXCEPT !.status = s]
        PROVE  Untold(i) /\ SameLabel(i)
    BY <1>1, <2>3 DEF Untold, SameLabel, Row
  <2>4. row'[i] = [Unsuggested(row[i]) EXCEPT !.status = "pending"] => row'[i].review = "none"
    BY <2>2 DEF Row
  <2> QED BY <1>1, <1>2, <2>1, <2>3, <2>4 DEF SuggestionStep
<1>4. CASE Stores(p) \/ Switches(p)
  <2>1. row'[i] = row[i] \/ row'[i] = Unsuggested(row[i])
    BY <1>4, StoresData, SwitchesData
  <2> QED BY <1>1, <1>2, <2>1, UnsuggestedSame DEF SuggestionStep
<1> QED BY <1>3, <1>4

LEMMA Suggestions ==
    ASSUME CallInv, NEW p \in Proc, NEW i \in Item, Onwards(p)
    PROVE  SuggestionStep(p, i)
<1>1. CASE ReadsItem(p) \/ Matches(p) \/ Begins(p) \/ Prelabels(p) \/ Offers(p) \/ Looks(p) \/ Lists(p)
  BY <1>1, CallSteps, AtOps, StillTold DEF data, Listing
<1>2. CASE ReadsFace(p) \/ ReadsVerified(p) \/ Rebuilds(p) \/ Enrol(p)
  BY <1>2, SampleSteps, EnrolData, AtOps, StillTold
<1>3. CASE Clears(p) \/ Suggest(p) \/ Resolves(p) \/ Moots(p) \/ Readies(p) \/ Reviews(p)
  BY <1>3, ReviewSuggestions
<1>4. CASE Labels(p) \/ Verifies(p) \/ Archives(p)
  BY <1>4, LabelSuggestions
<1>5. CASE Relabels(p) \/ Again(p) \/ Resets(p) \/ Frames(p)
  BY <1>5, QueueSuggestions
<1>6. CASE Completes(p) \/ Stores(p) \/ Switches(p)
  BY <1>6, StoreSuggestions
<1> QED BY <1>1, <1>2, <1>3, <1>4, <1>5, <1>6 DEF Onwards

\* Until a label has answered the suggestion, the capture has its character.
Answering == Deciding \cup {"resolve"}
LabelledInv == "merge" \notin budget.ops => \A p \in Proc :
    call[p].kind = "label" /\ call[p].op \in Answering => row[call[p].at].char = call[p].arg

LEMMA LabelWrites ==
    ASSUME CallInv, NEW p \in Proc, Labels(p), call'[p].op = "verify"
    PROVE  call[p].at \in Item /\ row'[call[p].at].char = call[p].arg
<1>1. /\ call[p].at \in Item /\ call[p].op \notin Listing \cup {"take"}
      /\ Onwards(p) /\ row \in [Item -> Row] /\ row[call[p].at] \in Row
  BY LabelsCall DEF Onwards, Listing, CallInv, TypeOK
<1>2. ~Leaves(p)
  <2>1. ASSUME Leaves(p)
        PROVE  FALSE
    <3>1. PICK d : Became(p, d) /\ Onward(call[p], d) /\ d.op \in {"release"} \cup Starting
      BY <1>1, <2>1, Leaving
    <3> QED BY <1>1, <3>1, BecameNow DEF Starting, Listing
  <2> QED BY <2>1
<1>3. row' = [row EXCEPT ![call[p].at] =
                [row[call[p].at] EXCEPT !.char = call[p].arg, !.status = "queued",
                          !.class = IF call[p].arg = None THEN "other" ELSE "person"]]
  BY <1>2 DEF Labels, Sets, Here
<1>4. row'[call[p].at] = [row[call[p].at] EXCEPT !.char = call[p].arg, !.status = "queued",
                          !.class = IF call[p].arg = None THEN "other" ELSE "person"]
  BY <1>1, <1>3
<1> QED BY <1>1, <1>4 DEF Row

LEMMA LabelledInvKept ==
    ASSUME OwnInv, LabelledInv, [Next]_vars
    PROVE  LabelledInv'
<1>1. CallInv /\ GoneTyped /\ Answering \subseteq Telling
  BY DEF OwnInv, Answering, Deciding, Writing, Telling
<1>2. ASSUME NEW q \in Proc, call'[q] = call[q], call[q].kind = "label", call[q].op \in Answering,
             SameLabel(call[q].at), budget'.ops = budget.ops, "merge" \notin budget.ops
      PROVE  row'[call'[q].at].char = call'[q].arg
  BY <1>2 DEF LabelledInv, SameLabel
<1>3. CASE Gentle
  BY <1>1, <1>3 DEF Gentle, LabelledInv
<1>4. ASSUME NEW p \in Proc, Onwards(p), NEW q \in Proc, call'[q].kind = "label",
             call'[q].op \in Answering, "merge" \notin budget'.ops
      PROVE  row'[call'[q].at].char = call'[q].arg
  <2>0. budget' = budget
    BY <1>1, <1>4, Mover
  <2>1. CASE q # p
    <3>1. call'[q] = call[q]
      BY <1>1, <1>4, <2>1, Mover
    <3>2. SameLabel(call[q].at)
      BY <1>1, <1>4, <2>1, <3>1, Foreign DEF Firm
    <3> QED BY <1>2, <1>4, <2>0, <3>1, <3>2
  <2>2. CASE q = p
    <3>1. Arrival(p, call'[p])
      BY <1>1, <1>4, <2>2, Mover
    <3>2. Stays(p, call'[p])
      BY <1>4, <2>2, <3>1 DEF Arrival
    <3>3. CASE Labels(p) /\ call'[p].op = "verify"
      BY <1>1, <2>2, <3>2, <3>3, LabelWrites DEF Stays
    <3>4. CASE ~(Labels(p) /\ call'[p].op = "verify")
      <4>1. /\ call[p].kind = "label" /\ call[p].op \in Deciding
            /\ Verifies(p) \/ ReadsItem(p) \/ ReadsFace(p) \/ ReadsVerified(p) \/ Enrol(p)
        <5>1. call[p].kind = "label"
          BY <1>4, <2>2, <3>2 DEF Stays
        <5>2. Verifies(p) \/ ReadsItem(p) \/ ReadsFace(p) \/ ReadsVerified(p) \/ Enrol(p)
          <6>1. ~Stores(p) /\ ~Completes(p) /\ ~Reviews(p)
            BY <1>1, <5>1, AtOps, Facts DEF Placed, Storing
          <6>2. call'[p].op \in Answering
            BY <1>4, <2>2
          <6> QED BY <3>1, <3>4, <6>1, <6>2 DEF Arrival, Answering, Deciding, Writing
        <5> QED BY <5>1, <5>2, AtOps DEF Deciding, Writing
      <4>2. call[p].at \in Item
        BY <1>1, <4>1, TellingAt DEF Telling, Deciding, Writing
      <4>3. SameLabel(call[p].at)
        <5>1. CASE Verifies(p)
          <6>1. ~RowLabels(p, call[p].at) /\ ~RowRelabels(p, call[p].at) /\ ~RowResets(p, call[p].at)
            BY <5>1, AtOps DEF RowLabels, RowRelabels, RowResets
          <6> QED BY <1>1, <4>2, <5>1, <6>1, LabelRows
               DEF Same, RowChanges, RowVerifies, RowAgain, RowFrames, RowWorked
        <5>2. CASE ReadsItem(p) \/ ReadsFace(p) \/ ReadsVerified(p) \/ Enrol(p)
          BY <1>1, <5>2, CallSteps, SampleSteps, EnrolData DEF data, SameLabel
        <5> QED BY <4>1, <5>1, <5>2
      <4>4. row[call[p].at].char = call[p].arg
        BY <1>4, <2>0, <4>1 DEF LabelledInv, Answering
      <4> QED BY <2>2, <3>2, <4>3, <4>4 DEF Stays, SameLabel
    <3> QED BY <3>3, <3>4
  <2> QED BY <2>1, <2>2
<1>5. ASSUME NEW i \in Item, Claims(i), NEW q \in Proc, call'[q].kind = "label",
             call'[q].op \in Answering, "merge" \notin budget'.ops
      PROVE  row'[call'[q].at].char = call'[q].arg
  <2>1. q # Worker /\ call'[q] = call[q] /\ budget' = budget
    BY <1>1, <1>5, ClaimsCall
  <2>2. SameLabel(call[q].at)
    BY <1>1, <1>5, <2>1, TellingAt, ClaimsCall
  <2> QED BY <1>2, <1>5, <2>1, <2>2
<1>6. ASSUME NEW s \in Char, NEW t \in Char, Merges(s, t)
      PROVE  "merge" \in budget'.ops
  <2>1. Spent
    BY <1>1, <1>6, UsesBudget DEF Merges
  <2> QED BY <1>6, <2>1 DEF Spent, Merges, Uses
<1>7. ASSUME NEW c \in Char, NEW i \in Item, NEW on \in BOOLEAN, Flags(c, i, on) \/ Revokes(c, i, on),
             NEW q \in Proc, call'[q].kind = "label", call'[q].op \in Answering,
             "merge" \notin budget'.ops
      PROVE  row'[call'[q].at].char = call'[q].arg
  <2>1. call' = call /\ budget'.ops = budget.ops
    <3>1. call' = call
      BY <1>1, <1>7, FlagsData, RevokesData
    <3>2. call[q].at \in Item
      BY <1>1, <1>7, <3>1, TellingAt
    <3> QED BY <1>1, <1>7, <3>1, <3>2, FlagsRow
  <2>2. SameLabel(call[q].at)
    BY <1>1, <1>7, <2>1, TellingAt, FlagsRow
  <2> QED BY <1>2, <1>7, <2>1, <2>2
<1>8. CASE \E p \in Proc : Onwards(p)
  BY <1>4, <1>8 DEF LabelledInv
<1>9. CASE \E i \in Item : Claims(i)
  BY <1>5, <1>9 DEF LabelledInv
<1>10. CASE \E s, t \in Char : Merges(s, t)
  BY <1>6, <1>10 DEF LabelledInv
<1>11. CASE \E c \in Char, i \in Item, on \in BOOLEAN : Flags(c, i, on) \/ Revokes(c, i, on)
  BY <1>7, <1>11 DEF LabelledInv
<1>12. ASSUME NEW c \in Char, Deletes(c), NEW q \in Proc, call'[q].kind = "label",
              call'[q].op \in Answering, "merge" \notin budget'.ops
       PROVE  row'[call'[q].at].char = call'[q].arg
  <2>1. call' = call /\ budget' = budget
    BY <1>12 DEF Deletes
  <2>2. call[q].at \in Item
    BY <1>1, <1>12, <2>1, TellingAt
  <2>3. SameLabel(call[q].at)
    BY <1>1, <1>12, <2>2, DeletesRow DEF Same
  <2> QED BY <1>2, <1>12, <2>1, <2>3
<1>13. CASE \E c \in Char : Deletes(c)
  BY <1>12, <1>13 DEF LabelledInv
<1> QED BY <1>1, <1>3, <1>8, <1>9, <1>10, <1>11, <1>13, NextCases

\* What waits for a review came from the face bank, for a capture that is there;
\* its character exists, or one was deleted.
Backed(i) ==
    /\ i \notin gone /\ row[i].banked
    /\ row[i].sug = None => chars # Char
    /\ row[i].sug # None => row[i].sug \in chars
\* It is another character's, or a label of the capture is about to answer it.
Opposed(i) == \/ row[i].class = "person" => row[i].sug # row[i].char
              \/ \E p \in Proc : Labelling(p, i, Answering)
SuggestInv == "merge" \notin budget.ops =>
    \A i \in Item : row[i].review = "pending" => Backed(i) /\ Opposed(i)

LEMMA AnsweringGoes ==
    ASSUME BankInv, "merge" \notin budget.ops, NEW p \in Proc, Onwards(p), ~Vanished(p),
           NEW q \in Proc, NEW i \in Item, Labelling(q, i, Deciding)
    PROVE  Labelling(q, i, Answering)'
<1>1. CallInv
  BY DEF BankInv, OwnInv
<1>2. CASE q # p
  BY <1>1, <1>2, Mover DEF Labelling, Answering
<1>3. CASE q = p
  <2>1. Enrol(p) => call[p].item.char \in chars
    <3>1. Firm(call[p]) /\ call[p].at \notin gone
      BY <1>3, Present DEF Labelling, Firm
    <3> QED BY <3>1, AtOps, Alive
  <2> QED BY <1>1, <1>3, <2>1, LabelGoes DEF Labelling, Deciding, Writing, Answering
<1> QED BY <1>2, <1>3

LEMMA SuggestStep ==
    ASSUME BankInv, LabelledInv, SuggestInv, "merge" \notin budget.ops, NEW p \in Proc, Onwards(p),
           ~Vanished(p), gone' = gone, NEW i \in Item, row'[i].review = "pending"
    PROVE  Backed(i)' /\ Opposed(i)'
<1>1. CallInv /\ ItemInv
  BY DEF BankInv, OwnInv
<1>2. chars' = chars /\ SuggestionStep(p, i)
  BY <1>1, CharsSame, Suggestions
<1>3. CASE /\ Suggest(p) /\ call[p].at = i /\ SameLabel(i)
           /\ row'[i].sug = call[p].pick /\ call[p].pick \in chars /\ row'[i].banked
  <2>1. call[p].kind \in Suggesting /\ call[p].op = "suggest" /\ Loaded(call[p])
    BY <1>1, <1>3, SuggestCall, Facts
  <2>2. /\ call[p].pick # None /\ call[p].pick # call[p].item.char
        /\ call[p].item.char = row[i].char
    BY <1>1, <1>3, <2>1, NoneAssumption DEF Loaded, ItemInv, Firm, Suggesting, Reread
  <2>3. Backed(i)'
    BY <1>2, <1>3, <2>2, Present DEF Backed
  <2>4. row'[i].sug # row'[i].char
    BY <1>3, <2>2 DEF SameLabel
  <2> QED BY <2>3, <2>4 DEF Opposed
<1>4. CASE Untold(i) /\ row[i].review = "pending" /\ SameLabel(i)
           /\ (Resolves(p) /\ call[p].at = i => row[i].sug # call[p].arg)
  <2>0. Backed(i) /\ Opposed(i)
    BY <1>4 DEF SuggestInv
  <2>1. Backed(i)'
    BY <1>2, <1>4, <2>0 DEF Backed, Untold
  <2>2. CASE row[i].class = "person" => row[i].sug # row[i].char
    BY <1>4, <2>1, <2>2 DEF Untold, SameLabel, Opposed
  <2>3. ASSUME NEW q \in Proc, Labelling(q, i, Answering)
        PROVE  Opposed(i)'
    <3>1. CASE call[q].op \in Deciding
      <4>1. Labelling(q, i, Answering)'
        BY <2>3, <3>1, AnsweringGoes DEF Labelling
      <4> QED BY <4>1 DEF Opposed
    <3>2. CASE call[q].op = "resolve" /\ q # p
      <4>1. Labelling(q, i, Answering)'
        BY <1>1, <2>3, <3>2, Mover DEF Labelling
      <4> QED BY <4>1 DEF Opposed
    <3>3. CASE call[q].op = "resolve" /\ q = p
      <4>1. Resolves(p)
        BY <3>3, AtOps DEF Onwards, Listing, Switching
      <4>2. row[i].char = call[p].arg
        BY <2>3, <3>3 DEF LabelledInv, Labelling
      <4>3. row'[i].sug # row'[i].char
        BY <1>4, <2>3, <3>3, <4>1, <4>2 DEF Labelling, Untold, SameLabel
      <4> QED BY <4>3 DEF Opposed
    <3> QED BY <2>3, <3>1, <3>2, <3>3 DEF Labelling, Answering
  <2> QED BY <2>0, <2>1, <2>2, <2>3 DEF Opposed
<1>5. CASE Untold(i) /\ row[i].review = "pending" /\ call[p].at = i /\ RowLabels(p, i)
  <2>1. Backed(i)'
    BY <1>2, <1>5 DEF SuggestInv, Backed, Untold
  <2>2. CASE call[p].arg = None
    <3>1. row'[i].class # "person"
      BY <1>5, <2>2 DEF RowLabels, Relabelled
    <3> QED BY <2>1, <3>1 DEF Opposed
  <2>3. CASE call[p].arg # None
    <3>1. call[p].kind = "label"
      BY <1>1, <1>5, <2>3, LabelsCall, Facts DEF RowLabels, Kinded
    <3>2. Labelling(p, i, Answering)'
      BY <1>1, <1>5, <3>1, LabelBegins DEF RowLabels, Labelling, Answering, Deciding
    <3> QED BY <2>1, <3>2 DEF Opposed
  <2> QED BY <2>2, <2>3
<1> QED BY <1>2, <1>3, <1>4, <1>5 DEF SuggestionStep, Untold

\* A deletion takes the suggested character away and leaves the review.
LEMMA SuggestDeletes ==
    ASSUME BankInv, SuggestInv, "merge" \notin budget.ops, NEW c \in Char, Deletes(c), NEW i \in Item,
           row'[i].review = "pending"
    PROVE  Backed(i)' /\ Opposed(i)'
<1>1. CallInv /\ RowInv /\ row[i] \in Row
  BY DEF BankInv, OwnInv, CallInv, TypeOK
<1>2. call' = call /\ SameLabel(i)
  BY <1>1, DeletesRow DEF Same
<1>3. CASE UNCHANGED <<row, face, sample, chars, gone>>
  BY <1>2, <1>3 DEF SuggestInv, Backed, Opposed, Labelling
<1>4. CASE /\ chars' = chars \ {c} /\ gone' = gone \cup OfCharacter(c)
           /\ row'[i] = IF i \in OfCharacter(c) THEN Unsuggested(row[i])
                        ELSE [row[i] EXCEPT !.sug = IF @ = c THEN None ELSE @]
  <2>1. i \notin OfCharacter(c)
    BY <1>1, <1>4, UnsuggestedSame
  <2>2. PICK s : s = IF row[i].sug = c THEN None ELSE row[i].sug
    OBVIOUS
  <2>3. row'[i] = [row[i] EXCEPT !.sug = s]
    BY <1>4, <2>1, <2>2
  <2>4. /\ row'[i].sug = s /\ row'[i].banked = row[i].banked /\ row'[i].review = row[i].review
        /\ row'[i].class = row[i].class /\ row'[i].char = row[i].char
    BY <1>1, <2>3 DEF Row
  <2>5. Backed(i) /\ Opposed(i)
    BY <2>4 DEF SuggestInv
  <2>6. chars' # Char
    BY <1>4
  <2>7. Backed(i)'
    BY <1>4, <2>1, <2>2, <2>4, <2>5, <2>6 DEF Backed
  <2>8. CASE row[i].class = "person" => row[i].sug # row[i].char
    <3>1. row[i].class = "person" => s # row[i].char
      BY <1>1, <2>2, <2>8 DEF RowInv
    <3> QED BY <2>4, <2>7, <3>1 DEF Opposed
  <2>9. CASE \E q \in Proc : Labelling(q, i, Answering)
    BY <1>2, <2>7, <2>9 DEF Opposed, Labelling
  <2> QED BY <2>5, <2>8, <2>9 DEF Opposed
<1> QED BY <1>3, <1>4, DeletesGone

LEMMA SuggestInvKept ==
    ASSUME BankInv, LabelledInv, SuggestInv, [Next]_vars
    PROVE  SuggestInv'
<1>1. CallInv /\ GoneTyped
  BY DEF BankInv, OwnInv
<1>2. ASSUME NEW i \in Item, "merge" \notin budget.ops, Untold(i), SameLabel(i), chars' = chars,
             gone' = gone, row'[i].review = "pending",
             \A q \in Proc : Labelling(q, i, Answering) /\ i \notin gone => Labelling(q, i, Answering)'
      PROVE  Backed(i)' /\ Opposed(i)'
  <2>1. Backed(i) /\ Opposed(i)
    BY <1>2 DEF SuggestInv, Untold
  <2>2. Backed(i)'
    BY <1>2, <2>1 DEF Backed, Untold
  <2>3. CASE row[i].class = "person" => row[i].sug # row[i].char
    BY <1>2, <2>2, <2>3 DEF Opposed, Untold, SameLabel
  <2>4. CASE \E q \in Proc : Labelling(q, i, Answering)
    BY <1>2, <2>1, <2>2, <2>4 DEF Opposed, Backed
  <2> QED BY <2>1, <2>3, <2>4 DEF Opposed
<1>3. CASE Gentle
  <2>1. ASSUME NEW i \in Item, "merge" \notin budget'.ops, row'[i].review = "pending"
        PROVE  Backed(i)' /\ Opposed(i)'
    <3>1. \A q \in Proc : Labelling(q, i, Answering) /\ i \notin gone => Labelling(q, i, Answering)'
      BY <1>3 DEF Gentle, Labelling, Answering, Deciding, Writing, Telling
    <3> QED BY <1>2, <1>3, <2>1, <3>1 DEF Gentle, Untold, SameLabel
  <2> QED BY <2>1 DEF SuggestInv
<1>4. ASSUME NEW p \in Proc, Onwards(p), ~Vanished(p), gone' = gone
      PROVE  SuggestInv'
  <2>1. budget' = budget
    BY <1>1, <1>4, Mover
  <2> QED BY <1>4, <2>1, SuggestStep DEF SuggestInv
<1>5. ASSUME NEW j \in Item, Claims(j), gone' = gone
      PROVE  SuggestInv'
  <2>1. ASSUME NEW i \in Item, "merge" \notin budget'.ops, row'[i].review = "pending"
        PROVE  Backed(i)' /\ Opposed(i)'
    <3>1. /\ chars' = chars /\ budget' = budget /\ SameLabel(i) /\ Untold(i)
          /\ call[Worker].op = "end" /\ \A q \in Proc \ {Worker} : call'[q] = call[q]
      <4>1. i = j \/ row'[i] = row[i]
        BY <1>1, <1>5, ClaimsCall
      <4> QED BY <1>1, <1>5, <4>1, ClaimsCall DEF Untold
    <3>2. \A q \in Proc : Labelling(q, i, Answering) => Labelling(q, i, Answering)'
      BY <3>1 DEF Labelling, Answering, Deciding, Writing
    <3> QED BY <1>2, <1>5, <2>1, <3>1, <3>2
  <2> QED BY <2>1 DEF SuggestInv
<1>6. ASSUME NEW s \in Char, NEW t \in Char, Merges(s, t)
      PROVE  SuggestInv'
  <2>1. Spent
    BY <1>1, <1>6, UsesBudget DEF Merges
  <2>2. "merge" \in budget'.ops
    BY <1>6, <2>1 DEF Spent, Merges, Uses
  <2> QED BY <2>2 DEF SuggestInv
<1>7. ASSUME NEW c \in Char, NEW j \in Item, NEW on \in BOOLEAN, Flags(c, j, on) \/ Revokes(c, j, on),
             gone' = gone
      PROVE  SuggestInv'
  <2>1. ASSUME NEW i \in Item, "merge" \notin budget'.ops, row'[i].review = "pending"
        PROVE  Backed(i)' /\ Opposed(i)'
    <3>1. chars' = chars /\ budget'.ops = budget.ops /\ SameLabel(i) /\ Untold(i) /\ call' = call
      BY <1>1, <1>7, FlagsRow DEF Untold
    <3>2. \A q \in Proc : Labelling(q, i, Answering) => Labelling(q, i, Answering)'
      BY <3>1 DEF Labelling
    <3> QED BY <1>2, <1>7, <2>1, <3>1, <3>2
  <2> QED BY <2>1 DEF SuggestInv
<1>8. ASSUME NEW c \in Char, Deletes(c)
      PROVE  SuggestInv'
  <2>1. budget' = budget
    BY <1>8 DEF Deletes
  <2> QED BY <1>8, <2>1, SuggestDeletes DEF SuggestInv
<1> QED BY <1>1, <1>3, <1>4, <1>5, <1>6, <1>7, <1>8, NextCases

LEMMA SuggestionsHold == Spec => [](BankInv /\ LabelledInv /\ SuggestInv)
<1>1. Init => BankInv /\ LabelledInv /\ SuggestInv
  <2>1. ASSUME Init, NEW p \in Proc
        PROVE  call[p].kind = "none"
    BY <2>1 DEF Init, Idle
  <2>2. Init => LabelledInv
    BY <2>1 DEF LabelledInv
  <2>3. Init => SuggestInv
    BY InitRows DEF SuggestInv
  <2> QED BY <2>2, <2>3, BankInvInit
<1>2. BankInv /\ LabelledInv /\ SuggestInv /\ [Next]_vars => (BankInv /\ LabelledInv /\ SuggestInv)'
  BY BankInvKept, LabelledInvKept, SuggestInvKept DEF BankInv
<1> QED BY <1>1, <1>2, PTL DEF Spec

\* A suggestion that waits for a review never names the character the capture is
\* labelled with: suggest_from_face_bank leaves that one out, and a label answers
\* the suggestion it agrees with. It names an existing character or, once one was
\* deleted, none; then the capture still says that the face bank suggested it.
THEOREM SuggestionsOfOthers == Spec => []SuggestsOther
<1>1. BankInv /\ LabelledInv /\ SuggestInv => SuggestsOther
  <2>1. SUFFICES ASSUME SuggestInv, NEW i \in Item, "merge" \notin budget.ops, Settled(i),
                        row[i].review = "pending"
                 PROVE  /\ row[i].sug = None => row[i].banked /\ chars # Char
                        /\ row[i].sug # None => row[i].sug \in chars
                        /\ row[i].class = "person" => row[i].sug # row[i].char
    BY DEF SuggestsOther
  <2>2. \A p \in Proc : ~Labelling(p, i, Answering)
    BY <2>1 DEF Settled, Touches, Here, Labelling, Answering, Deciding, Writing
  <2> QED BY <2>1, <2>2 DEF SuggestInv, Backed, Opposed
<1> QED BY <1>1, SuggestionsHold, PTL

-----------------------------------------------------------------------------
(* Verdicts *)

\* The calls that may be made include a label and none of those that the
\* property leaves out.
Verdicts == "label" \in budget.ops /\ budget.ops \cap {"merge", "anchor"} = {}

LEMMA VerdictKinds ==
    ASSUME CallInv, Verdicts, NEW p \in Proc
    PROVE  Firm(call[p]) /\ "merge" \notin budget.ops
BY Facts DEF Verdicts, Kinded, Firm

\* Only a label raises a doubt.
LEMMA DoubtGrows ==
    ASSUME CallInv, NEW p \in Proc, NEW i \in Item, Onwards(p), row'[i].flagged
    PROVE  \/ row[i].flagged
           \/ /\ Verifies(p) /\ call[p].at = i /\ call[p].kind = "label"
              /\ call'[p].kind = "label" /\ call'[p].at = i /\ call'[p].op = "readItem"
<1>1. CASE SameDoubt(i)
  BY <1>1 DEF SameDoubt
<1>2. CASE call[p].at = i /\ Verifies(p)
  <2>1. call[p].kind = "label" /\ call[p].op = "verify"
    BY <1>2, VerifiesCall
  <2>2. ~ReadsItem(p) /\ ~ReadsFace(p) /\ ~ReadsVerified(p) /\ ~Enrol(p)
    BY <2>1, AtOps
  <2> QED BY <1>2, <2>1, <2>2, LabelGoes DEF Deciding
<1>3. Same(i) \/ (call[p].at = i /\ RowChanges(p, i))
  BY Rows
<1> QED BY <1>1, <1>2, <1>3 DEF Same, RowChanges, RowLabels, RowVerifies, RowRelabels, RowAgain,
                               RowResets, RowFrames, RowWorked

UndoubtedInv == "label" \notin budget.ops => \A i \in Item : ~row[i].flagged

LEMMA UndoubtedInvKept ==
    ASSUME CallInv, GoneTyped, UndoubtedInv, [Next]_vars
    PROVE  UndoubtedInv'
<1>1. CASE Gentle
  BY <1>1 DEF Gentle, UndoubtedInv
<1>2. ASSUME NEW p \in Proc, Onwards(p), "label" \notin budget'.ops, NEW i \in Item, row'[i].flagged
      PROVE  FALSE
  <2>1. budget' = budget /\ ~row[i].flagged
    BY <1>2, Mover DEF UndoubtedInv
  <2>2. call[p].kind = "label"
    BY <1>2, <2>1, DoubtGrows
  <2> QED BY <1>2, <2>1, <2>2, Facts DEF Kinded
<1>3. ASSUME NEW j \in Item, Claims(j)
      PROVE  UndoubtedInv'
  BY <1>3, ClaimsCall DEF UndoubtedInv, SameDoubt
<1>4. ASSUME NEW s \in Char, NEW t \in Char, Merges(s, t)
      PROVE  UndoubtedInv'
  <2>1. \A i \in Item : SameDoubt(i)
    BY <1>4, MergesRow
  <2>2. Spent
    BY <1>4, UsesBudget DEF Merges
  <2> QED BY <2>1, <2>2 DEF UndoubtedInv, SameDoubt, Spent
<1>5. ASSUME NEW c \in Char, NEW j \in Item, NEW on \in BOOLEAN, Flags(c, j, on) \/ Revokes(c, j, on)
      PROVE  UndoubtedInv'
  <2>1. \A i \in Item : row'[i].flagged => row[i].flagged
    BY <1>5, FlagsRow
  <2>2. Spent
    BY <1>5, UsesBudget DEF Flags, Revokes
  <2> QED BY <2>1, <2>2 DEF UndoubtedInv, Spent
<1>6. ASSUME NEW p \in Proc, Onwards(p)
      PROVE  UndoubtedInv'
  BY <1>2, <1>6 DEF UndoubtedInv
<1>7. ASSUME NEW c \in Char, Deletes(c)
      PROVE  UndoubtedInv'
  <2>1. budget' = budget
    BY <1>7 DEF Deletes
  <2>2. \A i \in Item : SameDoubt(i)
    BY <1>7, DeletesRow DEF Same
  <2> QED BY <2>1, <2>2 DEF UndoubtedInv, SameDoubt
<1> QED BY <1>1, <1>3, <1>4, <1>5, <1>6, <1>7, NextCases

\* The worker has read the face that is there: nobody stores another one while
\* the capture is being processed.
WorkerFaceInv == \A p \in Proc :
    call[p].kind = "process" /\ call[p].op \in {"readVerified", "enrol"}
    => call[p].face = face[call[p].at]

LEMMA WorkerFaceInvKept ==
    ASSUME OwnInv, GoneInv, WorkerFaceInv, [Next]_vars
    PROVE  WorkerFaceInv'
<1>1. CallInv /\ GoneTyped
  BY DEF OwnInv
<1>2. CASE Gentle
  BY <1>2 DEF Gentle, WorkerFaceInv, Telling
<1>3. ASSUME NEW p \in Proc, Onwards(p), NEW q \in Proc, call'[q].kind = "process",
             call'[q].op \in {"readVerified", "enrol"}
      PROVE  call'[q].face = face'[call'[q].at]
  <2>1. CASE q # p
    <3>1. call'[q] = call[q] /\ call[q].at \in Item
      BY <1>1, <1>3, <2>1, Mover, TellingAt DEF Telling
    <3>2. face'[call[q].at] = face[call[q].at]
      BY <1>3, <2>1, <3>1, Worked
    <3> QED BY <1>3, <3>1, <3>2 DEF WorkerFaceInv
  <2>2. CASE q = p
    <3>1. Arrival(p, call'[p])
      BY <1>1, <1>3, <2>2, Mover DEF Telling
    <3>2. Stays(p, call'[p])
      BY <1>3, <2>2, <3>1 DEF Arrival
    <3>3. CASE ReadsFace(p) /\ call'[p].face = face[call[p].at]
      <4>1. face' = face
        BY <1>1, <3>3, SampleSteps
      <4> QED BY <2>2, <3>2, <3>3, <4>1 DEF Stays
    <3>4. CASE ReadsVerified(p) /\ call'[p].face = call[p].face
      <4>1. face' = face /\ call[p].op = "readVerified"
        BY <1>1, <3>4, SampleSteps, AtOps
      <4> QED BY <1>3, <2>2, <3>2, <3>4, <4>1 DEF WorkerFaceInv, Stays
    <3> QED BY <1>3, <2>2, <3>1, <3>3, <3>4 DEF Arrival
  <2> QED BY <2>1, <2>2
<1>4. ASSUME NEW i \in Item, Claims(i), NEW q \in Proc, call'[q].kind = "process",
             call'[q].op \in {"readVerified", "enrol"}
      PROVE  call'[q].face = face'[call'[q].at]
  BY <1>1, <1>4, ClaimsCall DEF WorkerFaceInv, Telling
<1>5. ASSUME NEW s \in Char, NEW t \in Char, Merges(s, t)
      PROVE  WorkerFaceInv'
  BY <1>1, <1>5, MergesData DEF WorkerFaceInv
<1>6. ASSUME NEW c \in Char, NEW i \in Item, NEW on \in BOOLEAN, Flags(c, i, on) \/ Revokes(c, i, on)
      PROVE  WorkerFaceInv'
  <2>1. UNCHANGED <<face, call>>
    BY <1>1, <1>6, FlagsData, RevokesData
  <2> QED BY <2>1 DEF WorkerFaceInv
<1>7. ASSUME NEW p \in Proc, Onwards(p)
      PROVE  WorkerFaceInv'
  BY <1>3, <1>7 DEF WorkerFaceInv
<1>8. ASSUME NEW i \in Item, Claims(i)
      PROVE  WorkerFaceInv'
  BY <1>4, <1>8 DEF WorkerFaceInv
<1>9. ASSUME NEW c \in Char, Deletes(c)
      PROVE  WorkerFaceInv'
  <2>1. call' = call
    BY <1>9 DEF Deletes
  <2>2. ASSUME NEW q \in Proc, call[q].kind = "process", call[q].op \in {"readVerified", "enrol"}
        PROVE  face'[call[q].at] = face[call[q].at]
    <3>1. call[q].at \in Item /\ Busy(call[q].at)
      BY <1>1, <2>2, TellingAt DEF OwnInv, WorkInv, Busy, Telling
    <3> QED BY <1>9, <3>1, DeletesBusy
  <2> QED BY <2>1, <2>2 DEF WorkerFaceInv
<1> QED BY <1>1, <1>2, <1>5, <1>6, <1>7, <1>8, <1>9, NextCases

\* Outside the worker's pass, who enrols has heard of the doubt.
HeardInv == Verdicts => \A p \in Proc :
    call[p].op = "enrol" /\ call[p].kind # "process" /\ row[call[p].at].flagged => call[p].flagged

\* A label has its capture to itself while it verifies.
LEMMA Verifying ==
    ASSUME CallInv, NEW p \in Proc, NEW q \in Proc, p # q, Verifies(p), call[q].op \in Telling,
           Holds(call[q])
    PROVE  call[p].at # call[q].at
<1>1. call[p].kind = "label" /\ call[p].op = "verify"
  BY VerifiesCall
<1>2. Holds(call[p]) /\ call[q].at \in Item
  BY <1>1, TellingAt DEF Holds, LockKinds
<1> QED BY <1>2, Exclusive

LEMMA HeardInvKept ==
    ASSUME OwnInv, HeardInv, [Next]_vars
    PROVE  HeardInv'
<1> DEFINE Listens(q) == call'[q].op = "enrol" /\ call'[q].kind # "process"
                         /\ row'[call'[q].at].flagged => call'[q].flagged
<1>1. CallInv /\ GoneTyped
  BY DEF OwnInv
<1>2. CASE Gentle
  BY <1>2 DEF Gentle, HeardInv, Telling, Verdicts
<1>3. ASSUME NEW p \in Proc, Onwards(p), Verdicts, NEW q \in Proc, call'[q].op = "enrol",
             call'[q].kind # "process", row'[call'[q].at].flagged
      PROVE  call'[q].flagged
  <2>1. CASE q # p
    <3>1. call'[q] = call[q] /\ call[q].at \in Item
      BY <1>1, <1>3, <2>1, Mover, TellingAt DEF Telling
    <3>2. Holds(call[q]) /\ call[q].op \in Telling
      BY <1>1, <1>3, <3>1, VerdictKinds, TellingAt DEF Firm, Telling
    <3>3. row[call[q].at].flagged
      BY <1>1, <1>3, <2>1, <3>1, <3>2, DoubtGrows, Verifying
    <3> QED BY <1>3, <3>1, <3>3 DEF HeardInv
  <2>2. CASE q = p
    <3>1. Arrival(p, call'[p])
      BY <1>1, <1>3, <2>2, Mover DEF Telling
    <3>2. ReadsVerified(p) /\ Stays(p, call'[p]) /\ call'[p].flagged = row[call[p].at].flagged
      BY <1>3, <2>2, <3>1 DEF Arrival
    <3>3. row' = row
      BY <1>1, <3>2, SampleSteps
    <3> QED BY <1>3, <2>2, <3>2, <3>3 DEF Stays
  <2> QED BY <2>1, <2>2
<1>4. ASSUME NEW p \in Proc, Onwards(p)
      PROVE  HeardInv'
  <2>1. budget' = budget
    BY <1>1, <1>4, Mover
  <2> QED BY <1>3, <1>4, <2>1 DEF HeardInv, Verdicts
<1>5. ASSUME NEW i \in Item, Claims(i)
      PROVE  HeardInv'
  <2>1. ASSUME NEW q \in Proc, Verdicts, call'[q].op = "enrol", call'[q].kind # "process",
               row'[call'[q].at].flagged
        PROVE  call'[q].flagged
    <3>1. call'[q] = call[q]
      BY <1>1, <1>5, <2>1, ClaimsCall DEF Telling
    <3>2. call[q].at \in Item
      BY <1>1, <2>1, <3>1, TellingAt DEF Telling
    <3>3. SameDoubt(call[q].at)
      BY <1>1, <1>5, <3>2, ClaimsCall
    <3> QED BY <2>1, <3>1, <3>3 DEF HeardInv, SameDoubt
  <2>2. budget' = budget
    BY <1>1, <1>5, ClaimsCall
  <2> QED BY <2>1, <2>2 DEF HeardInv, Verdicts
<1>6. ASSUME NEW s \in Char, NEW t \in Char, Merges(s, t)
      PROVE  HeardInv'
  <2>1. Spent
    BY <1>1, <1>6, UsesBudget DEF Merges
  <2>2. "merge" \in budget'.ops
    BY <1>6, <2>1 DEF Spent, Merges, Uses
  <2> QED BY <2>2 DEF HeardInv, Verdicts
<1>7. ASSUME NEW c \in Char, NEW i \in Item, NEW on \in BOOLEAN, Flags(c, i, on) \/ Revokes(c, i, on)
      PROVE  HeardInv'
  <2>1. ASSUME NEW q \in Proc, Verdicts, call'[q].op = "enrol", call'[q].kind # "process",
               row'[call'[q].at].flagged
        PROVE  call'[q].flagged
    <3>1. call' = call
      BY <1>1, <1>7, FlagsData, RevokesData
    <3>2. call[q].at \in Item
      BY <1>1, <2>1, <3>1, TellingAt DEF Telling
    <3>3. row'[call[q].at].flagged => row[call[q].at].flagged
      BY <1>1, <1>7, <3>2, FlagsRow
    <3> QED BY <2>1, <3>1, <3>3 DEF HeardInv
  <2>2. Spent
    BY <1>1, <1>7, UsesBudget DEF Flags, Revokes
  <2> QED BY <2>1, <2>2 DEF HeardInv, Verdicts, Spent
<1>8. ASSUME NEW c \in Char, Deletes(c)
      PROVE  HeardInv'
  <2>1. call' = call /\ budget' = budget
    BY <1>8 DEF Deletes
  <2>2. ASSUME NEW q \in Proc, call[q].op = "enrol"
        PROVE  SameDoubt(call[q].at)
    BY <1>1, <1>8, <2>2, TellingAt, DeletesRow DEF Same, Telling
  <2> QED BY <2>1, <2>2 DEF HeardInv, Verdicts, SameDoubt
<1> QED BY <1>1, <1>2, <1>4, <1>5, <1>6, <1>7, <1>8, NextCases

\* While a capture is being processed only those who enrol change its samples.
LEMMA Emptied ==
    ASSUME CallInv, NEW p \in Proc, NEW i \in Item, Onwards(p), ~Kept(i),
           row[i].status \in {"processing", "pending"}
    PROVE  /\ call[p].at = i
           /\ \/ Enrol(p) /\ call[p].item.char \in chars
              \/ (ReadsFace(p) \/ ReadsVerified(p)) /\ NoSamples(i)
<1>1. call[p].at = i /\ sample' # sample
  BY Samples DEF Kept
<1>2. NoSamples(i) \/ (Enrol(p) /\ call[p].item.char \in chars)
  BY Samples
<1>3. ~ReadsItem(p) /\ ~Matches(p) /\ ~Begins(p) /\ ~Prelabels(p) /\ ~Offers(p) /\ ~Looks(p) /\ ~Lists(p)
  BY <1>1, CallSteps DEF data
<1>4. /\ ~Clears(p) /\ ~Suggest(p) /\ ~Labels(p) /\ ~Verifies(p) /\ ~Resolves(p) /\ ~Moots(p)
      /\ ~Readies(p) /\ ~Archives(p) /\ ~Reviews(p)
  BY <1>1, RowSteps
<1>5. ~Rebuilds(p)
  BY SMTT(30), <1>1 DEF Rebuilds, Busy, Here
<1>6. ~Relabels(p) /\ ~Again(p)
  BY <1>1, RelabelsData, AgainData DEF data
<1>7. ~Resets(p) /\ ~Frames(p)
  BY <1>1, ResetsData, FramesData DEF data, Busy
<1>8. ~Completes(p) /\ ~Stores(p) /\ ~Switches(p)
  BY <1>1, CompletesData, StoresData, SwitchesData
<1>9. Enrol(p) => call[p].item.char \in chars
  BY <1>1, EnrolData
<1> QED BY <1>1, <1>2, <1>3, <1>4, <1>5, <1>6, <1>7, <1>8, <1>9 DEF Onwards

\* The worker has missed the doubt on the capture it is about to enrol.
Missed(p) == /\ call[p].kind = "process" /\ call[p].op = "enrol"
             /\ ~call[p].flagged /\ row[call[p].at].flagged
\* The label that raised the doubt is about to write it, or has.
Coming(i) == \/ \E q \in Proc : Labelling(q, i, Writing)
             \/ sample[row[i].char][i] # None /\ sample[row[i].char][i].flagged
Sees(i) == \A q \in Proc : Labelling(q, i, {"readVerified"}) => call[q].face = face[i]
MissedInv == Verdicts => \A p \in Proc : Missed(p) => Sees(call[p].at) /\ Coming(call[p].at)

\* Beside the worker that is about to enrol, nobody drops the capture's sample,
\* and whoever enrols writes the doubt.
LEMMA BesideWorker ==
    ASSUME BankInv, HeardInv, WorkerFaceInv, Verdicts, NEW p \in Proc, NEW w \in Proc, p # w,
           Onwards(p), NEW i \in Item, call[w].kind = "process", call[w].op = "enrol",
           call[w].at = i, call[p].at = i, row[i].flagged, Sees(i)
    PROVE  /\ row[i].char \in Char /\ row[i].status \in {"processing", "pending"}
           /\ ReadsFace(p) => call'[p].op = "readVerified" /\ sample' = sample
           /\ ReadsVerified(p) => call'[p].op = "enrol" /\ sample' = sample
           /\ Enrol(p) => sample'[row[i].char][i] # None /\ sample'[row[i].char][i].flagged
<1>1. CallInv /\ OwnInv /\ ItemInv /\ GoneInv
  BY DEF BankInv, OwnInv
<1>2. /\ Loaded(call[w]) /\ row[i] \in Row
      /\ call[p].kind # "process"
  BY <1>1, Facts DEF CallInv, TypeOK, Kinded, Workers
<1>3. row[i].class = "person" /\ row[i].char \in Char /\ row[i].status \in {"processing", "pending"}
  <2>1. row[i].class = "person" /\ row[i].status \in {"processing", "pending"}
    BY <1>1, <1>2 DEF OwnInv, WorkInv, ItemInv, Firm, Reread, Loaded
  <2>2. row[i].char # None
    BY <1>1, <2>1 DEF OwnInv, RowInv
  <2> QED BY <1>2, <2>1, <2>2 DEF Row
<1>4. Firm(call[p]) /\ "merge" \notin budget.ops
  BY <1>1, VerdictKinds
<1>5. ASSUME ReadsFace(p)
      PROVE  call'[p].op = "readVerified" /\ sample' = sample
  <2>1. call[p].op = "readFace"
    BY <1>5, AtOps
  <2>2. call[p].item.class = "person" /\ call[p].item.char # None
    BY <1>1, <1>3, <1>4, <2>1 DEF ItemInv, Reread
  <2>3. PICK d : /\ Became(p, d) /\ Onward(call[p], d)
                 /\ d = [call[p] EXCEPT !.face = face[call[p].at], !.op = "readVerified"]
                 /\ sample' = sample
    BY <1>1, <1>5, <2>2, ReadsFaceCall
  <2>4. d.op = "readVerified"
    BY <1>1, <2>3, Facts DEF Call
  <2> QED BY <1>1, <2>3, <2>4, BecameNow
<1>6. ASSUME ReadsVerified(p)
      PROVE  call'[p].op = "enrol" /\ sample' = sample
  <2>1. call[p].op = "readVerified" /\ call[p].kind \in Enrolling
    BY <1>1, <1>6, ReadsVerifiedCall
  <2>2. call[p].kind = "label"
    <3>1. call[p].kind \notin Storing
      BY <1>1, <1>3, <2>1 DEF OwnInv, QuietInv, Busy
    <3> QED BY <1>2, <1>4, <2>1, <3>1 DEF Firm, Enrolling, Storing
  <2>3. call[p].face = call[w].face
    BY <2>1, <2>2 DEF Sees, Labelling, WorkerFaceInv
  <2>4. call[p].face # None /\ call[p].face.vector = "feature" /\ call[p].face.good
    BY <1>2, <2>3, NoneAssumption DEF Loaded
  <2>5. PICK d : /\ Became(p, d) /\ Onward(call[p], d)
                 /\ d = [call[p] EXCEPT !.flagged = row[call[p].at].flagged, !.op = "enrol"]
                 /\ sample' = sample
    BY <1>1, <1>6, <2>4, ReadsVerifiedCall
  <2>6. d.op = "enrol"
    BY <1>1, <2>5, Facts DEF Call
  <2> QED BY <1>1, <2>5, <2>6, BecameNow
<1>7. ASSUME Enrol(p)
      PROVE  sample'[row[i].char][i] # None /\ sample'[row[i].char][i].flagged
  <2>1. call[p].op = "enrol"
    BY <1>7, AtOps
  <2>2. i \notin gone
    BY <1>1, <1>3 DEF GoneInv, Busy
  <2>3. call[p].item.char \in chars /\ call[p].item.char = row[i].char
    BY <1>4, <2>1, <2>2, Alive
  <2>4. call[p].flagged
    BY <1>2, <2>1 DEF HeardInv
  <2>5. /\ sample'[row[i].char][i] = Enrolled(p, sample[row[i].char][i])
        /\ sample'[row[i].char][i] \in Sample
    BY <1>1, <1>7, <2>3, SampleSet
  <2>6. Enrolled(p, sample[row[i].char][i]).flagged
    BY <2>4, Zenon DEF Enrolled
  <2> QED BY <2>5, <2>6, NoneAssumption
<1> QED BY <1>3, <1>5, <1>6, <1>7

\* The worker stands before its enrolment and has missed a doubt that was there
\* before the step.
LEMMA StillComing ==
    ASSUME BankInv, HeardInv, WorkerFaceInv, Verdicts, NEW p \in Proc, NEW w \in Proc, p # w,
           Onwards(p), NEW i \in Item, call[w].kind = "process", call[w].op = "enrol",
           call[w].at = i, row[i].flagged, Sees(i), Coming(i), SameLabel(i), face'[i] = face[i]
    PROVE  Sees(i)' /\ Coming(i)'
<1>1. CallInv /\ OwnInv
  BY DEF BankInv, OwnInv
<1>2. \A q \in Proc \ {p} : call'[q] = call[q]
  BY <1>1, Mover
<1>3. Sees(i)'
  <2>1. ASSUME NEW q \in Proc, call'[q].kind = "label", call'[q].at = i, call'[q].op = "readVerified"
        PROVE  call'[q].face = face[i]
    <3>1. CASE q # p
      BY <1>2, <2>1, <3>1 DEF Sees, Labelling
    <3>2. CASE q = p
      <4>1. Arrival(p, call'[p])
        BY <1>1, <2>1, <3>2, Mover DEF Telling
      <4> QED BY <2>1, <3>2, <4>1 DEF Arrival, Stays
    <3> QED BY <3>1, <3>2
  <2> QED BY <2>1 DEF Sees, Labelling
<1>4. row[i].char \in Char /\ row'[i].char = row[i].char
  <2>1. row[i].class = "person" /\ row[i] \in Row /\ row[i].char # None
    BY <1>1, Facts DEF BankInv, OwnInv, ItemInv, RowInv, Firm, Reread, Loaded, CallInv, TypeOK
  <2> QED BY <2>1 DEF Row, SameLabel
<1>5. ASSUME NEW q \in Proc, Labelling(q, i, Writing)'
      PROVE  Coming(i)'
  BY <1>5 DEF Coming
<1>6. ASSUME sample'[row[i].char][i] # None, sample'[row[i].char][i].flagged
      PROVE  Coming(i)'
  <2>1. sample'[row'[i].char][i] # None /\ sample'[row'[i].char][i].flagged
    BY <1>4, <1>6
  <2> QED BY <2>1 DEF Coming
<1>7. ASSUME Kept(i), sample[row[i].char][i] # None, sample[row[i].char][i].flagged
       PROVE  Coming(i)'
  <2>1. sample'[row[i].char][i] = sample[row[i].char][i]
    BY <1>4, <1>7 DEF Kept
  <2> QED BY <1>6, <1>7, <2>1
<1>8. CASE call[p].at # i
  <2>1. Kept(i)
    BY <1>1, <1>8, Samples
  <2>2. ASSUME NEW q \in Proc, Labelling(q, i, Writing)
        PROVE  Coming(i)'
    <3>1. call'[q] = call[q]
      BY <1>2, <1>8, <2>2 DEF Labelling
    <3>2. Labelling(q, i, Writing)'
      BY <2>2, <3>1 DEF Labelling
    <3> QED BY <1>5, <3>2
  <2> QED BY <1>3, <1>7, <2>1, <2>2 DEF Coming
<1>9. CASE call[p].at = i
  <2>1. /\ row[i].status \in {"processing", "pending"}
        /\ ReadsFace(p) => call'[p].op = "readVerified" /\ sample' = sample
        /\ ReadsVerified(p) => call'[p].op = "enrol" /\ sample' = sample
        /\ Enrol(p) => sample'[row[i].char][i] # None /\ sample'[row[i].char][i].flagged
    BY <1>9, BesideWorker
  <2>2. CASE Enrol(p)
    BY <1>3, <1>6, <2>1, <2>2
  <2>3. CASE ~Enrol(p)
    <3>1. Kept(i)
      BY <1>1, <2>1, <2>3, Emptied DEF Kept
    <3>3. ASSUME NEW q \in Proc, Labelling(q, i, Writing)
          PROVE  Labelling(q, i, Writing)'
      <4>1. CASE q # p
        BY <1>2, <3>3, <4>1 DEF Labelling
      <4>2. CASE q = p
        <5>1. call[p].kind = "label" /\ call[p].op \in Deciding /\ ~Verifies(p)
          BY <3>3, <4>2, AtOps DEF Labelling, Deciding, Writing
        <5>2. /\ call'[p].kind = "label" /\ call'[p].at = call[p].at
              /\ \/ call'[p].op \in Writing
                 \/ (ReadsFace(p) \/ ReadsVerified(p)) /\ call'[p].op = "resolve"
          BY <1>1, <2>3, <5>1, LabelGoes DEF Writing
        <5>3. call'[p].op \in Writing
          BY <2>1, <5>2
        <5> QED BY <1>9, <4>2, <5>2, <5>3 DEF Labelling
      <4> QED BY <4>1, <4>2
    <3> QED BY <1>3, <1>5, <1>7, <3>1, <3>3 DEF Coming
  <2> QED BY <2>2, <2>3
<1> QED BY <1>3, <1>8, <1>9

LEMMA MissedStep ==
    ASSUME BankInv, HeardInv, WorkerFaceInv, MissedInv, Verdicts, NEW p \in Proc, Onwards(p),
           NEW w \in Proc, call'[w].kind = "process", call'[w].op = "enrol", ~call'[w].flagged,
           row'[call'[w].at].flagged
    PROVE  call'[w] = call[w] /\ Sees(call[w].at)' /\ Coming(call[w].at)'
<1>1. CallInv /\ OwnInv
  BY DEF BankInv, OwnInv
<1>2. w # p
  <2>1. ASSUME w = p
        PROVE  FALSE
    <3>1. Arrival(p, call'[p])
      BY <1>1, <2>1, Mover DEF Telling
    <3>2. ReadsVerified(p) /\ Stays(p, call'[p]) /\ call'[p].flagged = row[call[p].at].flagged
      BY <2>1, <3>1 DEF Arrival
    <3>3. row' = row
      BY <1>1, <3>2, SampleSteps
    <3> QED BY <2>1, <3>2, <3>3 DEF Stays
  <2> QED BY <2>1
<1>3. call'[w] = call[w] /\ \A q \in Proc \ {p} : call'[q] = call[q]
  BY <1>1, <1>2, Mover
<1>4. PICK i \in Item : call[w].at = i
  BY <1>1, <1>3, TellingAt DEF Telling
<1>5. /\ SameLabel(i) /\ face'[i] = face[i]
      /\ Same(i) \/ (RowVerifies(p, i) /\ call[p].at = i)
  BY <1>1, <1>2, <1>3, <1>4, Worked
<1>6. CASE row[i].flagged
  <2>1. Missed(w)
    BY <1>3, <1>4, <1>6 DEF Missed
  <2>2. Sees(i) /\ Coming(i)
    BY <1>4, <2>1 DEF MissedInv
  <2> QED BY <1>2, <1>3, <1>4, <1>5, <1>6, <2>2, StillComing
<1>7. CASE ~row[i].flagged
  <2>1. /\ Verifies(p) /\ call[p].at = i
        /\ call'[p].kind = "label" /\ call'[p].at = i /\ call'[p].op = "readItem"
    BY <1>1, <1>3, <1>4, <1>7, DoubtGrows
  <2>2. Coming(i)'
    BY <2>1 DEF Coming, Labelling, Writing
  <2>3. ASSUME NEW q \in Proc, call'[q].kind = "label", call'[q].at = i, call'[q].op = "readVerified"
        PROVE  FALSE
    <3>1. q # p /\ call'[q] = call[q]
      BY <1>3, <2>1, <2>3
    <3>2. Holds(call[q]) /\ call[q].op \in Telling
      BY <2>3, <3>1 DEF Holds, LockKinds, Telling
    <3> QED BY <1>1, <2>1, <2>3, <3>1, <3>2, Verifying
  <2>4. Sees(i)'
    BY <2>3 DEF Sees, Labelling
  <2> QED BY <1>3, <1>4, <2>2, <2>4
<1> QED BY <1>6, <1>7

\* Restoring a sample takes the doubt off its capture.
LEMMA FlaggedOn ==
    ASSUME CallInv, NEW c \in Char, NEW i \in Item, NEW on \in BOOLEAN,
           Flags(c, i, on) \/ Revokes(c, i, on), NEW d \in Char, NEW j \in Item,
           row'[j].flagged, sample'[d][j] # None
    PROVE  /\ row[j].flagged /\ sample[d][j] # None
           /\ sample[d][j].flagged => sample'[d][j].flagged
<1>1. row[j].flagged
  BY FlagsRow
<1>2. CASE sample'[d][j] = sample[d][j]
  BY <1>1, <1>2
<1>3. CASE /\ j = i /\ sample[d][j] \in Sample /\ Flags(c, i, on)
           /\ sample'[d][j].flagged = on
  <2>1. \/ row'[i] = row[i] /\ (row[i].flagged => on)
        \/ row'[i] = [row[i] EXCEPT !.flagged = FALSE]
    BY <1>3, FlagsData
  <2>2. row[i] \in Row
    BY DEF CallInv, TypeOK
  <2>3. on
    BY <1>1, <1>3, <2>1, <2>2 DEF Row
  <2> QED BY <1>1, <1>3, <2>3, NoneAssumption
<1>4. CASE sample[d][j] \in Sample /\ sample'[d][j].flagged = sample[d][j].flagged
  BY <1>1, <1>4, NoneAssumption
<1> QED BY <1>2, <1>3, <1>4, FlagsSample

LEMMA MissedInvKept ==
    ASSUME BankInv, HeardInv, WorkerFaceInv, MissedInv, [Next]_vars
    PROVE  MissedInv'
<1>1. CallInv /\ GoneTyped /\ GoneInv
  BY DEF BankInv, OwnInv
<1>2. CASE Gentle
  <2>1. ASSUME NEW w \in Proc, Missed(w)', Verdicts
        PROVE  call'[w] = call[w] /\ Sees(call[w].at)' /\ Coming(call[w].at)'
    <3>1. \A q \in Proc : /\ call'[q].op \in Telling => call'[q] = call[q]
                          /\ call[q].op \in Telling /\ call[q].at \notin gone => call'[q] = call[q]
      BY <1>2 DEF Gentle
    <3>2. call'[w] = call[w]
      BY <2>1, <3>1 DEF Missed, Telling
    <3>3. Missed(w)
      BY <1>2, <2>1, <3>2 DEF Gentle, Missed
    <3>4. PICK i : i = call[w].at
      OBVIOUS
    <3>5. Sees(i) /\ Coming(i)
      BY <2>1, <3>3, <3>4 DEF MissedInv
    <3>6. Sees(i)'
      BY <1>2, <3>1, <3>5 DEF Gentle, Sees, Labelling, Telling
    <3>7. i \notin gone
      BY <1>1, <3>3, <3>4 DEF BankInv, OwnInv, WorkInv, GoneInv, Busy, Missed
    <3>8. Coming(i)'
      BY <1>2, <3>1, <3>5, <3>7 DEF Gentle, Coming, Labelling, Writing, Telling
    <3> QED BY <3>2, <3>4, <3>6, <3>8
  <2>2. Verdicts' => Verdicts
    BY <1>2 DEF Gentle, Verdicts
  <2> QED BY <2>1, <2>2 DEF MissedInv
<1>3. ASSUME NEW p \in Proc, Onwards(p)
      PROVE  MissedInv'
  <2>1. Verdicts' => Verdicts
    BY <1>1, <1>3, Mover DEF Verdicts
  <2>2. ASSUME NEW w \in Proc, Missed(w)', Verdicts
        PROVE  call'[w] = call[w] /\ Sees(call[w].at)' /\ Coming(call[w].at)'
    BY <1>3, <2>2, MissedStep DEF Missed
  <2> QED BY <2>1, <2>2 DEF MissedInv
<1>4. ASSUME NEW j \in Item, Claims(j)
      PROVE  MissedInv'
  <2>1. ASSUME NEW w \in Proc, Missed(w)'
        PROVE  FALSE
    <3>1. call'[w] = call[w] /\ w # Worker
      BY <1>1, <1>4, <2>1, ClaimsCall DEF Missed, Telling
    <3> QED BY <1>1, <2>1, <3>1, Facts DEF Missed, Kinded, Workers
  <2> QED BY <2>1 DEF MissedInv
<1>5. ASSUME NEW s \in Char, NEW t \in Char, Merges(s, t)
      PROVE  MissedInv'
  <2>1. Spent
    BY <1>1, <1>5, UsesBudget DEF Merges
  <2>2. "merge" \in budget'.ops
    BY <1>5, <2>1 DEF Spent, Merges, Uses
  <2> QED BY <2>2 DEF MissedInv, Verdicts
<1>6. ASSUME NEW c \in Char, NEW j \in Item, NEW on \in BOOLEAN, Flags(c, j, on) \/ Revokes(c, j, on)
      PROVE  MissedInv'
  <2>1. UNCHANGED <<face, call>>
    BY <1>1, <1>6, FlagsData, RevokesData
  <2>2. Spent
    BY <1>1, <1>6, UsesBudget DEF Flags, Revokes
  <2>3. ASSUME NEW w \in Proc, Missed(w)', Verdicts
        PROVE  Sees(call[w].at)' /\ Coming(call[w].at)'
    <3>1. PICK i \in Item : i = call[w].at
      BY <1>1, <2>1, <2>3, TellingAt DEF Missed, Telling
    <3>2. row'[i].flagged /\ row[i].flagged /\ SameLabel(i)
      BY <1>1, <1>6, <2>1, <2>3, <3>1, FlagsRow DEF Missed
    <3>3. Sees(i) /\ Coming(i)
      BY <2>1, <2>3, <3>1, <3>2 DEF MissedInv, Missed
    <3>4. Sees(i)'
      BY <2>1, <3>3 DEF Sees, Labelling
    <3>5. CASE \E q \in Proc : Labelling(q, i, Writing)
      BY <2>1, <3>1, <3>4, <3>5 DEF Coming, Labelling
    <3>6. CASE sample[row[i].char][i] # None /\ sample[row[i].char][i].flagged
      <4>1. PICK d \in Char : d = row[i].char
        <5>1. call[w].kind = "process" /\ call[w].op = "enrol"
          BY <2>1, <2>3 DEF Missed
        <5>2. row[i].class = "person"
          BY <1>1, <3>1, <5>1, Facts DEF BankInv, ItemInv, Firm, Reread, Loaded
        <5>3. row[i] \in Row /\ row[i].char # None
          BY <1>1, <5>2 DEF BankInv, OwnInv, RowInv, CallInv, TypeOK
        <5> QED BY <5>3 DEF Row
      <4>2. sample'[d][i] # None
        BY <1>1, <1>6, <3>6, <4>1, NoneAssumption, FlagsSample
      <4>3. sample[d][i].flagged => sample'[d][i].flagged
        BY <1>1, <1>6, <3>2, <4>2, FlaggedOn
      <4>4. sample[d][i].flagged
        BY <3>6, <4>1
      <4>5. row'[i].char = d /\ sample'[d][i].flagged
        BY <3>2, <4>1, <4>3, <4>4 DEF SameLabel
      <4>6. sample'[row'[i].char][i] # None /\ sample'[row'[i].char][i].flagged
        BY <4>2, <4>5
      <4>7. Coming(i)'
        BY <4>6 DEF Coming
      <4> QED BY <2>1, <3>1, <3>4, <4>7
    <3> QED BY <3>3, <3>5, <3>6 DEF Coming
  <2>4. Verdicts' => Verdicts
    BY <2>2 DEF Verdicts, Spent
  <2> QED BY <2>1, <2>3, <2>4 DEF MissedInv
<1>7. ASSUME NEW c \in Char, Deletes(c)
      PROVE  MissedInv'
  <2>1. call' = call /\ budget' = budget
    BY <1>7 DEF Deletes
  <2>2. ASSUME NEW w \in Proc, Missed(w)', Verdicts
        PROVE  Sees(call[w].at)' /\ Coming(call[w].at)'
    <3>1. PICK i \in Item : i = call[w].at
      BY <1>1, <2>1, <2>2, TellingAt DEF Missed, Telling
    <3>2. call[w].kind = "process" /\ call[w].op = "enrol"
      BY <2>1, <2>2 DEF Missed
    <3>3. Busy(i)
      BY <3>1, <3>2 DEF BankInv, OwnInv, WorkInv, Busy
    <3>4. /\ SameLabel(i) /\ SameDoubt(i) /\ face'[i] = face[i]
          /\ \A d \in Char : d = row[i].char => sample'[d][i] = sample[d][i]
      BY <1>1, <1>7, <3>3, DeletesRow, DeletesBusy DEF Same
    <3>5. Sees(i) /\ Coming(i)
      BY <2>1, <2>2, <3>1, <3>4 DEF MissedInv, Missed, SameDoubt
    <3>6. Sees(i)'
      BY <2>1, <3>4, <3>5 DEF Sees, Labelling
    <3>7. CASE \E q \in Proc : Labelling(q, i, Writing)
      BY <2>1, <3>1, <3>6, <3>7 DEF Coming, Labelling
    <3>8. CASE sample[row[i].char][i] # None /\ sample[row[i].char][i].flagged
      <4>1. PICK d \in Char : d = row[i].char
        <5>1. row[i].class = "person"
          BY <1>1, <3>1, <3>2, Facts DEF BankInv, ItemInv, Firm, Reread, Loaded
        <5>2. row[i] \in Row /\ row[i].char # None
          BY <1>1, <5>1 DEF BankInv, OwnInv, RowInv, CallInv, TypeOK
        <5> QED BY <5>2 DEF Row
      <4>2. row'[i].char = d /\ sample'[d][i] = sample[d][i]
        BY <3>4, <4>1 DEF SameLabel
      <4>3. sample'[row'[i].char][i] # None /\ sample'[row'[i].char][i].flagged
        BY <3>8, <4>1, <4>2
      <4>4. Coming(i)'
        BY <4>3 DEF Coming
      <4> QED BY <2>1, <3>1, <3>6, <4>4
    <3> QED BY <3>5, <3>7, <3>8 DEF Coming
  <2> QED BY <2>1, <2>2 DEF MissedInv, Verdicts
<1> QED BY <1>1, <1>2, <1>3, <1>4, <1>5, <1>6, <1>7, NextCases

\* A doubt on the label is on its sample, or a label is about to write it.
DoubtInv == Verdicts =>
    \A i \in Item, c \in Char : row[i].flagged /\ sample[c][i] # None =>
        sample[c][i].flagged \/ \E q \in Proc : Labelling(q, i, Writing)

LEMMA DoubtStep ==
    ASSUME BankInv, HeardInv, MissedInv, DoubtInv, Verdicts, NEW p \in Proc, Onwards(p),
           ~Vanished(p), NEW i \in Item, NEW c \in Char, row'[i].flagged, sample'[c][i] # None
    PROVE  sample'[c][i].flagged \/ \E q \in Proc : Labelling(q, i, Writing)'
<1>1. CallInv /\ OwnInv
  BY DEF BankInv, OwnInv
<1>2. \A q \in Proc \ {p} : call'[q] = call[q]
  BY <1>1, Mover
<1>3. ASSUME NEW q \in Proc, q # p, Labelling(q, i, Writing)
      PROVE  \E o \in Proc : Labelling(o, i, Writing)'
  <2>1. Labelling(q, i, Writing)'
    BY <1>2, <1>3 DEF Labelling
  <2> QED BY <2>1
<1>4. CASE ~row[i].flagged
  <2>1. call'[p].kind = "label" /\ call'[p].at = i /\ call'[p].op = "readItem"
    BY <1>1, <1>4, DoubtGrows
  <2>2. Labelling(p, i, Writing)'
    BY <2>1 DEF Labelling, Writing
  <2> QED BY <2>2
<1>5. CASE row[i].flagged /\ Enrol(p) /\ call[p].at = i
  <2>1. call[p].op = "enrol" /\ Firm(call[p]) /\ "merge" \notin budget.ops
    BY <1>1, <1>5, AtOps, VerdictKinds
  <2>2. call[p].at \notin gone
    BY Present
  <2>3. call[p].item.char \in chars /\ call[p].item.char = row[i].char
    BY <1>5, <2>1, <2>2, Alive
  <2>4. c = row[i].char /\ sample'[c][i] = Enrolled(p, sample[c][i])
    BY <1>1, <1>5, <2>3, SampleSet
  <2>5. CASE call[p].flagged
    <3>1. Enrolled(p, sample[c][i]).flagged
      BY <2>5, Zenon DEF Enrolled
    <3> QED BY <2>4, <3>1
  <2>6. CASE sample[c][i] # None /\ sample[c][i].flagged
    <3>1. Enrolled(p, sample[c][i]).flagged
      BY <2>6, Zenon DEF Enrolled
    <3> QED BY <2>4, <3>1
  <2>7. CASE ~call[p].flagged
    <3>1. call[p].kind = "process"
      BY <1>5, <2>1, <2>7 DEF HeardInv
    <3>2. Coming(i)
      BY <1>5, <2>1, <2>7, <3>1 DEF MissedInv, Missed
    <3>3. ASSUME NEW q \in Proc, Labelling(q, i, Writing)
          PROVE  \E o \in Proc : Labelling(o, i, Writing)'
      BY <1>3, <3>1, <3>3 DEF Labelling
    <3> QED BY <2>4, <2>6, <3>2, <3>3 DEF Coming
  <2> QED BY <2>5, <2>7
<1>6. CASE row[i].flagged /\ ~(Enrol(p) /\ call[p].at = i)
  <2>1. ~NoSamples(i)
    BY <1>1, NoneGone
  <2>2. sample'[c][i] = sample[c][i]
    BY <1>1, <1>6, <2>1, Samples DEF Kept
  <2>3. CASE sample[c][i].flagged
    BY <2>2, <2>3
  <2>4. ASSUME NEW q \in Proc, Labelling(q, i, Writing)
        PROVE  \E o \in Proc : Labelling(o, i, Writing)'
    <3>1. CASE q # p
      BY <1>3, <2>4, <3>1
    <3>2. CASE q = p
      <4>1. call[p].kind = "label" /\ call[p].op \in Deciding /\ ~Verifies(p) /\ call[p].at = i
        BY <2>4, <3>2, AtOps DEF Labelling, Deciding, Writing
      <4>2. call'[p].kind = "label" /\ call'[p].at = i /\ call'[p].op \in Writing
        BY <1>1, <1>6, <2>1, <4>1, LabelGoes DEF Writing
      <4>3. Labelling(p, i, Writing)'
        BY <4>2 DEF Labelling
      <4> QED BY <4>3
    <3> QED BY <3>1, <3>2
  <2>5. sample[c][i].flagged \/ \E q \in Proc : Labelling(q, i, Writing)
    BY <1>6, <2>2 DEF DoubtInv
  <2> QED BY <2>3, <2>4, <2>5
<1> QED BY <1>4, <1>5, <1>6

LEMMA DoubtInvKept ==
    ASSUME BankInv, HeardInv, MissedInv, DoubtInv, [Next]_vars
    PROVE  DoubtInv'
<1>1. CallInv /\ GoneTyped /\ GoneInv
  BY DEF BankInv, OwnInv
<1>2. CASE Gentle
  <2>1. ASSUME NEW i \in Item, NEW q \in Proc, Labelling(q, i, Writing), i \notin gone
        PROVE  Labelling(q, i, Writing)'
    BY <1>2, <2>1 DEF Gentle, Labelling, Writing, Telling
  <2>2. ASSUME NEW i \in Item, NEW c \in Char, sample[c][i] # None
        PROVE  i \notin gone
    BY <1>1, <2>2 DEF GoneInv
  <2> QED BY <1>2, <2>1, <2>2 DEF DoubtInv, Gentle, Verdicts
<1>3. ASSUME NEW p \in Proc, Onwards(p), ~Vanished(p)
      PROVE  DoubtInv'
  <2>1. Verdicts' => Verdicts
    BY <1>1, <1>3, Mover DEF Verdicts
  <2> QED BY <1>3, <2>1, DoubtStep DEF DoubtInv
<1>4. ASSUME NEW j \in Item, Claims(j)
      PROVE  DoubtInv'
  <2>1. ASSUME NEW i \in Item
        PROVE  /\ SameDoubt(i) /\ sample' = sample /\ budget' = budget
               /\ \A q \in Proc : Labelling(q, i, Writing) => Labelling(q, i, Writing)'
    <3>1. /\ SameDoubt(i) /\ sample' = sample /\ budget' = budget
          /\ call[Worker].op = "end" /\ \A q \in Proc \ {Worker} : call'[q] = call[q]
      BY <1>1, <1>4, ClaimsCall
    <3> QED BY <3>1 DEF Labelling, Writing
  <2> QED BY <2>1 DEF DoubtInv, SameDoubt, Verdicts
<1>5. ASSUME NEW s \in Char, NEW t \in Char, Merges(s, t)
      PROVE  DoubtInv'
  <2>1. Spent
    BY <1>1, <1>5, UsesBudget DEF Merges
  <2>2. "merge" \in budget'.ops
    BY <1>5, <2>1 DEF Spent, Merges, Uses
  <2> QED BY <2>2 DEF DoubtInv, Verdicts
<1>6. ASSUME NEW e \in Char, NEW j \in Item, NEW on \in BOOLEAN, Flags(e, j, on) \/ Revokes(e, j, on)
      PROVE  DoubtInv'
  <2>1. call' = call
    BY <1>1, <1>6, FlagsData, RevokesData
  <2>2. Spent
    BY <1>1, <1>6, UsesBudget DEF Flags, Revokes
  <2>3. ASSUME Verdicts, NEW i \in Item, NEW c \in Char, row'[i].flagged, sample'[c][i] # None
        PROVE  sample'[c][i].flagged \/ \E q \in Proc : Labelling(q, i, Writing)'
    <3>1. row[i].flagged /\ sample[c][i] # None
      BY <1>1, <1>6, <2>3, FlaggedOn
    <3>2. sample[c][i].flagged => sample'[c][i].flagged
      BY <1>1, <1>6, <2>3, FlaggedOn
    <3>3. sample[c][i].flagged \/ \E q \in Proc : Labelling(q, i, Writing)
      BY <2>3, <3>1 DEF DoubtInv
    <3> QED BY <2>1, <3>2, <3>3 DEF Labelling
  <2> QED BY <2>2, <2>3 DEF DoubtInv, Verdicts, Spent
<1>7. ASSUME NEW e \in Char, Deletes(e)
      PROVE  DoubtInv'
  <2>1. call' = call /\ budget' = budget
    BY <1>7 DEF Deletes
  <2>2. ASSUME NEW i \in Item, NEW c \in Char, sample'[c][i] # None
        PROVE  SameDoubt(i) /\ sample'[c][i] = sample[c][i]
    BY <1>1, <1>7, <2>2, DeletesRow DEF Same
  <2> QED BY <2>1, <2>2 DEF DoubtInv, Verdicts, SameDoubt, Labelling
<1> QED BY <1>1, <1>2, <1>3, <1>4, <1>5, <1>6, <1>7, NextCases

\* What the verdicts rest on, together
VerdictInv == UndoubtedInv /\ HeardInv /\ WorkerFaceInv /\ MissedInv /\ DoubtInv

LEMMA VerdictsHold == Spec => [](BankInv /\ VerdictInv)
<1>1. Init => BankInv /\ VerdictInv
  <2>1. ASSUME Init, NEW p \in Proc
        PROVE  call[p].kind = "none" /\ call[p].op = "end"
    BY <2>1 DEF Init, Idle
  <2>2. Init => HeardInv /\ WorkerFaceInv /\ MissedInv
    BY <2>1 DEF HeardInv, WorkerFaceInv, MissedInv, Missed
  <2>3. Init => UndoubtedInv /\ DoubtInv
    BY InitRows DEF UndoubtedInv, DoubtInv
  <2> QED BY <2>2, <2>3, BankInvInit DEF VerdictInv
<1>2. BankInv /\ VerdictInv /\ [Next]_vars => (BankInv /\ VerdictInv)'
  <2>1. ASSUME BankInv, VerdictInv, [Next]_vars
        PROVE  VerdictInv'
    <3>1. /\ CallInv /\ OwnInv /\ GoneTyped /\ GoneInv
          /\ UndoubtedInv /\ HeardInv /\ WorkerFaceInv /\ MissedInv /\ DoubtInv
      BY <2>1 DEF BankInv, OwnInv, VerdictInv
    <3>2. UndoubtedInv' /\ HeardInv' /\ WorkerFaceInv'
      BY <2>1, <3>1, UndoubtedInvKept, HeardInvKept, WorkerFaceInvKept
    <3>3. MissedInv' /\ DoubtInv'
      BY <2>1, <3>1, MissedInvKept, DoubtInvKept
    <3> QED BY <3>2, <3>3 DEF VerdictInv
  <2> QED BY <2>1, BankInvKept
<1> QED BY <1>1, <1>2, PTL DEF Spec

\* A label confirmed against the evidence (persist_verification) keeps its sample
\* out of the matching until the user restores it, also when the worker enrols
\* the capture while the label is at work.
THEOREM DoubtsExclude == Spec => []DoubtExcludes
<1>1. BankInv /\ VerdictInv => DoubtExcludes
  <2>1. SUFFICES ASSUME UndoubtedInv, DoubtInv, NEW i \in Item, NEW c \in Char, Doubted, Settled(i),
                        row[i].flagged, sample[c][i] # None
                 PROVE  sample[c][i].flagged
    BY DEF DoubtExcludes, VerdictInv
  <2>2. Verdicts
    BY <2>1 DEF Doubted, UndoubtedInv, Verdicts
  <2>3. \A q \in Proc : ~Labelling(q, i, Writing)
    BY <2>1 DEF Settled, Touches, Here, Labelling, Writing
  <2> QED BY <2>1, <2>2, <2>3 DEF DoubtInv
<1> QED BY <1>1, VerdictsHold, PTL
=============================================================================

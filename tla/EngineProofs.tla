------------------------------ MODULE EngineProofs ------------------------------
(***************************************************************************)
(* Proofs about VisionWorker, for any requests, faults and changes of      *)
(* settings, and about FaceRepair, for any captures and any number of      *)
(* repairs. The two share no state; each has an invariant of its own.      *)
(***************************************************************************)
EXTENDS VisionWorker, FaceRepair, FiniteSetTheorems, TLAPS

-----------------------------------------------------------------------------
(* The worker process *)

Lines == Request \cup {None, Health}
Procs == [state : {"none", "live", "exited"}, settings : Nat, todo : Seq(Lines),
          out : Seq([id : Lines, verdict : Results])]

VisionType ==
    /\ req \in [Request -> Req] /\ owner \in Request \cup {None}
    /\ proc \in Procs
    /\ manager \in [fingerprint : {<<>>} \cup {<<n>> : n \in Nat}, cooldown : BOOLEAN]
    /\ settings \in Nat
    /\ source \in [Request -> {"complete", "partial", "missing"}]
    /\ oneshot \subseteq Request

\* Who is beyond the mutex, and who awaits an answer there.
Greeting == {"hello", "helloBusy"}
Reading  == {"read", "readBusy"}
Holding  == {"prepare", "spawn", "ask", "abandon", "stop"} \cup Greeting \cup Reading

\* Nothing is asked and only noise can be read.
Quiet == proc.todo = <<>> /\ \A k \in DOMAIN proc.out : proc.out[k].id = None

\* The line x is unanswered, or has its one answer.
Pending(x) ==
    \/ proc.todo = <<x>> /\ \A k \in DOMAIN proc.out : proc.out[k].id = None
    \/ /\ proc.todo = <<>>
       /\ \A k \in DOMAIN proc.out : proc.out[k].id \in {None, x}
       /\ \A k, l \in DOMAIN proc.out : proc.out[k].id = x /\ proc.out[l].id = x => k = l

\* The process serves the settings it was started under, and is asked by the holder
\* of the mutex only.
World ==
    /\ proc.state # "none" => manager.fingerprint = <<proc.settings>>
    /\ owner = None => Quiet
    /\ \A k \in DOMAIN proc.todo : proc.todo[k] \in {Health, owner}
    /\ \A r \in Request : source[r] = "missing" => r \in missing
    /\ \A k \in DOMAIN proc.out : proc.out[k].verdict = "gone" => proc.out[k].id \in missing
    /\ shutdown = "done" => proc.state = "none"

\* What holds of a request where it stands.
Fits(r) ==
    /\ req[r].pc \in Holding <=> owner = r
    /\ req[r].pc = "spawn" => manager.fingerprint = <<req[r].settings>>
    /\ req[r].pc \in {"ask"} \cup Greeting \cup Reading =>
          proc.state # "none" /\ proc.settings = req[r].settings
    /\ req[r].pc \in {"prepare", "spawn", "ask"} => Quiet
    /\ req[r].pc \in Greeting => Pending(Health)
    /\ req[r].pc \in Reading => Pending(r)
    /\ req[r].by # None => /\ req[r].answered = r /\ req[r].by = req[r].settings
                           /\ req[r].pc = "done"
    /\ req[r].result = "gone" => r \in missing
    /\ r \in oneshot => req[r].pc = "alone"
    /\ shutdown = "done" /\ req[r].pc \in Holding => req[r].pc = "prepare"

VisionInv ==
    /\ VisionType
    /\ World
    /\ \A r \in Request : Fits(r)

-----------------------------------------------------------------------------
(* Lines, processes and records *)

LEMMA Distinct == VisionAssumption => /\ None \notin Request /\ Health \notin Request
                                      /\ None # Health /\ None # "gone"
  BY DEF VisionAssumption

LEMMA NoProcessIs ==
    /\ NoProcess \in Procs /\ NoProcess.state = "none"
    /\ NoProcess.todo = <<>> /\ NoProcess.out = <<>>
  BY DEF NoProcess, Procs

LEMMA TailOf ==
    ASSUME NEW S, NEW s \in Seq(S), s # <<>>
    PROVE  /\ Tail(s) \in Seq(S) /\ Head(s) = s[1] /\ 1 \in DOMAIN s /\ Head(s) \in S
           /\ \A k \in DOMAIN Tail(s) : k + 1 \in DOMAIN s /\ Tail(s)[k] = s[k + 1] /\ k + 1 # 1
  OBVIOUS

LEMMA AppendTo ==
    ASSUME NEW S, NEW s \in Seq(S), NEW x \in S
    PROVE  /\ Append(s, x) \in Seq(S)
           /\ \A k \in DOMAIN Append(s, x) :
                 \/ k \in DOMAIN s /\ Append(s, x)[k] = s[k]
                 \/ k \notin DOMAIN s /\ k = Len(s) + 1 /\ Append(s, x)[k] = x
  OBVIOUS

LEMMA SourceVerdict ==
    ASSUME NEW s
    PROVE  SourceError(s) \in Results /\ (SourceError(s) = "gone" => s = "missing")
  BY DEF SourceError, Results

\* A request that moves to another position, or ends.
Positions == {"idle", "mutex", "prepare", "spawn", "ask", "abandon", "stop", "fallback", "alone",
              "done"} \cup Waiting \cup Busy

LEMMA GoesTo ==
    ASSUME VisionType, NEW r \in Request, NEW pc \in Positions, Goes(r, pc)
    PROVE  /\ req' \in [Request -> Req] /\ req'[r].pc = pc
           /\ req'[r].settings = req[r].settings /\ req'[r].result = req[r].result
           /\ req'[r].answered = req[r].answered /\ req'[r].by = req[r].by
           /\ \A q \in Request \ {r} : req'[q] = req[q]
  <1>1. req[r] \in Req /\ req' = [req EXCEPT ![r] = [req[r] EXCEPT !.pc = pc]]
    BY DEF Goes, VisionType
  <1>2. [req[r] EXCEPT !.pc = pc] \in Req
    BY <1>1 DEF Req, Positions
  <1> QED
    BY <1>1, <1>2 DEF VisionType, Req

LEMMA EndsWith ==
    ASSUME VisionType, NEW r \in Request, NEW result \in Results, Ends(r, result)
    PROVE  /\ req' \in [Request -> Req] /\ req'[r].pc = "done"
           /\ req'[r].settings = req[r].settings /\ req'[r].result = result
           /\ req'[r].answered = req[r].answered /\ req'[r].by = req[r].by
           /\ \A q \in Request \ {r} : req'[q] = req[q]
  <1>1. req[r] \in Req
    BY DEF VisionType
  <1>2. req' = [req EXCEPT ![r] = [req[r] EXCEPT !.pc = "done", !.result = result]]
    BY <1>1 DEF Ends, VisionType, Req
  <1>3. [req[r] EXCEPT !.pc = "done", !.result = result] \in Req
    BY <1>1 DEF Req
  <1> QED
    BY <1>1, <1>2, <1>3 DEF VisionType, Req

\* Who neither has nor gets the mutex is not touched by a step of another.
LEMMA OtherFits ==
    ASSUME VisionInv, NEW q \in Request, req'[q] = req[q], owner # q, owner' # q,
           q \in oneshot' => q \in oneshot, missing \subseteq missing'
    PROVE  Fits(q)'
  BY DEF VisionInv, Fits, Holding, Greeting, Reading

\* A step of a request: another one only sees it if it has the mutex, and then the
\* process and the manager stay.
LEMMA RequestStep ==
    ASSUME VisionAssumption, VisionInv, NEW r \in Request,
           \A q \in Request \ {r} : req'[q] = req[q],
           \/ owner \in {None, r} /\ owner' \in {None, r}
           \/ UNCHANGED <<owner, proc, manager>>,
           shutdown' = shutdown, missing' = missing, oneshot' \subseteq oneshot \cup {r},
           VisionType', World', Fits(r)'
    PROVE  VisionInv'
  <1>1. ASSUME NEW q \in Request \ {r} PROVE Fits(q)'
    <2>1. q \in oneshot' => q \in oneshot
      OBVIOUS
    <2>2. CASE owner # q /\ owner' # q
      BY <2>1, <2>2, OtherFits
    <2>3. CASE owner = q \/ owner' = q
      <3>1. UNCHANGED <<owner, proc, manager>> /\ Fits(q) /\ req'[q] = req[q]
        BY <2>3, Distinct DEF VisionInv
      <3> QED
        BY <2>1, <3>1 DEF Fits, Quiet, Pending
    <2> QED
      BY <2>2, <2>3
  <1> QED
    BY <1>1 DEF VisionInv

-----------------------------------------------------------------------------
(* Requests *)

LEMMA InitInv ==
    ASSUME VisionAssumption, Init
    PROVE  VisionInv
  <1>1. [pc |-> "idle", settings |-> 0, waited |-> FALSE, late |-> FALSE,
         result |-> None, answered |-> None, by |-> None] \in Req
    BY DEF Req, Results
  <1>2. VisionType
    BY <1>1, NoProcessIs DEF Init, VisionType
  <1>3. World
    BY NoProcessIs DEF Init, World, Quiet
  <1>4. \A r \in Request : Fits(r)
    BY Distinct DEF Init, Fits, Holding, Greeting, Reading, Waiting, Busy
  <1> QED
    BY <1>2, <1>3, <1>4 DEF VisionInv

LEMMA SubmitsInv ==
    ASSUME VisionAssumption, VisionInv, NEW r \in Request, Submits(r)
    PROVE  VisionInv'
  <1>1. VisionType /\ World /\ Fits(r) /\ req[r].pc = "idle"
    BY DEF VisionInv, Submits
  <1>2. UNCHANGED <<owner, proc, manager, settings, source, oneshot, shutdown, missing>>
    BY DEF Submits
  <1>3. /\ req' \in [Request -> Req] /\ \A q \in Request \ {r} : req'[q] = req[q]
        /\ req'[r].pc \in {"done", "mutex"} /\ req'[r].by = req[r].by
        /\ req'[r].result = "gone" => req[r].result = "gone" \/ source[r] = "missing"
    <2>1. CASE SourceError(source[r]) # "ok" /\ Ends(r, SourceError(source[r]))
      BY <1>1, <2>1, EndsWith, SourceVerdict
    <2>2. CASE Ends(r, "error")
      BY <1>1, <2>2, EndsWith DEF Results
    <2>3. CASE req' = [req EXCEPT ![r].pc = "mutex", ![r].settings = settings]
      <3>1. req[r] \in Req /\ settings \in Nat
        BY <1>1 DEF VisionType
      <3>2. req' = [req EXCEPT ![r] = [req[r] EXCEPT !.pc = "mutex", !.settings = settings]]
        BY <1>1, <2>3, <3>1 DEF VisionType, Req
      <3>3. [req[r] EXCEPT !.pc = "mutex", !.settings = settings] \in Req
        BY <3>1 DEF Req
      <3> QED
        BY <1>1, <3>1, <3>2, <3>3 DEF VisionType, Req
    <2> QED
      BY <2>1, <2>2, <2>3 DEF Submits
  <1>4. req[r].by = None /\ owner # r /\ r \notin oneshot
    BY <1>1 DEF Fits, Holding, Greeting, Reading
  <1>5. VisionType'
    BY <1>1, <1>2, <1>3 DEF VisionType
  <1>6. World'
    BY <1>1, <1>2 DEF World, Quiet
  <1>7. Fits(r)'
    BY <1>1, <1>2, <1>3, <1>4 DEF Fits, Holding, Greeting, Reading, World
  <1> QED
    BY <1>2, <1>3, <1>5, <1>6, <1>7, RequestStep

LEMMA LocksInv ==
    ASSUME VisionAssumption, VisionInv, NEW r \in Request, Locks(r)
    PROVE  VisionInv'
  <1>1. VisionType /\ World /\ Fits(r) /\ req[r].pc = "mutex" /\ req[r] \in Req
    BY DEF VisionInv, VisionType, Locks
  <1>2. UNCHANGED <<proc, manager, settings, source, oneshot, shutdown, missing>>
        /\ owner = None /\ owner' = r
    BY DEF Locks
  <1>3. /\ req' \in [Request -> Req] /\ \A q \in Request \ {r} : req'[q] = req[q]
        /\ req'[r].pc = "prepare" /\ req'[r].by = req[r].by /\ req'[r].result = req[r].result
    <2> PICK waited \in BOOLEAN : req' = [req EXCEPT ![r].pc = "prepare", ![r].waited = waited]
      BY DEF Locks
    <2>1. req' = [req EXCEPT ![r] = [req[r] EXCEPT !.pc = "prepare", !.waited = waited]]
      BY <1>1 DEF VisionType, Req
    <2>2. [req[r] EXCEPT !.pc = "prepare", !.waited = waited] \in Req
      BY <1>1 DEF Req
    <2> QED
      BY <1>1, <2>1, <2>2 DEF VisionType, Req
  <1>4. req[r].by = None /\ r \notin oneshot /\ Quiet
    BY <1>1, <1>2 DEF Fits, World
  <1>5. VisionType'
    BY <1>1, <1>2, <1>3 DEF VisionType
  <1>6. World'
    BY <1>1, <1>2, <1>4, Distinct DEF World, Quiet
  <1>7. Fits(r)'
    BY <1>1, <1>2, <1>3, <1>4 DEF Fits, Holding, Greeting, Reading, Quiet
  <1> QED
    BY <1>2, <1>3, <1>5, <1>6, <1>7, RequestStep

LEMMA PreparesInv ==
    ASSUME VisionAssumption, VisionInv, NEW r \in Request, Prepares(r)
    PROVE  VisionInv'
  <1> DEFINE same == manager.fingerprint = <<req[r].settings>>
             kept == IF same THEN proc ELSE NoProcess
             pc == IF kept.state = "none" THEN "spawn" ELSE "ask"
  <1>1. VisionType /\ World /\ Fits(r) /\ req[r].pc = "prepare" /\ req[r] \in Req
    BY DEF VisionInv, VisionType, Prepares
  <1>2. UNCHANGED <<owner, settings, source, oneshot, shutdown, missing>> /\ ~Down
        /\ proc' = kept /\ Goes(r, pc)
        /\ manager' = IF same THEN manager
                      ELSE [fingerprint |-> <<req[r].settings>>, cooldown |-> FALSE]
    BY DEF Prepares
  <1>3. pc \in Positions
    BY DEF Positions
  <1>4. manager'.fingerprint = <<req[r].settings>> /\ req[r].settings \in Nat
    BY <1>1, <1>2 DEF Req
  <1>5. Quiet /\ owner = r
    BY <1>1 DEF Fits, Holding
  <1>6. Quiet' /\ kept \in Procs /\ (kept.state # "none" => kept.settings = req[r].settings)
    <2>1. CASE same
      BY <1>1, <1>2, <1>5, <2>1 DEF Quiet, World, VisionType
    <2>2. CASE ~same
      BY <1>2, <2>2, NoProcessIs DEF Quiet
    <2> QED
      BY <2>1, <2>2
  <1>7. manager' \in [fingerprint : {<<>>} \cup {<<n>> : n \in Nat}, cooldown : BOOLEAN]
    BY <1>1, <1>2, <1>4 DEF VisionType
  <1> HIDE DEF same, kept
  <1>8. /\ req' \in [Request -> Req] /\ \A q \in Request \ {r} : req'[q] = req[q]
        /\ req'[r].pc = pc /\ req'[r].by = req[r].by /\ req'[r].result = req[r].result
        /\ req'[r].settings = req[r].settings
    BY <1>1, <1>2, <1>3, GoesTo
  <1>9. VisionType'
    BY <1>1, <1>2, <1>6, <1>7, <1>8 DEF VisionType
  <1>10. World'
    BY <1>1, <1>2, <1>4, <1>5, <1>6, NoProcessIs DEF World, Quiet, Down, kept
  <1>11. Fits(r)'
    BY <1>1, <1>2, <1>4, <1>5, <1>6, <1>8 DEF Fits, Holding, Greeting, Reading, Down
  <1> QED
    BY <1>2, <1>5, <1>8, <1>9, <1>10, <1>11, RequestStep

LEMMA SpawnsInv ==
    ASSUME VisionAssumption, VisionInv, NEW r \in Request, Spawns(r)
    PROVE  VisionInv'
  <1> DEFINE pc == IF Down THEN "abandon" ELSE "helloBusy"
             new == [state |-> "live", settings |-> req[r].settings, todo |-> <<Health>>,
                     out |-> <<>>]
  <1>1. VisionType /\ World /\ Fits(r) /\ req[r].pc = "spawn" /\ req[r] \in Req
    BY DEF VisionInv, VisionType, Spawns
  <1>2. UNCHANGED <<owner, manager, settings, source, oneshot, shutdown, missing>>
        /\ proc' = new /\ Goes(r, pc)
    BY DEF Spawns
  <1>3. pc \in Positions /\ (shutdown = "done" => pc = "abandon")
    BY DEF Positions, Busy, Down
  <1>4. /\ req' \in [Request -> Req] /\ \A q \in Request \ {r} : req'[q] = req[q]
        /\ req'[r].pc = pc /\ req'[r].by = req[r].by /\ req'[r].result = req[r].result
        /\ req'[r].settings = req[r].settings
    BY <1>1, <1>2, <1>3, GoesTo
  <1>5. new \in Procs
    BY <1>1 DEF Procs, Req, Lines
  <1>6. /\ new.state = "live" /\ new.settings = req[r].settings /\ new.todo = <<Health>>
        /\ new.out = <<>>
    OBVIOUS
  <1> HIDE DEF new
  <1>7. owner = r /\ manager.fingerprint = <<req[r].settings>> /\ shutdown # "done"
    BY <1>1 DEF Fits, Holding
  <1>8. VisionType'
    BY <1>1, <1>2, <1>4, <1>5 DEF VisionType
  <1>9. World'
    BY <1>1, <1>2, <1>6, <1>7, Distinct DEF World
  <1>10. Pending(Health)'
    BY <1>2, <1>6 DEF Pending
  <1>11. Fits(r)'
    BY <1>1, <1>2, <1>4, <1>6, <1>7, <1>10 DEF Fits, Holding, Greeting, Reading
  <1> QED
    BY <1>2, <1>4, <1>7, <1>8, <1>9, <1>11, RequestStep

\* A request that stays with the mutex, or gives it back, and leaves the process.
LEMMA ProcKept ==
    ASSUME VisionAssumption, VisionInv, NEW r \in Request, NEW pc \in Positions,
           /\ req' \in [Request -> Req] /\ \A q \in Request \ {r} : req'[q] = req[q]
           /\ req'[r].pc = pc /\ req'[r].by = req[r].by /\ req'[r].settings = req[r].settings
           /\ req'[r].result = "gone" => req[r].result = "gone",
           UNCHANGED <<proc, settings, source, shutdown, missing>>,
           \/ owner = r /\ pc \in Holding \ {"prepare", "spawn", "ask"} /\ owner' = owner
              /\ (pc \in Greeting => req[r].pc \in Greeting)
              /\ (pc \in Reading => req[r].pc \in Reading)
           \/ owner = r /\ pc \notin Holding /\ owner' = None /\ Quiet
           \/ owner # r /\ pc \notin Holding /\ owner' = owner,
           req[r].by = None,
           manager' \in [fingerprint : {<<>>} \cup {<<n>> : n \in Nat}, cooldown : BOOLEAN],
           manager'.fingerprint = manager.fingerprint,
           owner # r => manager' = manager,
           oneshot' \subseteq oneshot \cup {r}, r \in oneshot' => pc = "alone",
           shutdown = "done" /\ pc \in Holding => FALSE
    PROVE  VisionInv'
  <1>1. VisionType /\ World /\ Fits(r)
    BY DEF VisionInv
  <1>2. VisionType'
    BY <1>1 DEF VisionType
  <1>3. World'
    BY <1>1 DEF World, Quiet
  <1>4. Fits(r)'
    BY <1>1, Distinct DEF Fits, Holding, Greeting, Reading, Quiet, Pending
  <1> QED
    BY <1>2, <1>3, <1>4, RequestStep, Distinct

LEMMA SpawnFailsInv ==
    ASSUME VisionAssumption, VisionInv, NEW r \in Request, SpawnFails(r)
    PROVE  VisionInv'
  <1>1. VisionType /\ Fits(r) /\ req[r].pc = "spawn" /\ Goes(r, "fallback")
    BY DEF VisionInv, SpawnFails
  <1>2. "fallback" \in Positions /\ "fallback" \notin Holding /\ "fallback" # "alone"
    BY DEF Positions, Holding, Greeting, Reading
  <1>3. owner = r /\ Quiet /\ req[r].by = None /\ r \notin oneshot
    BY <1>1 DEF Fits, Holding
  <1>4. manager' \in [fingerprint : {<<>>} \cup {<<n>> : n \in Nat}, cooldown : BOOLEAN]
        /\ manager'.fingerprint = manager.fingerprint
    BY <1>1 DEF SpawnFails, VisionType
  <1> QED
    BY <1>1, <1>2, <1>3, <1>4, GoesTo, ProcKept DEF SpawnFails, Releases

LEMMA AsksInv ==
    ASSUME VisionAssumption, VisionInv, NEW r \in Request, Asks(r)
    PROVE  VisionInv'
  <1>1. VisionType /\ World /\ Fits(r) /\ req[r].pc = "ask" /\ req[r] \in Req
    BY DEF VisionInv, VisionType, Asks
  <1>2. UNCHANGED <<owner, manager, settings, source, oneshot, shutdown, missing>>
    BY DEF Asks
  <1>3. owner = r /\ Quiet /\ req[r].by = None /\ r \notin oneshot /\ shutdown # "done"
        /\ proc.state # "none" /\ proc.settings = req[r].settings
    BY <1>1 DEF Fits, Holding
  <1>4. {"stop", "readBusy"} \subseteq Positions /\ {"stop", "readBusy"} \subseteq Holding
        /\ {"prepare", "spawn", "ask"} \cap {"stop"} = {} /\ "stop" \notin Greeting \cup Reading
    BY DEF Positions, Busy, Holding, Reading, Greeting
  <1>5. CASE Goes(r, "stop") /\ UNCHANGED proc
    <2>1. manager \in [fingerprint : {<<>>} \cup {<<n>> : n \in Nat}, cooldown : BOOLEAN]
      BY <1>1 DEF VisionType
    <2> QED
      BY <1>1, <1>2, <1>3, <1>4, <1>5, <2>1, GoesTo, ProcKept
  <1>6. CASE /\ proc' = [proc EXCEPT !.todo = Append(@, r)]
             /\ Goes(r, IF Down THEN "stop" ELSE "readBusy")
    <2>1. proc.todo = <<>> /\ proc.todo \in Seq(Lines) /\ proc \in Procs /\ r \in Lines
      BY <1>1, <1>3 DEF Quiet, VisionType, Procs, Lines
    <2>2. Append(proc.todo, r) = <<r>> /\ <<r>> \in Seq(Lines)
      BY <2>1
    <2>3. /\ proc' \in Procs /\ proc'.todo = <<r>> /\ proc'.out = proc.out
          /\ proc'.state = proc.state /\ proc'.settings = proc.settings
      BY <1>6, <2>1, <2>2 DEF Procs
    <2>4. /\ req' \in [Request -> Req] /\ \A q \in Request \ {r} : req'[q] = req[q]
          /\ req'[r].pc \in {"stop", "readBusy"} /\ req'[r].by = req[r].by
          /\ req'[r].result = req[r].result /\ req'[r].settings = req[r].settings
      BY <1>1, <1>4, <1>6, GoesTo
    <2>5. VisionType'
      BY <1>1, <1>2, <2>3, <2>4 DEF VisionType
    <2>6. World'
      BY <1>1, <1>2, <1>3, <2>3, Distinct DEF World
    <2>7. Pending(r)'
      BY <1>3, <2>3 DEF Pending, Quiet
    <2>8. Fits(r)'
      BY <1>1, <1>2, <1>3, <2>3, <2>4, <2>7 DEF Fits, Holding, Greeting, Reading
    <2> QED
      BY <1>2, <1>3, <2>4, <2>5, <2>6, <2>8, RequestStep
  <1> QED
    BY <1>5, <1>6 DEF Asks

\* A request that waits has the mutex and no answer yet.
LEMMA WaitingFacts ==
    ASSUME VisionAssumption, VisionInv, NEW r \in Request, req[r].pc \in Waiting \cup Busy
    PROVE  /\ owner = r /\ req[r].by = None /\ r \notin oneshot /\ shutdown # "done"
           /\ proc.state # "none" /\ proc.settings = req[r].settings
           /\ req[r].pc \in {"hello", "helloBusy"} => Pending(Health)
           /\ req[r].pc \in {"read", "readBusy"} => Pending(r)
  BY DEF VisionInv, Fits, Waiting, Busy, Holding, Greeting, Reading

LEMMA WaitsInv ==
    ASSUME VisionAssumption, VisionInv, NEW r \in Request, Waits(r) \/ TakesLine(r)
    PROVE  VisionInv'
  <1>1. req[r].pc \in Waiting \cup Busy
    BY DEF Waits, TakesLine
  <1>2. PICK pc \in Waiting \cup Busy :
           /\ Goes(r, pc)
           /\ pc \in {"hello", "helloBusy"} <=> req[r].pc \in {"hello", "helloBusy"}
    BY DEF Waits, TakesLine, Waiting, Busy
  <1>3. UNCHANGED <<owner, proc, manager, settings, source, oneshot, shutdown, missing>>
    BY DEF Waits, TakesLine
  <1>4. pc \in Positions /\ pc \in Holding \ {"prepare", "spawn", "ask"}
        /\ (pc \in Greeting => req[r].pc \in Greeting)
        /\ (pc \in Reading => req[r].pc \in Reading)
    BY <1>1, <1>2 DEF Positions, Waiting, Busy, Holding, Greeting, Reading
  <1>5. VisionType
    BY DEF VisionInv
  <1>6. manager \in [fingerprint : {<<>>} \cup {<<n>> : n \in Nat}, cooldown : BOOLEAN]
    BY <1>5 DEF VisionType
  <1> QED
    BY <1>1, <1>2, <1>3, <1>4, <1>5, <1>6, WaitingFacts, GoesTo, ProcKept

\* The way out after a failure.
LEMMA FailedIs ==
    ASSUME NEW r
    PROVE  /\ Failed(r) \in {"abandon", "stop"} /\ Failed(r) \in Positions
           /\ Failed(r) \in Holding \ {"prepare", "spawn", "ask"}
           /\ Failed(r) \notin Greeting \cup Reading
  BY DEF Failed, Positions, Holding, Greeting, Reading

LEMMA FailsInv ==
    ASSUME VisionAssumption, VisionInv, NEW r \in Request, req[r].pc \in Waiting,
           Goes(r, Failed(r)),
           UNCHANGED <<owner, proc, manager, settings, source, oneshot, shutdown, missing>>
    PROVE  VisionInv'
  <1>1. VisionType
    BY DEF VisionInv
  <1>2. manager \in [fingerprint : {<<>>} \cup {<<n>> : n \in Nat}, cooldown : BOOLEAN]
    BY <1>1 DEF VisionType
  <1> QED
    BY <1>1, <1>2, FailedIs, WaitingFacts, GoesTo, ProcKept

\* What is left when the one answer was read is noise.
LEMMA AnswerRead ==
    ASSUME VisionAssumption, VisionInv, NEW r \in Request, NEW x \in Request \cup {Health},
           owner = r, Pending(x), proc.out # <<>>, Head(proc.out).id = x,
           proc' = [proc EXCEPT !.out = Tail(@)]
    PROVE  /\ proc' \in Procs /\ Quiet' /\ proc'.state = proc.state
           /\ proc'.settings = proc.settings /\ proc'.todo = proc.todo
           /\ \A k \in DOMAIN proc'.out : k + 1 \in DOMAIN proc.out /\ proc'.out[k] = proc.out[k + 1]
           /\ Head(proc.out) = proc.out[1] /\ 1 \in DOMAIN proc.out
           /\ Head(proc.out) \in [id : Lines, verdict : Results]
  <1>1. proc \in Procs /\ proc.out \in Seq([id : Lines, verdict : Results])
    BY DEF VisionInv, VisionType, Procs
  <1>2. /\ Tail(proc.out) \in Seq([id : Lines, verdict : Results]) /\ Head(proc.out) = proc.out[1]
        /\ 1 \in DOMAIN proc.out /\ Head(proc.out) \in [id : Lines, verdict : Results]
        /\ \A k \in DOMAIN Tail(proc.out) : /\ k + 1 \in DOMAIN proc.out /\ k + 1 # 1
                                            /\ Tail(proc.out)[k] = proc.out[k + 1]
    BY <1>1, TailOf
  <1>3. /\ proc' \in Procs /\ proc'.out = Tail(proc.out) /\ proc'.state = proc.state
        /\ proc'.settings = proc.settings /\ proc'.todo = proc.todo
    BY <1>1, <1>2 DEF Procs
  <1>4. x # None
    BY Distinct
  <1>5. Quiet'
    BY <1>2, <1>3, <1>4 DEF Pending, Quiet
  <1> QED
    BY <1>2, <1>3, <1>5

LEMMA ReadsInv ==
    ASSUME VisionAssumption, VisionInv, NEW r \in Request, Reads(r)
    PROVE  VisionInv'
  <1> DEFINE line == Head(proc.out)
  <1>1. VisionType /\ World /\ Fits(r) /\ req[r].pc \in Waiting /\ req[r] \in Req
    BY DEF VisionInv, VisionType, Reads
  <1>2. UNCHANGED <<manager, settings, source, oneshot, shutdown, missing>> /\ proc.out # <<>>
    BY DEF Reads
  <1>3. owner = r /\ req[r].by = None /\ r \notin oneshot /\ shutdown # "done"
        /\ proc.state # "none" /\ proc.settings = req[r].settings
    BY <1>1, WaitingFacts
  <1>4. CASE ~Matches(r, line)
    BY <1>1, <1>4, FailsInv DEF Reads
  <1>5. CASE Matches(r, line) /\ req[r].pc = "hello"
    <2>1. line.id = Health /\ Pending(Health) /\ proc' = [proc EXCEPT !.out = Tail(@)]
          /\ Goes(r, "ask") /\ owner' = owner
      BY <1>1, <1>5, WaitingFacts DEF Reads, Matches, Expected, Accepts
    <2>2. /\ proc' \in Procs /\ Quiet' /\ proc'.state = proc.state
          /\ proc'.settings = proc.settings /\ proc'.todo = proc.todo
          /\ \A k \in DOMAIN proc'.out : k + 1 \in DOMAIN proc.out /\ proc'.out[k] = proc.out[k + 1]
      BY <1>2, <1>3, <2>1, AnswerRead
    <2>3. /\ req' \in [Request -> Req] /\ \A q \in Request \ {r} : req'[q] = req[q]
          /\ req'[r].pc = "ask" /\ req'[r].by = req[r].by
          /\ req'[r].result = req[r].result /\ req'[r].settings = req[r].settings
      BY <1>1, <2>1, GoesTo DEF Positions
    <2>4. VisionType'
      BY <1>1, <1>2, <2>1, <2>2, <2>3 DEF VisionType
    <2>5. World'
      BY <1>1, <1>2, <1>3, <2>1, <2>2, Distinct DEF World
    <2>6. Fits(r)'
      BY <1>1, <1>2, <1>3, <2>1, <2>2, <2>3 DEF Fits, Holding, Greeting, Reading
    <2> QED
      BY <1>2, <1>3, <2>1, <2>3, <2>4, <2>5, <2>6, RequestStep
  <1>6. CASE Matches(r, line) /\ req[r].pc = "read"
    <2>1. line.id = r /\ Pending(r) /\ proc' = [proc EXCEPT !.out = Tail(@)] /\ owner' = None
          /\ req' = [req EXCEPT ![r].pc = "done", ![r].result = line.verdict,
                                ![r].answered = line.id, ![r].by = proc.settings]
      BY <1>1, <1>6, WaitingFacts DEF Reads, Matches, Expected, Accepts, Releases
    <2>2. /\ proc' \in Procs /\ Quiet' /\ proc'.state = proc.state
          /\ proc'.settings = proc.settings /\ proc'.todo = proc.todo
          /\ \A k \in DOMAIN proc'.out : k + 1 \in DOMAIN proc.out /\ proc'.out[k] = proc.out[k + 1]
          /\ line = proc.out[1] /\ 1 \in DOMAIN proc.out
          /\ line \in [id : Lines, verdict : Results]
      BY <1>2, <1>3, <2>1, AnswerRead
    <2>3. line.verdict \in Results /\ (line.verdict = "gone" => r \in missing)
      BY <1>1, <2>1, <2>2 DEF World
    <2> HIDE DEF line
    <2> DEFINE q == [req[r] EXCEPT !.pc = "done", !.result = line.verdict, !.answered = line.id,
                                   !.by = proc.settings]
    <2>4. proc.settings \in Nat
      BY <1>1 DEF VisionType, Procs
    <2>5. q \in Req /\ q.pc = "done" /\ q.result = line.verdict /\ q.answered = r
          /\ q.by = proc.settings /\ q.settings = req[r].settings
      BY <1>1, <2>1, <2>3, <2>4 DEF Req
    <2>6. req' = [req EXCEPT ![r] = q]
      BY <1>1, <2>1 DEF VisionType, Req
    <2> HIDE DEF q
    <2>7. req' \in [Request -> Req] /\ req'[r] = q /\ \A p \in Request \ {r} : req'[p] = req[p]
      BY <1>1, <2>5, <2>6 DEF VisionType
    <2>8. VisionType'
      BY <1>1, <1>2, <2>1, <2>2, <2>7 DEF VisionType
    <2>9. World'
      BY <1>1, <1>2, <2>1, <2>2, Distinct DEF World, Quiet
    <2>10. Fits(r)'
      BY <1>2, <1>3, <2>1, <2>3, <2>5, <2>7, Distinct DEF Fits, Holding, Greeting, Reading
    <2> QED
      BY <1>2, <1>3, <2>1, <2>7, <2>8, <2>9, <2>10, RequestStep
  <1> QED
    BY <1>1, <1>4, <1>5, <1>6 DEF Waiting

LEMMA GivesUpInv ==
    ASSUME VisionAssumption, VisionInv, NEW r \in Request, GivesUp(r)
    PROVE  VisionInv'
  BY FailsInv DEF GivesUp

LEMMA TimesOutInv ==
    ASSUME VisionAssumption, VisionInv, NEW r \in Request, TimesOut(r)
    PROVE  VisionInv'
  <1> DEFINE late == req[r].pc # "hello" \/ req[r].waited
             result == IF req[r].pc = "alone" THEN "error" ELSE req[r].result
             q == [req[r] EXCEPT !.late = late, !.pc = AfterTimeout(r), !.result = result]
  <1>1. VisionType /\ Fits(r) /\ req[r] \in Req
        /\ req[r].pc \in Waiting \cup {"mutex", "ask", "alone"}
    BY DEF VisionInv, VisionType, TimesOut
  <1>2. AfterTimeout(r) \in Positions /\ late \in BOOLEAN /\ result \in Results
    BY <1>1, FailedIs DEF AfterTimeout, Positions, Req, Results
  <1>3. req' = [req EXCEPT ![r] = q]
    BY <1>1 DEF TimesOut, VisionType, Req
  <1>4. result = "gone" => req[r].result = "gone"
    OBVIOUS
  <1> HIDE DEF late, result
  <1>5. q \in Req /\ q.pc = AfterTimeout(r) /\ q.result = result /\ q.by = req[r].by
        /\ q.settings = req[r].settings
    BY <1>1, <1>2 DEF Req, Positions
  <1> HIDE DEF q
  <1>6. /\ req' \in [Request -> Req] /\ \A p \in Request \ {r} : req'[p] = req[p]
        /\ req'[r].pc = AfterTimeout(r) /\ req'[r].by = req[r].by
        /\ req'[r].settings = req[r].settings
        /\ req'[r].result = "gone" => req[r].result = "gone"
    BY <1>1, <1>3, <1>4, <1>5 DEF VisionType
  <1>7. req[r].by = None
    BY <1>1 DEF Fits, Waiting
  <1>8. \/ /\ owner = r /\ shutdown # "done" /\ AfterTimeout(r) = Failed(r)
        \/ owner # r /\ AfterTimeout(r) \in {"fallback", "done"}
    BY <1>1 DEF Fits, Waiting, Holding, Greeting, Reading, AfterTimeout
  <1>9. {"fallback", "done"} \cap Holding = {}
    BY DEF Holding, Greeting, Reading
  <1>10. manager' \in [fingerprint : {<<>>} \cup {<<n>> : n \in Nat}, cooldown : BOOLEAN]
         /\ manager' = manager
    BY <1>1 DEF VisionType, TimesOut
  <1>11. UNCHANGED <<owner, proc, settings, source, shutdown, missing>> /\ oneshot' = oneshot \ {r}
    BY DEF TimesOut
  <1> QED
    BY <1>2, <1>6, <1>7, <1>8, <1>9, <1>10, <1>11, FailedIs, ProcKept

\* The process goes, and the mutex with it.
LEMMA StopsInv ==
    ASSUME VisionAssumption, VisionInv, NEW r \in Request, Abandons(r) \/ Stops(r)
    PROVE  VisionInv'
  <1>1. VisionType /\ World /\ Fits(r) /\ req[r].pc \in {"abandon", "stop"} /\ Goes(r, "fallback")
        /\ proc' = NoProcess /\ owner' = None
    BY DEF VisionInv, Abandons, Stops, Releases
  <1>2. UNCHANGED <<settings, source, oneshot, shutdown, missing>>
        /\ manager' \in {manager, [manager EXCEPT !.cooldown = TRUE]}
    BY DEF Abandons, Stops
  <1>3. manager' \in [fingerprint : {<<>>} \cup {<<n>> : n \in Nat}, cooldown : BOOLEAN]
    BY <1>1, <1>2 DEF VisionType
  <1>4. owner = r /\ req[r].by = None /\ r \notin oneshot
    BY <1>1 DEF Fits, Holding
  <1>5. /\ req' \in [Request -> Req] /\ \A q \in Request \ {r} : req'[q] = req[q]
        /\ req'[r].pc = "fallback" /\ req'[r].by = req[r].by
        /\ req'[r].result = req[r].result /\ req'[r].settings = req[r].settings
    BY <1>1, GoesTo DEF Positions
  <1>6. VisionType'
    BY <1>1, <1>2, <1>3, <1>5, NoProcessIs DEF VisionType
  <1>7. World'
    BY <1>1, <1>2, NoProcessIs DEF World, Quiet
  <1>8. Fits(r)'
    BY <1>1, <1>2, <1>4, <1>5, Distinct DEF Fits, Holding, Greeting, Reading
  <1> QED
    BY <1>1, <1>2, <1>4, <1>5, <1>6, <1>7, <1>8, RequestStep

LEMMA RefusesInv ==
    ASSUME VisionAssumption, VisionInv, NEW r \in Request, Refuses(r)
    PROVE  VisionInv'
  <1>1. VisionType /\ Fits(r) /\ req[r].pc = "prepare" /\ Goes(r, "fallback")
    BY DEF VisionInv, Refuses
  <1>2. "fallback" \in Positions /\ "fallback" \notin Holding /\ "fallback" # "alone"
    BY DEF Positions, Holding, Greeting, Reading
  <1>3. owner = r /\ Quiet /\ req[r].by = None /\ r \notin oneshot
    BY <1>1 DEF Fits, Holding
  <1>4. manager' \in [fingerprint : {<<>>} \cup {<<n>> : n \in Nat}, cooldown : BOOLEAN]
        /\ manager'.fingerprint = manager.fingerprint
    BY <1>1 DEF Refuses, VisionType
  <1> QED
    BY <1>1, <1>2, <1>3, <1>4, GoesTo, ProcKept DEF Refuses, Releases

LEMMA FallsBackInv ==
    ASSUME VisionAssumption, VisionInv, NEW r \in Request, FallsBack(r)
    PROVE  VisionInv'
  <1>1. VisionType /\ Fits(r) /\ req[r].pc = "fallback"
    BY DEF VisionInv, FallsBack
  <1>2. {"alone", "done"} \subseteq Positions /\ {"alone", "done"} \cap Holding = {}
    BY DEF Positions, Holding, Greeting, Reading
  <1>3. owner # r /\ req[r].by = None /\ r \notin oneshot
    BY <1>1 DEF Fits, Holding, Greeting, Reading
  <1>4. manager \in [fingerprint : {<<>>} \cup {<<n>> : n \in Nat}, cooldown : BOOLEAN]
    BY <1>1 DEF VisionType
  <1>5. UNCHANGED <<owner, proc, manager, settings, source, shutdown, missing>>
    BY DEF FallsBack
  <1>6. CASE Ends(r, "error") /\ UNCHANGED oneshot
    <2>1. /\ req' \in [Request -> Req] /\ \A q \in Request \ {r} : req'[q] = req[q]
          /\ req'[r].pc = "done" /\ req'[r].by = req[r].by /\ req'[r].settings = req[r].settings
          /\ req'[r].result = "error"
      BY <1>1, <1>6, EndsWith DEF Results
    <2> QED
      BY <1>2, <1>3, <1>4, <1>5, <1>6, <2>1, ProcKept
  <1>7. CASE Goes(r, "alone") /\ oneshot' = oneshot \cup {r}
    BY <1>1, <1>2, <1>3, <1>4, <1>5, <1>7, GoesTo, ProcKept
  <1> QED
    BY <1>6, <1>7 DEF FallsBack

LEMMA AloneInv ==
    ASSUME VisionAssumption, VisionInv, NEW r \in Request, Alone(r)
    PROVE  VisionInv'
  <1>1. VisionType /\ World /\ Fits(r) /\ req[r].pc = "alone" /\ req[r] \in Req
    BY DEF VisionInv, VisionType, Alone
  <1>2. "done" \in Positions /\ "done" \notin Holding
    BY DEF Positions, Holding, Greeting, Reading
  <1>3. owner # r /\ req[r].by = None
    BY <1>1 DEF Fits, Holding, Greeting, Reading
  <1>4. manager \in [fingerprint : {<<>>} \cup {<<n>> : n \in Nat}, cooldown : BOOLEAN]
    BY <1>1 DEF VisionType
  <1>5. UNCHANGED <<owner, proc, manager, settings, source, shutdown, missing>>
        /\ oneshot' = oneshot \ {r}
    BY DEF Alone
  <1>6. CASE Ends(r, "error")
    <2>1. /\ req' \in [Request -> Req] /\ \A q \in Request \ {r} : req'[q] = req[q]
          /\ req'[r].pc = "done" /\ req'[r].by = req[r].by /\ req'[r].settings = req[r].settings
          /\ req'[r].result = "error"
      BY <1>1, <1>6, EndsWith DEF Results
    <2> QED
      BY <1>2, <1>3, <1>4, <1>5, <2>1, ProcKept
  <1>7. CASE req' = [req EXCEPT ![r].pc = "done", ![r].result = SourceError(source[r]),
                                ![r].answered = r, ![r].by = req[r].settings]
    <2> DEFINE v == SourceError(source[r])
               q == [req[r] EXCEPT !.pc = "done", !.result = v, !.answered = r,
                                   !.by = req[r].settings]
    <2>1. v \in Results /\ (v = "gone" => r \in missing)
      BY <1>1, SourceVerdict DEF World
    <2>2. req' = [req EXCEPT ![r] = q]
      BY <1>1, <1>7 DEF VisionType, Req
    <2> HIDE DEF v
    <2>3. q \in Req /\ q.pc = "done" /\ q.result = v /\ q.answered = r
          /\ q.by = req[r].settings /\ q.settings = req[r].settings
      BY <1>1, <2>1 DEF Req
    <2> HIDE DEF q
    <2>4. req' \in [Request -> Req] /\ req'[r] = q /\ \A p \in Request \ {r} : req'[p] = req[p]
      BY <1>1, <2>2, <2>3 DEF VisionType
    <2>5. VisionType'
      BY <1>1, <1>5, <2>4 DEF VisionType
    <2>6. World'
      BY <1>1, <1>5 DEF World, Quiet
    <2>7. Fits(r)'
      BY <1>2, <1>3, <1>5, <2>1, <2>3, <2>4 DEF Fits, Holding, Greeting, Reading
    <2> QED
      BY <1>5, <2>4, <2>5, <2>6, <2>7, RequestStep
  <1> QED
    BY <1>6, <1>7 DEF Alone

-----------------------------------------------------------------------------
(* The process, time, settings, screenshots and the shutdown *)

LEMMA AnswersInv ==
    ASSUME VisionAssumption, VisionInv, Answers
    PROVE  VisionInv'
  <1> DEFINE id == Head(proc.todo)
             verdict == IF id = Health THEN "ok" ELSE SourceError(source[id])
             line == [id |-> id, verdict |-> verdict]
  <1>1. VisionType /\ World /\ proc \in Procs /\ proc.todo \in Seq(Lines) /\ proc.todo # <<>>
        /\ proc.out \in Seq([id : Lines, verdict : Results])
    BY DEF VisionInv, VisionType, Answers, Procs
  <1>2. UNCHANGED <<req, owner, manager, settings, source, oneshot, shutdown, missing>>
        /\ proc.state = "live"
        /\ proc' = [proc EXCEPT !.todo = Tail(@), !.out = Append(@, line)]
    BY DEF Answers
  <1>3. Tail(proc.todo) \in Seq(Lines) /\ id = proc.todo[1] /\ 1 \in DOMAIN proc.todo /\ id \in Lines
        /\ \A k \in DOMAIN Tail(proc.todo) : /\ k + 1 \in DOMAIN proc.todo
                                             /\ Tail(proc.todo)[k] = proc.todo[k + 1]
    BY <1>1, TailOf
  <1>4. id \in {Health, owner} /\ ~Quiet /\ owner \in Request
    BY <1>1, <1>3, Distinct DEF World, Quiet, VisionType
  <1>5. verdict \in Results /\ (verdict = "gone" => id \in missing)
    BY <1>1, <1>4, SourceVerdict DEF World, Results
  <1> HIDE DEF id, verdict
  <1>6. line \in [id : Lines, verdict : Results] /\ line.id = id /\ line.verdict = verdict
    BY <1>3, <1>5
  <1> HIDE DEF line
  <1>7. /\ Append(proc.out, line) \in Seq([id : Lines, verdict : Results])
        /\ \A k \in DOMAIN Append(proc.out, line) :
              \/ k \in DOMAIN proc.out /\ Append(proc.out, line)[k] = proc.out[k]
              \/ /\ k \notin DOMAIN proc.out /\ k = Len(proc.out) + 1
                 /\ Append(proc.out, line)[k] = line
    BY <1>1, <1>6, AppendTo
  <1>8. /\ proc' \in Procs /\ proc'.todo = Tail(proc.todo) /\ proc'.out = Append(proc.out, line)
        /\ proc'.state = proc.state /\ proc'.settings = proc.settings
    BY <1>1, <1>2, <1>3, <1>7 DEF Procs
  <1>9. \A k \in DOMAIN proc'.todo : proc'.todo[k] \in {Health, owner}
    BY <1>1, <1>3, <1>8 DEF World
  <1>10. \A k \in DOMAIN proc'.out : proc'.out[k].verdict = "gone" => proc'.out[k].id \in missing
    BY <1>1, <1>5, <1>6, <1>7, <1>8 DEF World
  <1>11. World'
    BY <1>1, <1>2, <1>4, <1>8, <1>9, <1>10, Distinct DEF World
  <1>12. ASSUME NEW x \in Request \cup {Health}, Pending(x) PROVE Pending(x)'
    <2>1. proc.todo = <<x>> /\ \A k \in DOMAIN proc.out : proc.out[k].id = None
      BY <1>1, <1>12 DEF Pending
    <2>2. id = x /\ proc'.todo = <<>> /\ x # None
      BY <1>3, <1>8, <2>1, Distinct
    <2>3. \A k \in DOMAIN proc'.out :
             \/ proc'.out[k].id = None
             \/ k = Len(proc.out) + 1 /\ proc'.out[k].id = x
      BY <1>6, <1>7, <1>8, <2>1, <2>2
    <2> QED
      BY <2>2, <2>3 DEF Pending
  <1>13. \A r \in Request : Fits(r)'
    BY <1>2, <1>4, <1>8, <1>12 DEF VisionInv, Fits
  <1>14. VisionType'
    BY <1>1, <1>2, <1>8 DEF VisionType
  <1> QED
    BY <1>11, <1>13, <1>14 DEF VisionInv

LEMMA BabblesInv ==
    ASSUME VisionAssumption, VisionInv, Babbles
    PROVE  VisionInv'
  <1> DEFINE line == [id |-> None, verdict |-> "error"]
  <1>1. VisionType /\ World /\ proc \in Procs /\ proc.out \in Seq([id : Lines, verdict : Results])
    BY DEF VisionInv, VisionType, Procs
  <1>2. UNCHANGED <<req, owner, manager, settings, source, oneshot, shutdown, missing>>
        /\ proc.state = "live" /\ proc' = [proc EXCEPT !.out = Append(@, line)]
    BY DEF Babbles
  <1>3. line \in [id : Lines, verdict : Results] /\ line.id = None /\ line.verdict # "gone"
    BY DEF Lines, Results
  <1> HIDE DEF line
  <1>4. /\ Append(proc.out, line) \in Seq([id : Lines, verdict : Results])
        /\ \A k \in DOMAIN Append(proc.out, line) :
              \/ k \in DOMAIN proc.out /\ Append(proc.out, line)[k] = proc.out[k]
              \/ /\ k \notin DOMAIN proc.out /\ k = Len(proc.out) + 1
                 /\ Append(proc.out, line)[k] = line
    BY <1>1, <1>3, AppendTo
  <1>5. /\ proc' \in Procs /\ proc'.todo = proc.todo /\ proc'.out = Append(proc.out, line)
        /\ proc'.state = proc.state /\ proc'.settings = proc.settings
    BY <1>1, <1>2, <1>4 DEF Procs
  <1>6. Quiet => Quiet'
    BY <1>3, <1>4, <1>5 DEF Quiet
  <1>7. \A x \in Request \cup {Health} : Pending(x) => Pending(x)'
    BY <1>3, <1>4, <1>5, Distinct DEF Pending
  <1>8. World'
    BY <1>1, <1>2, <1>3, <1>4, <1>5, <1>6 DEF World
  <1>9. \A r \in Request : Fits(r)'
    BY <1>2, <1>5, <1>6, <1>7 DEF VisionInv, Fits
  <1>10. VisionType'
    BY <1>1, <1>2, <1>5 DEF VisionType
  <1> QED
    BY <1>8, <1>9, <1>10 DEF VisionInv

LEMMA DiesInv ==
    ASSUME VisionAssumption, VisionInv, Dies
    PROVE  VisionInv'
  <1>1. VisionType /\ World /\ proc \in Procs
    BY DEF VisionInv, VisionType
  <1>2. UNCHANGED <<req, owner, manager, settings, source, oneshot, shutdown, missing>>
        /\ proc.state = "live" /\ proc' = [proc EXCEPT !.state = "exited"]
    BY DEF Dies
  <1>3. /\ proc' \in Procs /\ proc'.todo = proc.todo /\ proc'.out = proc.out
        /\ proc'.state = "exited" /\ proc'.settings = proc.settings
    BY <1>1, <1>2 DEF Procs
  <1>4. World'
    BY <1>1, <1>2, <1>3 DEF World, Quiet
  <1>5. \A r \in Request : Fits(r)'
    BY <1>2, <1>3 DEF VisionInv, Fits, Quiet, Pending
  <1>6. VisionType'
    BY <1>1, <1>2, <1>3 DEF VisionType
  <1> QED
    BY <1>4, <1>5, <1>6 DEF VisionInv

\* Time, settings and a notification concern no request that has its settings.
LEMMA OutsideInv ==
    ASSUME VisionAssumption, VisionInv, CooldownEnds \/ ChangesSettings \/ ShutdownRequested
    PROVE  VisionInv'
  <1>1. VisionType /\ World /\ \A r \in Request : Fits(r)
    BY DEF VisionInv
  <1>2. UNCHANGED <<req, owner, proc, source, oneshot, missing>>
    BY DEF CooldownEnds, ChangesSettings, ShutdownRequested
  <1>3. /\ manager' \in [fingerprint : {<<>>} \cup {<<n>> : n \in Nat}, cooldown : BOOLEAN]
        /\ manager'.fingerprint = manager.fingerprint /\ settings' \in Nat
        /\ shutdown' = shutdown \/ shutdown' = "requested"
    <2>1. CASE CooldownEnds
      BY <1>1, <2>1 DEF CooldownEnds, VisionType
    <2>2. CASE ChangesSettings
      <3>1. settings + 1 \in Nat
        BY <1>1 DEF VisionType
      <3> QED
        BY <1>1, <2>2, <3>1 DEF ChangesSettings, VisionType
    <2>3. CASE ShutdownRequested
      BY <1>1, <2>3 DEF ShutdownRequested, VisionType
    <2> QED
      BY <2>1, <2>2, <2>3
  <1>4. VisionType'
    BY <1>1, <1>2, <1>3 DEF VisionType
  <1>5. World'
    BY <1>1, <1>2, <1>3 DEF World, Quiet
  <1>6. \A r \in Request : Fits(r)'
    BY <1>1, <1>2, <1>3 DEF Fits, Quiet, Pending
  <1> QED
    BY <1>4, <1>5, <1>6 DEF VisionInv

LEMMA SourceChangesInv ==
    ASSUME VisionAssumption, VisionInv, NEW r \in Request,
           NEW s \in {"complete", "partial", "missing"}, SourceChanges(r, s)
    PROVE  VisionInv'
  <1>1. VisionType /\ World /\ \A q \in Request : Fits(q)
    BY DEF VisionInv
  <1>2. UNCHANGED <<req, owner, proc, manager, settings, oneshot, shutdown>>
        /\ source' = [source EXCEPT ![r] = s]
        /\ missing' = IF s = "missing" THEN missing \cup {r} ELSE missing
    BY DEF SourceChanges
  <1>3. VisionType'
    BY <1>1, <1>2 DEF VisionType
  <1>4. missing \subseteq missing' /\ (s = "missing" => r \in missing')
    BY <1>2
  <1>5. \A q \in Request : source'[q] = "missing" => q \in missing'
    BY <1>1, <1>2, <1>4 DEF World, VisionType
  <1>6. World'
    BY <1>1, <1>2, <1>4, <1>5 DEF World, Quiet
  <1>7. \A q \in Request : Fits(q)'
    BY <1>1, <1>2, <1>4 DEF Fits, Quiet, Pending
  <1> QED
    BY <1>3, <1>6, <1>7 DEF VisionInv

LEMMA ShutdownEndsInv ==
    ASSUME VisionAssumption, VisionInv, ShutdownEnds
    PROVE  VisionInv'
  <1>1. VisionType /\ World /\ \A q \in Request : Fits(q)
    BY DEF VisionInv
  <1>2. UNCHANGED <<req, owner, manager, settings, source, oneshot, missing>>
        /\ owner = None /\ proc' = NoProcess /\ shutdown' = "done"
    BY DEF ShutdownEnds
  <1>3. VisionType'
    BY <1>1, <1>2, NoProcessIs DEF VisionType
  <1>4. World'
    BY <1>1, <1>2, NoProcessIs DEF World, Quiet
  <1>5. \A q \in Request : req[q].pc \notin Holding
    BY <1>1, <1>2, Distinct DEF Fits
  <1>6. \A q \in Request : Fits(q)'
    BY <1>1, <1>2, <1>5 DEF Fits, Holding
  <1> QED
    BY <1>3, <1>4, <1>6 DEF VisionInv

-----------------------------------------------------------------------------
(* The theorems *)

LEMMA StepInv ==
    ASSUME VisionAssumption, VisionInv, [Next]_vars
    PROVE  VisionInv'
  <1>1. CASE UNCHANGED vars
    BY <1>1 DEF vars, VisionInv, VisionType, World, Fits, Quiet, Pending
  <1>2. ASSUME NEW r \in Request, Submits(r) \/ Request1(r) \/ TakesLine(r) PROVE VisionInv'
    BY <1>2, SubmitsInv, LocksInv, PreparesInv, SpawnsInv, SpawnFailsInv, AsksInv, WaitsInv,
       ReadsInv, GivesUpInv, TimesOutInv, StopsInv, RefusesInv, FallsBackInv, AloneInv
    DEF Request1
  <1>3. CASE Environment
    BY <1>3, AnswersInv, BabblesInv, DiesInv, OutsideInv, SourceChangesInv DEF Environment
  <1> QED
    BY <1>1, <1>2, <1>3, ShutdownEndsInv DEF Next

LEMMA VisionInvariant == ASSUME VisionAssumption PROVE Spec => []VisionInv
  <1>1. Init => VisionInv
    BY InitInv
  <1>2. VisionInv /\ [Next]_vars => VisionInv'
    BY StepInv
  <1> QED
    BY <1>1, <1>2, PTL DEF Spec

\* vision_worker_service read_response and stop: an answer is the one to the request
\* that waits, under the settings of its call, however late or babbling the process,
\* and no request has two engines at once.
THEOREM AnswersBelong == ASSUME VisionAssumption PROVE Spec => []OwnAnswer
  <1>1. VisionInv => OwnAnswer
    <2> SUFFICES ASSUME VisionInv PROVE OwnAnswer
      OBVIOUS
    <2>1. ASSUME NEW r \in oneshot, NEW k \in DOMAIN proc.todo
          PROVE  proc.todo[k] # r
      <3>1. owner # r
        BY <2>1 DEF VisionInv, VisionType, Fits, Holding, Greeting, Reading
      <3> QED
        BY <2>1, <3>1, Distinct DEF VisionInv, VisionType, World
    <2> QED
      BY <2>1 DEF VisionInv, Fits, OwnAnswer
  <1> QED
    BY <1>1, VisionInvariant, PTL

\* vision_worker_service shutdown: whoever waited for the mutex meanwhile finds the
\* application shut down under it, and starts nothing.
THEOREM ShutdownFinal == ASSUME VisionAssumption PROVE Spec => []NoWorkerAfterShutdown
  <1>1. VisionInv => NoWorkerAfterShutdown
    BY DEF VisionInv, World, NoWorkerAfterShutdown
  <1> QED
    BY <1>1, VisionInvariant, PTL

\* vision_engine_service's codes: a screenshot that exists is never said to be gone for
\* good, by the worker or by a process of its own, whatever happens to it meanwhile.
THEOREM GoneIsGone == ASSUME VisionAssumption PROVE Spec => []PermanentOnlyIfMissing
  <1>1. VisionInv => PermanentOnlyIfMissing
    BY DEF VisionInv, Fits, PermanentOnlyIfMissing
  <1> QED
    BY <1>1, VisionInvariant, PTL

-----------------------------------------------------------------------------
(* The repairs *)

\* The positions of a repair in which its reservation is at work, and those in
\* which the captures are chosen and not all of them are counted.
Early == {"preview", "retries"}
Late  == {"settings", "next", "probe", "requeue"}

Repairs == [pc : {"none", "drop"} \cup Early \cup Late, at : Item \cup {NoOne},
            stored : (UNION {[S -> Quality] : S \in SUBSET Item}) \cup {<<>>},
            probe : SUBSET Item, retry : SUBSET Item,
            sent : SUBSET ({"probe", "retry"} \X Item)]

RepairType ==
    /\ item \in [Item -> Row] /\ best \in [Item -> Quality]
    /\ slot \in Slot /\ job \in [Task -> Repairs]

\* A repair looks at a capture it has not counted, and has queued none of those.
Chosen(j) ==
    /\ j.pc = "retries" => j.stored \in UNION {[S -> Quality] : S \in SUBSET Item}
    /\ j.pc \in {"probe", "requeue"} => j.at \in j.probe
    /\ j.pc \in Early => j.sent = {}
    /\ \A i \in Item : /\ <<"probe", i>> \in j.sent => i \notin j.probe
                       /\ <<"retry", i>> \in j.sent => i \notin j.retry

\* What the slot counts for the repair that holds it.
Sum == slot.requeued + slot.kept + slot.failed
Counting(j) ==
    /\ Cardinality(j.sent) = slot.requeued
    /\ j.pc \in Early => Sum = 0
    /\ j.pc \in Late => slot.total = Sum + Cardinality(j.probe) + Cardinality(j.retry)

\* The invariant: types, the reservation, and the count of the repair that has it,
\* which stands in the slot when it is done.
RepairInv ==
    /\ RepairType
    /\ OneJob
    /\ \A t \in Task : Chosen(job[t]) /\ IsFiniteSet(job[t].sent)
    /\ \A t \in Task : Working(t) => Counting(job[t])
    /\ CountsExact

-----------------------------------------------------------------------------
(* Counting finite sets *)

LEMMA ChosenFinite ==
    ASSUME RepairAssumption, NEW S \in SUBSET Item
    PROVE  IsFiniteSet(S) /\ Cardinality(S) \in Nat
  BY FS_Subset, FS_CardinalityType DEF RepairAssumption

LEMMA OneLess ==
    ASSUME RepairAssumption, NEW S \in SUBSET Item, NEW i \in S
    PROVE  Cardinality(S) = Cardinality(S \ {i}) + 1
  BY ChosenFinite, FS_RemoveElement

LEMMA OneMore ==
    ASSUME NEW S, IsFiniteSet(S), NEW x, x \notin S
    PROVE  IsFiniteSet(S \cup {x}) /\ Cardinality(S \cup {x}) = Cardinality(S) + 1
  BY FS_AddElement

-----------------------------------------------------------------------------
(* A repair that holds the slot *)

LEMMA OnlyHolder ==
    ASSUME RepairInv, NEW t \in Task, Working(t)
    PROVE  Mine(t) /\ \A u \in Task : Working(u) => u = t
  BY DEF RepairInv, OneJob, Mine

\* A step of the repair at work, after which it is still at work.
LEMMA HolderSteps ==
    ASSUME RepairInv, NEW t \in Task, Working(t),
           item' \in [Item -> Row], best' = best, slot' \in Slot,
           job'[t] \in Repairs, job' = [job EXCEPT ![t] = job'[t]],
           Mine(t)', Working(t)', Chosen(job[t])', IsFiniteSet(job'[t].sent),
           Counting(job[t])'
    PROVE  RepairInv'
  <1>1. RepairType'
    BY DEF RepairInv, RepairType
  <1>2. \A u \in Task \ {t} : job'[u] = job[u] /\ ~Working(u)
    BY OnlyHolder DEF RepairInv, RepairType
  <1>3. OneJob'
    BY <1>2 DEF OneJob, Working, Mine
  <1>4. (\A u \in Task : Chosen(job[u]) /\ IsFiniteSet(job[u].sent))'
    BY <1>2 DEF RepairInv, Chosen
  <1>5. (\A u \in Task : Working(u) => Counting(job[u]))'
    BY <1>2 DEF Working
  <1>6. CountsExact'
    BY DEF CountsExact, Mine
  <1> QED
    BY <1>1, <1>3, <1>4, <1>5, <1>6 DEF RepairInv

\* A step with which it ends; it is counted for as far as the slot says so.
LEMMA HolderEnds ==
    ASSUME RepairInv, NEW t \in Task, Working(t),
           item' = item, best' = best, slot' \in Slot, slot'.task = t,
           slot'.state # "idle",
           job' = [job EXCEPT ![t] = [job[t] EXCEPT !.pc = "drop"]],
           CountsExact'
    PROVE  RepairInv'
  <1>1. job[t] \in Repairs /\ job'[t] = [job[t] EXCEPT !.pc = "drop"]
    BY DEF RepairInv, RepairType
  <1>2. job'[t] \in Repairs /\ job'[t].pc = "drop" /\ job'[t].sent = job[t].sent
        /\ job'[t].probe = job[t].probe /\ job'[t].retry = job[t].retry
    BY <1>1 DEF Repairs
  <1>3. RepairType'
    BY <1>2 DEF RepairInv, RepairType
  <1>4. \A u \in Task \ {t} : job'[u] = job[u] /\ ~Working(u)
    BY OnlyHolder DEF RepairInv, RepairType
  <1>5. OneJob'
    BY <1>2, <1>4 DEF OneJob, Working, Mine
  <1>6. Chosen(job[t]) /\ IsFiniteSet(job[t].sent)
    BY DEF RepairInv
  <1>7. Chosen(job[t])'
    BY <1>2, <1>6 DEF Chosen, Early
  <1>8. (\A u \in Task : Chosen(job[u]) /\ IsFiniteSet(job[u].sent))'
    BY <1>2, <1>4, <1>6, <1>7 DEF RepairInv, Chosen
  <1>9. (\A u \in Task : Working(u) => Counting(job[u]))'
    BY <1>2, <1>4 DEF Working
  <1> QED
    BY <1>3, <1>5, <1>8, <1>9 DEF RepairInv

-----------------------------------------------------------------------------
(* The reservation *)

LEMMA AcquiresInv ==
    ASSUME RepairInv, NEW t \in Task, Acquires(t)
    PROVE  RepairInv'
  <1>1. job'[t] = [NoJob EXCEPT !.pc = "preview"] /\ job'[t] \in Repairs
    BY DEF Acquires, Proceeds, RepairInv, RepairType, NoJob, Repairs, Early
  <1>2. \A u \in Task \ {t} : job'[u] = job[u] /\ ~Working(u)
    BY DEF Acquires, Proceeds, RepairInv, RepairType, OneJob, Mine
  <1>3. slot' = [Free EXCEPT !.state = "running", !.task = t] /\ slot' \in Slot
    BY DEF Acquires, Free, Slot
  <1>4. RepairType'
    BY <1>1, <1>3 DEF Acquires, Proceeds, RepairInv, RepairType
  <1>5. OneJob'
    BY <1>1, <1>2, <1>3 DEF OneJob, Working, Mine, NoJob, Free
  <1>6. Chosen(job[t])' /\ IsFiniteSet(job'[t].sent)
    BY <1>1, FS_EmptySet DEF Chosen, NoJob
  <1>7. (\A u \in Task : Chosen(job[u]) /\ IsFiniteSet(job[u].sent))'
    BY <1>2, <1>6 DEF RepairInv, Chosen
  <1>8. Counting(job[t])'
    BY <1>1, <1>3, FS_EmptySet DEF Counting, NoJob, Free, Sum, Early, Late
  <1>9. (\A u \in Task : Working(u) => Counting(job[u]))'
    BY <1>2, <1>8 DEF Working
  <1>10. CountsExact'
    BY <1>3 DEF CountsExact, Free
  <1> QED
    BY <1>4, <1>5, <1>7, <1>9, <1>10 DEF RepairInv

LEMMA DropsInv ==
    ASSUME RepairInv, NEW t \in Task, Drops(t)
    PROVE  RepairInv'
  <1>1. job'[t] = NoJob /\ job'[t] \in Repairs
    BY DEF Drops, Proceeds, RepairInv, RepairType, NoJob, Repairs
  <1>2. \A u \in Task \ {t} : job'[u] = job[u]
    BY DEF Drops, Proceeds, RepairInv, RepairType
  <1>3. slot' = IF Mine(t) THEN [slot EXCEPT !.state = "failed"] ELSE slot
    BY DEF Drops, Publishes
  <1>4. RepairType'
    BY <1>1, <1>3 DEF Drops, Proceeds, RepairInv, RepairType, Slot
  <1>5. \A u \in Task : Working(u)' => Working(u) /\ u # t /\ job'[u] = job[u]
    BY <1>1, <1>2 DEF Working, NoJob
  <1>6. \A u \in Task : Working(u)' => slot' = slot /\ Mine(u)
    BY <1>3, <1>5 DEF RepairInv, OneJob, Mine
  <1>7. OneJob'
    <2>1. (\A u \in Task : Working(u) => Mine(u))'
      BY <1>6 DEF Mine
    <2>2. ASSUME slot'.state = "running"
          PROVE  \E u \in Task : slot'.task = u /\ job'[u].pc # "none"
      <3>1. slot' = slot /\ ~Mine(t)
        BY <1>3, <2>2 DEF RepairInv, RepairType, Slot
      <3> QED
        BY <1>2, <2>2, <3>1 DEF RepairInv, OneJob, Mine
    <2> QED
      BY <2>1, <2>2 DEF OneJob
  <1>8. Chosen(job[t])' /\ IsFiniteSet(job'[t].sent)
    BY <1>1, FS_EmptySet DEF Chosen, NoJob
  <1>9. (\A u \in Task : Chosen(job[u]) /\ IsFiniteSet(job[u].sent))'
    BY <1>2, <1>8 DEF RepairInv, Chosen
  <1>10. (\A u \in Task : Working(u) => Counting(job[u]))'
    BY <1>5, <1>6 DEF RepairInv, Counting, Sum
  <1>11. CountsExact'
    <2>1. CASE Mine(t)
      BY <1>3, <2>1 DEF CountsExact, RepairInv, RepairType, Slot
    <2>2. CASE ~Mine(t)
      <3>1. slot' = slot
        BY <1>3, <2>2
      <3> QED
        BY <1>1, <1>2, <3>1 DEF CountsExact, RepairInv, NoJob
    <2> QED
      BY <2>1, <2>2
  <1> QED
    BY <1>4, <1>7, <1>9, <1>10, <1>11 DEF RepairInv

\* Cancelled at an await, or refused before it begins.
LEMMA CancelsInv ==
    ASSUME RepairInv, NEW t \in Task, Cancels(t) \/ Declines(t)
    PROVE  RepairInv'
  <1>1. Working(t)
    BY DEF Cancels, Declines, Working
  <1>2. Mine(t) /\ slot \in Slot
    BY <1>1, OnlyHolder DEF RepairInv, RepairType
  <1>3. slot' \in {slot, [slot EXCEPT !.state = "failed"]}
    BY <1>2 DEF Cancels, Declines, Publishes
  <1>4. slot' \in Slot /\ slot'.task = t /\ slot'.state \in {"running", "failed"}
    BY <1>2, <1>3 DEF Mine, Slot
  <1>5. CountsExact'
    BY <1>4 DEF CountsExact
  <1> QED
    BY <1>1, <1>4, <1>5, HolderEnds DEF Cancels, Declines, Proceeds

LEMMA FinishesInv ==
    ASSUME RepairAssumption, RepairInv, NEW t \in Task, Finishes(t)
    PROVE  RepairInv'
  <1>1. Working(t)
    BY DEF Finishes, Working
  <1>2. Mine(t) /\ slot \in Slot
    BY <1>1, OnlyHolder DEF RepairInv, RepairType
  <1>3. slot' = [slot EXCEPT !.state = IF slot.failed = 0 THEN "done"
                                       ELSE IF slot.failed = slot.total THEN "failed"
                                       ELSE "partial"]
    BY <1>2 DEF Finishes, Publishes
  <1>4. slot' \in Slot /\ slot'.task = t /\ slot'.state \in {"done", "failed", "partial"}
    BY <1>2, <1>3 DEF Mine, Slot
  <1>5. Counting(job[t]) /\ Cardinality({}) = 0
    BY <1>1, FS_EmptySet DEF RepairInv
  <1>6. slot.total = Sum /\ Cardinality(job[t].sent) = slot.requeued
    BY <1>2, <1>5 DEF Counting, Finishes, Late, Sum, Slot
  <1>7. job'[t].sent = job[t].sent
    BY DEF Finishes, Proceeds, RepairInv, RepairType, Repairs
  <1>8. CountsExact'
    BY <1>2, <1>3, <1>4, <1>6, <1>7 DEF CountsExact, Sum, Slot
  <1> QED
    BY <1>1, <1>4, <1>8, HolderEnds DEF Finishes, Proceeds

-----------------------------------------------------------------------------
(* start *)

LEMMA PreviewsInv ==
    ASSUME RepairInv, NEW t \in Task, Previews(t)
    PROVE  RepairInv'
  <1> DEFINE S == {j \in Item : Candidate(j)}
             f == [i \in S |-> item[i].box]
  <1>1. Working(t) /\ Counting(job[t]) /\ Chosen(job[t]) /\ IsFiniteSet(job[t].sent)
    BY DEF Previews, Working, RepairInv
  <1>2. job[t] \in Repairs /\ \A i \in Item : item[i].box \in Quality
    BY DEF RepairInv, RepairType, Row
  <1>3. f \in [S -> Quality] /\ S \in SUBSET Item
    BY <1>2
  <1>4. f \in UNION {[T -> Quality] : T \in SUBSET Item}
    BY <1>3
  <1> HIDE DEF f
  <1>5. job' = [job EXCEPT ![t] = [job[t] EXCEPT !.pc = "retries", !.stored = f]]
    BY DEF Previews, Proceeds, f, S
  <1>6. job'[t] = [job[t] EXCEPT !.pc = "retries", !.stored = f]
    BY <1>5 DEF RepairInv, RepairType
  <1>7. /\ job'[t] \in Repairs /\ job'[t].pc = "retries" /\ job'[t].stored = f
        /\ job'[t].sent = job[t].sent
    BY <1>2, <1>4, <1>6 DEF Repairs, Early
  <1>8. job[t].pc = "preview" /\ UNCHANGED <<item, best, slot>>
    BY DEF Previews
  <1>9. Chosen(job[t])'
    BY <1>1, <1>4, <1>7, <1>8 DEF Chosen, Early
  <1>10. Counting(job[t])'
    BY <1>1, <1>7, <1>8 DEF Counting, Sum, Early, Late
  <1>11. Mine(t)' /\ Working(t)' /\ slot' \in Slot /\ item' \in [Item -> Row]
    BY <1>1, <1>7, <1>8, OnlyHolder DEF Mine, Working, RepairInv, RepairType
  <1> QED
    BY <1>1, <1>5, <1>6, <1>7, <1>8, <1>9, <1>10, <1>11, HolderSteps

LEMMA CountsInv ==
    ASSUME RepairAssumption, RepairInv, NEW t \in Task, Counts(t)
    PROVE  RepairInv'
  <1> DEFINE C == DOMAIN job[t].stored
             R == {i \in Item : item[i].status = "failed" /\ item[i].person /\ item[i].here}
  <1>1. Working(t) /\ Counting(job[t]) /\ Chosen(job[t]) /\ IsFiniteSet(job[t].sent)
    BY DEF Counts, Working, RepairInv
  <1>2. job[t] \in Repairs /\ Mine(t) /\ slot \in Slot /\ job[t].pc = "retries"
    BY <1>1, OnlyHolder DEF RepairInv, RepairType, Counts
  <1>3. job[t].stored \in UNION {[T -> Quality] : T \in SUBSET Item}
    BY <1>1, <1>2 DEF Chosen
  <1>4. C \in SUBSET Item /\ R \in SUBSET Item
    BY <1>3
  <1>5. Cardinality(C) \in Nat /\ Cardinality(R) \in Nat
    BY <1>4, ChosenFinite
  <1> HIDE DEF C, R
  <1>6. job' = [job EXCEPT ![t] = [job[t] EXCEPT !.pc = "settings", !.probe = C, !.retry = R]]
    BY DEF Counts, Proceeds, C, R
  <1>7. slot' = [slot EXCEPT !.total = Cardinality(C) + Cardinality(R)]
    BY <1>2 DEF Counts, Publishes, C, R
  <1>8. job'[t] = [job[t] EXCEPT !.pc = "settings", !.probe = C, !.retry = R]
    BY <1>6 DEF RepairInv, RepairType
  <1>9. /\ job'[t] \in Repairs /\ job'[t].pc = "settings" /\ job'[t].probe = C
        /\ job'[t].retry = R /\ job'[t].sent = job[t].sent
    BY <1>2, <1>4, <1>8 DEF Repairs, Late
  <1>10. job[t].sent = {}
    BY <1>1, <1>2 DEF Chosen, Early
  <1>11. Chosen(job[t])'
    BY <1>9, <1>10 DEF Chosen, Early
  <1>12. /\ slot' \in Slot /\ slot'.total = Cardinality(C) + Cardinality(R)
         /\ slot'.requeued = slot.requeued /\ slot'.kept = slot.kept
         /\ slot'.failed = slot.failed /\ slot'.task = t /\ slot'.state = "running"
    BY <1>2, <1>5, <1>7 DEF Slot, Mine
  <1>13. Sum = 0 /\ Sum' = Sum /\ Cardinality(job[t].sent) = slot.requeued
    BY <1>1, <1>2, <1>12 DEF Counting, Early, Sum
  <1>14. Counting(job[t])'
    BY <1>5, <1>9, <1>12, <1>13 DEF Counting, Early, Late
  <1>15. Mine(t)' /\ Working(t)' /\ item' \in [Item -> Row] /\ best' = best
    BY <1>9, <1>12 DEF Mine, Working, RepairInv, RepairType, Counts
  <1> QED
    BY <1>1, <1>6, <1>8, <1>9, <1>11, <1>12, <1>14, <1>15, HolderSteps

LEMMA BeginsInv ==
    ASSUME RepairInv, NEW t \in Task, Begins(t)
    PROVE  RepairInv'
  <1>1. Working(t) /\ Counting(job[t]) /\ Chosen(job[t]) /\ IsFiniteSet(job[t].sent)
    BY DEF Begins, Working, RepairInv
  <1>2. job[t] \in Repairs /\ Mine(t) /\ slot' = slot /\ job[t].pc = "settings"
    BY <1>1, OnlyHolder DEF RepairInv, RepairType, Begins
  <1>3. job' = [job EXCEPT ![t] = [job[t] EXCEPT !.pc = "next"]]
        /\ job'[t] = [job[t] EXCEPT !.pc = "next"]
    BY DEF Begins, Proceeds, RepairInv, RepairType
  <1>4. /\ job'[t] \in Repairs /\ job'[t].pc = "next" /\ job'[t].probe = job[t].probe
        /\ job'[t].retry = job[t].retry /\ job'[t].sent = job[t].sent
    BY <1>2, <1>3 DEF Repairs, Late
  <1>5. Chosen(job[t])' /\ Counting(job[t])'
    BY <1>1, <1>2, <1>4 DEF Chosen, Counting, Early, Late, Sum
  <1>6. Mine(t)' /\ Working(t)' /\ slot' \in Slot /\ item' \in [Item -> Row] /\ best' = best
    BY <1>2, <1>4 DEF Mine, Working, RepairInv, RepairType, Begins
  <1> QED
    BY <1>1, <1>3, <1>4, <1>5, <1>6, HolderSteps

-----------------------------------------------------------------------------
(* run *)

\* A capture is counted, and the repair turns to the next one.
LEMMA CountedInv ==
    ASSUME RepairAssumption, RepairInv, NEW t \in Task, NEW i \in job[t].probe,
           job[t].pc \in {"next", "probe", "requeue"},
           NEW field \in {"kept", "failed"},
           Tallies(t, field), Proceeds(t, Leaves(t, i)), item' = item, best' = best
    PROVE  RepairInv'
  <1>1. Working(t) /\ Counting(job[t]) /\ Chosen(job[t]) /\ IsFiniteSet(job[t].sent)
    BY DEF Working, RepairInv
  <1>2. job[t] \in Repairs /\ Mine(t) /\ slot \in Slot
    BY <1>1, OnlyHolder DEF RepairInv, RepairType
  <1>3. slot' = [slot EXCEPT ![field] = @ + 1]
    BY <1>2 DEF Tallies, Publishes
  <1>4. /\ slot' \in Slot /\ slot'.total = slot.total /\ slot'.requeued = slot.requeued
        /\ Sum' = Sum + 1 /\ slot'.task = t /\ slot'.state = "running"
    <2>1. CASE field = "kept"
      BY <1>2, <1>3, <2>1 DEF Slot, Mine, Sum
    <2>2. CASE field = "failed"
      BY <1>2, <1>3, <2>2 DEF Slot, Mine, Sum
    <2> QED
      BY <2>1, <2>2
  <1>5. job' = [job EXCEPT ![t] = Leaves(t, i)] /\ job'[t] = Leaves(t, i)
    BY DEF Proceeds, RepairInv, RepairType
  <1>6. /\ job'[t] \in Repairs /\ job'[t].pc = "next" /\ job'[t].sent = job[t].sent
        /\ job'[t].probe = job[t].probe \ {i} /\ job'[t].retry = job[t].retry
    <2>1. job'[t] = [job[t] EXCEPT !.pc = "next", !.at = NoOne, !.probe = job[t].probe \ {i}]
      BY <1>5 DEF Leaves
    <2>2. job[t].probe \ {i} \in SUBSET Item
      BY <1>2 DEF Repairs
    <2> QED
      BY <1>2, <2>1, <2>2 DEF Repairs, Late
  <1>7. Chosen(job[t])'
    BY <1>1, <1>6 DEF Chosen, Early
  <1>8. job[t].probe \in SUBSET Item /\ job[t].retry \in SUBSET Item /\ Sum \in Nat
    BY <1>2 DEF Repairs, Slot, Sum
  <1>9. /\ Cardinality(job[t].probe) = Cardinality(job[t].probe \ {i}) + 1
        /\ Cardinality(job[t].probe \ {i}) \in Nat /\ Cardinality(job[t].retry) \in Nat
    BY <1>8, OneLess, ChosenFinite
  <1>10. Counting(job[t])'
    BY <1>1, <1>4, <1>6, <1>8, <1>9 DEF Counting, Early, Late
  <1>11. Mine(t)' /\ Working(t)' /\ item' \in [Item -> Row]
    BY <1>4, <1>6 DEF Mine, Working, RepairInv, RepairType
  <1> QED
    BY <1>1, <1>4, <1>5, <1>6, <1>7, <1>10, <1>11, HolderSteps

LEMMA LooksInv ==
    ASSUME RepairAssumption, RepairInv, NEW t \in Task, NEW i \in Item, Looks(t, i)
    PROVE  RepairInv'
  <1>1. CASE item[i].status # "completed" \/ ~item[i].person
    BY <1>1, CountedInv DEF Looks
  <1>2. CASE ~(item[i].status # "completed" \/ ~item[i].person) /\ ~item[i].here
    BY <1>2, CountedInv DEF Looks
  <1>3. CASE ~(item[i].status # "completed" \/ ~item[i].person) /\ item[i].here
    <2>1. Working(t) /\ Counting(job[t]) /\ Chosen(job[t]) /\ IsFiniteSet(job[t].sent)
      BY DEF Looks, Working, RepairInv
    <2>2. /\ job[t] \in Repairs /\ Mine(t) /\ slot' = slot /\ job[t].pc = "next"
          /\ i \in job[t].probe
      BY <1>3, <2>1, OnlyHolder DEF RepairInv, RepairType, Looks
    <2>3. job' = [job EXCEPT ![t] = [job[t] EXCEPT !.pc = "probe", !.at = i]]
          /\ job'[t] = [job[t] EXCEPT !.pc = "probe", !.at = i]
      BY <1>3 DEF Looks, Proceeds, RepairInv, RepairType
    <2>4. /\ job'[t] \in Repairs /\ job'[t].pc = "probe" /\ job'[t].probe = job[t].probe
          /\ job'[t].retry = job[t].retry /\ job'[t].sent = job[t].sent /\ job'[t].at = i
      <3>1. "probe" \in {"none", "drop"} \cup Early \cup Late /\ i \in Item \cup {NoOne}
        BY DEF Late
      <3>2. [job[t] EXCEPT !.pc = "probe", !.at = i] \in Repairs
        BY <2>2, <3>1 DEF Repairs
      <3> QED
        BY <2>2, <2>3, <3>2 DEF Repairs
    <2>5. Chosen(job[t])' /\ Counting(job[t])'
      BY <2>1, <2>2, <2>4 DEF Chosen, Counting, Early, Late, Sum
    <2>6. Mine(t)' /\ Working(t)' /\ slot' \in Slot /\ item' \in [Item -> Row] /\ best' = best
      BY <2>2, <2>4 DEF Mine, Working, RepairInv, RepairType, Looks
    <2> QED
      BY <2>1, <2>3, <2>4, <2>5, <2>6, HolderSteps
  <1> QED
    BY <1>1, <1>2, <1>3

LEMMA ProbesInv ==
    ASSUME RepairAssumption, RepairInv, NEW t \in Task, Probes(t)
    PROVE  RepairInv'
  <1>1. Working(t) /\ Counting(job[t]) /\ Chosen(job[t]) /\ IsFiniteSet(job[t].sent)
    BY DEF Probes, Working, RepairInv
  <1>2. job[t].at \in job[t].probe /\ job[t].pc = "probe"
    BY <1>1 DEF Chosen, Probes
  <1>3. CASE ~Needs(job[t].stored[job[t].at], best[job[t].at])
    BY <1>2, <1>3, CountedInv DEF Probes
  <1>4. CASE Needs(job[t].stored[job[t].at], best[job[t].at])
    <2>1. job[t] \in Repairs /\ Mine(t) /\ slot' = slot
      BY <1>1, <1>4, OnlyHolder DEF RepairInv, RepairType, Probes
    <2>2. job' = [job EXCEPT ![t] = [job[t] EXCEPT !.pc = "requeue"]]
          /\ job'[t] = [job[t] EXCEPT !.pc = "requeue"]
      BY <1>4 DEF Probes, Proceeds, RepairInv, RepairType
    <2>3. /\ job'[t] \in Repairs /\ job'[t].pc = "requeue" /\ job'[t].probe = job[t].probe
          /\ job'[t].retry = job[t].retry /\ job'[t].sent = job[t].sent
          /\ job'[t].at = job[t].at
      BY <2>1, <2>2 DEF Repairs, Late
    <2>4. Chosen(job[t])' /\ Counting(job[t])'
      BY <1>1, <1>2, <2>1, <2>3 DEF Chosen, Counting, Early, Late, Sum
    <2>5. Mine(t)' /\ Working(t)' /\ slot' \in Slot /\ item' \in [Item -> Row] /\ best' = best
      BY <2>1, <2>3 DEF Mine, Working, RepairInv, RepairType, Probes
    <2> QED
      BY <1>1, <2>2, <2>3, <2>4, <2>5, HolderSteps
  <1> QED
    BY <1>3, <1>4

LEMMA StumblesInv ==
    ASSUME RepairAssumption, RepairInv, NEW t \in Task, Stumbles(t)
    PROVE  RepairInv'
  <1>1. job[t].at \in job[t].probe /\ job[t].pc = "probe"
    BY DEF RepairInv, Chosen, Stumbles
  <1> QED
    BY <1>1, CountedInv DEF Stumbles

LEMMA QueuedType ==
    ASSUME RepairInv, NEW i \in Item
    PROVE  Queued(i) \in [Item -> Row]
  BY DEF Queued, RepairInv, RepairType, Row

\* A capture is queued once for each way, and counted.
LEMMA SentInv ==
    ASSUME RepairAssumption, RepairInv, NEW t \in Task, NEW i \in Item,
           NEW how \in {"probe", "retry"}, NEW P \in SUBSET Item, NEW R \in SUBSET Item,
           /\ how = "probe" => job[t].pc = "requeue" /\ i \in job[t].probe
                               /\ P = job[t].probe \ {i} /\ R = job[t].retry
           /\ how = "retry" => job[t].pc = "next" /\ i \in job[t].retry
                               /\ P = job[t].probe /\ R = job[t].retry \ {i},
           job'[t] \in Repairs, job' = [job EXCEPT ![t] = job'[t]],
           job'[t].pc = "next", job'[t].probe = P, job'[t].retry = R,
           job'[t].sent = job[t].sent \cup {<<how, i>>},
           item' = Queued(i), Tallies(t, "requeued"), best' = best
    PROVE  RepairInv'
  <1>1. Working(t) /\ Counting(job[t]) /\ Chosen(job[t]) /\ IsFiniteSet(job[t].sent)
        /\ job[t].pc \in {"requeue", "next"}
    BY DEF Working, RepairInv
  <1>2. job[t] \in Repairs /\ Mine(t) /\ slot \in Slot
    BY <1>1, OnlyHolder DEF RepairInv, RepairType
  <1>3. slot' = [slot EXCEPT !.requeued = @ + 1]
    BY <1>2 DEF Tallies, Publishes
  <1>4. /\ slot' \in Slot /\ slot'.total = slot.total /\ slot'.requeued = slot.requeued + 1
        /\ Sum' = Sum + 1 /\ slot'.task = t /\ slot'.state = "running"
    BY <1>2, <1>3 DEF Slot, Mine, Sum
  <1>5. <<how, i>> \notin job[t].sent
    BY <1>1 DEF Chosen
  <1>6. /\ IsFiniteSet(job'[t].sent)
        /\ Cardinality(job'[t].sent) = Cardinality(job[t].sent) + 1
    BY <1>1, <1>5, OneMore
  <1>7. \A k \in Item : /\ <<"probe", k>> \in job'[t].sent => k \notin P
                        /\ <<"retry", k>> \in job'[t].sent => k \notin R
    BY <1>1 DEF Chosen
  <1>8. Chosen(job[t])'
    BY <1>7 DEF Chosen, Early
  <1>9. job[t].probe \in SUBSET Item /\ job[t].retry \in SUBSET Item /\ Sum \in Nat
        /\ slot.requeued \in Nat
    BY <1>2 DEF Repairs, Slot, Sum
  <1>10. /\ Cardinality(P) + Cardinality(R) + 1
              = Cardinality(job[t].probe) + Cardinality(job[t].retry)
         /\ Cardinality(P) \in Nat /\ Cardinality(R) \in Nat
    <2>1. \A S \in {job[t].probe, job[t].retry, P, R} : Cardinality(S) \in Nat
      BY <1>9, ChosenFinite
    <2>2. CASE how = "probe"
      <3>1. Cardinality(job[t].probe) = Cardinality(P) + 1
        BY <1>9, <2>2, OneLess
      <3> QED
        BY <2>1, <2>2, <3>1
    <2>3. CASE how = "retry"
      <3>1. Cardinality(job[t].retry) = Cardinality(R) + 1
        BY <1>9, <2>3, OneLess
      <3> QED
        BY <2>1, <2>3, <3>1
    <2> QED
      BY <2>2, <2>3
  <1>11. Counting(job[t])'
    <2>1. Cardinality(job[t].sent) = slot.requeued
          /\ slot.total = Sum + Cardinality(job[t].probe) + Cardinality(job[t].retry)
      BY <1>1 DEF Counting, Late
    <2>2. Cardinality(job'[t].sent) = slot'.requeued
      BY <1>4, <1>6, <2>1
    <2>3. \A x, y, p, r \in Nat : p + r + 1 = x + y =>
             Sum + x + y = Sum + 1 + p + r
      BY <1>9
    <2>4. Cardinality(job[t].probe) \in Nat /\ Cardinality(job[t].retry) \in Nat
      BY <1>9, ChosenFinite
    <2>5. slot'.total = Sum' + Cardinality(P) + Cardinality(R)
      BY <1>4, <1>10, <2>1, <2>3, <2>4
    <2> QED
      BY <2>2, <2>5 DEF Counting, Early
  <1>12. Mine(t)' /\ Working(t)' /\ item' \in [Item -> Row]
    BY <1>4, QueuedType DEF Mine, Working
  <1> QED
    BY <1>1, <1>4, <1>6, <1>8, <1>11, <1>12, HolderSteps

LEMMA RequeuesInv ==
    ASSUME RepairAssumption, RepairInv, NEW t \in Task, Requeues(t)
    PROVE  RepairInv'
  <1> DEFINE i == job[t].at
  <1>1. Working(t) /\ job[t] \in Repairs /\ i \in job[t].probe /\ job[t].pc = "requeue"
    BY DEF Requeues, Working, RepairInv, RepairType, Chosen
  <1>2. i \in Item
    BY <1>1 DEF Repairs
  <1>3. CASE ~(item[i].status = "completed" /\ item[i].here)
    BY <1>1, <1>3, CountedInv DEF Requeues
  <1>4. CASE item[i].status = "completed" /\ item[i].here
    <2>1. job' = [job EXCEPT ![t] = [Leaves(t, i) EXCEPT !.sent = @ \cup {<<"probe", i>>}]]
          /\ job'[t] = [Leaves(t, i) EXCEPT !.sent = @ \cup {<<"probe", i>>}]
      BY <1>4 DEF Requeues, Sends, Proceeds, RepairInv, RepairType
    <2>2. job'[t] = [job[t] EXCEPT !.pc = "next", !.at = NoOne, !.probe = job[t].probe \ {i},
                                   !.sent = job[t].sent \cup {<<"probe", i>>}]
      BY <1>1, <2>1 DEF Leaves, Repairs
    <2>3. /\ "next" \in {"none", "drop"} \cup Early \cup Late
          /\ job[t].probe \ {i} \in SUBSET Item /\ job[t].retry \in SUBSET Item
          /\ job[t].sent \cup {<<"probe", i>>} \in SUBSET ({"probe", "retry"} \X Item)
      BY <1>1, <1>2 DEF Repairs, Late
    <2>4. /\ job'[t] \in Repairs /\ job'[t].pc = "next"
          /\ job'[t].probe = job[t].probe \ {i} /\ job'[t].retry = job[t].retry
          /\ job'[t].sent = job[t].sent \cup {<<"probe", i>>}
      BY <1>1, <2>2, <2>3 DEF Repairs
    <2>5. item' = Queued(i) /\ Tallies(t, "requeued") /\ best' = best
      BY <1>4 DEF Requeues
    <2> QED
      BY <1>1, <1>2, <2>1, <2>3, <2>4, <2>5, SentInv
  <1> QED
    BY <1>3, <1>4

LEMMA RetriesInv ==
    ASSUME RepairAssumption, RepairInv, NEW t \in Task, NEW i \in Item, Retries(t, i)
    PROVE  RepairInv'
  <1> DEFINE j == [job[t] EXCEPT !.retry = @ \ {i}]
             degraded == item[i].status = "completed" /\ item[i].person /\ item[i].raw
  <1>1. /\ Working(t) /\ job[t] \in Repairs /\ Mine(t) /\ slot \in Slot /\ i \in job[t].retry
        /\ job[t].pc = "next" /\ Counting(job[t]) /\ Chosen(job[t]) /\ IsFiniteSet(job[t].sent)
    BY OnlyHolder DEF Retries, Working, RepairInv, RepairType
  <1>2. /\ job[t].probe \in SUBSET Item /\ job[t].retry \ {i} \in SUBSET Item
        /\ "next" \in {"none", "drop"} \cup Early \cup Late
    BY <1>1 DEF Repairs, Late
  <1>3. CASE (item[i].status = "failed" \/ degraded) /\ item[i].here
    <2>1. job' = [job EXCEPT ![t] = [j EXCEPT !.sent = @ \cup {<<"retry", i>>}]]
          /\ job'[t] = [j EXCEPT !.sent = @ \cup {<<"retry", i>>}]
      BY <1>3 DEF Retries, Sends, Proceeds, RepairInv, RepairType
    <2>2. job'[t] = [job[t] EXCEPT !.retry = job[t].retry \ {i},
                                   !.sent = job[t].sent \cup {<<"retry", i>>}]
      BY <1>1, <2>1 DEF Repairs
    <2>3. job[t].sent \cup {<<"retry", i>>} \in SUBSET ({"probe", "retry"} \X Item)
      BY <1>1 DEF Repairs
    <2>4. /\ job'[t] \in Repairs /\ job'[t].pc = "next"
          /\ job'[t].probe = job[t].probe /\ job'[t].retry = job[t].retry \ {i}
          /\ job'[t].sent = job[t].sent \cup {<<"retry", i>>}
      BY <1>1, <1>2, <2>2, <2>3 DEF Repairs
    <2>5. item' = Queued(i) /\ Tallies(t, "requeued") /\ best' = best
      BY <1>3 DEF Retries
    <2> QED
      BY <1>1, <1>2, <2>1, <2>4, <2>5, SentInv
  <1>4. CASE ~((item[i].status = "failed" \/ degraded) /\ item[i].here)
    <2>1. job' = [job EXCEPT ![t] = j] /\ job'[t] = j /\ item' = item /\ best' = best
          /\ Tallies(t, "failed")
      BY <1>4 DEF Retries, Proceeds, RepairInv, RepairType
    <2>2. /\ job'[t] \in Repairs /\ job'[t].pc = "next" /\ job'[t].sent = job[t].sent
          /\ job'[t].probe = job[t].probe /\ job'[t].retry = job[t].retry \ {i}
      BY <1>1, <1>2, <2>1 DEF Repairs
    <2>3. slot' = [slot EXCEPT !.failed = @ + 1]
      BY <1>1, <2>1 DEF Tallies, Publishes
    <2>4. /\ slot' \in Slot /\ slot'.total = slot.total /\ slot'.requeued = slot.requeued
          /\ Sum' = Sum + 1 /\ slot'.task = t /\ slot'.state = "running" /\ Sum \in Nat
      BY <1>1, <2>3 DEF Slot, Mine, Sum
    <2>5. Chosen(job[t])'
      BY <1>1, <2>2 DEF Chosen, Early
    <2>6. /\ Cardinality(job[t].retry) = Cardinality(job[t].retry \ {i}) + 1
          /\ Cardinality(job[t].retry \ {i}) \in Nat /\ Cardinality(job[t].probe) \in Nat
      <3>1. job[t].retry \in SUBSET Item
        BY <1>1 DEF Repairs
      <3> QED
        BY <1>1, <1>2, <3>1, OneLess, ChosenFinite
    <2>7. Counting(job[t])'
      BY <1>1, <2>2, <2>4, <2>6 DEF Counting, Early, Late
    <2>8. Mine(t)' /\ Working(t)' /\ item' \in [Item -> Row]
      BY <2>1, <2>2, <2>4 DEF Mine, Working, RepairInv, RepairType
    <2> QED
      BY <1>1, <2>1, <2>2, <2>4, <2>5, <2>7, <2>8, HolderSteps
  <1> QED
    BY <1>3, <1>4

-----------------------------------------------------------------------------
(* The rest of the program, and all steps *)

LEMMA OthersInv ==
    ASSUME RepairInv, item' \in [Item -> Row], Others
    PROVE  RepairInv'
  <1>1. best' = best /\ slot' = slot /\ job' = job
    BY DEF Others
  <1> QED
    BY <1>1 DEF RepairInv, RepairType, OneJob, Working, Mine, Chosen, Counting, Sum, CountsExact

LEMMA WorldInv ==
    ASSUME RepairAssumption, RepairInv, NEW i \in Item, Works(i) \/ Relabels(i) \/ Moves(i)
    PROVE  RepairInv'
  <1>1. item \in [Item -> Row] /\ best[i] \in Quality /\ item[i] \in Row
    BY DEF RepairInv, RepairType
  <1>2. 0 \in Quality
    BY DEF Quality, RepairAssumption
  <1>3. ASSUME Works(i) PROVE item' \in [Item -> Row] /\ Others
    <2>1. PICK s \in {"completed", "failed"}, raw \in BOOLEAN :
             item' = [item EXCEPT ![i].status = s, ![i].raw = raw,
                                  ![i].box = IF raw \/ ~item[i].person THEN 0 ELSE best[i]]
      BY <1>3 DEF Works
    <2>2. (IF raw \/ ~item[i].person THEN 0 ELSE best[i]) \in Quality
      BY <1>1, <1>2
    <2>3. [item[i] EXCEPT !.status = s, !.raw = raw,
                          !.box = IF raw \/ ~item[i].person THEN 0 ELSE best[i]] \in Row
      BY <1>1, <2>2 DEF Row
    <2>4. item' = [item EXCEPT ![i] = [item[i] EXCEPT !.status = s, !.raw = raw,
                          !.box = IF raw \/ ~item[i].person THEN 0 ELSE best[i]]]
      BY <1>1, <2>1
    <2> QED
      BY <1>1, <1>3, <2>3, <2>4 DEF Works
  <1>4. ASSUME Relabels(i) PROVE item' \in [Item -> Row] /\ Others
    <2>1. PICK person \in BOOLEAN :
             item' = [item EXCEPT ![i].status = "queued", ![i].person = person, ![i].raw = FALSE]
      BY <1>4 DEF Relabels
    <2>2. [item[i] EXCEPT !.status = "queued", !.person = person, !.raw = FALSE] \in Row
      BY <1>1 DEF Row
    <2> QED
      BY <1>1, <1>4, <2>1, <2>2 DEF Relabels
  <1>5. ASSUME Moves(i) PROVE item' \in [Item -> Row] /\ Others
    BY <1>1, <1>5 DEF Moves, Row
  <1> QED
    BY <1>3, <1>4, <1>5, OthersInv

LEMMA RepairInitInv ==
    ASSUME RepairAssumption, RepairInit
    PROVE  RepairInv
  <1>1. NoJob \in Repairs
    BY DEF NoJob, Repairs
  <1>2. Free \in Slot
    BY DEF Free, Slot
  <1>3. item \in [Item -> Row]
    <2> DEFINE R(s, q) == [status |-> s, person |-> TRUE, box |-> q, raw |-> FALSE, here |-> TRUE]
    <2>1. \A s \in {"completed", "failed"}, q \in Quality : R(s, q) \in Row
      BY DEF Row
    <2>2. item \in [Item -> {R(s, q) : s \in {"completed", "failed"}, q \in Quality}]
      BY DEF RepairInit
    <2> HIDE DEF R
    <2> QED
      BY <2>1, <2>2
  <1>4. RepairType
    BY <1>1, <1>2, <1>3 DEF RepairInit, RepairType
  <1>5. \A t \in Task : job[t] = NoJob
    BY DEF RepairInit
  <1>6. OneJob /\ CountsExact
    BY <1>5 DEF RepairInit, OneJob, CountsExact, Free, NoJob, Working
  <1>7. Chosen(NoJob) /\ IsFiniteSet(NoJob.sent) /\ NoJob.pc = "none"
    BY FS_EmptySet DEF Chosen, NoJob
  <1>8. \A t \in Task : Chosen(job[t]) /\ IsFiniteSet(job[t].sent) /\ ~Working(t)
    BY <1>5, <1>7, Zenon DEF Working
  <1> QED
    BY <1>4, <1>6, <1>8 DEF RepairInv

LEMMA RepairNextInv ==
    ASSUME RepairAssumption, RepairInv, [RepairNext]_repairVars
    PROVE  RepairInv'
  <1>1. CASE UNCHANGED repairVars
    BY <1>1 DEF repairVars, RepairInv, RepairType, OneJob, Working, Mine, Chosen, Counting, Sum,
                CountsExact
  <1>2. ASSUME NEW t \in Task,
               Acquires(t) \/ Steps(t) \/ Cancels(t) \/ Declines(t) \/ Stumbles(t)
        PROVE  RepairInv'
    BY <1>2, AcquiresInv, CancelsInv, StumblesInv, PreviewsInv, CountsInv, BeginsInv, ProbesInv,
       RequeuesInv, FinishesInv, DropsInv, LooksInv, RetriesInv DEF Steps
  <1> QED
    BY <1>1, <1>2, WorldInv DEF RepairNext

-----------------------------------------------------------------------------
(* Theorems *)

\* However many repairs are asked for, one has the slot at a time and keeps it until
\* it ends, and none leaves it running behind.
THEOREM OneRepair ==
    ASSUME RepairAssumption
    PROVE  RepairSpec => []OneJob
  <1>1. RepairInv /\ [RepairNext]_repairVars => RepairInv'
    BY RepairNextInv
  <1>2. RepairInit => RepairInv
    BY RepairInitInv
  <1>3. RepairInv => OneJob
    BY DEF RepairInv
  <1> QED
    BY <1>1, <1>2, <1>3, PTL DEF RepairSpec

\* Whatever becomes of its captures, a repair that ends by itself has counted each of
\* them once, and those it queued again as such.
THEOREM RepairCounts ==
    ASSUME RepairAssumption
    PROVE  RepairSpec => []CountsExact
  <1>1. RepairInv /\ [RepairNext]_repairVars => RepairInv'
    BY RepairNextInv
  <1>2. RepairInit => RepairInv
    BY RepairInitInv
  <1>3. RepairInv => CountsExact
    BY DEF RepairInv
  <1> QED
    BY <1>1, <1>2, <1>3, PTL DEF RepairSpec
=============================================================================

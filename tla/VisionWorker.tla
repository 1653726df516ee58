---------------------------- MODULE VisionWorker ----------------------------
(***************************************************************************)
(* One resident Python process answers the image requests of the           *)
(* application: vision_worker_service owns it behind a mutex, starts it    *)
(* when needed, stops it when a request fails or settings change, and      *)
(* vision_engine_service falls back to a process of its own for a request  *)
(* the worker did not answer.                                              *)
(*                                                                         *)
(* Time is a choice: a wait may run out whenever it lasts.  All waits of a *)
(* request share one budget (PROCESS_TIMEOUT), so that one of them running *)
(* out leaves nothing for the others; only the start of the worker has a   *)
(* shorter limit of its own.                                               *)
(***************************************************************************)
EXTENDS Naturals, Sequences

CONSTANTS
    Request, None, Health,
    Budgets   \* faults and commands that may happen, and how often

VisionAssumption ==
    /\ {None, Health} \cap Request = {} /\ None \notin {Health, "gone"}
    /\ Budgets \subseteq [ops : SUBSET STRING, left : Nat]

VARIABLES
    req,       \* req[r]: where the request is
    owner,     \* who holds the manager's mutex
    proc,      \* the resident process
    manager,   \* fingerprint and cooldown
    settings,  \* version of the vision settings
    source,    \* source[r]: the screenshot of r, as a reader finds it
    oneshot,   \* requests with a process of their own running
    shutdown,  \* "no", "requested", "done"
    woken,     \* requests reached by notify_waiters
    missing,   \* screenshots that were ever missing (history)
    budget

vars == <<req, owner, proc, manager, settings, source, oneshot, shutdown,
          woken, missing, budget>>

\* "hello" and "read" wait in select!; in "helloBusy" and "readBusy" the loop is
\* on its way there, having looked at the shutdown flag or handling a line of
\* the error stream, and hears no notification.
Waiting == {"hello", "read"}
Results == {None, "ok", "gone", "unreadable", "error"}
Busy == {"helloBusy", "readBusy"}
Req == [pc : {"idle", "mutex", "prepare", "spawn", "ask", "abandon", "stop",
              "fallback", "alone", "done"} \cup Waiting \cup Busy,
        settings : Nat, waited : BOOLEAN, late : BOOLEAN,
        result : Results, answered : Request \cup {None}, by : {None} \cup Nat]

\* todo: lines written to the process; out: its answers.
NoProcess == [state |-> "none", settings |-> 0, todo |-> <<>>, out |-> <<>>]

Init ==
    /\ req = [r \in Request |->
          [pc |-> "idle", settings |-> 0, waited |-> FALSE, late |-> FALSE,
           result |-> None, answered |-> None, by |-> None]]
    /\ owner = None
    /\ proc = NoProcess
    /\ manager = [fingerprint |-> <<>>, cooldown |-> FALSE]
    /\ settings = 0
    /\ source \in [Request -> {"complete", "partial"}]
    /\ oneshot = {}
    /\ shutdown = "no"
    /\ woken = {}
    /\ missing = {}
    /\ budget \in Budgets

-----------------------------------------------------------------------------
Uses(op) == op \in budget.ops /\ budget.left > 0 /\ budget' = [budget EXCEPT !.left = @ - 1]
Down == shutdown # "no"
Goes(r, pc) == req' = [req EXCEPT ![r].pc = pc]
Ends(r, result) == req' = [req EXCEPT ![r].pc = "done", ![r].result = result]

\* Wrong on purpose: a screenshot that cannot be read counts as gone.
Hasty_SourceError(s) == IF s \in {"missing", "partial"} THEN "gone" ELSE "ok"

\* The codes of the engine and of the checks before it: input_not_found is
\* permanent, input_read_failed and image_decode_failed get bounded retries.
SourceError(s) ==
    IF s = "missing" THEN "gone" ELSE IF s = "partial" THEN "unreadable" ELSE "ok"

-----------------------------------------------------------------------------
(* A request of process_screenshot, extract_face_feature or probe_face_box. *)

\* The screenshot is looked at before the engine is asked; the settings of the
\* call are the ones it was made with.
Submits(r) ==
    /\ req[r].pc = "idle"
    /\ IF SourceError(source[r]) # "ok" THEN Ends(r, SourceError(source[r]))
       ELSE IF Down THEN Ends(r, "error")
       ELSE req' = [req EXCEPT ![r].pc = "mutex", ![r].settings = settings]
    /\ UNCHANGED <<owner, proc, manager, settings, source, oneshot, shutdown,
                   woken, missing, budget>>

\* Others may have held the mutex for nearly all of its time.
Locks(r) ==
    /\ req[r].pc = "mutex" /\ owner = None
    /\ owner' = r
    /\ \E waited \in BOOLEAN :
          /\ waited => \E q \in Request \ {r} : req[q].pc \notin {"idle", "mutex"}
          /\ req' = [req EXCEPT ![r].pc = "prepare", ![r].waited = waited]
    /\ UNCHANGED <<proc, manager, settings, source, oneshot, shutdown, woken,
                   missing, budget>>

\* Wrong on purpose: the shutdown is not looked for under the mutex.
Late_Prepares(r) ==
    LET same == manager.fingerprint = <<req[r].settings>>
        kept == IF same THEN proc ELSE NoProcess
    IN  /\ req[r].pc = "prepare"
        /\ proc' = kept
        /\ manager' = IF same THEN manager
                      ELSE [fingerprint |-> <<req[r].settings>>, cooldown |-> FALSE]
        /\ Goes(r, IF kept.state = "none" THEN "spawn" ELSE "ask")
        /\ UNCHANGED <<owner, settings, source, oneshot, shutdown, woken, missing,
                       budget>>

\* A process started under other settings is stopped, which also ends a cooldown.
Prepares(r) ==
    LET same == manager.fingerprint = <<req[r].settings>>
        kept == IF same THEN proc ELSE NoProcess
    IN  /\ req[r].pc = "prepare"
        /\ ~Down
        /\ proc' = kept
        /\ manager' = IF same THEN manager
                      ELSE [fingerprint |-> <<req[r].settings>>, cooldown |-> FALSE]
        /\ Goes(r, IF kept.state = "none" THEN "spawn" ELSE "ask")
        /\ UNCHANGED <<owner, settings, source, oneshot, shutdown, woken, missing,
                       budget>>

\* Gives the mutex back; without an answer the request goes on alone.
Releases(r) == owner' = None

Spawns(r) ==
    /\ req[r].pc = "spawn"
    /\ ~manager.cooldown
    /\ proc' = [state |-> "live", settings |-> req[r].settings,
                todo |-> <<Health>>, out |-> <<>>]
    /\ Goes(r, IF Down THEN "abandon" ELSE "helloBusy")
    /\ UNCHANGED <<owner, manager, settings, source, oneshot, shutdown, woken,
                   missing, budget>>

\* During a cooldown nothing is started; an executable that cannot be started,
\* begins one.
SpawnFails(r) ==
    /\ req[r].pc = "spawn"
    /\ manager.cooldown \/ "noStart" \in budget.ops
    /\ manager' = [manager EXCEPT !.cooldown = TRUE]
    /\ Releases(r)
    /\ Goes(r, "fallback")
    /\ UNCHANGED <<proc, settings, source, oneshot, shutdown, woken, missing, budget>>

\* The line is written if the process still runs; read_response looks at the
\* shutdown flag once, before it waits.
Asks(r) ==
    /\ req[r].pc = "ask"
    /\ IF proc.state = "live"
       THEN proc' = [proc EXCEPT !.todo = Append(@, r)]
            /\ Goes(r, IF Down THEN "stop" ELSE "readBusy")
       ELSE Goes(r, "stop") /\ UNCHANGED proc
    /\ UNCHANGED <<owner, manager, settings, source, oneshot, shutdown, woken,
                   missing, budget>>

\* The loop comes (back) to select!, which registers for the notification.
Waits(r) ==
    /\ req[r].pc \in Busy
    /\ Goes(r, IF req[r].pc = "helloBusy" THEN "hello" ELSE "read")
    /\ UNCHANGED <<owner, proc, manager, settings, source, oneshot, shutdown,
                   woken, missing, budget>>

\* A line of the error stream: progress, an event for the log, or noise.
TakesLine(r) ==
    /\ req[r].pc \in Waiting /\ r \notin woken
    /\ proc.state = "live" /\ proc.todo # <<>>
    /\ Goes(r, IF req[r].pc = "hello" THEN "helloBusy" ELSE "readBusy")
    /\ UNCHANGED <<owner, proc, manager, settings, source, oneshot, shutdown,
                   woken, missing, budget>>

\* What follows a failure: of the handshake, or of the request.
Failed(r) == IF req[r].pc = "hello" THEN "abandon" ELSE "stop"
AfterTimeout(r) ==
    CASE req[r].pc = "mutex" -> "fallback" [] req[r].pc = "alone" -> "done"
      [] OTHER -> Failed(r)

Expected(r) == IF req[r].pc = "hello" THEN Health ELSE r

\* Wrong on purpose: the next line of the process is the answer.
Trusting_Matches(r, line) == line.id # Health \/ req[r].pc = "hello"

\* validate_response: protocol, request id and action.
Matches(r, line) == line.id = Expected(r)

Accepts(r, line) ==
    IF req[r].pc = "hello" THEN Goes(r, "ask") /\ UNCHANGED owner
    ELSE /\ Releases(r)
         /\ req' = [req EXCEPT ![r].pc = "done", ![r].result = line.verdict,
                               ![r].answered = line.id, ![r].by = proc.settings]

\* select! is biased: shutdown and time come before an answer.
Reads(r) ==
    /\ req[r].pc \in Waiting /\ r \notin woken
    /\ proc.out # <<>>
    /\ LET line == Head(proc.out)
       IN  IF Matches(r, line)
           THEN Accepts(r, line) /\ proc' = [proc EXCEPT !.out = Tail(@)]
           ELSE Goes(r, Failed(r)) /\ UNCHANGED <<owner, proc>>
    /\ UNCHANGED <<manager, settings, source, oneshot, shutdown, woken, missing, budget>>

\* The wait ends without an answer: the application exits, or the process died.
GivesUp(r) ==
    /\ req[r].pc \in Waiting
    /\ r \in woken \/ (proc.state = "exited" /\ proc.out = <<>>)
    /\ Goes(r, Failed(r))
    /\ UNCHANGED <<owner, proc, manager, settings, source, oneshot, shutdown,
                   woken, missing, budget>>

\* Wrong on purpose: an answer is waited for as long as it takes.
Patient_TimesOut(r) ==
    /\ req[r].pc \in {"hello", "mutex", "ask", "alone"}
    /\ req[r].pc = "mutex" => owner # None
    /\ req' = [req EXCEPT
          ![r].late = req[r].pc # "hello" \/ req[r].waited,
          ![r].pc = AfterTimeout(r),
          ![r].result = IF req[r].pc = "alone" THEN "error" ELSE @]
    /\ oneshot' = oneshot \ {r}
    /\ UNCHANGED <<owner, proc, manager, settings, source, shutdown, woken, missing,
                   budget>>

\* The start has a limit of its own, the rest the budget of the request.
TimesOut(r) ==
    /\ req[r].pc \in Waiting \cup {"mutex", "ask", "alone"}
    /\ req[r].pc = "mutex" => owner # None
    /\ req' = [req EXCEPT
          ![r].late = req[r].pc # "hello" \/ req[r].waited,
          ![r].pc = AfterTimeout(r),
          ![r].result = IF req[r].pc = "alone" THEN "error" ELSE @]
    /\ oneshot' = oneshot \ {r}
    /\ UNCHANGED <<owner, proc, manager, settings, source, shutdown, woken, missing,
                   budget>>

\* A process that did not pass the handshake is dropped, which kills it.
Abandons(r) ==
    /\ req[r].pc = "abandon"
    /\ proc' = NoProcess
    /\ manager' = [manager EXCEPT !.cooldown = TRUE]
    /\ Releases(r)
    /\ Goes(r, "fallback")
    /\ UNCHANGED <<settings, source, oneshot, shutdown, woken, missing, budget>>

\* The process is ended, its end awaited, before anyone else gets the mutex.
Stops(r) ==
    /\ req[r].pc = "stop"
    /\ proc' = NoProcess
    /\ Releases(r)
    /\ Goes(r, "fallback")
    /\ UNCHANGED <<manager, settings, source, oneshot, shutdown, woken, missing, budget>>

\* Found shut down under the mutex.
Refuses(r) ==
    /\ req[r].pc = "prepare" /\ Down
    /\ Releases(r)
    /\ Goes(r, "fallback")
    /\ UNCHANGED <<proc, manager, settings, source, oneshot, shutdown, woken, missing,
                   budget>>

\* invoke_process_in_mode: no fallback during a shutdown, none without time.
FallsBack(r) ==
    /\ req[r].pc = "fallback"
    /\ IF Down \/ req[r].late THEN Ends(r, "error") /\ UNCHANGED oneshot
       ELSE Goes(r, "alone") /\ oneshot' = oneshot \cup {r}
    /\ UNCHANGED <<owner, proc, manager, settings, source, shutdown, woken, missing,
                   budget>>

\* The process started for this request alone answers, or fails.
Alone(r) ==
    /\ req[r].pc = "alone"
    /\ oneshot' = oneshot \ {r}
    /\ \/ req' = [req EXCEPT ![r].pc = "done", ![r].result = SourceError(source[r]),
                             ![r].answered = r, ![r].by = req[r].settings]
       \/ Ends(r, "error")
    /\ UNCHANGED <<owner, proc, manager, settings, source, shutdown, woken, missing,
                   budget>>

-----------------------------------------------------------------------------
(* The resident process, time, settings, screenshots, shutdown.            *)

\* The worker loop of cli.py: one line in, one line out, in order.
Answers ==
    /\ proc.state = "live" /\ proc.todo # <<>>
    /\ LET id == Head(proc.todo)
           verdict == IF id = Health THEN "ok" ELSE SourceError(source[id])
       IN proc' = [proc EXCEPT !.todo = Tail(@),
                               !.out = Append(@, [id |-> id, verdict |-> verdict])]
    /\ UNCHANGED <<req, owner, manager, settings, source, oneshot, shutdown, woken,
                   missing, budget>>

\* Something else on its standard output, or a request it could not parse.
Babbles ==
    /\ Uses("babble")
    /\ proc.state = "live"
    /\ proc' = [proc EXCEPT !.out = Append(@, [id |-> None, verdict |-> "error"])]
    /\ UNCHANGED <<req, owner, manager, settings, source, oneshot, shutdown, woken,
                   missing>>

Dies ==
    /\ Uses("die")
    /\ proc.state = "live"
    /\ proc' = [proc EXCEPT !.state = "exited"]
    /\ UNCHANGED <<req, owner, manager, settings, source, oneshot, shutdown, woken,
                   missing>>

CooldownEnds ==
    /\ manager.cooldown
    /\ manager' = [manager EXCEPT !.cooldown = FALSE]
    /\ UNCHANGED <<req, owner, proc, settings, source, oneshot, shutdown, woken,
                   missing, budget>>

ChangesSettings ==
    /\ Uses("settings")
    /\ settings' = settings + 1
    /\ UNCHANGED <<req, owner, proc, manager, source, oneshot, shutdown, woken, missing>>

\* A screenshot is finished, still being written, or removed.
SourceChanges(r, s) ==
    /\ Uses("source")
    /\ source[r] # s
    /\ source' = [source EXCEPT ![r] = s]
    /\ missing' = IF s = "missing" THEN missing \cup {r} ELSE missing
    /\ UNCHANGED <<req, owner, proc, manager, settings, oneshot, shutdown, woken>>

\* notify_waiters reaches whoever waits at that moment and nobody later.
ShutdownRequested ==
    /\ "shutdown" \in budget.ops
    /\ shutdown = "no"
    /\ shutdown' = "requested"
    /\ woken' = {r \in Request : req[r].pc \in Waiting}
    /\ UNCHANGED <<req, owner, proc, manager, settings, source, oneshot, missing, budget>>

ShutdownEnds ==
    /\ shutdown = "requested" /\ owner = None
    /\ shutdown' = "done"
    /\ proc' = NoProcess
    /\ UNCHANGED <<req, owner, manager, settings, source, oneshot, woken, missing, budget>>

Request1(r) ==
    \/ Locks(r) \/ Prepares(r) \/ Spawns(r) \/ SpawnFails(r) \/ Asks(r)
    \/ Waits(r) \/ Reads(r) \/ GivesUp(r) \/ TimesOut(r) \/ Abandons(r) \/ Stops(r)
    \/ Refuses(r) \/ FallsBack(r) \/ Alone(r)

Environment ==
    \/ Answers \/ Babbles \/ Dies \/ CooldownEnds \/ ChangesSettings
    \/ \E r \in Request, s \in {"complete", "partial", "missing"} : SourceChanges(r, s)
    \/ ShutdownRequested

Next ==
    \/ \E r \in Request : Submits(r) \/ Request1(r) \/ TakesLine(r)
    \/ Environment
    \/ ShutdownEnds

\* Waits end: every step of a request has a time limit.  Nothing obliges the
\* process to answer, or lines to stop coming: TimesOut is what ends a wait.
Fairness ==
    /\ \A r \in Request : WF_vars(Request1(r)) /\ SF_vars(TimesOut(r))
                          /\ SF_vars(Locks(r))
    /\ SF_vars(ShutdownEnds)

Spec == Init /\ [][Next]_vars /\ Fairness

-----------------------------------------------------------------------------
(* Properties *)

\* An answer is never taken for another request's, however late it comes, and
\* never from a line that names no request; and it was given under the settings
\* the request was made with, though one process serves them all and settings
\* change between a request and its turn. Two engines never work on one request,
\* and write its outputs, at once: before a request gets a process of its own the
\* resident one has been stopped.
OwnAnswer ==
    /\ \A r \in Request : req[r].by # None => req[r].answered = r /\ req[r].by = req[r].settings
    /\ \A r \in oneshot : \A k \in DOMAIN proc.todo : proc.todo[k] # r

\* When the application has shut the worker down none is started any more.
NoWorkerAfterShutdown == shutdown = "done" => proc.state = "none"

\* Only a screenshot that was really missing is reported as gone for good, which
\* makes the pre-label pass delete its capture.
PermanentOnlyIfMissing == \A r \in Request : req[r].result = "gone" => r \in missing

\* Whatever the process does, every request ends.
RequestsEnd == \A r \in Request : req[r].pc # "idle" ~> req[r].pc = "done"
=============================================================================

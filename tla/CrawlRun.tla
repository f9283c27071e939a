------------------------------ MODULE CrawlRun ------------------------------
(***************************************************************************)
(* A crawl run: Pipeline.run of pipeline/_run.py over the request queue    *)
(* and the runs table, for a sequence of processes on one workspace.       *)
(*                                                                         *)
(* Three kinds of actor interleave.  The main thread walks the run loop    *)
(* (pc); fetch threads of the executor move one request each (fetch); an   *)
(* operator in another process edits run_control.json (ctl).  Every SQLite *)
(* transaction of the main thread is a step of its own, so a crash may     *)
(* fall between any two.  The session lease the Pipeline holds on its      *)
(* workspace makes the process the only one, so run is one at a time.      *)
(***************************************************************************)
EXTENDS Frontier, RunState, Integers

CONSTANTS
  Seeds,        \* source.seed()
  Links,        \* Links[u]: in-scope children source.discover finds on u
  Redirects,    \* Redirects[u]: final URLs other than u a fetch of u may end at
  ScopeOf,      \* ScopeOf[u]: host scope of u, for domain admission
  Concurrency,  \* executor size, the ceiling of adaptive admission
  PerDomain,    \* ceiling of in-flight requests of one scope
  Limit,        \* max_pages
  MaxRequests,  \* crawl.max_requests
  ResetOnRun,   \* an incremental or revisiting task reopens settled work
  ResetCursor,  \* the API source paginates by cursor
  Outcomes,     \* how a fetch that ran may end
  Events,       \* faults and operator actions that may happen
  MaxFaults,    \* bound: faults in a behaviour
  MaxRuns,      \* bound: runs in a behaviour
  NoRequest

ASSUME TopologyOK ==
  /\ Seeds \subseteq Requests
  /\ Links \in [Requests -> SUBSET Requests]
  /\ Redirects \in [Requests -> SUBSET Requests]
  /\ DOMAIN ScopeOf = Requests
  /\ NoRequest \notin Requests
ASSUME BoundsOK ==
  /\ Concurrency \in Nat \ {0} /\ PerDomain \in Nat \ {0}
  /\ Limit \in Nat /\ MaxRequests \in Nat \ {0}
  /\ MaxRuns \in Nat /\ MaxFaults \in Nat
ASSUME ResetsOK == ResetOnRun \in BOOLEAN /\ ResetCursor \in BOOLEAN
ASSUME OutcomesOK ==
  Outcomes \subseteq {"ok", "transient", "permanent", "session", "extract", "policy"}

RunIds == 1 .. MaxRuns

VARIABLES
  \* state.sqlite3
  rows,         \* the frontier table
  runs,         \* runs.status
  errors,       \* the errors table: <<run, request or NoRequest>>
  checkpoints,  \* stage_checkpoints of the fetch stage: <<run, request>>
  stored,       \* addresses whose response and records were committed
  \* run_control.json
  ctl,
  \* the process
  pc, mode, run, options,
  fetch,        \* state of the future of each request in inflight
  ready,        \* futures (or seeds) the main thread still has to handle now
  current,      \* request whose result consume() is writing
  outcome,      \* how its fetch ended
  target,       \* its final URL
  processed, attempted, exhausted, verdict, egressOff, announced,
  \* bookkeeping of the model
  faults, broken,
  dropped       \* requests whose claim this process gave up without settling it

dbVars == <<rows, runs, errors, checkpoints, stored>>
loopVars == <<processed, attempted, exhausted>>
exitVars == <<verdict, egressOff, announced>>
writeVars == <<current, outcome, target>>
bookVars == <<faults, broken, dropped>>
vars == <<dbVars, ctl, pc, mode, run, options, fetch, ready, writeVars,
          loopVars, exitVars, bookVars>>

-----------------------------------------------------------------------------
(* Types                                                                   *)

FetchOutcomes == {"ok", "transient", "permanent", "session", "extract",
                  "policy", "stopped", "cancelled"}
FetchStates == {"none", "queued", "running"} \cup FetchOutcomes

PCs == {"down", "prepare", "retry", "seed", "limits", "top", "control", "gate",
        "claim", "submit", "wait", "drain", "consume", "await", "handle", "alias",
        "mark", "checkpoint", "settle", "aggregate", "export", "report", "finish",
        "after", "exit"}

SetupPCs == {"prepare", "retry", "seed", "limits"}

Modes == {"loop", "drain", "abort", "interrupt", "final"}

\* The steps of consume() once it has the result of the future it popped.
WritingPCs == {"handle", "alias", "mark", "checkpoint", "settle"}

\* And those in which it has popped the future.
HoldingPCs == WritingPCs \cup {"await"}

\* Where the process holds a run, a request and futures.
ControlOK ==
  /\ pc # "down" => run # 0
  /\ pc \in HoldingPCs => current \in Requests
  /\ pc \in WritingPCs => outcome \in FetchOutcomes
  /\ pc \notin HoldingPCs => current = NoRequest
  /\ pc \in {"alias", "mark"} => target \in Requests
  /\ pc \in SetupPCs \cup {"down"} =>
       mode = "loop" /\ \A u \in Requests : fetch[u] = "none"

StoreTypes ==
  /\ rows \in Tables
  /\ runs \in [RunIds -> RunStates]
  /\ errors \subseteq RunIds \X (Requests \cup {NoRequest})
  /\ checkpoints \subseteq RunIds \X Requests
  /\ stored \subseteq Requests
  /\ ctl \in [paused : BOOLEAN, stop : BOOLEAN]
  /\ run \in 0 .. MaxRuns
  /\ faults \in Nat
  /\ broken \subseteq RunIds
  /\ dropped \subseteq Requests

ProcessTypes ==
  /\ pc \in PCs /\ mode \in Modes
  /\ options \in [resume : BOOLEAN, retry : BOOLEAN]
  /\ fetch \in [Requests -> FetchStates]
  /\ ready \subseteq Requests
  /\ current \in Requests \cup {NoRequest}
  /\ target \in Requests \cup {NoRequest}
  /\ outcome \in FetchOutcomes \cup {"none"}
  /\ processed \in Nat /\ attempted \in Nat
  /\ exhausted \in BOOLEAN
  /\ verdict \in TerminalRunStates
  /\ egressOff \in BOOLEAN /\ announced \in BOOLEAN

TypeOK == StoreTypes /\ ProcessTypes /\ ControlOK

-----------------------------------------------------------------------------
(* State functions                                                         *)

Inflight == {u \in Requests : fetch[u] # "none"}
Finished == {u \in Requests : fetch[u] \in FetchOutcomes}

\* The request consume() has popped and not yet put down.
Held == {current} \ {NoRequest}

\* The batch a claim has taken and the executor has not been given yet.
Batch == IF pc = "submit" THEN ready ELSE {}

Up == pc # "down"

\* The egress broker refuses new requests: local switch or stop file.
EgressStopped == egressOff \/ ctl.stop

ErrorsOf(r) == {e \in errors : e[1] = r}

Idle == [u \in Requests |-> "none"]

MayFail(kind) == kind \in Events /\ faults < MaxFaults

Fault(kind) == MayFail(kind) /\ faults' = faults + 1

Init ==
  /\ rows = [u \in Requests |-> NoRow]
  /\ runs = [r \in RunIds |-> "none"]
  /\ errors = {} /\ checkpoints = {} /\ stored = {}
  /\ ctl = [paused |-> FALSE, stop |-> FALSE]
  /\ pc = "down" /\ mode = "loop" /\ run = 0
  /\ options = [resume |-> FALSE, retry |-> FALSE]
  /\ fetch = Idle /\ ready = {}
  /\ current = NoRequest /\ outcome = "none" /\ target = NoRequest
  /\ processed = 0 /\ attempted = 0 /\ exhausted = FALSE
  /\ verdict = "succeeded" /\ egressOff = FALSE /\ announced = FALSE
  /\ faults = 0 /\ broken = {} /\ dropped = {}

-----------------------------------------------------------------------------
(* Process start, setup and exit                                           *)

\* Mutant of ForgetProcess: the executor is not shut down.
ForgetProcessKeepsFutures ==
  /\ pc' = "down" /\ mode' = "loop"
  /\ options' = [resume |-> FALSE, retry |-> FALSE]
  /\ UNCHANGED fetch /\ ready' = {}
  /\ current' = NoRequest /\ outcome' = "none" /\ target' = NoRequest
  /\ processed' = 0 /\ attempted' = 0 /\ exhausted' = FALSE
  /\ verdict' = "succeeded" /\ egressOff' = FALSE /\ announced' = FALSE

\* Nothing of the process survives: the executor is shut down with its futures.
ForgetProcess ==
  /\ pc' = "down" /\ mode' = "loop"
  /\ options' = [resume |-> FALSE, retry |-> FALSE]
  /\ fetch' = Idle /\ ready' = {}
  /\ current' = NoRequest /\ outcome' = "none" /\ target' = NoRequest
  /\ processed' = 0 /\ attempted' = 0 /\ exhausted' = FALSE
  /\ verdict' = "succeeded" /\ egressOff' = FALSE /\ announced' = FALSE

\* run_control.reset(), reconnect_task() and start_run().
Start(resume, retry) ==
  /\ pc = "down" /\ run < MaxRuns
  /\ run' = run + 1
  /\ runs' = [runs EXCEPT ![run + 1] = "running"]
  /\ ctl' = [paused |-> FALSE, stop |-> FALSE]
  /\ options' = [resume |-> resume, retry |-> retry]
  /\ pc' = "prepare"
  /\ dropped' = {}
  /\ UNCHANGED <<rows, errors, checkpoints, stored, mode, fetch, ready, writeVars,
                 loopVars, exitVars, faults, broken>>

Prepare ==
  /\ pc = "prepare"
  /\ rows' = PrepareCycle(rows, ResetOnRun /\ ~options.resume,
                          ResetCursor /\ ~options.resume)
  /\ pc' = "retry"
  /\ UNCHANGED <<runs, errors, checkpoints, stored, ctl, mode, run, options, fetch,
                 ready, writeVars, loopVars, exitVars, bookVars>>

Retry ==
  /\ pc = "retry"
  /\ rows' = IF options.retry THEN RetryFailed(rows) ELSE rows
  /\ ready' = IF options.resume THEN {} ELSE Seeds
  /\ pc' = "seed"
  /\ UNCHANGED <<runs, errors, checkpoints, stored, ctl, mode, run, options, fetch,
                 writeVars, loopVars, exitVars, bookVars>>

SeedOne(u) ==
  /\ pc = "seed" /\ u \in ready
  /\ rows' = EnqueueForced(rows, u)
  /\ ready' = ready \ {u}
  /\ UNCHANGED <<runs, errors, checkpoints, stored, ctl, pc, mode, run, options, fetch,
                 writeVars, loopVars, exitVars, bookVars>>

Seeded ==
  /\ pc = "seed" /\ ready = {}
  /\ pc' = "limits"
  /\ UNCHANGED <<dbVars, ctl, mode, run, options, fetch, ready, writeVars, loopVars,
                 exitVars, bookVars>>

\* A setup exception is recorded, the run is failed and the exception leaves run().
SetupFails ==
  /\ pc \in {"prepare", "retry", "seed"}
  /\ Fault("error")
  /\ errors' = errors \cup {<<run, NoRequest>>}
  /\ runs' = [runs EXCEPT ![run] = "failed"]
  /\ ForgetProcess
  /\ UNCHANGED <<rows, checkpoints, stored, ctl, run, broken, dropped>>

\* The on_error hook raises inside that handler, in front of finish_run.
SetupReportRaises ==
  /\ pc \in {"prepare", "retry", "seed"}
  /\ Fault("hook")
  /\ errors' = errors \cup {<<run, NoRequest>>}
  /\ broken' = broken \cup {run}
  /\ ForgetProcess
  /\ UNCHANGED <<rows, runs, checkpoints, stored, ctl, run, dropped>>

\* The limits are read after start_run and outside every try block.
LimitsAccepted ==
  /\ pc = "limits"
  /\ pc' = "top"
  /\ UNCHANGED <<dbVars, ctl, mode, run, options, fetch, ready, writeVars, loopVars,
                 exitVars, bookVars>>

\* max_pages below 0, or max_requests (5 * max_pages by default) below 1.
LimitsRejected ==
  /\ pc = "limits" /\ Fault("limits")
  /\ ForgetProcess
  /\ UNCHANGED <<dbVars, ctl, run, broken, dropped>>

Exit ==
  /\ pc = "exit"
  /\ ForgetProcess
  /\ UNCHANGED <<dbVars, ctl, run, bookVars>>

\* The process is killed; only the database and the control file remain.
Crash ==
  /\ Up /\ Fault("crash")
  /\ broken' = broken \cup {run}
  /\ ForgetProcess
  /\ UNCHANGED <<dbVars, ctl, run, dropped>>

\* RecoveryCenter.continue_incomplete on a workspace nobody runs.
Recover ==
  /\ pc = "down" /\ "recover" \in Events
  /\ ctl' = [paused |-> FALSE, stop |-> FALSE]
  /\ runs' = [r \in RunIds |-> IF runs[r] \in {"running", "paused"}
                               THEN "retrying" ELSE runs[r]]
  /\ rows' = ReleaseClaims(rows)
  /\ UNCHANGED <<errors, checkpoints, stored, pc, mode, run, options, fetch, ready,
                 writeVars, loopVars, exitVars, bookVars>>

-----------------------------------------------------------------------------
(* run_control.json, written by the operator's process                     *)

OperatorWrites(event, state) ==
  /\ Up /\ event \in Events
  /\ ctl' = state
  /\ UNCHANGED <<dbVars, pc, mode, run, options, fetch, ready, writeVars, loopVars,
                 exitVars, bookVars>>

Pause == OperatorWrites("pause", [ctl EXCEPT !.paused = TRUE])
Resume == OperatorWrites("resume", [paused |-> FALSE, stop |-> FALSE])
RequestStop == OperatorWrites("stop", [paused |-> FALSE, stop |-> TRUE])

-----------------------------------------------------------------------------
(* The run loop                                                            *)

LoopTop ==
  /\ pc = "top"
  /\ pc' = IF Inflight # {} \/ (~exhausted /\ processed < Limit)
           THEN "control" ELSE "aggregate"
  /\ UNCHANGED <<dbVars, ctl, mode, run, options, fetch, ready, writeVars, loopVars,
                 exitVars, bookVars>>

\* Mutant of StopSeen: the stop is honoured only when nothing is in flight.
StopSeenWhenIdle ==
  /\ pc = "control" /\ ctl.stop /\ Inflight = {}
  /\ verdict' = "cancelled" /\ egressOff' = TRUE
  /\ mode' = "drain" /\ pc' = "drain"
  /\ UNCHANGED <<dbVars, ctl, run, options, fetch, ready, writeVars, loopVars,
                 announced, bookVars>>

\* wait_if_paused returns FALSE: disconnect and drain.
StopSeen ==
  /\ pc = "control" /\ ctl.stop
  /\ verdict' = "cancelled" /\ egressOff' = TRUE
  /\ mode' = "drain" /\ pc' = "drain"
  /\ UNCHANGED <<dbVars, ctl, run, options, fetch, ready, writeVars, loopVars,
                 announced, bookVars>>

\* The first poll that finds the pause announces it; later polls only sleep.
PauseSeen ==
  /\ pc = "control" /\ ~ctl.stop /\ ctl.paused /\ ~announced
  /\ announced' = TRUE
  /\ runs' = [runs EXCEPT ![run] = "paused"]
  /\ UNCHANGED <<rows, errors, checkpoints, stored, ctl, pc, mode, run, options, fetch,
                 ready, writeVars, loopVars, verdict, egressOff, bookVars>>

\* The poll found neither a pause nor a stop.
LetThrough ==
  /\ runs' = IF announced THEN [runs EXCEPT ![run] = "running"] ELSE runs
  /\ announced' = FALSE
  /\ pc' = "gate"

Proceed ==
  /\ pc = "control" /\ ~ctl.stop /\ ~ctl.paused
  /\ LetThrough
  /\ UNCHANGED <<rows, errors, checkpoints, stored, ctl, mode, run, options, fetch,
                 ready, writeVars, loopVars, verdict, egressOff, bookVars>>

\* A file that cannot be read or parsed counts as neither paused nor stopped.
ProceedMisread ==
  /\ pc = "control" /\ (ctl.stop \/ ctl.paused) /\ Fault("misread")
  /\ LetThrough
  /\ UNCHANGED <<rows, errors, checkpoints, stored, ctl, mode, run, options, fetch,
                 ready, writeVars, loopVars, verdict, egressOff, broken, dropped>>

\* should_stop() of the embedding application.
CancelRequested ==
  /\ pc = "gate" /\ "cancel" \in Events
  /\ verdict' = "cancelled" /\ egressOff' = TRUE
  /\ ctl' = [paused |-> FALSE, stop |-> TRUE]
  /\ mode' = "drain" /\ pc' = "drain"
  /\ UNCHANGED <<dbVars, run, options, fetch, ready, writeVars, loopVars, announced,
                 bookVars>>

\* ResourceGuard.check raises: the network stays open while the run drains.
ResourceExceeded ==
  /\ pc = "gate" /\ Fault("resource")
  /\ verdict' = "failed"
  /\ errors' = errors \cup {<<run, NoRequest>>}
  /\ mode' = "drain" /\ pc' = "drain"
  /\ UNCHANGED <<rows, runs, checkpoints, stored, ctl, run, options, fetch, ready,
                 writeVars, loopVars, egressOff, announced, broken, dropped>>

GatePassed ==
  /\ pc = "gate"
  /\ pc' = "claim"
  /\ UNCHANGED <<dbVars, ctl, mode, run, options, fetch, ready, writeVars, loopVars,
                 exitVars, bookVars>>

-----------------------------------------------------------------------------
(* Claiming                                                                *)

\* Mutant of Rooms: requests in flight do not count against max_pages.
RoomsUncounted(w) == {w - Cardinality(Inflight), Limit - processed,
                      MaxRequests - attempted - Cardinality(Inflight)}

\* What the three conditions of the inner while loop leave to claim, for an
\* admission width of w.
Rooms(w) == {w - Cardinality(Inflight),
             Limit - processed - Cardinality(Inflight),
             MaxRequests - attempted - Cardinality(Inflight)}

\* Requests of u's scope in B or already in flight.
SameScope(B, u) == {v \in B \cup Inflight : ScopeOf[v] = ScopeOf[u]}

Fits(B, w, width) ==
  /\ \A room \in Rooms(w) : Cardinality(B) <= room
  /\ \A u \in B : Cardinality(SameScope(B, u)) <= width[ScopeOf[u]]

\* The loop has claimed as much as it may.
Full(B, w) == \E room \in Rooms(w) : Cardinality(B) = room

\* Nothing that could still be claimed was left out.
Greedy(B, w, width) ==
  \/ Full(B, w)
  \/ \A u \in Pending(rows) \ B : Cardinality(SameScope(B, u)) >= width[ScopeOf[u]]

\* Adaptive admission may have narrowed to any width, globally and per scope.
Widths == [{ScopeOf[u] : u \in Requests} -> 1 .. PerDomain]

NoRoom(w) == \E room \in Rooms(w) : room <= 0

\* Mutant of ClaimClosed: a loop with nothing in flight polls instead of ending.
ClaimClosedWaits ==
  /\ pc = "claim"
  /\ exhausted \/ \E w \in 1 .. Concurrency : NoRoom(w)
  /\ pc' = "wait"
  /\ UNCHANGED <<dbVars, ctl, mode, run, options, fetch, ready, writeVars, loopVars,
                 exitVars, bookVars>>

ClaimClosed ==
  /\ pc = "claim"
  /\ exhausted \/ \E w \in 1 .. Concurrency : NoRoom(w)
  /\ pc' = IF Inflight = {} THEN "aggregate" ELSE "wait"
  /\ UNCHANGED <<dbVars, ctl, mode, run, options, fetch, ready, writeVars, loopVars,
                 exitVars, bookVars>>

\* The loop's last, empty claim is what sets frontier_exhausted; it is not
\* reached when the batch itself filled the room.
ClaimBatch(B, w, width) ==
  /\ pc = "claim" /\ ~exhausted /\ ~NoRoom(w)
  /\ Fits(B, w, width) /\ Greedy(B, w, width)
  /\ rows' = Claim(rows, B)
  /\ exhausted' = IF ~Full(B, w)
                     /\ attempted + Cardinality(Inflight) + 2 * Cardinality(B) < MaxRequests
                  THEN Pending(rows) \subseteq B ELSE exhausted
  /\ ready' = B
  /\ pc' = CASE B # {} -> "submit"
             [] B = {} /\ Inflight # {} -> "wait"
             [] OTHER -> "aggregate"
  /\ UNCHANGED <<runs, errors, checkpoints, stored, ctl, mode, run, options, fetch,
                 writeVars, processed, attempted, exitVars, bookVars>>

Submit ==
  /\ pc = "submit"
  /\ fetch' = [u \in Requests |-> IF u \in ready THEN "queued" ELSE fetch[u]]
  /\ attempted' = attempted + Cardinality(ready)
  /\ ready' = {}
  /\ pc' = "wait"
  /\ UNCHANGED <<dbVars, ctl, mode, run, options, writeVars, processed, exhausted,
                 exitVars, bookVars>>

-----------------------------------------------------------------------------
(* Fetch threads                                                           *)

\* A fetch that starts after the network was cut is refused by the broker.
FetchStart(u) ==
  /\ fetch[u] = "queued"
  /\ fetch' = [fetch EXCEPT ![u] = IF EgressStopped THEN "stopped" ELSE "running"]
  /\ UNCHANGED <<dbVars, ctl, pc, mode, run, options, ready, writeVars, loopVars,
                 exitVars, bookVars>>

\* The broker could not read the stop either.
FetchMisread(u) ==
  /\ fetch[u] = "queued" /\ ctl.stop /\ ~egressOff /\ Fault("misread")
  /\ fetch' = [fetch EXCEPT ![u] = "running"]
  /\ UNCHANGED <<dbVars, ctl, pc, mode, run, options, ready, writeVars, loopVars,
                 exitVars, broken, dropped>>

FetchEnd(u, how) ==
  /\ fetch[u] = "running"
  /\ how \in Outcomes \cup (IF EgressStopped THEN {"stopped"} ELSE {})
  /\ fetch' = [fetch EXCEPT ![u] = how]
  /\ UNCHANGED <<dbVars, ctl, pc, mode, run, options, ready, writeVars, loopVars,
                 exitVars, bookVars>>

-----------------------------------------------------------------------------
(* Waiting and draining                                                    *)

\* wait(inflight, FIRST_COMPLETED, timeout): nothing may have finished.
WaitDone ==
  /\ pc \in {"wait", "drain"}
  /\ ready' = Finished
  /\ pc' = "consume"
  /\ UNCHANGED <<dbVars, ctl, mode, run, options, fetch, writeVars, loopVars, exitVars,
                 bookVars>>

\* Mutant of AfterPass: an interrupted run is drained but not finished.
AfterPassUnfinished(m) ==
  CASE m = "loop" -> "top"
    [] m = "drain" -> "aggregate"
    [] m = "abort" -> "report"
    [] OTHER -> "exit"

\* Where a drain of mode m returns to.
AfterPass(m) ==
  CASE m = "loop" -> "top"
    [] m = "drain" -> "aggregate"
    [] m = "abort" -> "report"
    [] m = "interrupt" -> "finish"
    [] m = "final" -> "exit"

\* Mutant of PassEnds: a drain does not wait for what is still running.
PassEndsEarly ==
  /\ pc = "consume" /\ ready = {}
  /\ pc' = AfterPass(mode)
  /\ UNCHANGED <<dbVars, ctl, mode, run, options, fetch, ready, writeVars, loopVars,
                 exitVars, bookVars>>

PassEnds ==
  /\ pc = "consume" /\ ready = {}
  /\ mode = "loop" \/ Inflight = {}
  /\ pc' = AfterPass(mode)
  /\ UNCHANGED <<dbVars, ctl, mode, run, options, fetch, ready, writeVars, loopVars,
                 exitVars, bookVars>>

\* Drain timeout: queued futures are cancelled, running ones are waited for.
DrainRest ==
  /\ pc = "consume" /\ ready = {}
  /\ mode # "loop" /\ Inflight # {}
  /\ fetch' = [u \in Requests |-> IF fetch[u] = "queued" THEN "cancelled" ELSE fetch[u]]
  /\ ready' = Inflight
  /\ UNCHANGED <<dbVars, ctl, pc, mode, run, options, writeVars, loopVars, exitVars,
                 bookVars>>

-----------------------------------------------------------------------------
(* consume(): one future, transaction by transaction                       *)

\* The future is popped, and result() returns or raises at once.
Consume(u) ==
  /\ pc = "consume" /\ u \in ready /\ u \in Finished
  /\ current' = u /\ outcome' = fetch[u]
  /\ fetch' = [fetch EXCEPT ![u] = "none"]
  /\ ready' = ready \ {u}
  /\ pc' = "handle"
  /\ UNCHANGED <<dbVars, ctl, mode, run, options, target, loopVars, exitVars, bookVars>>

\* A drain pops a future that still runs: result() blocks with the request popped.
Await(u) ==
  /\ pc = "consume" /\ u \in ready /\ fetch[u] = "running" /\ mode # "loop"
  /\ current' = u
  /\ fetch' = [fetch EXCEPT ![u] = "none"]
  /\ ready' = ready \ {u}
  /\ pc' = "await"
  /\ UNCHANGED <<dbVars, ctl, mode, run, options, outcome, target, loopVars, exitVars,
                 bookVars>>

\* The fetch thread of the popped future ends.
ResultArrives(how) ==
  /\ pc = "await"
  /\ how \in Outcomes \cup (IF EgressStopped THEN {"stopped"} ELSE {})
  /\ outcome' = how
  /\ pc' = "handle"
  /\ UNCHANGED <<dbVars, ctl, mode, run, options, fetch, ready, current, target,
                 loopVars, exitVars, bookVars>>

\* Mutant of HandleDelivered: only the requested address is committed.
HandleDeliveredUnderOldName(final) ==
  /\ pc = "handle" /\ outcome = "ok"
  /\ final \in Redirects[current] \cup {current}
  /\ target' = final
  /\ stored' = stored \cup {current}
  /\ rows' = Discover(rows, Links[current])
  /\ exhausted' = FALSE
  /\ pc' = "alias"
  /\ UNCHANGED <<runs, errors, checkpoints, ctl, mode, run, options, fetch, ready, current,
                 outcome, processed, attempted, exitVars, bookVars>>

\* _handle_result commits the response, its records and the discovered links.
HandleDelivered(final) ==
  /\ pc = "handle" /\ outcome = "ok"
  /\ final \in Redirects[current] \cup {current}
  /\ target' = final
  /\ stored' = stored \cup {current, final}
  /\ rows' = Discover(rows, Links[current])
  /\ exhausted' = FALSE
  /\ pc' = "alias"
  /\ UNCHANGED <<runs, errors, checkpoints, ctl, mode, run, options, fetch, ready, current,
                 outcome, processed, attempted, exitVars, bookVars>>

Alias ==
  /\ pc = "alias"
  /\ rows' = IF target = current THEN rows ELSE MarkRedirectTargetDone(rows, target)
  /\ pc' = "mark"
  /\ UNCHANGED <<runs, errors, checkpoints, stored, ctl, mode, run, options, fetch, ready,
                 writeVars, loopVars, exitVars, bookVars>>

Mark ==
  /\ pc = "mark"
  /\ rows' = MarkDone(rows, current, "done", "none")
  /\ pc' = "checkpoint"
  /\ UNCHANGED <<runs, errors, checkpoints, stored, ctl, mode, run, options, fetch, ready,
                 writeVars, loopVars, exitVars, bookVars>>

\* consume() has returned: nothing is being written.
PutDown == current' = NoRequest /\ outcome' = "none" /\ target' = NoRequest

Checkpoint ==
  /\ pc = "checkpoint"
  /\ checkpoints' = checkpoints \cup {<<run, current>>}
  /\ processed' = processed + 1
  /\ PutDown
  /\ pc' = "consume"
  /\ UNCHANGED <<rows, runs, errors, stored, ctl, mode, run, options, fetch, ready,
                 attempted, exhausted, exitVars, bookVars>>

\* An exception under a delivered page becomes a failure of its request.  Its class
\* decides what follows: describe_error() calls timeouts and connection errors
\* retryable, a PermissionError is taken for a refusal.  The first transaction of
\* the handler is part of the step.
Thrown == {"transient", "permanent", "policy"}

ThrownUnder(how) ==
  /\ rows' = IF how = "policy" THEN MarkDone(rows, current, "blocked", how) ELSE rows
  /\ errors' = IF how = "policy" THEN errors ELSE errors \cup {<<run, current>>}
  /\ outcome' = how
  /\ pc' = "settle"

\* Storage fails between the response and the checkpoint.
StoreFails(how) ==
  /\ pc \in {"alias", "mark", "checkpoint"} \/ (pc = "handle" /\ outcome = "ok")
  /\ Fault("store")
  /\ ThrownUnder(how)
  /\ UNCHANGED <<runs, checkpoints, stored, ctl, mode, run, options, fetch, ready,
                 current, target, loopVars, exitVars, broken, dropped>>

\* The progress callback raises after the page was settled and counted: the row it
\* fails, or sends back to the queue, is done.
CallbackRaises(how) ==
  /\ pc = "checkpoint" /\ Fault("callback")
  /\ checkpoints' = checkpoints \cup {<<run, current>>}
  /\ processed' = processed + 1
  /\ ThrownUnder(how)
  /\ UNCHANGED <<runs, stored, ctl, mode, run, options, fetch, ready, current, target,
                 attempted, exhausted, exitVars, broken, dropped>>

\* A fetch or extraction error is recorded first; extraction may fail after the
\* response was stored and some of its links were queued.
HandleFailed(found) ==
  /\ pc = "handle" /\ outcome \in {"transient", "permanent", "session", "extract"}
  /\ found \subseteq Links[current] /\ (outcome = "extract" \/ found = {})
  /\ rows' = Discover(rows, found)
  /\ stored' = IF outcome = "extract" THEN stored \cup {current} ELSE stored
  /\ errors' = errors \cup {<<run, current>>}
  /\ pc' = "settle"
  /\ UNCHANGED <<runs, checkpoints, ctl, mode, run, options, fetch, ready, writeVars,
                 loopVars, exitVars, bookVars>>

\* A refusal: the row is blocked first and the error recorded after it.
Refused ==
  /\ rows' = MarkDone(rows, current, "blocked", outcome)
  /\ pc' = "settle"

HandleRefused ==
  /\ pc = "handle"
  /\ outcome = "policy" \/ (outcome = "stopped" /\ ~ctl.stop)
  /\ Refused
  /\ UNCHANGED <<runs, errors, checkpoints, stored, ctl, mode, run, options, fetch, ready,
                 writeVars, loopVars, exitVars, bookVars>>

\* Whether a stop was requested cannot be read: the request counts as refused.
RefusedMisread ==
  /\ pc = "handle" /\ outcome = "stopped" /\ ctl.stop /\ Fault("misread")
  /\ Refused
  /\ UNCHANGED <<runs, errors, checkpoints, stored, ctl, mode, run, options, fetch, ready,
                 writeVars, loopVars, exitVars, broken, dropped>>

\* Mutant of HandleReleased: a cancelled request is forgotten.
HandleReleasedDropped ==
  /\ pc = "handle"
  /\ outcome = "cancelled" \/ (outcome = "stopped" /\ ctl.stop)
  /\ verdict' = IF outcome = "stopped" THEN "cancelled" ELSE verdict
  /\ PutDown
  /\ pc' = "consume"
  /\ UNCHANGED <<dbVars, ctl, mode, run, options, fetch, ready, loopVars, egressOff,
                 announced, bookVars>>

\* Cancelled by the drain timeout, or refused because a stop was requested.
HandleReleased ==
  /\ pc = "handle"
  /\ outcome = "cancelled" \/ (outcome = "stopped" /\ ctl.stop)
  /\ rows' = MarkDone(rows, current, "pending", "none")
  /\ verdict' = IF outcome = "stopped" THEN "cancelled" ELSE verdict
  /\ PutDown
  /\ pc' = "consume"
  /\ UNCHANGED <<runs, errors, checkpoints, stored, ctl, mode, run, options, fetch, ready,
                 loopVars, egressOff, announced, bookVars>>

\* Mutant of SettleWrites: the error of a refusal is not recorded.
SettleWritesSilent ==
  /\ rows' = CASE outcome = "extract" -> MarkDone(rows, current, "failed", "extract")
               [] outcome \in {"policy", "stopped"} -> rows
               [] OTHER -> MarkFailed(rows, current,
                                      IF outcome = "session" THEN "session" ELSE "fetch",
                                      outcome = "transient")
  /\ UNCHANGED errors
  /\ PutDown

\* The second transaction of an unsuccessful outcome.
SettleWrites ==
  /\ rows' = CASE outcome = "extract" -> MarkDone(rows, current, "failed", "extract")
               [] outcome \in {"policy", "stopped"} -> rows
               [] OTHER -> MarkFailed(rows, current,
                                      IF outcome = "session" THEN "session" ELSE "fetch",
                                      outcome = "transient")
  /\ errors' = errors \cup {<<run, current>>}
  /\ PutDown

Settle ==
  /\ pc = "settle"
  /\ SettleWrites
  /\ pc' = "consume"
  /\ UNCHANGED <<runs, checkpoints, stored, ctl, mode, run, options, fetch, ready, loopVars,
                 exitVars, bookVars>>

\* An exception leaves consume(): in the loop it aborts the run, a drain
\* swallows it and leaves its other futures for the last drain.
RaiseOutOfConsume ==
  /\ mode' = IF mode = "loop" THEN "abort" ELSE mode
  /\ verdict' = IF mode = "loop" THEN "failed" ELSE verdict
  /\ egressOff' = (mode = "loop" \/ egressOff)
  /\ pc' = IF mode = "loop" THEN "drain" ELSE AfterPass(mode)
  /\ ready' = {}

\* The futures nobody will drain any more when the last drain is left.
Abandoned == IF mode = "final" THEN Inflight ELSE {}

\* on_error, a fail-closed plugin hook, raises after the outcome was settled.
HookRaises ==
  /\ pc = "settle" /\ Fault("hook")
  /\ SettleWrites
  /\ RaiseOutOfConsume
  /\ broken' = IF mode = "final" /\ Inflight # {} THEN broken \cup {run} ELSE broken
  /\ dropped' = dropped \cup Abandoned
  /\ UNCHANGED <<runs, checkpoints, stored, ctl, run, options, fetch, loopVars, announced>>

\* A transaction of the handler itself fails, under a page whose storage failed as
\* well: the row keeps the status it has.
HandlerFails ==
  /\ pc \in WritingPCs /\ Fault("store")
  /\ PutDown
  /\ RaiseOutOfConsume
  /\ broken' = broken \cup {run}
  /\ dropped' = dropped \cup Held \cup Abandoned
  /\ UNCHANGED <<dbVars, ctl, run, options, fetch, loopVars, announced>>

-----------------------------------------------------------------------------
(* The end of the run                                                      *)

\* Mutant of Aggregate: isolated failures do not count.
AggregateForgiving ==
  /\ pc = "aggregate"
  /\ verdict' = IF verdict = "succeeded" /\ attempted > 0 /\ processed = 0
                THEN "failed" ELSE verdict
  /\ errors' = IF verdict = "succeeded" /\ attempted > 0 /\ processed = 0
                  /\ ErrorsOf(run) = {}
               THEN errors \cup {<<run, NoRequest>>} ELSE errors
  /\ pc' = "export"
  /\ UNCHANGED <<rows, runs, checkpoints, stored, ctl, mode, run, options, fetch, ready,
                 writeVars, loopVars, egressOff, announced, bookVars>>

\* Isolated failures decide the status of a run nobody cancelled.
Aggregate ==
  /\ pc = "aggregate"
  /\ verdict' = IF verdict # "succeeded" THEN verdict
                ELSE IF attempted > 0 /\ processed = 0 THEN "failed"
                ELSE IF ErrorsOf(run) # {} THEN "partial_success"
                ELSE "succeeded"
  /\ errors' = IF verdict = "succeeded" /\ attempted > 0 /\ processed = 0
                  /\ ErrorsOf(run) = {}
               THEN errors \cup {<<run, NoRequest>>} ELSE errors
  /\ pc' = "export"
  /\ UNCHANGED <<rows, runs, checkpoints, stored, ctl, mode, run, options, fetch, ready,
                 writeVars, loopVars, egressOff, announced, bookVars>>

Export ==
  /\ pc = "export"
  /\ pc' = "finish"
  /\ UNCHANGED <<dbVars, ctl, mode, run, options, fetch, ready, writeVars, loopVars,
                 exitVars, bookVars>>

\* except Exception around the loop: disconnect, drain, then report and finish.
Aborts ==
  /\ verdict' = "failed" /\ egressOff' = TRUE
  /\ mode' = "abort" /\ pc' = "drain" /\ ready' = {}

\* An exception between two consumed futures; a batch claimed but not yet
\* submitted is left in progress.
LoopError ==
  /\ pc \in {"top", "control", "gate", "claim", "submit", "aggregate", "export"}
  /\ Fault("error")
  /\ Aborts
  /\ broken' = IF pc = "submit" THEN broken \cup {run} ELSE broken
  /\ dropped' = dropped \cup Batch
  /\ UNCHANGED <<dbVars, ctl, run, options, fetch, writeVars, loopVars, announced>>

\* finalize_removed or the "completed" callback raises after finish_run.
LateError ==
  /\ pc = "after" /\ Fault("late")
  /\ Aborts
  /\ UNCHANGED <<dbVars, ctl, run, options, fetch, writeVars, loopVars, announced, broken, dropped>>

\* The stage error of an aborted run.
Report ==
  /\ pc = "report"
  /\ errors' = errors \cup {<<run, NoRequest>>}
  /\ pc' = "finish"
  /\ UNCHANGED <<rows, runs, checkpoints, stored, ctl, mode, run, options, fetch, ready,
                 writeVars, loopVars, exitVars, bookVars>>

\* The hook raises again, in front of finish_run.
ReportRaises ==
  /\ pc = "report" /\ Fault("hook")
  /\ errors' = errors \cup {<<run, NoRequest>>}
  /\ mode' = "final" /\ pc' = "drain"
  /\ broken' = broken \cup {run}
  /\ UNCHANGED <<rows, runs, checkpoints, stored, ctl, run, options, fetch, ready,
                 writeVars, loopVars, exitVars, dropped>>

\* finish_run: a transition the status machine rejects leaves the row as it is.
Finish ==
  /\ pc = "finish"
  /\ runs' = IF MayTransition(runs[run], verdict)
             THEN [runs EXCEPT ![run] = verdict] ELSE runs
  /\ IF mode \in {"loop", "drain"} THEN pc' = "after" /\ UNCHANGED mode
                                   ELSE pc' = "drain" /\ mode' = "final"
  /\ UNCHANGED <<rows, errors, checkpoints, stored, ctl, run, options, fetch, ready,
                 writeVars, loopVars, exitVars, bookVars>>

AfterFinish ==
  /\ pc = "after"
  /\ pc' = "drain" /\ mode' = "final"
  /\ UNCHANGED <<dbVars, ctl, run, options, fetch, ready, writeVars, loopVars, exitVars,
                 bookVars>>

\* Ctrl-C during the setup is caught by nothing.
InterruptSetup ==
  /\ pc \in SetupPCs /\ Fault("interrupt")
  /\ ForgetProcess
  /\ UNCHANGED <<dbVars, ctl, run, broken, dropped>>

\* Ctrl-C in the loop or in the drain of a stop: stop, disconnect, drain, finish as
\* cancelled.  A request consume() has popped, or a claim took and nobody submitted,
\* keeps the status it has.
InterruptLoop ==
  /\ Up /\ pc \notin SetupPCs /\ mode \in {"loop", "drain"} /\ Fault("interrupt")
  /\ verdict' = "cancelled" /\ egressOff' = TRUE
  /\ ctl' = [paused |-> FALSE, stop |-> TRUE]
  /\ mode' = "interrupt" /\ pc' = "drain" /\ ready' = {}
  /\ PutDown
  /\ broken' = IF current # NoRequest \/ pc = "submit" THEN broken \cup {run} ELSE broken
  /\ dropped' = dropped \cup Held \cup Batch
  /\ UNCHANGED <<dbVars, run, options, fetch, loopVars, announced>>

\* Ctrl-C again while an exit path drains: its finally block still runs.
InterruptDrain ==
  /\ mode \in {"abort", "interrupt"} /\ pc \notin {"report", "finish"}
  /\ Fault("interrupt")
  /\ pc' = AfterPass(mode) /\ ready' = {}
  /\ PutDown
  /\ broken' = IF current # NoRequest THEN broken \cup {run} ELSE broken
  /\ dropped' = dropped \cup Held
  /\ UNCHANGED <<dbVars, ctl, mode, run, options, fetch, loopVars, exitVars>>

\* Ctrl-C inside that finally block, or in the last drain.
InterruptExit ==
  /\ \/ mode \in {"abort", "interrupt"} /\ pc \in {"report", "finish"} /\ pc' = "drain"
     \/ mode = "final" /\ pc # "exit" /\ pc' = "exit"
  /\ Fault("interrupt")
  /\ mode' = "final" /\ ready' = {}
  /\ PutDown
  /\ broken' = broken \cup {run}
  /\ dropped' = dropped \cup Held \cup Abandoned
  /\ UNCHANGED <<dbVars, ctl, run, options, fetch, loopVars, exitVars>>

-----------------------------------------------------------------------------
(* Specification                                                           *)

\* The main thread, when nothing goes wrong.
MainThread ==
  \/ Prepare \/ Retry \/ Seeded \/ LimitsAccepted
  \/ \E u \in Requests : SeedOne(u) \/ Consume(u) \/ Await(u)
  \/ LoopTop \/ StopSeen \/ PauseSeen \/ Proceed \/ GatePassed
  \/ ClaimClosed \/ Submit \/ WaitDone \/ PassEnds \/ DrainRest
  \/ \E B \in SUBSET Pending(rows), w \in 1 .. Concurrency, width \in Widths :
       ClaimBatch(B, w, width)
  \/ \E final \in Requests : HandleDelivered(final)
  \/ \E found \in SUBSET Requests : HandleFailed(found)
  \/ HandleRefused \/ HandleReleased
  \/ Alias \/ Mark \/ Checkpoint \/ Settle
  \/ Aggregate \/ Export \/ Report \/ Finish \/ AfterFinish \/ Exit

Failures ==
  \/ SetupFails \/ SetupReportRaises \/ LimitsRejected \/ ResourceExceeded
  \/ \E how \in Thrown : StoreFails(how) \/ CallbackRaises(how)
  \/ HookRaises \/ HandlerFails \/ LoopError
  \/ LateError \/ ReportRaises
  \/ ProceedMisread \/ RefusedMisread \/ \E u \in Requests : FetchMisread(u)
  \/ InterruptSetup \/ InterruptLoop \/ InterruptDrain \/ InterruptExit
  \/ Crash

Operator ==
  \/ \E resume, retry \in BOOLEAN : Start(resume, retry)
  \/ Recover \/ Pause \/ Resume \/ RequestStop \/ CancelRequested

Fetches ==
  \/ \E u \in Requests : FetchStart(u) \/ \E how \in FetchOutcomes : FetchEnd(u, how)
  \/ \E how \in FetchOutcomes : ResultArrives(how)

Next == MainThread \/ Fetches \/ Failures \/ Operator

Spec == Init /\ [][Next]_vars

\* The main thread and every executor thread keep running; a fetch ends because
\* the HTTP client carries a timeout.  Operators and faults are not fair.
Fairness ==
  /\ WF_vars(MainThread)
  /\ \A u \in Requests : /\ WF_vars(FetchStart(u))
                         /\ WF_vars(\E how \in FetchOutcomes : FetchEnd(u, how))
  /\ WF_vars(\E how \in FetchOutcomes : ResultArrives(how))

FairSpec == Spec /\ Fairness

-----------------------------------------------------------------------------
(* Safety                                                                  *)

InLoop == Up /\ pc \notin SetupPCs

\* A request has one holder: a claimed batch, a future or the write in progress.
\* Its row stays in_progress until that write releases it, so no other step can
\* claim or finish it (claim, consume, mark_redirect_target_done).
HolderOwnsClaim ==
  /\ \A u \in Requests :
       fetch[u] # "none" => rows[u].status = "in_progress" /\ u # current
  /\ pc = "submit" =>
       \A u \in ready : rows[u].status = "in_progress" /\ fetch[u] = "none"
  /\ pc \in {"await", "handle", "alias", "mark"} => rows[current].status = "in_progress"

\* The request being written, while its page may still count as delivered.
Deliverable == IF pc = "settle" THEN {} ELSE Held

\* The converse holds in the loop and on every exit path as well: a claim is with the
\* executor, with consume() or in a batch.  The only claims without a holder are those
\* an interrupt or a failing handler took out of consume()'s hands, those of a batch
\* an interrupt or an error fell on, and the futures of a last drain that was left.
ClaimsHaveOwner ==
  InLoop => InStatus(rows, {"in_progress"}) \subseteq Inflight \cup Held \cup Batch \cup dropped

\* However a run ends, short of a kill, its last drain leaves no request in progress
\* but those: each was given up at one of these moments, none by the exit itself.
NoOrphanAtExit == pc = "exit" => InStatus(rows, {"in_progress"}) \subseteq dropped

\* During a run a delivered page leaves done only through its own consume(), when an
\* exception follows its mark: it is then failed or queued again with an error on
\* record, or blocked with the error to follow.  No other request, redirect or link
\* reopens it.
DeliveredStaysDone ==
  [][\A u \in InStatus(rows, {"done"}) :
       InLoop /\ InLoop' /\ rows'[u].status # "done" =>
         /\ u = current /\ pc \in {"checkpoint", "settle"}
         /\ <<run, u>> \in errors' \/ (rows'[u].status = "blocked" /\ u = current')]_vars

\* Deliveries never pass max_pages even if everything claimed and in flight still
\* succeeds (a page that a callback failed after it was counted counts once), and
\* the request budget counts retries too.
BudgetsHold ==
  /\ processed + Cardinality(Inflight \cup Deliverable \cup Batch) <= Limit
  /\ attempted + Cardinality(Batch) <= MaxRequests

\* A request is done only after the response that answers it was committed,
\* whether it was fetched itself or as the target of a redirect.
DoneIsStored == \A u \in InStatus(rows, {"done"}) : u \in stored

\* What makes DoneIsStored inductive: the addresses consume() is about to finish
\* are committed before it writes their rows.
WritesAreStored ==
  pc \in {"alias", "mark"} => current \in stored /\ target \in stored

\* A crash replay, a forced re-seeding or a resumed run never gives a request
\* more attempts than http.retries plus one for every later run.
AttemptsBound ==
  \A u \in Requests :
    rows[u].attempts <= (IF MaxAttempts > 1 THEN MaxAttempts ELSE 1) + run - 1

\* A row that is failed or blocked has an error an operator can find, although
\* the two are written in different transactions and in either order.
FailureIsRecorded ==
  broken = {} =>
    \A u \in InStatus(rows, {"failed", "blocked"}) \ Held :
      \E r \in RunIds : <<r, u>> \in errors

\* The status of a run agrees with its errors and deliveries.
HonestVerdict ==
  \A r \in RunIds :
    /\ runs[r] = "succeeded" => ErrorsOf(r) = {}
    /\ runs[r] = "partial_success" =>
         ErrorsOf(r) # {} /\ \E u \in Requests : <<r, u>> \in checkpoints
    /\ runs[r] = "failed" => ErrorsOf(r) # {}

\* The first finish_run of a run is never a transition the machine rejects,
\* also when an operator paused and stopped the run in between.
FinishIsLegal ==
  pc = "finish" /\ mode \in {"loop", "drain"} => MayTransition(runs[run], verdict)

\* What makes FinishIsLegal inductive: up to finish_run the row of the run is
\* running, or it is paused and the loop still polls or has seen the stop.
RunIsOpen ==
  Up /\ mode \in {"loop", "drain"} /\ pc # "after" =>
    \/ runs[run] = "running"
    \/ /\ runs[run] = "paused"
       /\ \/ mode = "loop" /\ pc = "control" /\ announced
          \/ mode = "drain" /\ verdict = "cancelled"

\* A process that got past its setup leaves its run in a terminal state, unless
\* it is killed or interrupted inside its exit path.
LoopExitIsTerminal ==
  [][InLoop /\ ~Up' /\ run \notin broken' => runs'[run] \in TerminalRunStates]_vars

-----------------------------------------------------------------------------
(* Refinement                                                              *)

LedgerOf(status) ==
  CASE status = "absent" -> "unknown"
    [] status = "pending" -> "todo"
    [] status = "in_progress" -> "taken"
    [] OTHER -> "settled"

\* A request is taken until consume() puts it down: before, the handlers of consume()
\* may settle its row and open it again.
StateOf(u) == IF u = current THEN "taken" ELSE LedgerOf(rows[u].status)

Ledger == INSTANCE RequestLedger WITH
  ledger <- [u \in Requests |-> StateOf(u)],
  live <- InLoop

\* Over queue, threads, retries and restarts the crawl is a one-way ledger: a
\* request is taken once at a time, resolved once for each time it was taken, and what
\* consume() has settled and put down is not reopened mid-run.
ImplementsLedger == Ledger!Spec

-----------------------------------------------------------------------------
(* Liveness                                                                *)

\* A stop that is not withdrawn ends the process.
StopHalts == (Up /\ ctl.stop) ~> (~Up \/ ~ctl.stop)

\* A run that nobody pauses comes to its end.
Termination == Up ~> (~Up \/ ctl.paused)

-----------------------------------------------------------------------------
(* Statements of the code's comments and documents that it does not keep   *)

\* A request that may still be retried is not left behind by a run that ends on
\* its own with budget to spare (comment in the claim loop, mark_failed).
RetryableWorkDrained ==
  pc = "export" /\ mode = "loop" /\ verdict \in {"succeeded", "partial_success", "failed"}
    /\ processed < Limit /\ attempted < MaxRequests
    => Pending(rows) = {}

\* A request refused because the process itself cut the network is not blocked.
SelfStopNeverBlocks ==
  \A u \in Requests : ~(rows[u].status = "blocked" /\ rows[u].error = "stopped")

\* A single interrupt leaves no request in progress that was sent: the exit path
\* settles what is in flight (docs/OPERATIONS.md, cancelling and interrupting).
InterruptLeavesNoOrphan ==
  pc = "exit" /\ faults <= 1 /\ attempted > 0 => InStatus(rows, {"in_progress"}) = {}

\* Every interrupt leaves the run in a terminal state.
ExitIsTerminal ==
  [][Up /\ ~Up' /\ broken' = broken => runs'[run] \in TerminalRunStates]_vars

\* A run whose error table is not empty has not succeeded.
SucceededIsClean == \A r \in RunIds : runs[r] = "succeeded" => ErrorsOf(r) = {}
=============================================================================

-------------------------- MODULE CrawlStatusProofs -------------------------
(***************************************************************************)
(* What the rows of the runs table promise, for every topology, budget,    *)
(* number of runs and fault set.                                           *)
(*                                                                         *)
(* A done row is stored: rows become done in Alias and Mark only;          *)
(* WritesAreStored says that both addresses were committed by              *)
(* HandleDelivered before, and nothing removes an address from stored.     *)
(*                                                                         *)
(* The first finish_run of a run is a transition core/run_state.py         *)
(* allows: the row of a run is paused only while the loop polls            *)
(* run_control.json or after it has seen the stop (RunIsOpen), and the     *)
(* steps of the loop are taken only by a run that has not begun to drain   *)
(* (LoopIsUndrained).                                                      *)
(*                                                                         *)
(* A process that got past its setup leaves a terminal run: the exit paths *)
(* that skip the first finish_run bring a verdict of their own             *)
(* (ExitVerdict), and the last drain begins after it (EndIsTerminal).      *)
(*                                                                         *)
(* A verdict is honest: the counters of the process, the way it took out   *)
(* of the loop and the status it computed agree with the errors and        *)
(* checkpoints it has written (HonestInv).                                 *)
(***************************************************************************)
EXTENDS CrawlTypeProofs

USE DEF dbVars, loopVars, writeVars, exitVars, bookVars, HoldingPCs

\* The invariant of FinishedHasData.
Data == DoneIsStored /\ WritesAreStored

\* A step that finishes no row and begins no write of a delivered page.
LEMMA DataFrame ==
  ASSUME Data,
         stored \subseteq stored',
         \A u \in Requests : rows'[u].status = "done" => rows[u].status = "done",
         pc' \in {"alias", "mark"} =>
           pc \in {"alias", "mark"} /\ current' = current /\ target' = target
  PROVE  Data'
  BY DEF Data, DoneIsStored, WritesAreStored, InStatus

\* A step that writes neither rows nor data.
LEMMA QuietFrame ==
  ASSUME Data, rows' = rows, stored' = stored,
         pc' \in {"alias", "mark"} =>
           pc \in {"alias", "mark"} /\ current' = current /\ target' = target
  PROVE  Data'
  BY DataFrame

\* Process start, setup and exit.
LEMMA SetupData ==
  ASSUME TypeOK, Data
  PROVE  /\ (\E resume, retry \in BOOLEAN : Start(resume, retry)) => Data'
         /\ Prepare => Data'
         /\ Retry => Data'
         /\ (\E u \in Requests : SeedOne(u)) => Data'
         /\ (Seeded \/ LimitsAccepted) => Data'
         /\ (SetupFails \/ SetupReportRaises \/ LimitsRejected \/ InterruptSetup) => Data'
         /\ (Exit \/ Crash) => Data'
         /\ Recover => Data'
<1>. rows \in Tables
  BY DEF TypeOK, StoreTypes
<1>1. ASSUME \E resume, retry \in BOOLEAN : Start(resume, retry) PROVE Data'
  BY <1>1, QuietFrame DEF Start
<1>2. ASSUME Prepare PROVE Data'
  <2>1. \E a, b \in BOOLEAN : rows' = PrepareCycle(rows, a, b)
    BY <1>2, ResetsOK DEF Prepare, TypeOK, ProcessTypes
  <2>2. \A u \in Requests : rows'[u].status = "done" => rows[u].status = "done"
    BY <2>1, OnlyDeliveryFinishes
  <2>. QED BY <1>2, <2>2, DataFrame DEF Prepare
<1>3. ASSUME Retry PROVE Data'
  <2>1. \A u \in Requests : rows'[u].status = "done" => rows[u].status = "done"
    BY <1>3, OnlyDeliveryFinishes DEF Retry
  <2>. QED BY <1>3, <2>1, DataFrame DEF Retry
<1>4. ASSUME NEW u \in Requests, SeedOne(u) PROVE Data'
  <2>1. \A v \in Requests : rows'[v].status = "done" => rows[v].status = "done"
    BY <1>4, OnlyDeliveryFinishes DEF SeedOne
  <2>. QED BY <1>4, <2>1, DataFrame DEF SeedOne
<1>5. ASSUME Seeded \/ LimitsAccepted PROVE Data'
  BY <1>5, QuietFrame DEF Seeded, LimitsAccepted
<1>6. ASSUME SetupFails \/ SetupReportRaises \/ LimitsRejected \/ InterruptSetup PROVE Data'
  BY <1>6, QuietFrame DEF SetupFails, SetupReportRaises, LimitsRejected, InterruptSetup,
     ForgetProcess
<1>7. ASSUME Exit \/ Crash PROVE Data'
  BY <1>7, QuietFrame DEF Exit, Crash, ForgetProcess
<1>8. ASSUME Recover PROVE Data'
  <2>1. \A u \in Requests : rows'[u].status = "done" => rows[u].status = "done"
    BY <1>8, OnlyDeliveryFinishes DEF Recover
  <2>. QED BY <1>8, <2>1, DataFrame DEF Recover
<1>. QED BY <1>1, <1>2, <1>3, <1>4, <1>5, <1>6, <1>7, <1>8

\* The operator, the run loop, claiming, the fetch threads and the drains.
LEMMA LoopData ==
  ASSUME TypeOK, Data
  PROVE  /\ (Pause \/ Resume \/ RequestStop) => Data'
         /\ (LoopTop \/ StopSeen \/ PauseSeen \/ Proceed \/ ProceedMisread) => Data'
         /\ (CancelRequested \/ ResourceExceeded \/ GatePassed) => Data'
         /\ (ClaimClosed \/ Submit \/ WaitDone \/ PassEnds \/ DrainRest) => Data'
         /\ (\E B \in SUBSET Pending(rows), w \in 1 .. Concurrency, width \in Widths :
               ClaimBatch(B, w, width)) => Data'
         /\ (\E u \in Requests : FetchStart(u) \/ FetchMisread(u)) => Data'
         /\ (\E u \in Requests : \E how \in FetchOutcomes : FetchEnd(u, how)) => Data'
<1>1. ASSUME Pause \/ Resume \/ RequestStop PROVE Data'
  BY <1>1, QuietFrame DEF Pause, Resume, RequestStop, OperatorWrites
<1>2. ASSUME LoopTop \/ StopSeen \/ PauseSeen \/ Proceed \/ ProceedMisread PROVE Data'
  BY <1>2, QuietFrame DEF LoopTop, StopSeen, PauseSeen, Proceed, ProceedMisread, LetThrough
<1>3. ASSUME CancelRequested \/ ResourceExceeded \/ GatePassed PROVE Data'
  BY <1>3, QuietFrame DEF CancelRequested, ResourceExceeded, GatePassed
<1>4. ASSUME ClaimClosed \/ Submit \/ WaitDone \/ DrainRest PROVE Data'
  BY <1>4, QuietFrame DEF ClaimClosed, Submit, WaitDone, DrainRest
<1>5. ASSUME PassEnds PROVE Data'
  <2>1. pc' \notin {"alias", "mark"}
    BY <1>5 DEF PassEnds, AfterPass, TypeOK, ProcessTypes, Modes
  <2>. QED BY <1>5, <2>1, QuietFrame DEF PassEnds
<1>6. ASSUME NEW B \in SUBSET Pending(rows), NEW w \in 1 .. Concurrency,
             NEW width \in Widths, ClaimBatch(B, w, width)
      PROVE  Data'
  <2>1. B \in SUBSET Requests
    BY DEF Pending, InStatus
  <2>2. \A u \in Requests : rows'[u].status = "done" => rows[u].status = "done"
    BY <1>6, <2>1, OnlyDeliveryFinishes DEF ClaimBatch, TypeOK, StoreTypes
  <2>3. stored' = stored /\ pc' \in {"submit", "wait", "aggregate"}
    BY <1>6, Zenon DEF ClaimBatch
  <2>. QED BY <2>2, <2>3, DataFrame
<1>7. ASSUME NEW u \in Requests, FetchStart(u) \/ FetchMisread(u) PROVE Data'
  BY <1>7, QuietFrame DEF FetchStart, FetchMisread
<1>8. ASSUME NEW u \in Requests, NEW how \in FetchOutcomes, FetchEnd(u, how) PROVE Data'
  BY <1>8, QuietFrame DEF FetchEnd
<1>. QED BY <1>1, <1>2, <1>3, <1>4, <1>5, <1>6, <1>7, <1>8

\* What the second transaction of an unsuccessful outcome finishes: nothing.
LEMMA SettleFinishesNothing ==
  ASSUME TypeOK, SettleWrites, pc = "settle", NEW u \in Requests
  PROVE  rows'[u].status = "done" => rows[u].status = "done"
<1>1. current \in Requests /\ outcome \in FetchOutcomes /\ rows \in Tables
  BY DEF TypeOK, StoreTypes, ControlOK, WritingPCs
<1>2. CASE outcome = "extract"
  BY <1>1, <1>2, OnlyDeliveryFinishes DEF SettleWrites, Errors
<1>3. CASE outcome \in {"policy", "stopped"}
  BY <1>3 DEF SettleWrites
<1>4. CASE outcome \notin {"extract", "policy", "stopped"}
  <2>. DEFINE error == IF outcome = "session" THEN "session" ELSE "fetch"
              again == outcome = "transient"
  <2>1. rows' = MarkFailed(rows, current, error, again)
    BY <1>4 DEF SettleWrites
  <2>2. error \in Errors /\ again \in BOOLEAN
    BY DEF Errors
  <2>. QED BY <1>1, <2>1, <2>2, OnlyDeliveryFinishes
<1>. QED BY <1>2, <1>3, <1>4

\* An exception under a delivered page finishes nothing either.
LEMMA ThrownFinishesNothing ==
  ASSUME TypeOK, NEW how \in Thrown, ThrownUnder(how), pc \in WritingPCs
  PROVE  \A u \in Requests : rows'[u].status = "done" => rows[u].status = "done"
<1>1. current \in Requests /\ rows \in Tables
  BY DEF TypeOK, StoreTypes, ControlOK
<1>2. CASE how = "policy"
  <2>1. rows' = MarkDone(rows, current, "blocked", "policy")
    BY <1>2 DEF ThrownUnder
  <2>. QED BY <1>1, <2>1, OnlyDeliveryFinishes DEF Errors
<1>3. CASE how # "policy"
  BY <1>3 DEF ThrownUnder
<1>. QED BY <1>2, <1>3

\* The transactions of consume() and the ways out of it.
LEMMA ConsumeData ==
  ASSUME TypeOK, Data
  PROVE  /\ (\E u \in Requests : Consume(u) \/ Await(u)) => Data'
         /\ (\E how \in FetchOutcomes : ResultArrives(how)) => Data'
         /\ (\E final \in Requests : HandleDelivered(final)) => Data'
         /\ Alias => Data'
         /\ Mark => Data'
         /\ Checkpoint => Data'
         /\ (\E how \in Thrown : StoreFails(how) \/ CallbackRaises(how)) => Data'
         /\ (\E found \in SUBSET Requests : HandleFailed(found)) => Data'
         /\ (HandleRefused \/ RefusedMisread \/ HandleReleased) => Data'
         /\ Settle => Data'
         /\ HookRaises => Data'
         /\ HandlerFails => Data'
<1>. rows \in Tables
  BY DEF TypeOK, StoreTypes
<1>1. ASSUME NEW u \in Requests, Consume(u) \/ Await(u) PROVE Data'
  BY <1>1, QuietFrame DEF Consume, Await
<1>11. ASSUME NEW how \in FetchOutcomes, ResultArrives(how) PROVE Data'
  BY <1>11, QuietFrame DEF ResultArrives
<1>2. ASSUME NEW final \in Requests, HandleDelivered(final) PROVE Data'
  <2>1. Links[current] \in SUBSET Requests
    BY <1>2, TopologyOK DEF HandleDelivered, TypeOK, ControlOK, WritingPCs
  <2>2. \A u \in Requests : rows'[u].status = "done" => rows[u].status = "done"
    BY <1>2, <2>1, OnlyDeliveryFinishes DEF HandleDelivered
  <2>3. stored \subseteq stored' /\ current' \in stored' /\ target' \in stored'
    BY <1>2 DEF HandleDelivered
  <2>. QED BY <2>2, <2>3 DEF Data, DoneIsStored, WritesAreStored, InStatus
<1>3. ASSUME Alias PROVE Data'
  <2>1. target \in Requests /\ target \in stored
    BY <1>3 DEF Alias, TypeOK, ControlOK, Data, WritesAreStored
  <2>2. \A u \in Requests : u # target => rows'[u] = rows[u]
    BY <1>3, <2>1 DEF Alias, MarkRedirectTargetDone, Tables
  <2>3. DoneIsStored'
    BY <1>3, <2>1, <2>2 DEF Alias, Data, DoneIsStored, InStatus
  <2>4. WritesAreStored'
    BY <1>3 DEF Alias, Data, WritesAreStored
  <2>. QED BY <2>3, <2>4 DEF Data
<1>4. ASSUME Mark PROVE Data'
  <2>1. current \in Requests /\ current \in stored
    BY <1>4 DEF Mark, TypeOK, ControlOK, WritingPCs, Data, WritesAreStored
  <2>2. \A u \in Requests : u # current => rows'[u] = rows[u]
    BY <1>4, <2>1, SettlesOneRow DEF Mark
  <2>3. DoneIsStored'
    BY <1>4, <2>1, <2>2 DEF Mark, Data, DoneIsStored, InStatus
  <2>4. WritesAreStored'
    BY <1>4 DEF Mark, WritesAreStored
  <2>. QED BY <2>3, <2>4 DEF Data
<1>5. ASSUME Checkpoint PROVE Data'
  BY <1>5, QuietFrame DEF Checkpoint
<1>12. ASSUME NEW how \in Thrown, StoreFails(how) \/ CallbackRaises(how) PROVE Data'
  <2>1. pc \in WritingPCs /\ ThrownUnder(how)
    BY <1>12 DEF StoreFails, CallbackRaises, WritingPCs
  <2>2. \A u \in Requests : rows'[u].status = "done" => rows[u].status = "done"
    BY <2>1, ThrownFinishesNothing
  <2>. QED BY <1>12, <2>1, <2>2, DataFrame DEF StoreFails, CallbackRaises, ThrownUnder
<1>6. ASSUME NEW found \in SUBSET Requests, HandleFailed(found) PROVE Data'
  <2>1. \A u \in Requests : rows'[u].status = "done" => rows[u].status = "done"
    BY <1>6, OnlyDeliveryFinishes DEF HandleFailed
  <2>. QED BY <1>6, <2>1, DataFrame DEF HandleFailed
<1>7. ASSUME HandleRefused \/ RefusedMisread \/ HandleReleased PROVE Data'
  <2>1. current \in Requests /\ (HandleRefused \/ RefusedMisread => outcome \in Errors)
    BY <1>7 DEF HandleRefused, RefusedMisread, HandleReleased, TypeOK, ControlOK,
         WritingPCs,
       Errors
  <2>2. \A u \in Requests : rows'[u].status = "done" => rows[u].status = "done"
    BY <1>7, <2>1, OnlyDeliveryFinishes DEF HandleRefused, RefusedMisread, Refused,
       HandleReleased, Errors
  <2>. QED BY <1>7, <2>2, DataFrame DEF HandleRefused, RefusedMisread, Refused,
       HandleReleased
<1>8. ASSUME Settle PROVE Data'
  <2>1. \A u \in Requests : rows'[u].status = "done" => rows[u].status = "done"
    BY <1>8, SettleFinishesNothing DEF Settle
  <2>. QED BY <1>8, <2>1, DataFrame DEF Settle
<1>9. ASSUME HookRaises PROVE Data'
  <2>1. \A u \in Requests : rows'[u].status = "done" => rows[u].status = "done"
    BY <1>9, SettleFinishesNothing DEF HookRaises
  <2>2. pc' \notin {"alias", "mark"}
    BY <1>9 DEF HookRaises, RaiseOutOfConsume, AfterPass, TypeOK, ProcessTypes, Modes
  <2>. QED BY <1>9, <2>1, <2>2, DataFrame DEF HookRaises
<1>10. ASSUME HandlerFails PROVE Data'
  <2>1. pc' \notin {"alias", "mark"}
    BY <1>10 DEF HandlerFails, RaiseOutOfConsume, AfterPass, TypeOK, ProcessTypes, Modes
  <2>. QED BY <1>10, <2>1, QuietFrame DEF HandlerFails
<1>. QED BY <1>1, <1>2, <1>3, <1>4, <1>5, <1>6, <1>7, <1>8, <1>9, <1>10, <1>11, <1>12

\* The end of a run writes no row.
LEMMA ExitData ==
  ASSUME TypeOK, Data
  PROVE  /\ (Aggregate \/ Export \/ Report \/ AfterFinish \/ Finish) => Data'
         /\ (LoopError \/ LateError \/ ReportRaises) => Data'
         /\ (InterruptLoop \/ InterruptDrain \/ InterruptExit) => Data'
<1>1. ASSUME Aggregate \/ Export \/ Report \/ AfterFinish \/ Finish PROVE Data'
  BY <1>1, QuietFrame DEF Aggregate, Export, Report, AfterFinish, Finish
<1>2. ASSUME LoopError \/ LateError \/ ReportRaises PROVE Data'
  BY <1>2, QuietFrame DEF LoopError, LateError, Aborts, ReportRaises
<1>3. ASSUME InterruptLoop \/ InterruptExit PROVE Data'
  BY <1>3, QuietFrame DEF InterruptLoop, InterruptExit
<1>4. ASSUME InterruptDrain PROVE Data'
  <2>1. pc' \notin {"alias", "mark"}
    BY <1>4 DEF InterruptDrain, AfterPass, TypeOK, ProcessTypes, Modes
  <2>. QED BY <1>4, <2>1, QuietFrame DEF InterruptDrain
<1>. QED BY <1>1, <1>2, <1>3, <1>4

\* No step of the main thread, a fetch thread, the operator or a fault breaks it.
LEMMA StepData == TypeOK /\ Data /\ [Next]_vars => Data'
<1>. SUFFICES ASSUME TypeOK, Data, [Next]_vars PROVE Data'
  OBVIOUS
<1>1. CASE MainThread
  BY <1>1, SetupData, LoopData, ConsumeData, ExitData DEF MainThread
<1>2. CASE Fetches
  BY <1>2, LoopData, ConsumeData DEF Fetches
<1>3. CASE Failures
  BY <1>3, SetupData, LoopData, ConsumeData, ExitData DEF Failures
<1>4. CASE Operator
  BY <1>4, SetupData, LoopData DEF Operator
<1>5. CASE UNCHANGED vars
  BY <1>5 DEF vars, Data, DoneIsStored, WritesAreStored, InStatus
<1>. QED BY <1>1, <1>2, <1>3, <1>4, <1>5 DEF Next

\* A request counts as done only after the response that answers it was
\* committed, through every crash, storage failure and interrupt between the
\* transactions of consume() and through every later run of the task.
THEOREM FinishedHasData == Spec => []DoneIsStored
<1>1. Init => Data
  BY DEF Init, Data, DoneIsStored, WritesAreStored, InStatus, NoRow
<1>2. Data => DoneIsStored
  BY DEF Data
<1>. QED BY <1>1, <1>2, TypeCorrect, StepData, PTL DEF Spec

-----------------------------------------------------------------------------
(* The transitions of a run                                              *)

\* A drain never returns into the loop.
LoopIsUndrained ==
  pc \in SetupPCs \cup {"top", "control", "gate", "claim", "submit", "wait"} => mode = "loop"

\* The invariant of VerdictIsAccepted.
Open == RunIsOpen /\ LoopIsUndrained

\* A step that writes no run status, and either ends the loop or stays in a
\* part of the run where the row may not be paused unless it already was.
LEMMA OpenFrame ==
  ASSUME Open, runs' = runs, run' = run,
         pc' # "down" /\ mode' \in {"loop", "drain"} /\ pc' # "after" =>
           /\ mode' = mode /\ verdict' \in {verdict, "cancelled"}
           /\ pc \notin {"down", "after"}
           /\ pc = "control" => pc' = "control" /\ announced' = announced,
         pc' \in SetupPCs \cup {"top", "control", "gate", "claim", "submit", "wait"} =>
           mode' = "loop"
  PROVE  Open'
  BY DEF Open, RunIsOpen, LoopIsUndrained, Up

\* A step after which no process runs, or one that is on an exit path.
LEMMA ClosedFrame ==
  ASSUME (pc' = "down" /\ mode' = "loop") \/ mode' \in {"abort", "interrupt", "final"},
         pc' \notin SetupPCs \cup {"top", "control", "gate", "claim", "submit", "wait"}
  PROVE  Open'
  BY DEF Open, RunIsOpen, LoopIsUndrained, Up

\* Process start, setup and exit.
LEMMA SetupOpen ==
  ASSUME TypeOK, Open
  PROVE  /\ (\E resume, retry \in BOOLEAN : Start(resume, retry)) => Open'
         /\ Prepare => Open'
         /\ Retry => Open'
         /\ (\E u \in Requests : SeedOne(u)) => Open'
         /\ (Seeded \/ LimitsAccepted) => Open'
         /\ (SetupFails \/ SetupReportRaises \/ LimitsRejected \/ InterruptSetup) => Open'
         /\ (Exit \/ Crash) => Open'
         /\ Recover => Open'
<1>1. ASSUME NEW resume \in BOOLEAN, NEW retry \in BOOLEAN, Start(resume, retry) PROVE Open'
  <2>1. run' \in RunIds /\ runs'[run'] = "running"
    BY <1>1, BoundsOK DEF Start, RunIds, TypeOK, StoreTypes
  <2>2. mode' = "loop"
    BY <1>1 DEF Start, TypeOK, ControlOK
  <2>. QED BY <2>1, <2>2 DEF Open, RunIsOpen, LoopIsUndrained
<1>2. ASSUME Prepare \/ Retry PROVE Open'
  BY <1>2, OpenFrame DEF Prepare, Retry, Open, LoopIsUndrained, SetupPCs
<1>3. ASSUME NEW u \in Requests, SeedOne(u) PROVE Open'
  BY <1>3, OpenFrame DEF SeedOne, Open, LoopIsUndrained, SetupPCs
<1>4. ASSUME Seeded \/ LimitsAccepted PROVE Open'
  BY <1>4, OpenFrame DEF Seeded, LimitsAccepted, Open, LoopIsUndrained, SetupPCs
<1>5. ASSUME SetupFails \/ SetupReportRaises \/ LimitsRejected \/ InterruptSetup PROVE Open'
  BY <1>5, ClosedFrame DEF SetupFails, SetupReportRaises, LimitsRejected, InterruptSetup,
     ForgetProcess, SetupPCs
<1>6. ASSUME Exit \/ Crash PROVE Open'
  BY <1>6, ClosedFrame DEF Exit, Crash, ForgetProcess, SetupPCs
<1>7. ASSUME Recover PROVE Open'
  BY <1>7 DEF Recover, Open, RunIsOpen, LoopIsUndrained, Up
<1>. QED BY <1>1, <1>2, <1>3, <1>4, <1>5, <1>6, <1>7

\* The operator, the run loop, claiming, the fetch threads and the drains.
LEMMA LoopOpen ==
  ASSUME TypeOK, Open
  PROVE  /\ (Pause \/ Resume \/ RequestStop) => Open'
         /\ LoopTop => Open'
         /\ StopSeen => Open'
         /\ PauseSeen => Open'
         /\ (Proceed \/ ProceedMisread) => Open'
         /\ (CancelRequested \/ ResourceExceeded) => Open'
         /\ (GatePassed \/ ClaimClosed \/ Submit \/ WaitDone \/ DrainRest) => Open'
         /\ PassEnds => Open'
         /\ (\E B \in SUBSET Pending(rows), w \in 1 .. Concurrency, width \in Widths :
               ClaimBatch(B, w, width)) => Open'
         /\ (\E u \in Requests : FetchStart(u) \/ FetchMisread(u)) => Open'
         /\ (\E u \in Requests : \E how \in FetchOutcomes : FetchEnd(u, how)) => Open'
<1>1. ASSUME Pause \/ Resume \/ RequestStop PROVE Open'
  BY <1>1 DEF Pause, Resume, RequestStop, OperatorWrites, Open, RunIsOpen,
       LoopIsUndrained, Up
<1>2. ASSUME LoopTop PROVE Open'
  BY <1>2, OpenFrame DEF LoopTop, Open, LoopIsUndrained
<1>3. ASSUME StopSeen PROVE Open'
  BY <1>3 DEF StopSeen, Open, RunIsOpen, LoopIsUndrained, Up, SetupPCs
<1>4. ASSUME PauseSeen PROVE Open'
  <2>1. run \in RunIds
    BY <1>4, RunOfProcess DEF PauseSeen, TypeOK, ControlOK
  <2>2. runs'[run] = "paused"
    BY <1>4, <2>1 DEF PauseSeen, TypeOK, StoreTypes
  <2>. QED BY <1>4, <2>2 DEF PauseSeen, Open, RunIsOpen, LoopIsUndrained
<1>5. ASSUME Proceed \/ ProceedMisread PROVE Open'
  <2>a. LetThrough
    BY <1>5 DEF Proceed, ProceedMisread
  <2>b. pc = "control" /\ run' = run /\ mode' = mode
    BY <1>5 DEF Proceed, ProceedMisread, LetThrough
  <2>1. run \in RunIds
    BY <2>b, RunOfProcess DEF TypeOK, ControlOK
  <2>2. mode = "loop" /\ (~announced => runs[run] = "running")
    BY <2>b DEF Open, RunIsOpen, LoopIsUndrained, Up
  <2>3. runs'[run] = "running"
    BY <2>a, <2>1, <2>2 DEF LetThrough, TypeOK, StoreTypes
  <2>. QED BY <2>b, <2>2, <2>3 DEF Open, RunIsOpen, LoopIsUndrained
<1>6. ASSUME CancelRequested \/ ResourceExceeded PROVE Open'
  BY <1>6 DEF CancelRequested, ResourceExceeded, Open, RunIsOpen, LoopIsUndrained, Up,
       SetupPCs
<1>7. ASSUME GatePassed \/ ClaimClosed \/ Submit \/ WaitDone \/ DrainRest PROVE Open'
  BY <1>7, OpenFrame DEF GatePassed, ClaimClosed, Submit, WaitDone, DrainRest, Open,
     LoopIsUndrained, SetupPCs
<1>8. ASSUME PassEnds PROVE Open'
  <2>1. mode \in Modes /\ pc = "consume" /\ pc' = AfterPass(mode)
    BY <1>8 DEF PassEnds, TypeOK, ProcessTypes
  <2>2. pc' \in {"top", "aggregate", "report", "finish", "exit"} /\ (pc' = "top" => mode = "loop")
    BY <2>1 DEF AfterPass, Modes
  <2>. QED BY <1>8, <2>1, <2>2, OpenFrame DEF PassEnds, SetupPCs
<1>9. ASSUME NEW B \in SUBSET Pending(rows), NEW w \in 1 .. Concurrency,
             NEW width \in Widths, ClaimBatch(B, w, width)
      PROVE  Open'
  <2>1. pc = "claim" /\ pc' \in {"submit", "wait", "aggregate"}
    BY <1>9, Zenon DEF ClaimBatch
  <2>2. mode' = mode /\ runs' = runs /\ run' = run /\ verdict' = verdict
    BY <1>9, Zenon DEF ClaimBatch
  <2>. QED BY <2>1, <2>2, OpenFrame DEF Open, LoopIsUndrained
<1>10. ASSUME NEW u \in Requests, FetchStart(u) \/ FetchMisread(u) PROVE Open'
  BY <1>10 DEF FetchStart, FetchMisread, Open, RunIsOpen, LoopIsUndrained, Up
<1>11. ASSUME NEW u \in Requests, NEW how \in FetchOutcomes, FetchEnd(u, how) PROVE Open'
  BY <1>11 DEF FetchEnd, Open, RunIsOpen, LoopIsUndrained, Up
<1>. QED BY <1>1, <1>2, <1>3, <1>4, <1>5, <1>6, <1>7, <1>8, <1>9, <1>10, <1>11

\* The transactions of consume() and the ways out of it.
LEMMA ConsumeOpen ==
  ASSUME TypeOK, Open
  PROVE  /\ (\E u \in Requests : Consume(u) \/ Await(u)) => Open'
         /\ (\E how \in FetchOutcomes : ResultArrives(how)) => Open'
         /\ (\E final \in Requests : HandleDelivered(final)) => Open'
         /\ (Alias \/ Mark \/ Checkpoint) => Open'
         /\ (\E how \in Thrown : StoreFails(how) \/ CallbackRaises(how)) => Open'
         /\ (\E found \in SUBSET Requests : HandleFailed(found)) => Open'
         /\ (HandleRefused \/ RefusedMisread \/ HandleReleased \/ Settle) => Open'
         /\ (HookRaises \/ HandlerFails) => Open'
<1>1. ASSUME NEW u \in Requests, Consume(u) \/ Await(u) PROVE Open'
  BY <1>1, OpenFrame DEF Consume, Await, SetupPCs
<1>7. ASSUME NEW how \in FetchOutcomes, ResultArrives(how) PROVE Open'
  BY <1>7, OpenFrame DEF ResultArrives, SetupPCs
<1>2. ASSUME NEW final \in Requests, HandleDelivered(final) PROVE Open'
  BY <1>2, OpenFrame DEF HandleDelivered, SetupPCs
<1>3. ASSUME Alias \/ Mark \/ Checkpoint PROVE Open'
  BY <1>3, OpenFrame DEF Alias, Mark, Checkpoint, SetupPCs
<1>8. ASSUME NEW how \in Thrown, StoreFails(how) \/ CallbackRaises(how) PROVE Open'
  BY <1>8, OpenFrame DEF StoreFails, CallbackRaises, ThrownUnder, SetupPCs
<1>4. ASSUME NEW found \in SUBSET Requests, HandleFailed(found) PROVE Open'
  BY <1>4, OpenFrame DEF HandleFailed, SetupPCs
<1>5. ASSUME HandleRefused \/ RefusedMisread \/ HandleReleased \/ Settle PROVE Open'
  BY <1>5, OpenFrame DEF HandleRefused, RefusedMisread, Refused, HandleReleased, Settle,
     SetupPCs
<1>6. ASSUME HookRaises \/ HandlerFails PROVE Open'
  <2>1. pc \in WritingPCs /\ runs' = runs /\ run' = run /\ RaiseOutOfConsume
    BY <1>6 DEF HookRaises, HandlerFails, WritingPCs
  <2>2. CASE mode = "loop"
    BY <2>1, <2>2, ClosedFrame DEF RaiseOutOfConsume, SetupPCs
  <2>3. CASE mode # "loop"
    <3>1. mode' = mode /\ verdict' = verdict /\ pc' \in {"aggregate", "report", "finish", "exit"}
      BY <2>1, <2>3 DEF RaiseOutOfConsume, AfterPass, TypeOK, ProcessTypes, Modes
    <3>. QED BY <2>1, <3>1, OpenFrame DEF SetupPCs, WritingPCs
  <2>. QED BY <2>2, <2>3
<1>. QED BY <1>1, <1>2, <1>3, <1>4, <1>5, <1>6, <1>7, <1>8

\* The end of the run: only Finish writes the status, and then the run is over.
LEMMA ExitOpen ==
  ASSUME TypeOK, Open
  PROVE  /\ (Aggregate \/ Export \/ Report) => Open'
         /\ (Finish \/ AfterFinish) => Open'
         /\ (LoopError \/ LateError \/ ReportRaises) => Open'
         /\ (InterruptLoop \/ InterruptDrain \/ InterruptExit) => Open'
<1>1. ASSUME Aggregate PROVE Open'
  <2>1. pc = "aggregate" /\ pc' = "export" /\ mode' = mode /\ runs' = runs /\ run' = run
    BY <1>1, Zenon DEF Aggregate
  <2>2. verdict # "succeeded" => verdict' = verdict
    BY <1>1, SMT DEF Aggregate, ErrorsOf
  <2>. QED BY <2>1, <2>2 DEF Open, RunIsOpen, LoopIsUndrained, Up, SetupPCs
<1>2. ASSUME Export \/ Report PROVE Open'
  BY <1>2, OpenFrame DEF Export, Report, SetupPCs
<1>3. ASSUME Finish \/ AfterFinish PROVE Open'
  BY <1>3, ClosedFrame DEF Finish, AfterFinish, Open, RunIsOpen, LoopIsUndrained, SetupPCs
<1>4. ASSUME LoopError \/ LateError \/ ReportRaises PROVE Open'
  <2>1. mode' \in {"abort", "final"} /\ pc' = "drain"
    BY <1>4 DEF LoopError, LateError, Aborts, ReportRaises
  <2>. QED BY <2>1, ClosedFrame DEF SetupPCs
<1>5. ASSUME InterruptLoop \/ InterruptExit PROVE Open'
  BY <1>5, ClosedFrame DEF InterruptLoop, InterruptExit, SetupPCs
<1>6. ASSUME InterruptDrain PROVE Open'
  BY <1>6, ClosedFrame DEF InterruptDrain, AfterPass, SetupPCs
<1>. QED BY <1>1, <1>2, <1>3, <1>4, <1>5, <1>6

\* No step of the main thread, a fetch thread, the operator or a fault breaks it.
LEMMA StepOpen == TypeOK /\ Open /\ [Next]_vars => Open'
<1>. SUFFICES ASSUME TypeOK, Open, [Next]_vars PROVE Open'
  OBVIOUS
<1>1. CASE MainThread
  BY <1>1, SetupOpen, LoopOpen, ConsumeOpen, ExitOpen DEF MainThread
<1>2. CASE Fetches
  BY <1>2, LoopOpen, ConsumeOpen DEF Fetches
<1>3. CASE Failures
  BY <1>3, SetupOpen, LoopOpen, ConsumeOpen, ExitOpen DEF Failures
<1>4. CASE Operator
  BY <1>4, SetupOpen, LoopOpen DEF Operator
<1>5. CASE UNCHANGED vars
  BY <1>5 DEF vars, Open, RunIsOpen, LoopIsUndrained, Up
<1>. QED BY <1>1, <1>2, <1>3, <1>4, <1>5 DEF Next

\* The statuses an open run may be finished from admit every verdict it can have.
LEMMA OpenRunMayFinish == TypeOK /\ Open => FinishIsLegal
<1>. SUFFICES ASSUME TypeOK, Open, pc = "finish", mode \in {"loop", "drain"}
              PROVE  MayTransition(runs[run], verdict)
  BY DEF FinishIsLegal
<1>1. verdict \in TerminalRunStates
  BY DEF TypeOK, ProcessTypes
<1>2. runs[run] = "running" \/ (runs[run] = "paused" /\ verdict = "cancelled")
  BY DEF Open, RunIsOpen, Up
<1>3. CASE runs[run] = "running"
  <2>1. AllowedTransitions["running"] = TerminalRunStates \cup {"paused", "retrying"}
    BY DEF AllowedTransitions, RunStates
  <2>. QED BY <1>1, <1>3, <2>1 DEF MayTransition
<1>4. CASE runs[run] = "paused" /\ verdict = "cancelled"
  <2>1. AllowedTransitions["paused"] = {"running", "failed", "cancelled"}
    BY DEF AllowedTransitions, RunStates
  <2>. QED BY <1>4, <2>1 DEF MayTransition
<1>. QED BY <1>2, <1>3, <1>4

\* While the process runs its run is open in this sense.
LEMMA RunsAreOpen == Spec => []Open
<1>1. Init => Open
  BY DEF Init, Open, RunIsOpen, LoopIsUndrained, Up
<1>. QED BY <1>1, TypeCorrect, StepOpen, PTL DEF Spec

\* However an operator pauses, resumes and stops a run, and whatever fails on
\* the way, the verdict of a run that leaves its loop or its drain normally is
\* a status the machine of core/run_state.py accepts.
THEOREM VerdictIsAccepted == Spec => []FinishIsLegal
BY TypeCorrect, RunsAreOpen, OpenRunMayFinish, PTL

-----------------------------------------------------------------------------
(* How a run ends                                                          *)

\* A live process has a run that is open or finished.
RunIsKnown == Up => runs[run] \in {"running", "paused"} \cup TerminalRunStates

\* An aborted or interrupted run is not finished as a success.
ExitVerdict == mode \in {"abort", "interrupt"} => verdict \in {"failed", "cancelled"}

\* finish_run has succeeded before the last drain, unless that was cut short.
EndIsTerminal ==
  /\ pc = "after" => runs[run] \in TerminalRunStates
  /\ mode = "final" /\ run \notin broken => runs[run] \in TerminalRunStates
  /\ pc = "exit" => mode = "final"

\* The invariant of ExitsLeaveTerminalRuns.
ExitInv == RunIsKnown /\ ExitVerdict /\ EndIsTerminal

\* A step that writes no run status and enters the last drain only broken.
LEMMA ExitFrame ==
  ASSUME ExitInv, Up, runs' = runs, run' = run, broken \subseteq broken',
         mode' = "final" => mode = "final" \/ run \in broken',
         mode' \in {"abort", "interrupt"} => verdict' \in {"failed", "cancelled"},
         pc' # "after", pc' = "exit" => mode' = "final"
  PROVE  ExitInv'
  BY DEF ExitInv, RunIsKnown, ExitVerdict, EndIsTerminal, Up

\* The form it has when the mode and the verdict stay as they are.
LEMMA ExitQuiet ==
  ASSUME ExitInv, Up, runs' = runs, run' = run, broken \subseteq broken',
         mode' = mode, verdict' = verdict,
         pc' # "after", pc' = "exit" => mode' = "final"
  PROVE  ExitInv'
  BY ExitFrame DEF ExitInv, ExitVerdict

\* A process that is gone.
LEMMA ExitForgotten ==
  ASSUME ForgetProcess PROVE ExitInv'
  BY DEF ForgetProcess, ExitInv, RunIsKnown, ExitVerdict, EndIsTerminal, Up

\* Process start, setup and exit.
LEMMA SetupExits ==
  ASSUME TypeOK, ExitInv
  PROVE  /\ (\E resume, retry \in BOOLEAN : Start(resume, retry)) => ExitInv'
         /\ (Prepare \/ Retry \/ Seeded \/ LimitsAccepted) => ExitInv'
         /\ (\E u \in Requests : SeedOne(u)) => ExitInv'
         /\ (SetupFails \/ SetupReportRaises \/ LimitsRejected \/ InterruptSetup) => ExitInv'
         /\ (Exit \/ Crash) => ExitInv'
         /\ Recover => ExitInv'
<1>1. ASSUME NEW resume \in BOOLEAN, NEW retry \in BOOLEAN, Start(resume, retry)
      PROVE ExitInv'
  <2>1. run' \in RunIds /\ runs'[run'] = "running"
    BY <1>1, BoundsOK DEF Start, RunIds, TypeOK, StoreTypes
  <2>2. mode' = "loop" /\ pc' = "prepare"
    BY <1>1 DEF Start, TypeOK, ControlOK
  <2>. QED BY <2>1, <2>2 DEF ExitInv, RunIsKnown, ExitVerdict, EndIsTerminal
<1>2. ASSUME Prepare \/ Retry \/ Seeded \/ LimitsAccepted PROVE ExitInv'
  BY <1>2, ExitQuiet DEF Prepare, Retry, Seeded, LimitsAccepted, Up
<1>3. ASSUME NEW u \in Requests, SeedOne(u) PROVE ExitInv'
  BY <1>3, ExitQuiet DEF SeedOne, Up
<1>4. ASSUME SetupFails \/ SetupReportRaises \/ LimitsRejected \/ InterruptSetup
      PROVE ExitInv'
  BY <1>4, ExitForgotten DEF SetupFails, SetupReportRaises, LimitsRejected, InterruptSetup
<1>5. ASSUME Exit \/ Crash PROVE ExitInv'
  BY <1>5, ExitForgotten DEF Exit, Crash
<1>6. ASSUME Recover PROVE ExitInv'
  <2>1. pc = "down" /\ pc' = "down" /\ mode' = mode /\ mode = "loop"
    BY <1>6 DEF Recover, TypeOK, ControlOK
  <2>. QED BY <2>1 DEF ExitInv, RunIsKnown, ExitVerdict, EndIsTerminal, Up
<1>. QED BY <1>1, <1>2, <1>3, <1>4, <1>5, <1>6

\* The operator, the run loop, claiming, the fetch threads and the drains.
LEMMA LoopExits ==
  ASSUME TypeOK, LoopIsUndrained, ExitInv
  PROVE  /\ (Pause \/ Resume \/ RequestStop) => ExitInv'
         /\ (LoopTop \/ StopSeen) => ExitInv'
         /\ (PauseSeen \/ Proceed \/ ProceedMisread) => ExitInv'
         /\ (CancelRequested \/ ResourceExceeded \/ GatePassed) => ExitInv'
         /\ (ClaimClosed \/ Submit \/ WaitDone \/ DrainRest) => ExitInv'
         /\ PassEnds => ExitInv'
         /\ (\E B \in SUBSET Pending(rows), w \in 1 .. Concurrency, width \in Widths :
               ClaimBatch(B, w, width)) => ExitInv'
         /\ (\E u \in Requests : FetchStart(u) \/ \E how \in FetchOutcomes : FetchEnd(u, how))
              => ExitInv'
         /\ (\E u \in Requests : FetchMisread(u)) => ExitInv'
<1>1. ASSUME Pause \/ Resume \/ RequestStop PROVE ExitInv'
  BY <1>1 DEF Pause, Resume, RequestStop, OperatorWrites, ExitInv, RunIsKnown, ExitVerdict,
     EndIsTerminal, Up
<1>2. ASSUME LoopTop \/ StopSeen PROVE ExitInv'
  BY <1>2, ExitFrame DEF LoopTop, StopSeen, Up, LoopIsUndrained
<1>3. ASSUME PauseSeen \/ Proceed \/ ProceedMisread PROVE ExitInv'
  <2>1. run \in RunIds /\ pc = "control" /\ mode = "loop"
    BY <1>3, RunOfProcess DEF PauseSeen, Proceed, ProceedMisread, LetThrough,
         LoopIsUndrained
  <2>2. runs'[run] \in {"running", "paused", runs[run]}
    BY <1>3, <2>1 DEF PauseSeen, Proceed, ProceedMisread, LetThrough, TypeOK, StoreTypes
  <2>3. run' = run /\ mode' = "loop" /\ pc' \in {"control", "gate"}
    BY <1>3, <2>1 DEF PauseSeen, Proceed, ProceedMisread, LetThrough
  <2>. QED BY <2>1, <2>2, <2>3 DEF ExitInv, RunIsKnown, ExitVerdict, EndIsTerminal, Up
<1>4. ASSUME CancelRequested \/ ResourceExceeded \/ GatePassed PROVE ExitInv'
  BY <1>4, ExitFrame DEF CancelRequested, ResourceExceeded, GatePassed, Up, LoopIsUndrained
<1>5. ASSUME ClaimClosed \/ Submit \/ WaitDone \/ DrainRest PROVE ExitInv'
  BY <1>5, ExitQuiet DEF ClaimClosed, Submit, WaitDone, DrainRest, Up
<1>6. ASSUME PassEnds PROVE ExitInv'
  <2>1. pc' # "after" /\ (pc' = "exit" => mode = "final")
    BY <1>6 DEF PassEnds, AfterPass, TypeOK, ProcessTypes, Modes
  <2>. QED BY <1>6, <2>1, ExitQuiet DEF PassEnds, Up
<1>7. ASSUME NEW B \in SUBSET Pending(rows), NEW w \in 1 .. Concurrency,
             NEW width \in Widths, ClaimBatch(B, w, width)
      PROVE  ExitInv'
  <2>1. /\ pc = "claim" /\ pc' \in {"submit", "wait", "aggregate"}
        /\ mode' = mode /\ runs' = runs /\ run' = run /\ verdict' = verdict /\ broken' = broken
    BY <1>7, Zenon DEF ClaimBatch
  <2>. QED BY <2>1, ExitQuiet DEF Up
<1>8. ASSUME NEW u \in Requests, FetchStart(u) \/ \E how \in FetchOutcomes : FetchEnd(u, how)
      PROVE  ExitInv'
  BY <1>8 DEF FetchStart, FetchEnd, ExitInv, RunIsKnown, ExitVerdict, EndIsTerminal, Up
<1>9. ASSUME NEW u \in Requests, FetchMisread(u) PROVE ExitInv'
  BY <1>9 DEF FetchMisread, ExitInv, RunIsKnown, ExitVerdict, EndIsTerminal, Up
<1>. QED BY <1>1, <1>2, <1>3, <1>4, <1>5, <1>6, <1>7, <1>8, <1>9

\* The transactions of consume() and the ways out of it.
LEMMA ConsumeExits ==
  ASSUME TypeOK, ExitInv
  PROVE  /\ (\E u \in Requests : Consume(u) \/ Await(u)) => ExitInv'
         /\ (\E how \in FetchOutcomes : ResultArrives(how)) => ExitInv'
         /\ (\E final \in Requests : HandleDelivered(final)) => ExitInv'
         /\ (Alias \/ Mark \/ Checkpoint) => ExitInv'
         /\ (\E how \in Thrown : StoreFails(how) \/ CallbackRaises(how)) => ExitInv'
         /\ (\E found \in SUBSET Requests : HandleFailed(found)) => ExitInv'
         /\ (HandleRefused \/ RefusedMisread \/ Settle) => ExitInv'
         /\ HandleReleased => ExitInv'
         /\ (HookRaises \/ HandlerFails) => ExitInv'
<1>1. ASSUME NEW u \in Requests, Consume(u) \/ Await(u) PROVE ExitInv'
  BY <1>1, ExitQuiet DEF Consume, Await, Up
<1>8. ASSUME NEW how \in FetchOutcomes, ResultArrives(how) PROVE ExitInv'
  BY <1>8, ExitQuiet DEF ResultArrives, Up
<1>2. ASSUME NEW final \in Requests, HandleDelivered(final) PROVE ExitInv'
  BY <1>2, ExitQuiet DEF HandleDelivered, Up
<1>3. ASSUME Alias \/ Mark \/ Checkpoint PROVE ExitInv'
  BY <1>3, ExitQuiet DEF Alias, Mark, Checkpoint, Up
<1>9. ASSUME NEW how \in Thrown, StoreFails(how) \/ CallbackRaises(how) PROVE ExitInv'
  BY <1>9, ExitQuiet DEF StoreFails, CallbackRaises, ThrownUnder, Up
<1>4. ASSUME NEW found \in SUBSET Requests, HandleFailed(found) PROVE ExitInv'
  BY <1>4, ExitQuiet DEF HandleFailed, Up
<1>5. ASSUME HandleRefused \/ RefusedMisread \/ Settle PROVE ExitInv'
  BY <1>5, ExitQuiet DEF HandleRefused, RefusedMisread, Refused, Settle, Up
<1>6. ASSUME HandleReleased PROVE ExitInv'
  BY <1>6, ExitFrame DEF HandleReleased, Up, ExitInv, ExitVerdict
<1>7. ASSUME HookRaises \/ HandlerFails PROVE ExitInv'
  <2>1. /\ pc \in WritingPCs /\ runs' = runs /\ run' = run /\ RaiseOutOfConsume
        /\ broken \subseteq broken'
    BY <1>7 DEF HookRaises, HandlerFails, WritingPCs
  <2>2. /\ mode' \in {"abort", mode} /\ (mode' = "abort" => verdict' = "failed" \/ mode = "abort")
        /\ (mode # "loop" => mode' = mode /\ verdict' = verdict)
        /\ (mode = "loop" => mode' = "abort" /\ verdict' = "failed")
    BY <2>1 DEF RaiseOutOfConsume
  <2>3. pc' # "after" /\ (pc' = "exit" => mode' = "final")
    BY <2>1, <2>2 DEF RaiseOutOfConsume, AfterPass, TypeOK, ProcessTypes, Modes
  <2>. QED BY <2>1, <2>2, <2>3, ExitFrame DEF Up, ExitInv, ExitVerdict, WritingPCs
<1>. QED BY <1>1, <1>2, <1>3, <1>4, <1>5, <1>6, <1>7, <1>8, <1>9

\* finish_run leaves the run in a terminal state: a legal verdict is written, and
\* one the machine rejects finds the run finished before.
LEMMA FinishExits ==
  ASSUME TypeOK, FinishIsLegal, ExitInv, Finish PROVE ExitInv'
<1>1. run \in RunIds /\ verdict \in TerminalRunStates /\ mode \in Modes /\ pc = "finish"
  BY RunOfProcess DEF Finish, TypeOK, ProcessTypes
<1>2. runs'[run] = IF MayTransition(runs[run], verdict) THEN verdict ELSE runs[run]
  BY <1>1 DEF Finish, TypeOK, StoreTypes
<1>3. runs[run] \in {"running", "paused"} \cup TerminalRunStates
  BY <1>1 DEF ExitInv, RunIsKnown, Up
<1>4. /\ AllowedTransitions["running"] = TerminalRunStates \cup {"paused", "retrying"}
      /\ AllowedTransitions["paused"] = {"running", "failed", "cancelled"}
  BY DEF AllowedTransitions, RunStates
<1>5. runs'[run] \in TerminalRunStates \/ (mode = "final" /\ run \in broken)
  <2>1. CASE mode \in {"loop", "drain"}
    BY <1>1, <1>2, <2>1 DEF FinishIsLegal
  <2>2. CASE mode \in {"abort", "interrupt"}
    <3>1. verdict \in {"failed", "cancelled"}
      BY <2>2 DEF ExitInv, ExitVerdict
    <3>2. runs[run] \in {"running", "paused"} => MayTransition(runs[run], verdict)
      BY <1>1, <1>4, <3>1 DEF MayTransition
    <3>. QED BY <1>1, <1>2, <1>3, <3>2
  <2>3. CASE mode = "final"
    BY <1>1, <1>2, <2>3 DEF ExitInv, EndIsTerminal
  <2>. QED BY <1>1, <2>1, <2>2, <2>3 DEF Modes
<1>6. run' = run /\ verdict' = verdict /\ pc' \in {"after", "drain"}
  BY DEF Finish
<1>7. /\ mode' \in {mode, "final"} /\ (mode' = mode => ExitVerdict') /\ broken' = broken
      /\ mode = "final" => pc' = "drain"
  BY <1>6 DEF Finish, ExitInv, ExitVerdict
<1>8. runs'[run] \in {"running", "paused"} \cup TerminalRunStates
  BY <1>1, <1>2, <1>3
<1>. QED BY <1>5, <1>6, <1>7, <1>8 DEF ExitInv, RunIsKnown, ExitVerdict, EndIsTerminal

\* The rest of the end of a run.
LEMMA EndExits ==
  ASSUME TypeOK, ExitInv
  PROVE  /\ (Aggregate \/ Export \/ Report) => ExitInv'
         /\ AfterFinish => ExitInv'
         /\ (LoopError \/ LateError \/ ReportRaises) => ExitInv'
         /\ (InterruptLoop \/ InterruptDrain \/ InterruptExit) => ExitInv'
<1>1. ASSUME Aggregate PROVE ExitInv'
  <2>1. pc = "aggregate" /\ pc' = "export" /\ mode' = mode /\ runs' = runs /\ run' = run
    BY <1>1, Zenon DEF Aggregate
  <2>2. verdict # "succeeded" => verdict' = verdict
    BY <1>1, SMT DEF Aggregate, ErrorsOf
  <2>3. broken' = broken
    BY <1>1, Zenon DEF Aggregate
  <2>. QED BY <2>1, <2>2, <2>3, ExitFrame DEF Up, ExitInv, ExitVerdict, EndIsTerminal
<1>2. ASSUME Export \/ Report PROVE ExitInv'
  BY <1>2, ExitQuiet DEF Export, Report, Up
<1>3. ASSUME AfterFinish PROVE ExitInv'
  BY <1>3 DEF AfterFinish, ExitInv, RunIsKnown, ExitVerdict, EndIsTerminal, Up
<1>4. ASSUME LoopError \/ LateError \/ ReportRaises PROVE ExitInv'
  BY <1>4, ExitFrame DEF LoopError, LateError, Aborts, ReportRaises, Up
<1>5. ASSUME InterruptLoop \/ InterruptExit PROVE ExitInv'
  BY <1>5, ExitFrame DEF InterruptLoop, InterruptExit, Up, TypeOK, ControlOK
<1>6. ASSUME InterruptDrain PROVE ExitInv'
  <2>1. pc' \in {"report", "finish"} /\ Up
    BY <1>6 DEF InterruptDrain, AfterPass, Up, TypeOK, ControlOK
  <2>. QED BY <1>6, <2>1, ExitQuiet DEF InterruptDrain
<1>. QED BY <1>1, <1>2, <1>3, <1>4, <1>5, <1>6

\* Every step of the program, its operator and its faults.
LEMMA StepExits == TypeOK /\ Open /\ ExitInv /\ [Next]_vars => ExitInv'
<1>. SUFFICES ASSUME TypeOK, Open, ExitInv, [Next]_vars PROVE ExitInv'
  OBVIOUS
<1>. LoopIsUndrained /\ FinishIsLegal
  BY OpenRunMayFinish DEF Open
<1>1. CASE MainThread
  BY <1>1, SetupExits, LoopExits, ConsumeExits, EndExits, FinishExits DEF MainThread
<1>2. CASE Fetches
  BY <1>2, LoopExits, ConsumeExits DEF Fetches
<1>3. CASE Failures
  BY <1>3, SetupExits, LoopExits, ConsumeExits, EndExits DEF Failures
<1>4. CASE Operator
  BY <1>4, SetupExits, LoopExits DEF Operator
<1>5. CASE UNCHANGED vars
  BY <1>5 DEF vars, ExitInv, RunIsKnown, ExitVerdict, EndIsTerminal, Up
<1>. QED BY <1>1, <1>2, <1>3, <1>4, <1>5 DEF Next

\* A process that is past its setup ends by leaving run() or by being killed.
LEMMA LoopEndsByExit ==
  ASSUME TypeOK, InLoop, Next, ~Up' PROVE Exit \/ Crash
<1>. pc \notin SetupPCs /\ pc # "down" /\ pc' = "down"
  BY DEF InLoop, Up
<1>1. CASE MainThread
  <2>1. \A B \in SUBSET Pending(rows), w \in 1 .. Concurrency, width \in Widths :
          ClaimBatch(B, w, width) => pc' # "down"
    BY Zenon DEF ClaimBatch
  <2>2. (Aggregate \/ PassEnds) => pc' # "down"
    BY DEF Aggregate, PassEnds, AfterPass, TypeOK, ProcessTypes, Modes
  <2>3. (Prepare \/ Retry \/ Seeded \/ LimitsAccepted) => FALSE
    BY DEF Prepare, Retry, Seeded, LimitsAccepted, SetupPCs
  <2>4. \A u \in Requests : SeedOne(u) \/ Consume(u) \/ Await(u) => pc' # "down"
    BY DEF SeedOne, Consume, Await
  <2>5. (LoopTop \/ StopSeen \/ PauseSeen \/ Proceed \/ GatePassed) => pc' # "down"
    BY DEF LoopTop, StopSeen, PauseSeen, Proceed, LetThrough, GatePassed
  <2>6. (ClaimClosed \/ Submit \/ WaitDone \/ DrainRest) => pc' # "down"
    BY DEF ClaimClosed, Submit, WaitDone, DrainRest
  <2>7. \A final \in Requests : HandleDelivered(final) => pc' # "down"
    BY DEF HandleDelivered
  <2>8. \A found \in SUBSET Requests : HandleFailed(found) => pc' # "down"
    BY DEF HandleFailed
  <2>9. (HandleRefused \/ HandleReleased \/ Alias \/ Mark \/ Checkpoint \/ Settle) => pc' # "down"
    BY DEF HandleRefused, Refused, HandleReleased, Alias, Mark, Checkpoint, Settle
  <2>10. (Export \/ Report \/ Finish \/ AfterFinish) => pc' # "down"
    BY DEF Export, Report, Finish, AfterFinish
  <2>. QED BY <1>1, <2>1, <2>2, <2>3, <2>4, <2>5, <2>6, <2>7, <2>8, <2>9, <2>10
       DEF MainThread
<1>2. CASE Fetches
  BY <1>2 DEF Fetches, FetchStart, FetchEnd, ResultArrives
<1>3. CASE Failures
  <2>1. (SetupFails \/ SetupReportRaises \/ LimitsRejected \/ InterruptSetup) => FALSE
    BY DEF SetupFails, SetupReportRaises, LimitsRejected, InterruptSetup, SetupPCs
  <2>2. ResourceExceeded => pc' # "down"
    BY DEF ResourceExceeded
  <2>6. \A how \in Thrown : StoreFails(how) \/ CallbackRaises(how) => pc' # "down"
    BY DEF StoreFails, CallbackRaises, ThrownUnder
  <2>7. (ProceedMisread \/ RefusedMisread) => pc' # "down"
    BY DEF ProceedMisread, LetThrough, RefusedMisread, Refused
  <2>8. \A u \in Requests : FetchMisread(u) => pc' # "down"
    BY DEF FetchMisread
  <2>3. (HookRaises \/ HandlerFails) => pc' # "down"
    BY DEF HookRaises, HandlerFails, RaiseOutOfConsume, AfterPass, TypeOK, ProcessTypes,
         Modes
  <2>4. (LoopError \/ LateError \/ ReportRaises) => pc' # "down"
    BY DEF LoopError, LateError, Aborts, ReportRaises
  <2>5. (InterruptLoop \/ InterruptDrain \/ InterruptExit) => pc' # "down"
    BY DEF InterruptLoop, InterruptDrain, InterruptExit, AfterPass
  <2>. QED BY <1>3, <2>1, <2>2, <2>3, <2>4, <2>5, <2>6, <2>7, <2>8 DEF Failures
<1>4. CASE Operator
  BY <1>4 DEF Operator, Start, Recover, Pause, Resume, RequestStop, OperatorWrites,
       CancelRequested
<1>. QED BY <1>1, <1>2, <1>3, <1>4 DEF Next

\* From a table without runs on.
LEMMA ExitsAreKept == Spec => []ExitInv
<1>1. Init => ExitInv
  BY DEF Init, ExitInv, RunIsKnown, ExitVerdict, EndIsTerminal, Up
<1>. QED BY <1>1, TypeCorrect, RunsAreOpen, StepExits, PTL DEF Spec

\* A process that got past its setup never leaves a run open, by whichever of its
\* exit paths it goes (the end of the loop, a drain, an error or an interrupt in
\* the loop, a callback that raises): finish_run has succeeded for it, unless the
\* process was killed or interrupted inside its exit path.
THEOREM ExitsLeaveTerminalRuns == Spec => LoopExitIsTerminal
<1>1. TypeOK /\ ExitInv /\ [Next]_vars
        => [InLoop /\ ~Up' /\ run \notin broken' => runs'[run] \in TerminalRunStates]_vars
  <2>. SUFFICES ASSUME TypeOK, ExitInv, Next, InLoop, ~Up', run \notin broken'
                PROVE  runs'[run] \in TerminalRunStates
    OBVIOUS
  <2>1. Exit \/ Crash
    BY LoopEndsByExit
  <2>2. ~Crash
    BY DEF Crash
  <2>3. pc = "exit" /\ runs' = runs /\ broken' = broken
    BY <2>1, <2>2 DEF Exit
  <2>. QED BY <2>3 DEF ExitInv, EndIsTerminal
<1>. QED BY <1>1, TypeCorrect, ExitsAreKept, PTL DEF Spec, LoopExitIsTerminal

-----------------------------------------------------------------------------
(* What a status promises                                                *)

\* What HonestVerdict says of one run and one status.
Agrees(status, r) ==
  /\ status = "succeeded" => ErrorsOf(r) = {}
  /\ status = "partial_success" =>
       ErrorsOf(r) # {} /\ \E u \in Requests : <<r, u>> \in checkpoints
  /\ status = "failed" => ErrorsOf(r) # {}

\* Errors are written for the runs there have been.
ErrorsArePast == \A e \in errors : e[1] <= run

\* The counters of the process agree with what the run has written.
CountsAgree ==
  /\ Up /\ processed > 0 => \E u \in Requests : <<run, u>> \in checkpoints
  /\ attempted = 0 => Inflight = {} /\ current = NoRequest
  /\ Up /\ attempted = 0 /\ verdict = "succeeded" => ErrorsOf(run) = {}
  /\ pc = "down" => processed = 0 /\ attempted = 0 /\ verdict = "succeeded"

\* A drain or an exit path has a verdict already, and records what it fails for.
ModesAgree ==
  /\ mode = "drain" => verdict \in {"failed", "cancelled"}
                         /\ (verdict = "failed" => ErrorsOf(run) # {})
  /\ mode = "abort" => verdict \in {"failed", "cancelled"}
                         /\ (pc = "finish" => ErrorsOf(run) # {})
  /\ mode = "interrupt" => verdict = "cancelled"
  /\ mode = "final" => pc \in {"drain", "consume", "exit"} \cup HoldingPCs
  /\ pc \in {"aggregate", "export", "after"} => mode \in {"loop", "drain"}
  /\ pc = "report" => mode = "abort"

\* A loop that ends on its own has nothing in flight and aggregates its errors.
LoopAgrees ==
  /\ mode = "loop" /\ pc \notin {"export", "finish", "after"} =>
       verdict \in {"succeeded", "cancelled"}
  /\ mode = "loop" /\ pc \in {"aggregate", "export", "finish", "after"} => Inflight = {}
  /\ mode = "loop" /\ pc \in {"export", "finish"} => Agrees(verdict, run)

\* A run that has succeeded writes nothing more.
SuccessIsLast ==
  Up /\ runs[run] = "succeeded" =>
    Inflight = {} /\ current = NoRequest /\ (pc = "after" \/ mode \in {"interrupt", "final"})

\* What the memory of the process and the tables have in common.
ProcessAgrees == CountsAgree /\ ModesAgree /\ LoopAgrees /\ SuccessIsLast

\* The invariant of VerdictsAreHonest.
HonestInv == HonestVerdict /\ ErrorsArePast /\ ProcessAgrees

\* Statuses that promise nothing about errors and deliveries.
Neutral == {"running", "paused", "retrying", "cancelled"}

\* A step that gives a run no new promise and writes errors of its own run only,
\* one that has not succeeded.
LEMMA AgreeFrame ==
  ASSUME TypeOK, HonestVerdict, ErrorsArePast, run' \in Int, run <= run',
         \A r \in RunIds : runs'[r] = runs[r] \/ runs'[r] \in Neutral,
         errors \subseteq errors', \A e \in errors' : e \in errors \/ e[1] = run,
         errors' = errors \/ runs[run] # "succeeded",
         checkpoints \subseteq checkpoints'
  PROVE  HonestVerdict' /\ ErrorsArePast'
<1>1. \A r \in RunIds : ErrorsOf(r) \subseteq ErrorsOf(r)'
  BY DEF ErrorsOf
<1>2. \A r \in RunIds : runs[r] = "succeeded" => ErrorsOf(r)' = ErrorsOf(r)
  BY DEF ErrorsOf
<1>3. HonestVerdict'
  <2>. SUFFICES ASSUME NEW r \in RunIds, runs'[r] = runs[r]
                PROVE  /\ runs'[r] = "succeeded" => ErrorsOf(r)' = {}
                       /\ runs'[r] = "partial_success" =>
                            ErrorsOf(r)' # {} /\ \E u \in Requests : <<r, u>> \in checkpoints'
                       /\ runs'[r] = "failed" => ErrorsOf(r)' # {}
    BY DEF HonestVerdict, Neutral
  <2>1. runs'[r] = "succeeded" => ErrorsOf(r)' = {}
    BY <1>2 DEF HonestVerdict
  <2>2. runs'[r] = "failed" => ErrorsOf(r)' # {}
    BY <1>1 DEF HonestVerdict
  <2>3. runs'[r] = "partial_success" =>
          ErrorsOf(r)' # {} /\ \E u \in Requests : <<r, u>> \in checkpoints'
    BY <1>1 DEF HonestVerdict
  <2>. QED BY <2>1, <2>2, <2>3
<1>4. ErrorsArePast'
  <2>1. run \in Int /\ \A e \in errors : e[1] \in Int
    BY DEF TypeOK, StoreTypes, RunIds
  <2>. QED BY <2>1 DEF ErrorsArePast
<1>. QED BY <1>3, <1>4

\* A step of a live process that neither ends its loop nor leaves its drain.
LEMMA HonestFrame ==
  ASSUME TypeOK, HonestInv, Up, pc' # "down", run' = run, mode' = mode,
         \A r \in RunIds : runs'[r] = runs[r] \/ runs'[r] \in Neutral,
         errors \subseteq errors', \A e \in errors' : e \in errors \/ e[1] = run,
         errors' = errors \/ current # NoRequest,
         checkpoints \subseteq checkpoints',
         processed' = processed \/ \E u \in Requests : <<run, u>> \in checkpoints',
         attempted' = attempted, verdict' \in {verdict, "cancelled"},
         Inflight = {} /\ current = NoRequest => Inflight' = {} /\ current' = NoRequest,
         pc \notin {"export", "finish", "after"}, pc' \notin {"export", "after"},
         pc' = "finish" => mode = "interrupt",
         pc' = "aggregate" => mode = "drain" \/ (mode = "loop" /\ Inflight' = {}),
         pc' = "report" => mode = "abort",
         mode = "final" => pc' \in {"drain", "consume", "exit"} \cup HoldingPCs
  PROVE  HonestInv'
<1>1. run \in RunIds /\ run \in Int
  BY RunOfProcess DEF Up, RunIds
<1>2. errors' = errors \/ runs[run] # "succeeded"
  BY DEF HonestInv, ProcessAgrees, SuccessIsLast
<1>3. HonestVerdict' /\ ErrorsArePast'
  BY <1>1, <1>2, AgreeFrame DEF HonestInv
<1>4. ErrorsOf(run)' \in {ErrorsOf(run)} \/ current # NoRequest
  BY DEF ErrorsOf
<1>5. ErrorsOf(run) # {} => ErrorsOf(run)' # {}
  BY DEF ErrorsOf
<1>6. CountsAgree'
  <2>1. processed' > 0 => \E u \in Requests : <<run, u>> \in checkpoints'
    BY DEF HonestInv, ProcessAgrees, CountsAgree
  <2>2. attempted' = 0 => Inflight' = {} /\ current' = NoRequest
    BY DEF HonestInv, ProcessAgrees, CountsAgree
  <2>3. attempted' = 0 /\ verdict' = "succeeded" => ErrorsOf(run)' = {}
    BY <1>4 DEF HonestInv, ProcessAgrees, CountsAgree
  <2>. QED BY <2>1, <2>2, <2>3 DEF CountsAgree
<1>7. ModesAgree'
  BY <1>5 DEF HonestInv, ProcessAgrees, ModesAgree
<1>8. LoopAgrees'
  BY DEF HonestInv, ProcessAgrees, LoopAgrees
<1>9. SuccessIsLast'
  <2>1. runs'[run] = "succeeded" => runs[run] = "succeeded"
    BY <1>1 DEF Neutral
  <2>. QED BY <2>1 DEF HonestInv, ProcessAgrees, SuccessIsLast
<1>. QED BY <1>3, <1>6, <1>7, <1>8, <1>9 DEF HonestInv, ProcessAgrees

\* A step that changes the mode, or leaves the loop and its drain behind.
LEMMA HonestTurn ==
  ASSUME TypeOK, HonestInv, Up, pc' # "down", run' = run,
         \A r \in RunIds : runs'[r] = runs[r] \/ runs'[r] \in Neutral,
         errors \subseteq errors', \A e \in errors' : e \in errors \/ e[1] = run,
         errors' = errors \/ runs[run] # "succeeded", checkpoints' = checkpoints,
         processed' = processed, attempted' = attempted,
         Inflight = {} /\ current = NoRequest => Inflight' = {} /\ current' = NoRequest,
         verdict' = "succeeded" => verdict = "succeeded" /\ errors' = errors,
         ModesAgree', mode' # "loop",
         runs[run] = "succeeded" => mode' \in {"interrupt", "final"}
  PROVE  HonestInv'
<1>1. run \in RunIds /\ run \in Int
  BY RunOfProcess DEF Up, RunIds
<1>2. HonestVerdict' /\ ErrorsArePast'
  BY <1>1, AgreeFrame DEF HonestInv
<1>3. errors' = errors => ErrorsOf(run)' = ErrorsOf(run)
  BY DEF ErrorsOf
<1>4. CountsAgree'
  BY <1>3 DEF HonestInv, ProcessAgrees, CountsAgree
<1>5. LoopAgrees'
  BY DEF LoopAgrees
<1>6. SuccessIsLast'
  <2>1. runs'[run] = "succeeded" => runs[run] = "succeeded"
    BY <1>1 DEF Neutral
  <2>. QED BY <2>1 DEF HonestInv, ProcessAgrees, SuccessIsLast
<1>. QED BY <1>2, <1>4, <1>5, <1>6 DEF HonestInv, ProcessAgrees

\* A process that is gone has counted nothing and reached no verdict.
LEMMA HonestForgotten ==
  ASSUME ForgetProcess, HonestVerdict', ErrorsArePast' PROVE HonestInv'
<1>1. /\ Inflight' = {} /\ pc' = "down" /\ mode' = "loop" /\ verdict' = "succeeded"
      /\ current' = NoRequest /\ processed' = 0 /\ attempted' = 0
  BY DEF ForgetProcess, Inflight, Idle
<1>. QED BY <1>1 DEF HonestInv, ProcessAgrees, CountsAgree, ModesAgree, LoopAgrees,
     SuccessIsLast, Up

\* The requests in flight are a function of the futures.
LEMMA SameWork == fetch' = fetch => Inflight' = Inflight
  BY DEF Inflight

\* Process start, setup and exit.
LEMMA SetupHonest ==
  ASSUME TypeOK, HonestInv
  PROVE  /\ (\E resume, retry \in BOOLEAN : Start(resume, retry)) => HonestInv'
         /\ (Prepare \/ Retry \/ Seeded \/ LimitsAccepted) => HonestInv'
         /\ (\E u \in Requests : SeedOne(u)) => HonestInv'
         /\ SetupFails => HonestInv'
         /\ SetupReportRaises => HonestInv'
         /\ (LimitsRejected \/ InterruptSetup \/ Exit \/ Crash) => HonestInv'
         /\ Recover => HonestInv'
<1>a. pc \in SetupPCs => mode = "loop" /\ run \in RunIds /\ run \in Int
  BY RunOfProcess DEF TypeOK, ControlOK, SetupPCs, RunIds
<1>b. run \in Int /\ run <= run
  BY DEF TypeOK, StoreTypes
<1>c. pc \in SetupPCs => runs[run] # "succeeded"
  BY <1>a DEF HonestInv, ProcessAgrees, SuccessIsLast, Up, SetupPCs
<1>1. ASSUME NEW resume \in BOOLEAN, NEW retry \in BOOLEAN, Start(resume, retry)
      PROVE HonestInv'
  <2>1. /\ pc = "down" /\ run' = run + 1 /\ run' \in RunIds /\ pc' = "prepare" /\ mode' = "loop"
        /\ errors' = errors /\ checkpoints' = checkpoints /\ fetch' = fetch
        /\ current' = current /\ processed' = processed /\ attempted' = attempted
        /\ verdict' = verdict
    BY <1>1, BoundsOK DEF Start, RunIds, TypeOK, StoreTypes, ControlOK
  <2>2. runs'[run'] = "running" /\ \A r \in RunIds : runs'[r] = runs[r] \/ runs'[r] \in Neutral
    BY <1>1, <2>1 DEF Start, TypeOK, StoreTypes, Neutral
  <2>3. HonestVerdict' /\ ErrorsArePast'
    BY <1>b, <2>1, <2>2, AgreeFrame DEF HonestInv
  <2>4. {e \in errors' : e[1] = run'} = {}
    <3>. SUFFICES ASSUME NEW e \in errors, e[1] = run + 1 PROVE FALSE
      BY <2>1
    <3>. QED BY <1>b DEF HonestInv, ErrorsArePast
  <2>5. CountsAgree'
    BY <2>1, <2>4, SameWork DEF HonestInv, ProcessAgrees, CountsAgree, ErrorsOf
  <2>6. ModesAgree' /\ LoopAgrees' /\ SuccessIsLast'
    BY <2>1, <2>2 DEF HonestInv, ProcessAgrees, CountsAgree, ModesAgree, LoopAgrees,
         SuccessIsLast
  <2>. QED BY <2>3, <2>5, <2>6 DEF HonestInv, ProcessAgrees
<1>2. ASSUME Prepare \/ Retry \/ Seeded \/ LimitsAccepted PROVE HonestInv'
  BY <1>2, <1>a, HonestFrame, SameWork DEF Prepare, Retry, Seeded, LimitsAccepted, Up,
       SetupPCs
<1>3. ASSUME NEW u \in Requests, SeedOne(u) PROVE HonestInv'
  BY <1>3, <1>a, HonestFrame, SameWork DEF SeedOne, Up, SetupPCs
<1>4. ASSUME SetupFails PROVE HonestInv'
  <2>1. /\ pc \in SetupPCs /\ run' = run /\ checkpoints' = checkpoints
        /\ errors' = errors \cup {<<run, NoRequest>>} /\ runs' = [runs EXCEPT ![run] = "failed"]
    BY <1>4 DEF SetupFails, SetupPCs
  <2>2. /\ runs' [run] = "failed" /\ \A r \in RunIds : r # run => runs'[r] = runs[r]
    BY <1>a, <2>1 DEF TypeOK, StoreTypes
  <2>3. \A r \in RunIds : r # run => ErrorsOf(r)' = ErrorsOf(r)
    BY <2>1 DEF ErrorsOf
  <2>4. HonestVerdict'
    <3>. SUFFICES ASSUME NEW r \in RunIds
                  PROVE  /\ runs'[r] = "succeeded" => ErrorsOf(r)' = {}
                         /\ runs'[r] = "partial_success" =>
                              ErrorsOf(r)' # {} /\ \E u \in Requests : <<r, u>> \in checkpoints'
                         /\ runs'[r] = "failed" => ErrorsOf(r)' # {}
      BY DEF HonestVerdict
    <3>1. CASE r = run
      <4>1. <<run, NoRequest>> \in {e \in errors' : e[1] = r}
        BY <2>1, <3>1
      <4>2. runs'[r] = "failed" /\ ErrorsOf(r)' # {}
        BY <2>2, <3>1, <4>1 DEF ErrorsOf
      <4>. QED BY <4>2
    <3>2. CASE r # run
      BY <2>1, <2>2, <2>3, <3>2 DEF HonestInv, HonestVerdict
    <3>. QED BY <3>1, <3>2
  <2>5. ErrorsArePast'
    BY <1>b, <2>1 DEF HonestInv, ErrorsArePast
  <2>. QED BY <1>4, <2>4, <2>5, HonestForgotten DEF SetupFails
<1>5. ASSUME SetupReportRaises PROVE HonestInv'
  <2>1. /\ pc \in SetupPCs /\ run' = run /\ checkpoints' = checkpoints /\ runs' = runs
        /\ errors' = errors \cup {<<run, NoRequest>>}
    BY <1>5 DEF SetupReportRaises, SetupPCs
  <2>2. HonestVerdict' /\ ErrorsArePast'
    BY <1>b, <1>c, <2>1, AgreeFrame DEF HonestInv
  <2>. QED BY <1>5, <2>2, HonestForgotten DEF SetupReportRaises
<1>6. ASSUME LimitsRejected \/ InterruptSetup \/ Exit \/ Crash PROVE HonestInv'
  <2>1. ForgetProcess /\ run' = run /\ runs' = runs /\ errors' = errors /\ checkpoints' = checkpoints
    BY <1>6 DEF LimitsRejected, InterruptSetup, Exit, Crash
  <2>2. HonestVerdict' /\ ErrorsArePast'
    BY <1>b, <2>1, AgreeFrame DEF HonestInv
  <2>. QED BY <2>1, <2>2, HonestForgotten
<1>7. ASSUME Recover PROVE HonestInv'
  <2>1. \A r \in RunIds : runs'[r] = runs[r] \/ runs'[r] \in Neutral
    BY <1>7 DEF Recover, Neutral
  <2>2. HonestVerdict' /\ ErrorsArePast'
    BY <1>7, <1>b, <2>1, AgreeFrame DEF HonestInv, Recover
  <2>3. ProcessAgrees'
    BY <1>7, SameWork DEF Recover, HonestInv, ProcessAgrees, CountsAgree, ModesAgree,
         LoopAgrees,
       SuccessIsLast, Up, TypeOK, ControlOK
  <2>. QED BY <2>2, <2>3 DEF HonestInv
<1>. QED BY <1>1, <1>2, <1>3, <1>4, <1>5, <1>6, <1>7

\* A future stays in flight while its thread works on it.
LEMMA FetchKeepsInflight ==
  ASSUME TypeOK, NEW u \in Requests,
         FetchStart(u) \/ (\E how \in FetchOutcomes : FetchEnd(u, how)) \/ FetchMisread(u)
  PROVE  Inflight' = Inflight
<1>1. /\ fetch[u] # "none"
      /\ \E s \in FetchOutcomes \cup {"running"} : fetch' = [fetch EXCEPT ![u] = s]
  <2>1. CASE FetchStart(u)
    <3>1. CASE EgressStopped
      BY <2>1, <3>1 DEF FetchStart, FetchOutcomes
    <3>2. CASE ~EgressStopped
      BY <2>1, <3>2 DEF FetchStart
    <3>. QED BY <3>1, <3>2
  <2>2. CASE \E how \in FetchOutcomes : FetchEnd(u, how)
    BY <2>2 DEF FetchEnd
  <2>3. CASE FetchMisread(u)
    BY <2>3 DEF FetchMisread
  <2>. QED BY <2>1, <2>2, <2>3
<1>2. PICK s \in FetchOutcomes \cup {"running"} : fetch' = [fetch EXCEPT ![u] = s]
  BY <1>1
<1>3. s # "none"
  BY <1>2 DEF FetchOutcomes
<1>4. \A v \in Requests : fetch'[v] # "none" <=> fetch[v] # "none"
  BY <1>1, <1>2, <1>3 DEF TypeOK, ProcessTypes
<1>. QED BY <1>4 DEF Inflight

\* The operator, the run loop, claiming, the fetch threads and the drains.
LEMMA LoopHonest ==
  ASSUME TypeOK, LoopIsUndrained, HonestInv
  PROVE  /\ (Pause \/ Resume \/ RequestStop) => HonestInv'
         /\ LoopTop => HonestInv'
         /\ StopSeen => HonestInv'
         /\ (PauseSeen \/ Proceed \/ ProceedMisread) => HonestInv'
         /\ CancelRequested => HonestInv'
         /\ ResourceExceeded => HonestInv'
         /\ (GatePassed \/ ClaimClosed \/ WaitDone) => HonestInv'
         /\ DrainRest => HonestInv'
         /\ PassEnds => HonestInv'
         /\ (\E B \in SUBSET Pending(rows), w \in 1 .. Concurrency, width \in Widths :
               ClaimBatch(B, w, width)) => HonestInv'
         /\ Submit => HonestInv'
         /\ (\E u \in Requests : FetchStart(u) \/ \E how \in FetchOutcomes : FetchEnd(u, how))
              => HonestInv'
         /\ (\E u \in Requests : FetchMisread(u)) => HonestInv'
<1>a. pc \in {"top", "control", "gate", "claim", "submit", "wait"} =>
        mode = "loop" /\ runs[run] # "succeeded"
  BY DEF LoopIsUndrained, HonestInv, ProcessAgrees, SuccessIsLast, Up
<1>1. ASSUME Pause \/ Resume \/ RequestStop PROVE HonestInv'
  BY <1>1, SameWork DEF Pause, Resume, RequestStop, OperatorWrites, HonestInv,
       HonestVerdict,
     ErrorsArePast, ProcessAgrees, CountsAgree, ModesAgree, LoopAgrees, SuccessIsLast, Agrees,
     ErrorsOf, Up
<1>2. ASSUME LoopTop PROVE HonestInv'
  BY <1>2, <1>a, HonestFrame, SameWork DEF LoopTop, Up
<1>3. ASSUME StopSeen \/ CancelRequested PROVE HonestInv'
  <2>1. ModesAgree' /\ verdict' = "cancelled" /\ mode' = "drain"
    BY <1>3 DEF StopSeen, CancelRequested, ModesAgree
  <2>. QED BY <1>3, <1>a, <2>1, HonestTurn, SameWork DEF StopSeen, CancelRequested, Up
<1>4. ASSUME PauseSeen \/ Proceed \/ ProceedMisread PROVE HonestInv'
  <2>1. run \in RunIds
    BY <1>4, RunOfProcess DEF PauseSeen, Proceed, ProceedMisread, LetThrough
  <2>2. \A r \in RunIds : runs'[r] = runs[r] \/ runs'[r] \in Neutral
    BY <1>4, <2>1 DEF PauseSeen, Proceed, ProceedMisread, LetThrough, Neutral, TypeOK,
       StoreTypes
  <2>. QED BY <1>4, <1>a, <2>2, HonestFrame, SameWork
           DEF PauseSeen, Proceed, ProceedMisread, LetThrough, Up
<1>5. ASSUME ResourceExceeded PROVE HonestInv'
  <2>1. errors' = errors \cup {<<run, NoRequest>>} /\ run' = run
        /\ verdict' = "failed" /\ mode' = "drain" /\ pc' = "drain"
    BY <1>5 DEF ResourceExceeded
  <2>2. <<run, NoRequest>> \in {e \in errors' : e[1] = run'}
    BY <2>1
  <2>3. ModesAgree'
    BY <2>1, <2>2 DEF ModesAgree, ErrorsOf
  <2>. QED BY <1>5, <1>a, <2>1, <2>3, HonestTurn, SameWork DEF ResourceExceeded, Up
<1>6. ASSUME GatePassed \/ ClaimClosed \/ WaitDone PROVE HonestInv'
  BY <1>6, <1>a, HonestFrame, SameWork DEF GatePassed, ClaimClosed, WaitDone, Up
<1>7. ASSUME DrainRest PROVE HonestInv'
  <2>1. Inflight' = Inflight
    BY <1>7 DEF DrainRest, Inflight
  <2>. QED BY <1>7, <2>1, HonestFrame DEF DrainRest, Up
<1>8. ASSUME PassEnds PROVE HonestInv'
  <2>1. mode \in Modes /\ pc = "consume" /\ pc' = AfterPass(mode)
    BY <1>8 DEF PassEnds, TypeOK, ProcessTypes
  <2>2. /\ pc' \in {"top", "aggregate", "report", "finish", "exit"}
        /\ pc' = "finish" => mode = "interrupt"
        /\ pc' = "aggregate" => mode = "drain"
        /\ pc' = "report" => mode = "abort"
        /\ mode = "final" => pc' = "exit"
    BY <2>1 DEF AfterPass, Modes
  <2>. QED BY <1>8, <2>1, <2>2, HonestFrame, SameWork DEF PassEnds, Up
<1>9. ASSUME NEW B \in SUBSET Pending(rows), NEW w \in 1 .. Concurrency,
             NEW width \in Widths, ClaimBatch(B, w, width)
      PROVE  HonestInv'
  <2>1. /\ pc = "claim" /\ pc' \in {"submit", "wait", "aggregate"}
        /\ mode' = mode /\ runs' = runs /\ run' = run /\ verdict' = verdict /\ errors' = errors
    BY <1>9, Zenon DEF ClaimBatch
  <2>2. /\ checkpoints' = checkpoints /\ processed' = processed /\ attempted' = attempted
        /\ fetch' = fetch /\ current' = current
    BY <1>9, Zenon DEF ClaimBatch
  <2>3. pc' = "aggregate" => Inflight = {}
    BY <1>9, Zenon DEF ClaimBatch
  <2>. QED BY <1>a, <2>1, <2>2, <2>3, HonestFrame, SameWork DEF Up
<1>10. ASSUME Submit PROVE HonestInv'
  <2>1. /\ pc = "submit" /\ pc' = "wait" /\ mode' = mode /\ runs' = runs /\ run' = run
        /\ verdict' = verdict /\ errors' = errors /\ checkpoints' = checkpoints
        /\ processed' = processed /\ current' = current
        /\ attempted' = attempted + Cardinality(ready)
    BY <1>10 DEF Submit
  <2>2. IsFiniteSet(ready) /\ Cardinality(ready) \in Nat /\ attempted \in Nat
    BY RequestsFinite, FS_Subset, FS_CardinalityType DEF TypeOK, ProcessTypes
  <2>3. CASE ready = {}
    <3>1. Inflight' = Inflight
      BY <1>10, <2>3 DEF Submit, Inflight
    <3>2. attempted' = attempted
      BY <2>1, <2>2, <2>3, FS_EmptySet
    <3>. QED BY <1>a, <2>1, <3>1, <3>2, HonestFrame DEF Up
  <2>4. CASE ready # {}
    <3>1. attempted' > 0
      BY <2>1, <2>2, <2>4, FS_EmptySet
    <3>2. HonestVerdict' /\ ErrorsArePast'
      BY <2>1, AgreeFrame DEF HonestInv, TypeOK, StoreTypes
    <3>3. ProcessAgrees'
      BY <1>a, <2>1, <3>1 DEF HonestInv, ProcessAgrees, CountsAgree, ModesAgree, LoopAgrees,
         SuccessIsLast, Up
    <3>. QED BY <3>2, <3>3 DEF HonestInv
  <2>. QED BY <2>3, <2>4
<1>11. ASSUME NEW u \in Requests, FetchStart(u) \/ \E how \in FetchOutcomes : FetchEnd(u, how)
      PROVE  HonestInv'
  <2>1. Inflight' = Inflight
    BY <1>11, FetchKeepsInflight
  <2>2. /\ pc' = pc /\ mode' = mode /\ runs' = runs /\ run' = run /\ verdict' = verdict
        /\ errors' = errors /\ checkpoints' = checkpoints /\ processed' = processed
        /\ current' = current /\ attempted' = attempted
    BY <1>11, Zenon DEF FetchStart, FetchEnd
  <2>. QED BY <2>1, <2>2 DEF HonestInv, HonestVerdict, ErrorsArePast, ProcessAgrees,
     CountsAgree, ModesAgree, LoopAgrees, SuccessIsLast, Agrees, ErrorsOf, Up
<1>12. ASSUME NEW u \in Requests, FetchMisread(u) PROVE HonestInv'
  <2>1. Inflight' = Inflight
    BY <1>12, FetchKeepsInflight
  <2>. QED BY <1>12, <2>1 DEF FetchMisread, HonestInv, HonestVerdict, ErrorsArePast,
     ProcessAgrees, CountsAgree, ModesAgree, LoopAgrees, SuccessIsLast, Agrees, ErrorsOf, Up
<1>. QED BY <1>1, <1>2, <1>3, <1>4, <1>5, <1>6, <1>7, <1>8, <1>9, <1>10, <1>11, <1>12

\* An exception out of consume(): the loop aborts, a drain goes on to its end.
LEMMA HonestRaise ==
  ASSUME TypeOK, HonestInv, RaiseOutOfConsume, pc \in WritingPCs, run' = run, runs' = runs,
         errors \subseteq errors', \A e \in errors' : e \in errors \/ e[1] = run,
         checkpoints' = checkpoints, processed' = processed, attempted' = attempted,
         fetch' = fetch
  PROVE  HonestInv'
<1>1. current # NoRequest /\ runs[run] # "succeeded" /\ Up /\ mode \in Modes
  BY TopologyOK DEF TypeOK, ControlOK, ProcessTypes, HonestInv, ProcessAgrees,
       SuccessIsLast, Up,
     WritingPCs
<1>2. CASE mode = "loop"
  <2>1. mode' = "abort" /\ verdict' = "failed" /\ pc' = "drain"
    BY <1>2 DEF RaiseOutOfConsume
  <2>2. ModesAgree'
    BY <2>1 DEF ModesAgree
  <2>. QED BY <1>1, <2>1, <2>2, HonestTurn, SameWork
<1>3. CASE mode # "loop"
  <2>1. mode' = mode /\ verdict' = verdict /\ pc' = AfterPass(mode)
    BY <1>3 DEF RaiseOutOfConsume
  <2>2. /\ pc' \in {"aggregate", "report", "finish", "exit"}
        /\ pc' = "finish" => mode = "interrupt"
        /\ pc' = "aggregate" => mode = "drain"
        /\ pc' = "report" => mode = "abort"
        /\ mode = "final" => pc' = "exit"
    BY <1>1, <1>3, <2>1 DEF AfterPass, Modes
  <2>. QED BY <1>1, <1>3, <2>1, <2>2, HonestFrame, SameWork DEF WritingPCs
<1>. QED BY <1>2, <1>3

\* The transactions of consume() and the ways out of it.
LEMMA ConsumeHonest ==
  ASSUME TypeOK, HonestInv
  PROVE  /\ (\E u \in Requests : Consume(u) \/ Await(u)) => HonestInv'
         /\ (\E how \in FetchOutcomes : ResultArrives(how)) => HonestInv'
         /\ (\E final \in Requests : HandleDelivered(final)) => HonestInv'
         /\ (Alias \/ Mark) => HonestInv'
         /\ Checkpoint => HonestInv'
         /\ (\E how \in Thrown : StoreFails(how) \/ CallbackRaises(how)) => HonestInv'
         /\ (\E found \in SUBSET Requests : HandleFailed(found)) => HonestInv'
         /\ (HandleRefused \/ RefusedMisread \/ Settle) => HonestInv'
         /\ HandleReleased => HonestInv'
         /\ (HookRaises \/ HandlerFails) => HonestInv'
<1>a. pc \in HoldingPCs => current # NoRequest /\ current \in Requests
  BY TopologyOK DEF TypeOK, ControlOK
<1>1. ASSUME NEW u \in Requests, Consume(u) \/ Await(u) PROVE HonestInv'
  <2>1. Inflight # {}
    BY <1>1 DEF Consume, Await, Finished, FetchOutcomes, Inflight
  <2>. QED BY <1>1, <2>1, HonestFrame DEF Consume, Await, Up, WritingPCs
<1>9. ASSUME NEW how \in FetchOutcomes, ResultArrives(how) PROVE HonestInv'
  BY <1>9, <1>a, HonestFrame, SameWork DEF ResultArrives, Up, WritingPCs
<1>2. ASSUME NEW final \in Requests, HandleDelivered(final) PROVE HonestInv'
  BY <1>2, HonestFrame, SameWork DEF HandleDelivered, Up, WritingPCs
<1>3. ASSUME Alias \/ Mark PROVE HonestInv'
  BY <1>3, <1>a, HonestFrame, SameWork DEF Alias, Mark, Up, WritingPCs
<1>4. ASSUME Checkpoint PROVE HonestInv'
  <2>1. pc \in WritingPCs /\ checkpoints' = checkpoints \cup {<<run, current>>}
    BY <1>4 DEF Checkpoint, WritingPCs
  <2>2. \E u \in Requests : <<run, u>> \in checkpoints'
    BY <1>a, <2>1
  <2>. QED BY <1>4, <1>a, <2>1, <2>2, HonestFrame, SameWork
           DEF Checkpoint, PutDown, Up, WritingPCs
<1>10. ASSUME NEW how \in Thrown, StoreFails(how) PROVE HonestInv'
  BY <1>10, <1>a, HonestFrame, SameWork DEF StoreFails, ThrownUnder, Up, WritingPCs
<1>11. ASSUME NEW how \in Thrown, CallbackRaises(how) PROVE HonestInv'
  <2>1. pc \in WritingPCs /\ checkpoints' = checkpoints \cup {<<run, current>>}
    BY <1>11 DEF CallbackRaises, WritingPCs
  <2>2. \E u \in Requests : <<run, u>> \in checkpoints'
    BY <1>a, <2>1
  <2>. QED BY <1>11, <1>a, <2>1, <2>2, HonestFrame, SameWork
           DEF CallbackRaises, ThrownUnder, Up, WritingPCs
<1>5. ASSUME NEW found \in SUBSET Requests, HandleFailed(found) PROVE HonestInv'
  BY <1>5, <1>a, HonestFrame, SameWork DEF HandleFailed, Up, WritingPCs
<1>6. ASSUME HandleRefused \/ RefusedMisread \/ Settle PROVE HonestInv'
  BY <1>6, <1>a, HonestFrame, SameWork DEF HandleRefused, RefusedMisread, Refused, Settle,
     SettleWrites, PutDown, Up, WritingPCs
<1>7. ASSUME HandleReleased PROVE HonestInv'
  BY <1>7, <1>a, HonestFrame, SameWork DEF HandleReleased, PutDown, Up, WritingPCs
<1>8. ASSUME HookRaises \/ HandlerFails PROVE HonestInv'
  BY <1>8, HonestRaise DEF HookRaises, HandlerFails, SettleWrites, WritingPCs
<1>. QED BY <1>1, <1>2, <1>3, <1>4, <1>5, <1>6, <1>7, <1>8, <1>9, <1>10, <1>11

\* Aggregate derives the status from the counters and the errors of the run.
LEMMA AggregateHonest ==
  ASSUME TypeOK, HonestInv, Aggregate PROVE HonestInv'
<1>1. /\ pc = "aggregate" /\ pc' = "export" /\ mode' = mode /\ runs' = runs /\ run' = run
      /\ checkpoints' = checkpoints /\ processed' = processed /\ attempted' = attempted
  BY Zenon DEF Aggregate
<1>2. fetch' = fetch /\ current' = current
  BY Zenon DEF Aggregate
<1>3. verdict' = IF verdict # "succeeded" THEN verdict
                 ELSE IF attempted > 0 /\ processed = 0 THEN "failed"
                 ELSE IF ErrorsOf(run) # {} THEN "partial_success"
                 ELSE "succeeded"
  BY Zenon DEF Aggregate
<1>4. errors' = IF verdict = "succeeded" /\ attempted > 0 /\ processed = 0 /\ ErrorsOf(run) = {}
                THEN errors \cup {<<run, NoRequest>>} ELSE errors
  BY Zenon DEF Aggregate
<1>5. run \in RunIds /\ run \in Int /\ processed \in Nat /\ attempted \in Nat /\ Up
  BY <1>1, RunOfProcess DEF RunIds, TypeOK, ProcessTypes, Up
<1>6. current = NoRequest
  BY <1>1 DEF TypeOK, ControlOK, WritingPCs
<1>7. (mode # "final" /\ runs[run] # "succeeded") \/ mode = "interrupt"
  BY <1>1, <1>5 DEF HonestInv, ProcessAgrees, SuccessIsLast, ModesAgree, WritingPCs
<1>8. mode # "loop" => verdict' = verdict /\ errors' = errors
  <2>1. mode # "loop" => verdict # "succeeded"
    BY <1>1 DEF HonestInv, ProcessAgrees, ModesAgree, WritingPCs, TypeOK, ProcessTypes,
         Modes
  <2>. QED BY <1>3, <1>4, <2>1
<1>9. errors' = errors \/ (mode = "loop" /\ runs[run] # "succeeded")
  BY <1>7, <1>8
<1>10. HonestVerdict' /\ ErrorsArePast'
  BY <1>1, <1>4, <1>5, <1>9, AgreeFrame DEF HonestInv
<1>11. Agrees(verdict, run)' \/ mode # "loop"
  <2>. SUFFICES ASSUME mode = "loop" PROVE Agrees(verdict, run)'
    OBVIOUS
  <2>1. verdict \in {"succeeded", "cancelled"}
    BY <1>1 DEF HonestInv, ProcessAgrees, LoopAgrees
  <2>2. CASE verdict = "cancelled"
    BY <1>3, <2>2 DEF Agrees
  <2>3. CASE verdict = "succeeded" /\ attempted > 0 /\ processed = 0
    <3>1. verdict' = "failed"
      BY <1>3, <2>3
    <3>2. ErrorsOf(run) = {} => <<run, NoRequest>> \in {e \in errors' : e[1] = run'}
      BY <1>1, <1>4, <2>3
    <3>3. ErrorsOf(run) # {} => errors' = errors
      BY <1>4
    <3>4. {e \in errors' : e[1] = run'} # {}
      BY <1>1, <3>2, <3>3 DEF ErrorsOf
    <3>. QED BY <3>1, <3>4 DEF Agrees, ErrorsOf
  <2>4. CASE verdict = "succeeded" /\ ~(attempted > 0 /\ processed = 0)
    <3>1. errors' = errors
      BY <1>4, <2>4
    <3>2. {e \in errors' : e[1] = run'} = ErrorsOf(run)
      BY <1>1, <3>1 DEF ErrorsOf
    <3>3. CASE ErrorsOf(run) = {}
      <4>1. verdict' = "succeeded"
        BY <1>3, <2>4, <3>3
      <4>. QED BY <3>2, <3>3, <4>1 DEF Agrees, ErrorsOf
    <3>4. CASE ErrorsOf(run) # {}
      <4>1. verdict' = "partial_success"
        BY <1>3, <2>4, <3>4
      <4>2. attempted # 0
        BY <1>5, <2>4, <3>4 DEF HonestInv, ProcessAgrees, CountsAgree
      <4>3. \E u \in Requests : <<run, u>> \in checkpoints
        BY <1>5, <2>4, <4>2 DEF HonestInv, ProcessAgrees, CountsAgree
      <4>. QED BY <1>1, <3>2, <3>4, <4>1, <4>3 DEF Agrees, ErrorsOf
    <3>. QED BY <3>3, <3>4
  <2>. QED BY <2>1, <2>2, <2>3, <2>4
<1>12. CountsAgree'
  <2>1. attempted' = 0 /\ verdict' = "succeeded" => {e \in errors' : e[1] = run'} = {}
    BY <1>1, <1>3, <1>4, <1>5 DEF HonestInv, ProcessAgrees, CountsAgree, ErrorsOf
  <2>. QED BY <1>1, <1>2, <1>5, <2>1, SameWork DEF HonestInv, ProcessAgrees, CountsAgree,
       ErrorsOf
<1>13. ModesAgree'
  <2>1. mode # "loop" => ErrorsOf(run)' = ErrorsOf(run)
    BY <1>1, <1>8 DEF ErrorsOf
  <2>. QED BY <1>1, <1>7, <1>8, <2>1 DEF HonestInv, ProcessAgrees, ModesAgree, WritingPCs
<1>14. LoopAgrees'
  BY <1>1, <1>2, <1>11, SameWork DEF HonestInv, ProcessAgrees, LoopAgrees
<1>15. SuccessIsLast'
  BY <1>1, <1>2, <1>5, SameWork DEF HonestInv, ProcessAgrees, SuccessIsLast
<1>. QED BY <1>10, <1>12, <1>13, <1>14, <1>15 DEF HonestInv, ProcessAgrees

\* finish_run writes a status that agrees, or leaves the one it finds.
LEMMA FinishHonest ==
  ASSUME TypeOK, HonestInv, Finish PROVE HonestInv'
<1>1. /\ pc = "finish" /\ run' = run /\ errors' = errors /\ checkpoints' = checkpoints
      /\ verdict' = verdict /\ fetch' = fetch /\ current' = current
      /\ processed' = processed /\ attempted' = attempted
  BY DEF Finish
<1>2. run \in RunIds /\ run \in Int /\ Up /\ verdict \in TerminalRunStates /\ mode \in Modes
  BY <1>1, RunOfProcess DEF RunIds, TypeOK, ProcessTypes, Up
<1>3. runs'[run] \in {verdict, runs[run]} /\ \A r \in RunIds : r # run => runs'[r] = runs[r]
  BY <1>2 DEF Finish, TypeOK, StoreTypes
<1>4. mode \in {"loop", "drain", "abort", "interrupt"}
  BY <1>1, <1>2 DEF HonestInv, ProcessAgrees, ModesAgree, Modes, WritingPCs
<1>5. /\ mode \in {"loop", "drain"} => pc' = "after" /\ mode' = mode
      /\ mode \notin {"loop", "drain"} => pc' = "drain" /\ mode' = "final"
  BY DEF Finish
<1>6. Agrees(verdict, run)
  <2>1. CASE mode = "loop"
    BY <1>1, <2>1 DEF HonestInv, ProcessAgrees, LoopAgrees
  <2>2. CASE mode \in {"drain", "abort", "interrupt"}
    BY <1>1, <2>2 DEF HonestInv, ProcessAgrees, ModesAgree, Agrees
  <2>. QED BY <1>4, <2>1, <2>2
<1>7. HonestVerdict'
  <2>. SUFFICES ASSUME NEW r \in RunIds
                PROVE  /\ runs'[r] = "succeeded" => ErrorsOf(r) = {}
                       /\ runs'[r] = "partial_success" =>
                            ErrorsOf(r) # {} /\ \E u \in Requests : <<r, u>> \in checkpoints
                       /\ runs'[r] = "failed" => ErrorsOf(r) # {}
    BY <1>1 DEF HonestVerdict, ErrorsOf
  <2>1. Agrees(runs[r], r)
    BY DEF HonestInv, HonestVerdict, Agrees
  <2>2. runs'[r] = runs[r] \/ (r = run /\ runs'[r] = verdict)
    BY <1>3
  <2>. QED BY <1>6, <2>1, <2>2 DEF Agrees
<1>8. ErrorsArePast'
  BY <1>1 DEF HonestInv, ErrorsArePast
<1>9. CountsAgree'
  BY <1>1, <1>2, <1>5, <1>4, SameWork DEF HonestInv, ProcessAgrees, CountsAgree, ErrorsOf
<1>10. ModesAgree'
  BY <1>1, <1>4, <1>5 DEF HonestInv, ProcessAgrees, ModesAgree, ErrorsOf
<1>11. LoopAgrees'
  BY <1>1, <1>4, <1>5, SameWork DEF HonestInv, ProcessAgrees, LoopAgrees
<1>12. SuccessIsLast'
  <2>1. current = NoRequest
    BY <1>1 DEF TypeOK, ControlOK, WritingPCs
  <2>2. verdict = "succeeded" => mode = "loop" /\ Inflight = {}
    BY <1>1, <1>4 DEF HonestInv, ProcessAgrees, ModesAgree, LoopAgrees
  <2>3. runs[run] = "succeeded" => Inflight = {} /\ mode = "interrupt"
    BY <1>1, <1>2, <1>4 DEF HonestInv, ProcessAgrees, SuccessIsLast
  <2>. QED BY <1>1, <1>3, <1>5, <2>1, <2>2, <2>3, SameWork DEF SuccessIsLast
<1>. QED BY <1>7, <1>8, <1>9, <1>10, <1>11, <1>12 DEF HonestInv, ProcessAgrees

\* The rest of the end of a run, if nothing raises after finish_run.
LEMMA EndHonest ==
  ASSUME TypeOK, LoopIsUndrained, HonestInv, "late" \notin Events
  PROVE  /\ Export => HonestInv'
         /\ Report => HonestInv'
         /\ AfterFinish => HonestInv'
         /\ LoopError => HonestInv'
         /\ LateError => HonestInv'
         /\ ReportRaises => HonestInv'
         /\ InterruptLoop => HonestInv'
         /\ InterruptDrain => HonestInv'
         /\ InterruptExit => HonestInv'
<1>a. pc \notin HoldingPCs => current = NoRequest
  BY DEF TypeOK, ControlOK
<1>1. ASSUME Export PROVE HonestInv'
  <2>1. /\ pc = "export" /\ pc' = "finish" /\ mode' = mode /\ run' = run /\ runs' = runs
        /\ errors' = errors /\ checkpoints' = checkpoints /\ verdict' = verdict
        /\ fetch' = fetch /\ current' = current /\ processed' = processed /\ attempted' = attempted
    BY <1>1 DEF Export
  <2>2. HonestVerdict' /\ ErrorsArePast'
    BY <2>1 DEF HonestInv, HonestVerdict, ErrorsArePast, ErrorsOf
  <2>3. CountsAgree' /\ LoopAgrees' /\ SuccessIsLast'
    BY <2>1, SameWork DEF HonestInv, ProcessAgrees, CountsAgree, LoopAgrees,
         SuccessIsLast, Up, Agrees,
       ErrorsOf
  <2>4. mode # "abort" /\ mode # "final"
    BY <2>1 DEF HonestInv, ProcessAgrees, ModesAgree, WritingPCs
  <2>5. ModesAgree'
    BY <2>1, <2>4 DEF HonestInv, ProcessAgrees, ModesAgree, ErrorsOf
  <2>. QED BY <2>2, <2>3, <2>5 DEF HonestInv, ProcessAgrees
<1>b. pc \notin SetupPCs \cup {"down"} => Up /\ run \in RunIds /\ run \in Int
  BY RunOfProcess DEF RunIds, Up
<1>2. ASSUME Report PROVE HonestInv'
  <2>1. /\ pc = "report" /\ pc' = "finish" /\ mode' = mode /\ run' = run /\ runs' = runs
        /\ errors' = errors \cup {<<run, NoRequest>>} /\ checkpoints' = checkpoints
        /\ verdict' = verdict /\ fetch' = fetch /\ current' = current
        /\ processed' = processed /\ attempted' = attempted
    BY <1>2 DEF Report
  <2>2. mode = "abort" /\ verdict \in {"failed", "cancelled"} /\ runs[run] # "succeeded"
    BY <2>1 DEF HonestInv, ProcessAgrees, ModesAgree, SuccessIsLast, Up
  <2>3. <<run, NoRequest>> \in {e \in errors' : e[1] = run'}
    BY <2>1
  <2>4. ModesAgree'
    BY <2>1, <2>2, <2>3 DEF ModesAgree, ErrorsOf
  <2>. QED BY <1>b, <2>1, <2>2, <2>4, HonestTurn, SameWork DEF SetupPCs
<1>3. ASSUME AfterFinish PROVE HonestInv'
  <2>1. pc = "after" /\ pc' = "drain" /\ mode' = "final"
    BY <1>3 DEF AfterFinish
  <2>2. ModesAgree'
    BY <2>1 DEF ModesAgree
  <2>. QED BY <1>3, <1>b, <2>1, <2>2, HonestTurn, SameWork DEF AfterFinish, SetupPCs
<1>4. ASSUME LoopError PROVE HonestInv'
  <2>1. /\ pc \in {"top", "control", "gate", "claim", "submit", "aggregate", "export"}
        /\ verdict' = "failed" /\ mode' = "abort" /\ pc' = "drain" /\ run' = run
    BY <1>4 DEF LoopError, Aborts
  <2>2. mode \in {"loop", "drain"}
    BY <2>1 DEF LoopIsUndrained, HonestInv, ProcessAgrees, ModesAgree
  <2>3. runs[run] # "succeeded"
    BY <2>1, <2>2 DEF HonestInv, ProcessAgrees, SuccessIsLast, Up
  <2>4. ModesAgree'
    BY <2>1 DEF ModesAgree
  <2>. QED BY <1>4, <1>b, <2>1, <2>3, <2>4, HonestTurn, SameWork
           DEF LoopError, Aborts, SetupPCs
<1>5. ~LateError
  BY DEF LateError, Fault, MayFail
<1>6. ASSUME ReportRaises PROVE HonestInv'
  <2>1. /\ pc = "report" /\ mode' = "final" /\ pc' = "drain" /\ verdict' = verdict
        /\ errors' = errors \cup {<<run, NoRequest>>}
    BY <1>6 DEF ReportRaises
  <2>2. mode = "abort" /\ verdict \in {"failed", "cancelled"} /\ runs[run] # "succeeded"
    BY <2>1 DEF HonestInv, ProcessAgrees, ModesAgree, SuccessIsLast, Up
  <2>3. ModesAgree'
    BY <2>1 DEF ModesAgree
  <2>. QED BY <1>6, <1>b, <2>1, <2>2, <2>3, HonestTurn, SameWork DEF ReportRaises, SetupPCs
<1>7. ASSUME InterruptLoop PROVE HonestInv'
  <2>1. /\ pc \notin SetupPCs \cup {"down"} /\ mode' = "interrupt" /\ pc' = "drain"
        /\ verdict' = "cancelled" /\ current' = NoRequest
    BY <1>7 DEF InterruptLoop, PutDown, Up
  <2>2. ModesAgree'
    BY <2>1 DEF ModesAgree
  <2>. QED BY <1>7, <1>b, <2>1, <2>2, HonestTurn, SameWork DEF InterruptLoop
<1>8. ASSUME InterruptDrain PROVE HonestInv'
  <2>1. /\ mode \in {"abort", "interrupt"} /\ pc' = AfterPass(mode) /\ mode' = mode
        /\ current' = NoRequest /\ verdict' = verdict /\ errors' = errors /\ run' = run
    BY <1>8 DEF InterruptDrain, PutDown
  <2>2. pc \notin SetupPCs \cup {"down"}
    BY <2>1 DEF TypeOK, ControlOK
  <2>3. /\ mode = "abort" => pc' = "report"
        /\ mode = "interrupt" => pc' = "finish"
    BY <2>1 DEF AfterPass
  <2>4. ModesAgree'
    BY <2>1, <2>3 DEF HonestInv, ProcessAgrees, ModesAgree
  <2>5. verdict # "succeeded"
    BY <2>1 DEF HonestInv, ProcessAgrees, ModesAgree
  <2>6. runs[run] = "succeeded" => mode = "interrupt"
    BY <1>b, <2>1, <2>2 DEF HonestInv, ProcessAgrees, SuccessIsLast, ModesAgree
  <2>. QED BY <1>8, <1>b, <2>1, <2>2, <2>3, <2>4, <2>5, <2>6, HonestTurn, SameWork
           DEF InterruptDrain
<1>9. ASSUME InterruptExit PROVE HonestInv'
  <2>1. mode' = "final" /\ pc' \in {"drain", "exit"} /\ mode # "loop" /\ current' = NoRequest
    BY <1>9 DEF InterruptExit, PutDown
  <2>2. pc \notin SetupPCs \cup {"down"}
    BY <2>1 DEF TypeOK, ControlOK
  <2>3. ModesAgree'
    BY <2>1 DEF ModesAgree
  <2>. QED BY <1>9, <1>b, <2>1, <2>2, <2>3, HonestTurn, SameWork DEF InterruptExit
<1>. QED BY <1>1, <1>2, <1>3, <1>4, <1>5, <1>6, <1>7, <1>8, <1>9

\* One step of the process, the operator or a fetch thread.
LEMMA StepHonest ==
  ASSUME TypeOK, Open, HonestInv, "late" \notin Events, [Next]_vars PROVE HonestInv'
<1>. USE SetupHonest, LoopHonest, ConsumeHonest, AggregateHonest, FinishHonest, EndHonest
<1>1. LoopIsUndrained
  BY DEF Open
<1>2. CASE MainThread
  BY <1>1, <1>2, Zenon DEF MainThread
<1>3. CASE Fetches
  BY <1>1, <1>3 DEF Fetches
<1>4. CASE Failures
  BY <1>1, <1>4, Zenon DEF Failures
<1>5. CASE Operator
  BY <1>1, <1>5 DEF Operator
<1>6. CASE UNCHANGED vars
  <2>1. HonestVerdict' /\ ErrorsArePast'
    BY <1>6 DEF vars, HonestInv, HonestVerdict, ErrorsArePast, ErrorsOf
  <2>2. Inflight' = Inflight /\ ErrorsOf(run)' = ErrorsOf(run) /\ Up' = Up
    BY <1>6, SameWork DEF vars, ErrorsOf, Up
  <2>3. CountsAgree' /\ ModesAgree'
    BY <1>6, <2>2 DEF vars, HonestInv, ProcessAgrees, CountsAgree, ModesAgree
  <2>4. Agrees(verdict, run)' = Agrees(verdict, run)
    BY <1>6, <2>2 DEF vars, Agrees
  <2>5. LoopAgrees' /\ SuccessIsLast'
    BY <1>6, <2>2, <2>4 DEF vars, HonestInv, ProcessAgrees, LoopAgrees, SuccessIsLast
  <2>. QED BY <2>1, <2>3, <2>5 DEF HonestInv, ProcessAgrees
<1>. QED BY <1>2, <1>3, <1>4, <1>5, <1>6 DEF Next

\* A run that succeeded has written no error, a partial success has written an
\* error and a delivered page, and a failed run says why: the verdict that the end
\* of the loop computes from its counters, or an exit path sets, agrees with what
\* concurrent fetches, failed transactions and earlier processes have left in the
\* tables.  The hypothesis excludes the one step that breaks it, an error raised
\* after the first finish_run.
THEOREM VerdictsAreHonest == "late" \notin Events => (Spec => []HonestVerdict)
<1>1. Init => HonestInv
  BY DEF Init, Inflight, Idle, RunIds, HonestInv, HonestVerdict, ErrorsArePast,
       ProcessAgrees,
     CountsAgree, ModesAgree, LoopAgrees, SuccessIsLast, Agrees, ErrorsOf, Up
<1>. SUFFICES ASSUME "late" \notin Events PROVE Spec => []HonestVerdict
  OBVIOUS
<1>2. TypeOK /\ Open /\ HonestInv /\ [Next]_vars => HonestInv'
  BY StepHonest
<1>3. HonestInv => HonestVerdict
  BY DEF HonestInv
<1>. QED BY <1>1, <1>2, <1>3, TypeCorrect, RunsAreOpen, PTL DEF Spec
=============================================================================

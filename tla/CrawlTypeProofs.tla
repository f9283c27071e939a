--------------------------- MODULE CrawlTypeProofs --------------------------
(***************************************************************************)
(* What the operations of the request queue return and what they leave     *)
(* alone, and with it the type correctness of CrawlRun for every set of    *)
(* requests, link structure, retry budget and bound: each action of the    *)
(* main thread, the fetch threads, the operator and the faults keeps       *)
(* TypeOK, ControlOK included.                                             *)
(***************************************************************************)
EXTENDS CrawlRun, FiniteSetTheorems, TLAPS

-----------------------------------------------------------------------------
(* The request queue                                                       *)

\* The writes below produce rows: the record type is closed under the field
\* updates of QueueMixin.
LEMMA RowUpdates ==
  /\ NoRow \in Row
  /\ [NoRow EXCEPT !.status = "pending"] \in Row
  /\ [NoRow EXCEPT !.status = "done", !.alias = TRUE] \in Row
  /\ \A row \in Row : /\ [row EXCEPT !.status = "pending"] \in Row
                      /\ [row EXCEPT !.status = "in_progress"] \in Row
                      /\ Requeued(row) \in Row
                      /\ Reset(row) \in Row
<1>1. NoRow \in Row
  BY DEF NoRow, Row, Statuses, Errors
<1>2. [NoRow EXCEPT !.status = "pending"] \in Row
  BY DEF NoRow, Row, Statuses, Errors
<1>3. [NoRow EXCEPT !.status = "done", !.alias = TRUE] \in Row
  BY DEF NoRow, Row, Statuses, Errors
<1>4. ASSUME NEW row \in Row
      PROVE  /\ [row EXCEPT !.status = "pending"] \in Row
             /\ [row EXCEPT !.status = "in_progress"] \in Row
             /\ Requeued(row) \in Row
             /\ Reset(row) \in Row
  BY DEF Row, Statuses, Errors, Requeued, Reset
<1>. QED BY <1>1, <1>2, <1>3, <1>4

\* prepare_cycle, retry_failed and recover_incomplete_runs return a table.
LEMMA CycleTyping ==
  ASSUME NEW t \in Tables, NEW resetAll \in BOOLEAN, NEW resetCursor \in BOOLEAN
  PROVE  /\ PrepareCycle(t, resetAll, resetCursor) \in Tables
         /\ RetryFailed(t) \in Tables
         /\ ReleaseClaims(t) \in Tables
<1>1. \A u \in Requests : t[u] \in Row
  BY DEF Tables
<1>2. PrepareCycle(t, resetAll, resetCursor) \in Tables
  BY <1>1, RowUpdates DEF PrepareCycle, Tables
<1>3. RetryFailed(t) \in Tables
  BY <1>1, RowUpdates DEF RetryFailed, Tables
<1>4. ReleaseClaims(t) \in Tables
  BY <1>1, RowUpdates DEF ReleaseClaims, Tables
<1>. QED BY <1>2, <1>3, <1>4

\* enqueue and claim return a table.
LEMMA QueueTyping ==
  ASSUME NEW t \in Tables, NEW S
  PROVE  /\ Discover(t, S) \in Tables
         /\ \A u \in Requests : EnqueueForced(t, u) \in Tables
         /\ Claim(t, S) \in Tables
<1>1. \A v \in Requests : t[v] \in Row
  BY DEF Tables
<1>2. Discover(t, S) \in Tables
  BY <1>1, RowUpdates DEF Discover, Tables
<1>3. \A u \in Requests : EnqueueForced(t, u) \in Tables
  BY <1>1, RowUpdates DEF EnqueueForced, Tables
<1>4. Claim(t, S) \in Tables
  BY <1>1, RowUpdates DEF Claim, Tables
<1>. QED BY <1>2, <1>3, <1>4

\* mark_done, mark_failed and mark_redirect_target_done return a table.
LEMMA SettleTyping ==
  ASSUME NEW t \in Tables, NEW u \in Requests,
         NEW status \in Statuses, NEW error \in Errors, NEW retryable
  PROVE  /\ MarkDone(t, u, status, error) \in Tables
         /\ MarkRedirectTargetDone(t, u) \in Tables
         /\ MarkFailed(t, u, error, retryable) \in Tables
<1>1. t[u] \in Row
  BY DEF Tables
<1>2. [t[u] EXCEPT !.status = status, !.error = error] \in Row
  BY <1>1 DEF Row
<1>3. MarkDone(t, u, status, error) = [t EXCEPT ![u] = [@ EXCEPT !.status = status, !.error = error]]
  BY <1>1 DEF MarkDone, Tables, Row
<1>4. [t[u] EXCEPT !.status = "done", !.error = "none"] \in Row
  BY <1>1 DEF Row, Statuses, Errors
<1>5. [t EXCEPT ![u].status = "done", ![u].error = "none"]
        = [t EXCEPT ![u] = [@ EXCEPT !.status = "done", !.error = "none"]]
  BY <1>1 DEF Tables, Row
<1>6. MarkRedirectTargetDone(t, u) \in Tables
  BY <1>4, <1>5, RowUpdates DEF MarkRedirectTargetDone, Tables
<1>7. ASSUME NEW s \in Statuses, NEW n \in Nat, NEW auth \in BOOLEAN
      PROVE  [t EXCEPT ![u].status = s, ![u].attempts = n, ![u].error = error,
                       ![u].auth = auth] \in Tables
  <2>1. [t[u] EXCEPT !.status = s, !.attempts = n, !.error = error, !.auth = auth] \in Row
    BY <1>1 DEF Row
  <2>2. [t EXCEPT ![u].status = s, ![u].attempts = n, ![u].error = error, ![u].auth = auth]
          = [t EXCEPT ![u] = [@ EXCEPT !.status = s, !.attempts = n, !.error = error,
                                       !.auth = auth]]
    BY <1>1 DEF Tables, Row
  <2>. QED BY <2>1, <2>2 DEF Tables
<1>8. MarkFailed(t, u, error, retryable) \in Tables
  <2>1. t[u].attempts + 1 \in Nat
    BY <1>1 DEF Row
  <2>2. (error = "session") \in BOOLEAN
    OBVIOUS
  <2>3. (IF MayRetry(t[u], error, retryable) THEN "pending" ELSE "failed") \in Statuses
    BY DEF Statuses
  <2>. QED BY <1>7, <2>1, <2>2, <2>3, Zenon DEF MarkFailed
<1>. QED BY <1>2, <1>3, <1>6, <1>8 DEF Tables

\* A claimed request is out of reach of every write that does not name it as
\* the request its holder is finishing: discovery, another claim and the alias
\* write of a redirect leave an in-progress row as it is.
LEMMA ClaimIsPrivate ==
  ASSUME NEW t \in Tables, NEW u \in Requests, t[u].status = "in_progress"
  PROVE  /\ \A S : Discover(t, S)[u] = t[u]
         /\ \A S : Claim(t, S)[u] = t[u]
         /\ \A v \in Requests : MarkRedirectTargetDone(t, v)[u] = t[u]
<1>1. t[u].status # "absent" /\ t[u].status # "pending"
  OBVIOUS
<1>2. \A S : Discover(t, S)[u] = t[u]
  BY <1>1 DEF Discover
<1>3. \A S : Claim(t, S)[u] = t[u]
  BY <1>1 DEF Claim
<1>4. \A v \in Requests : MarkRedirectTargetDone(t, v)[u] = t[u]
  BY <1>1, SMT DEF MarkRedirectTargetDone, Tables, Row
<1>. QED BY <1>2, <1>3, <1>4

\* mark_done and mark_failed write one row.
LEMMA SettlesOneRow ==
  ASSUME NEW t \in Tables, NEW u \in Requests, NEW v \in Requests, u # v,
         NEW status, NEW error, NEW retryable
  PROVE  /\ MarkDone(t, v, status, error)[u] = t[u]
         /\ MarkFailed(t, v, error, retryable)[u] = t[u]
  BY SMT DEF MarkDone, MarkFailed, Tables

\* Only mark_done(status="done") and the alias write of a redirect finish a row.
LEMMA OnlyDeliveryFinishes ==
  ASSUME NEW t \in Tables, NEW v \in Requests
  PROVE  /\ \A a, b \in BOOLEAN :
              PrepareCycle(t, a, b)[v].status = "done" => t[v].status = "done"
         /\ RetryFailed(t)[v].status = "done" => t[v].status = "done"
         /\ ReleaseClaims(t)[v].status = "done" => t[v].status = "done"
         /\ \A S \in SUBSET Requests :
              /\ Discover(t, S)[v].status = "done" => t[v].status = "done"
              /\ Claim(t, S)[v].status = "done" => t[v].status = "done"
         /\ \A u \in Requests : EnqueueForced(t, u)[v].status = "done" => t[v].status = "done"
         /\ \A u \in Requests, s \in {"pending", "failed", "blocked"}, e \in Errors :
              MarkDone(t, u, s, e)[v].status = "done" => t[v].status = "done"
         /\ \A u \in Requests, e \in Errors, again \in BOOLEAN :
              MarkFailed(t, u, e, again)[v].status = "done" => t[v].status = "done"
<1>1. t[v] \in Row
  BY DEF Tables
<1>2. ASSUME NEW a \in BOOLEAN, NEW b \in BOOLEAN
      PROVE  PrepareCycle(t, a, b)[v].status = "done" => t[v].status = "done"
  BY <1>1 DEF PrepareCycle, Reset, NoRow, Row
<1>3. RetryFailed(t)[v].status = "done" => t[v].status = "done"
  BY <1>1 DEF RetryFailed, Reset, Row
<1>4. ReleaseClaims(t)[v].status = "done" => t[v].status = "done"
  BY <1>1 DEF ReleaseClaims, Row
<1>5. ASSUME NEW S \in SUBSET Requests
      PROVE  /\ Discover(t, S)[v].status = "done" => t[v].status = "done"
             /\ Claim(t, S)[v].status = "done" => t[v].status = "done"
  BY <1>1 DEF Discover, Claim, NoRow, Row
<1>6. ASSUME NEW u \in Requests
      PROVE  EnqueueForced(t, u)[v].status = "done" => t[v].status = "done"
  BY <1>1 DEF EnqueueForced, Requeued, NoRow, Row, Tables
<1>7. ASSUME NEW u \in Requests, NEW s \in {"pending", "failed", "blocked"}, NEW e \in Errors
      PROVE  MarkDone(t, u, s, e)[v].status = "done" => t[v].status = "done"
  BY <1>1 DEF MarkDone, Row, Tables
<1>8. ASSUME NEW u \in Requests, NEW e \in Errors, NEW again \in BOOLEAN
      PROVE  MarkFailed(t, u, e, again)[v].status = "done" => t[v].status = "done"
  BY <1>1 DEF MarkFailed, Row, Tables
<1>. QED BY <1>2, <1>3, <1>4, <1>5, <1>6, <1>7, <1>8

-----------------------------------------------------------------------------
(* The run                                                                 *)

USE DEF dbVars, loopVars, writeVars, exitVars, bookVars, HoldingPCs

\* Writing a run's status keeps the runs table.
LEMMA RunWrites ==
  ASSUME NEW r, runs \in [RunIds -> RunStates]
  PROVE  \A s \in RunStates : [runs EXCEPT ![r] = s] \in [RunIds -> RunStates]
  OBVIOUS

\* A process that is gone has the state of one that never started.
LEMMA ForgetTyping ==
  ASSUME ForgetProcess PROVE ProcessTypes' /\ ControlOK'
<1>1. options' \in [resume : BOOLEAN, retry : BOOLEAN]
  BY DEF ForgetProcess
<1>2. fetch' \in [Requests -> FetchStates] /\ \A u \in Requests : fetch'[u] = "none"
  BY DEF ForgetProcess, Idle, FetchStates
<1>. QED BY <1>1, <1>2 DEF ForgetProcess, ProcessTypes, ControlOK, PCs, Modes, SetupPCs,
     WritingPCs, TerminalRunStates

\* The identifier of the run of a live process.
LEMMA RunOfProcess ==
  ASSUME TypeOK, pc # "down" PROVE run \in RunIds
  BY BoundsOK DEF TypeOK, StoreTypes, ControlOK, RunIds

\* Starting, setting up and leaving a process preserves the types.
LEMMA SetupTyping ==
  ASSUME TypeOK
  PROVE  /\ (\E resume, retry \in BOOLEAN : Start(resume, retry)) => TypeOK'
         /\ Prepare => TypeOK'
         /\ Retry => TypeOK'
         /\ (\E u \in Requests : SeedOne(u)) => TypeOK'
         /\ Seeded => TypeOK'
         /\ SetupFails => TypeOK'
         /\ LimitsAccepted => TypeOK'
         /\ LimitsRejected => TypeOK'
         /\ Exit => TypeOK'
         /\ Crash => TypeOK'
         /\ InterruptSetup => TypeOK'
         /\ SetupReportRaises => TypeOK'
         /\ Recover => TypeOK'
<1>1. ASSUME \E resume, retry \in BOOLEAN : Start(resume, retry) PROVE TypeOK'
  <2>1. PICK resume \in BOOLEAN, retry \in BOOLEAN : Start(resume, retry)
    BY <1>1
  <2>2. runs' \in [RunIds -> RunStates]
    BY <2>1, RunWrites DEF Start, TypeOK, StoreTypes, RunStates
  <2>3. run' \in 0 .. MaxRuns /\ run' # 0
    BY <2>1, BoundsOK DEF Start, TypeOK, StoreTypes
  <2>4. ctl' \in [paused : BOOLEAN, stop : BOOLEAN] /\ options' \in [resume : BOOLEAN, retry : BOOLEAN]
    BY <2>1 DEF Start
  <2>5. StoreTypes' /\ ProcessTypes'
    BY <2>1, <2>2, <2>3, <2>4, SMT DEF Start, TypeOK, StoreTypes, ProcessTypes, PCs
  <2>6. ControlOK'
    BY <2>1, <2>3, SMT DEF Start, TypeOK, ControlOK, WritingPCs, SetupPCs
  <2>. QED BY <2>5, <2>6 DEF TypeOK
<1>2. ASSUME Prepare PROVE TypeOK'
  <2>1. rows' \in Tables
    BY <1>2, CycleTyping, ResetsOK DEF Prepare, TypeOK, StoreTypes
  <2>. QED BY <1>2, <2>1, SMT DEF Prepare, TypeOK, StoreTypes, ProcessTypes, ControlOK,
       PCs, Modes, SetupPCs, WritingPCs, TerminalRunStates
<1>3. ASSUME Retry PROVE TypeOK'
  BY <1>3, CycleTyping, TopologyOK, SMT DEF Retry, TypeOK, StoreTypes, ProcessTypes,
     ControlOK, PCs, Modes, SetupPCs, WritingPCs, TerminalRunStates
<1>4. ASSUME \E u \in Requests : SeedOne(u) PROVE TypeOK'
  BY <1>4, QueueTyping, SMT DEF SeedOne, TypeOK, StoreTypes, ProcessTypes, ControlOK, PCs,
     Modes, SetupPCs, WritingPCs, TerminalRunStates
<1>5. ASSUME Seeded PROVE TypeOK'
  BY <1>5, SMT DEF Seeded, TypeOK, StoreTypes, ProcessTypes, ControlOK, PCs, Modes,
     SetupPCs, WritingPCs, TerminalRunStates
<1>6. ASSUME SetupFails PROVE TypeOK'
  <2>1. ForgetProcess
    BY <1>6 DEF SetupFails
  <2>2. run \in RunIds
    BY <1>6, RunOfProcess DEF SetupFails
  <2>3. runs' \in [RunIds -> RunStates]
    BY <1>6, RunWrites DEF SetupFails, TypeOK, StoreTypes, RunStates, TerminalRunStates
  <2>4. errors' \subseteq RunIds \X (Requests \cup {NoRequest})
    BY <1>6, <2>2 DEF SetupFails, TypeOK, StoreTypes
  <2>5. StoreTypes'
    BY <1>6, <2>3, <2>4, SMT DEF SetupFails, Fault, MayFail, TypeOK, StoreTypes
  <2>. QED BY <2>1, <2>5, ForgetTyping DEF TypeOK
<1>7. ASSUME LimitsAccepted PROVE TypeOK'
  BY <1>7, SMT DEF LimitsAccepted, TypeOK, StoreTypes, ProcessTypes, ControlOK, PCs, Modes,
     SetupPCs, WritingPCs, TerminalRunStates
<1>8. ASSUME LimitsRejected PROVE TypeOK'
  <2>1. ForgetProcess
    BY <1>8 DEF LimitsRejected
  <2>2. StoreTypes'
    BY <1>8, SMT DEF LimitsRejected, Fault, MayFail, TypeOK, StoreTypes
  <2>. QED BY <2>1, <2>2, ForgetTyping DEF TypeOK
<1>9. ASSUME Exit PROVE TypeOK'
  <2>1. ForgetProcess
    BY <1>9 DEF Exit
  <2>2. StoreTypes'
    BY <1>9, SMT DEF Exit, TypeOK, StoreTypes
  <2>. QED BY <2>1, <2>2, ForgetTyping DEF TypeOK
<1>10. ASSUME Crash PROVE TypeOK'
  <2>1. ForgetProcess
    BY <1>10 DEF Crash
  <2>2. StoreTypes'
    BY <1>10, RunOfProcess, SMT DEF Crash, TypeOK, StoreTypes, Up, Fault
  <2>. QED BY <2>1, <2>2, ForgetTyping DEF TypeOK
<1>11. ASSUME InterruptSetup PROVE TypeOK'
  <2>1. ForgetProcess
    BY <1>11 DEF InterruptSetup
  <2>2. StoreTypes'
    BY <1>11, SMT DEF InterruptSetup, TypeOK, StoreTypes, Fault
  <2>. QED BY <2>1, <2>2, ForgetTyping DEF TypeOK
<1>12. ASSUME Recover PROVE TypeOK'
  BY <1>12, CycleTyping, SMT DEF Recover, RunStates, TypeOK, StoreTypes, ProcessTypes,
     ControlOK, PCs, Modes, SetupPCs, WritingPCs, TerminalRunStates
<1>13. ASSUME SetupReportRaises PROVE TypeOK'
  <2>1. ForgetProcess
    BY <1>13 DEF SetupReportRaises
  <2>2. run \in RunIds
    BY <1>13, RunOfProcess DEF SetupReportRaises
  <2>3. StoreTypes'
    BY <1>13, <2>2, SMT DEF SetupReportRaises, TypeOK, StoreTypes, Fault, MayFail
  <2>. QED BY <2>1, <2>3, ForgetTyping DEF TypeOK
<1>. QED BY <1>1, <1>2, <1>3, <1>4, <1>5, <1>6, <1>7, <1>8, <1>9, <1>10, <1>11, <1>12, <1>13

\* So do the operator, the run loop, claiming and the fetch threads.
LEMMA LoopTyping ==
  ASSUME TypeOK
  PROVE  /\ (Pause \/ Resume \/ RequestStop) => TypeOK'
         /\ LoopTop => TypeOK'
         /\ StopSeen => TypeOK'
         /\ PauseSeen => TypeOK'
         /\ Proceed => TypeOK'
         /\ CancelRequested => TypeOK'
         /\ ResourceExceeded => TypeOK'
         /\ GatePassed => TypeOK'
         /\ ClaimClosed => TypeOK'
         /\ (\E B \in SUBSET Pending(rows), w \in 1 .. Concurrency, width \in Widths :
               ClaimBatch(B, w, width)) => TypeOK'
         /\ Submit => TypeOK'
         /\ (\E u \in Requests : FetchStart(u)) => TypeOK'
         /\ (\E u \in Requests : \E how \in FetchOutcomes : FetchEnd(u, how)) => TypeOK'
         /\ WaitDone => TypeOK'
         /\ PassEnds => TypeOK'
         /\ DrainRest => TypeOK'
         /\ ProceedMisread => TypeOK'
         /\ (\E u \in Requests : FetchMisread(u)) => TypeOK'
<1>1. ASSUME Pause \/ Resume \/ RequestStop PROVE TypeOK'
  <2>1. ctl' \in [paused : BOOLEAN, stop : BOOLEAN]
    <3>1. ctl' \in {[ctl EXCEPT !.paused = TRUE], [paused |-> FALSE, stop |-> FALSE],
                    [paused |-> FALSE, stop |-> TRUE]}
      BY <1>1 DEF Pause, Resume, RequestStop, OperatorWrites
    <3>2. [ctl EXCEPT !.paused = TRUE] \in [paused : BOOLEAN, stop : BOOLEAN]
      BY DEF TypeOK, StoreTypes
    <3>3. \A p, q \in BOOLEAN : [paused |-> p, stop |-> q] \in [paused : BOOLEAN, stop : BOOLEAN]
      OBVIOUS
    <3>. QED BY <3>1, <3>2, <3>3
  <2>. QED BY <1>1, <2>1, SMT DEF Pause, Resume, RequestStop, OperatorWrites, TypeOK,
       StoreTypes, ProcessTypes, ControlOK, PCs, Modes, SetupPCs, WritingPCs, TerminalRunStates
<1>2. ASSUME LoopTop PROVE TypeOK'
  BY <1>2, SMT DEF LoopTop, TypeOK, StoreTypes, ProcessTypes, ControlOK, PCs, Modes,
     SetupPCs, WritingPCs, TerminalRunStates
<1>3. ASSUME StopSeen PROVE TypeOK'
  BY <1>3, SMT DEF StopSeen, TypeOK, StoreTypes, ProcessTypes, ControlOK, PCs, Modes,
     SetupPCs, WritingPCs, TerminalRunStates
<1>4. ASSUME PauseSeen PROVE TypeOK'
  <2>1. runs' \in [RunIds -> RunStates]
    BY <1>4, RunWrites DEF PauseSeen, TypeOK, StoreTypes, ProcessTypes, RunStates,
         TerminalRunStates
  <2>2. StoreTypes'
    BY <1>4, <2>1, SMT DEF PauseSeen, TypeOK, StoreTypes
  <2>3. ProcessTypes'
    BY <1>4, SMT DEF PauseSeen, TypeOK, ProcessTypes, PCs, Modes
  <2>4. ControlOK'
    BY <1>4, SMT DEF PauseSeen, TypeOK, ControlOK, SetupPCs, WritingPCs
  <2>. QED BY <2>2, <2>3, <2>4 DEF TypeOK
<1>5. ASSUME Proceed \/ ProceedMisread PROVE TypeOK'
  <2>1. runs' \in [RunIds -> RunStates]
    BY <1>5, RunWrites DEF Proceed, ProceedMisread, LetThrough, TypeOK, StoreTypes,
         ProcessTypes, RunStates, TerminalRunStates
  <2>2. StoreTypes'
    BY <1>5, <2>1, SMT DEF Proceed, ProceedMisread, LetThrough, Fault, TypeOK, StoreTypes
  <2>3. ProcessTypes'
    BY <1>5 DEF Proceed, ProceedMisread, LetThrough, TypeOK, ProcessTypes, PCs
  <2>4. ControlOK'
    BY <1>5, SMT DEF Proceed, ProceedMisread, LetThrough, TypeOK, ControlOK, SetupPCs,
         WritingPCs
  <2>. QED BY <2>2, <2>3, <2>4 DEF TypeOK
<1>6. ASSUME CancelRequested PROVE TypeOK'
  BY <1>6, SMT DEF CancelRequested, TypeOK, StoreTypes, ProcessTypes, ControlOK, PCs, Modes,
     SetupPCs, WritingPCs, TerminalRunStates
<1>7. ASSUME ResourceExceeded PROVE TypeOK'
  BY <1>7, SMT DEF ResourceExceeded, RunIds, Fault, MayFail, TypeOK, StoreTypes,
     ProcessTypes, ControlOK, PCs, Modes, SetupPCs, WritingPCs, TerminalRunStates
<1>8. ASSUME GatePassed PROVE TypeOK'
  BY <1>8, SMT DEF GatePassed, TypeOK, StoreTypes, ProcessTypes, ControlOK, PCs, Modes,
     SetupPCs, WritingPCs, TerminalRunStates
<1>9. ASSUME ClaimClosed PROVE TypeOK'
  BY <1>9, SMT DEF ClaimClosed, TypeOK, StoreTypes, ProcessTypes, ControlOK, PCs, Modes,
     SetupPCs, WritingPCs, TerminalRunStates
<1>10. ASSUME \E B \in SUBSET Pending(rows), w \in 1 .. Concurrency, width \in Widths :
                ClaimBatch(B, w, width)
      PROVE  TypeOK'
  <2>1. PICK B \in SUBSET Pending(rows), w \in 1 .. Concurrency, width \in Widths :
          ClaimBatch(B, w, width)
    BY <1>10
  <2>2. rows' \in Tables
    BY <2>1, QueueTyping DEF ClaimBatch, TypeOK, StoreTypes
  <2>3. ready' \subseteq Requests
    BY <2>1 DEF ClaimBatch, Pending, InStatus
  <2>4. exhausted' \in BOOLEAN
    BY <2>1, Zenon DEF ClaimBatch, TypeOK, ProcessTypes
  <2>5. pc' \in {"submit", "wait", "aggregate"}
    BY <2>1, Zenon DEF ClaimBatch
  <2>6. StoreTypes' /\ ProcessTypes'
    BY <2>1, <2>2, <2>3, <2>4, <2>5, SMT DEF ClaimBatch, TypeOK, StoreTypes,
         ProcessTypes, PCs
  <2>7. ControlOK'
    BY <2>1, <2>5, SMT DEF ClaimBatch, TypeOK, ControlOK, SetupPCs, WritingPCs
  <2>. QED BY <2>6, <2>7 DEF TypeOK
<1>11. ASSUME Submit PROVE TypeOK'
  BY <1>11, RequestsFinite, FS_Subset, FS_CardinalityType, SMT DEF Submit, FetchStates,
     TypeOK, StoreTypes, ProcessTypes, ControlOK, PCs, Modes, SetupPCs, WritingPCs,
     TerminalRunStates
<1>12. ASSUME \E u \in Requests : FetchStart(u) PROVE TypeOK'
  BY <1>12, SMT DEF FetchStart, FetchStates, FetchOutcomes, TypeOK, StoreTypes,
     ProcessTypes, ControlOK, PCs, Modes, SetupPCs, WritingPCs, TerminalRunStates
<1>13. ASSUME \E u \in Requests : \E how \in FetchOutcomes : FetchEnd(u, how) PROVE TypeOK'
  BY <1>13, SMT DEF FetchEnd, FetchStates, TypeOK, StoreTypes, ProcessTypes, ControlOK, PCs,
     Modes, SetupPCs, WritingPCs, TerminalRunStates
<1>14. ASSUME WaitDone PROVE TypeOK'
  BY <1>14, SMT DEF WaitDone, Finished, TypeOK, StoreTypes, ProcessTypes, ControlOK, PCs,
     Modes, SetupPCs, WritingPCs, TerminalRunStates
<1>15. ASSUME PassEnds PROVE TypeOK'
  BY <1>15, SMT DEF PassEnds, AfterPass, TypeOK, StoreTypes, ProcessTypes, ControlOK, PCs,
     Modes, SetupPCs, WritingPCs, TerminalRunStates
<1>16. ASSUME DrainRest PROVE TypeOK'
  BY <1>16, SMT DEF DrainRest, Inflight, FetchStates, FetchOutcomes, TypeOK, StoreTypes,
     ProcessTypes, ControlOK, PCs, Modes, SetupPCs, WritingPCs, TerminalRunStates
<1>17. ASSUME \E u \in Requests : FetchMisread(u) PROVE TypeOK'
  BY <1>17, SMT DEF FetchMisread, Fault, FetchStates, FetchOutcomes, TypeOK, StoreTypes,
     ProcessTypes, ControlOK, PCs, Modes, SetupPCs, WritingPCs, TerminalRunStates
<1>. QED BY <1>1, <1>2, <1>3, <1>4, <1>5, <1>6, <1>7, <1>8, <1>9, <1>10, <1>11, <1>12,
     <1>13, <1>14, <1>15, <1>16, <1>17

\* So does every transaction of consume() and every way out of it.
LEMMA ConsumeTyping ==
  ASSUME TypeOK
  PROVE  /\ (\E u \in Requests : Consume(u)) => TypeOK'
         /\ (\E final \in Requests : HandleDelivered(final)) => TypeOK'
         /\ Alias => TypeOK'
         /\ Mark => TypeOK'
         /\ Checkpoint => TypeOK'
         /\ (\E u \in Requests : Await(u)) => TypeOK'
         /\ (\E how \in FetchOutcomes : ResultArrives(how)) => TypeOK'
         /\ (\E how \in Thrown : StoreFails(how) \/ CallbackRaises(how)) => TypeOK'
         /\ (\E found \in SUBSET Requests : HandleFailed(found)) => TypeOK'
         /\ HandleRefused => TypeOK'
         /\ RefusedMisread => TypeOK'
         /\ HandleReleased => TypeOK'
         /\ Settle => TypeOK'
         /\ HookRaises => TypeOK'
         /\ HandlerFails => TypeOK'
<1>1. ASSUME \E u \in Requests : Consume(u) PROVE TypeOK'
  BY <1>1, SMT DEF Consume, Finished, FetchStates, FetchOutcomes, TypeOK, StoreTypes,
       ProcessTypes,
     ControlOK, PCs, Modes, SetupPCs, WritingPCs, TerminalRunStates
<1>2. ASSUME \E final \in Requests : HandleDelivered(final) PROVE TypeOK'
  <2>1. PICK final \in Requests : HandleDelivered(final)
    BY <1>2
  <2>2. current \in Requests
    BY <2>1 DEF HandleDelivered, TypeOK, ControlOK, WritingPCs
  <2>3. rows' \in Tables
    BY <2>1, <2>2, QueueTyping DEF HandleDelivered, TypeOK, StoreTypes
  <2>4. stored' \subseteq Requests
    BY <2>1, <2>2 DEF HandleDelivered, TypeOK, StoreTypes
  <2>5. StoreTypes'
    BY <2>1, <2>3, <2>4 DEF HandleDelivered, TypeOK, StoreTypes
  <2>6. ProcessTypes'
    BY <2>1 DEF HandleDelivered, TypeOK, ProcessTypes, PCs
  <2>7. ControlOK'
    BY <2>1, <2>2, SMT DEF HandleDelivered, TypeOK, ControlOK, SetupPCs, WritingPCs
  <2>. QED BY <2>5, <2>6, <2>7 DEF TypeOK
<1>3. ASSUME Alias PROVE TypeOK'
  BY <1>3, SettleTyping, SMT DEF Alias, Statuses, Errors, TypeOK, StoreTypes, ProcessTypes,
     ControlOK, PCs, Modes, SetupPCs, WritingPCs, TerminalRunStates
<1>4. ASSUME Mark PROVE TypeOK'
  BY <1>4, SettleTyping, SMT DEF Mark, Statuses, Errors, TypeOK, StoreTypes, ProcessTypes,
     ControlOK, PCs, Modes, SetupPCs, WritingPCs, TerminalRunStates
<1>5. ASSUME Checkpoint PROVE TypeOK'
  BY <1>5, SMT DEF Checkpoint, PutDown, RunIds, TypeOK, StoreTypes, ProcessTypes, ControlOK,
     PCs, Modes, SetupPCs, WritingPCs, TerminalRunStates
<1>6. ASSUME NEW how \in Thrown, StoreFails(how) \/ CallbackRaises(how) PROVE TypeOK'
  <2>1. pc \in WritingPCs /\ current \in Requests /\ run \in RunIds /\ how \in FetchOutcomes
    BY <1>6, RunOfProcess DEF StoreFails, CallbackRaises, Thrown, FetchOutcomes, TypeOK,
       ControlOK, WritingPCs
  <2>2. rows' \in Tables
    <3>1. MarkDone(rows, current, "blocked", "policy") \in Tables
      BY <2>1, SettleTyping DEF TypeOK, StoreTypes, Statuses, Errors
    <3>. QED BY <1>6, <3>1 DEF StoreFails, CallbackRaises, ThrownUnder, TypeOK, StoreTypes
  <2>3. /\ errors' \subseteq RunIds \X (Requests \cup {NoRequest})
        /\ checkpoints' \subseteq RunIds \X Requests
    BY <1>6, <2>1 DEF StoreFails, CallbackRaises, ThrownUnder, TypeOK, StoreTypes
  <2>4. StoreTypes'
    BY <1>6, <2>2, <2>3, SMT DEF StoreFails, CallbackRaises, ThrownUnder, Fault, TypeOK,
         StoreTypes
  <2>5. ProcessTypes' /\ ControlOK'
    BY <1>6, <2>1, SMT DEF StoreFails, CallbackRaises, ThrownUnder, TypeOK, ProcessTypes,
       ControlOK, PCs, SetupPCs, WritingPCs
  <2>. QED BY <2>4, <2>5 DEF TypeOK
<1>7. ASSUME \E found \in SUBSET Requests : HandleFailed(found) PROVE TypeOK'
  BY <1>7, QueueTyping, SMT DEF HandleFailed, RunIds, TypeOK, StoreTypes, ProcessTypes,
     ControlOK, PCs, Modes, SetupPCs, WritingPCs, TerminalRunStates
<1>8. ASSUME HandleRefused \/ RefusedMisread PROVE TypeOK'
  BY <1>8, SettleTyping, SMT DEF HandleRefused, RefusedMisread, Refused, Fault, Statuses,
       Errors, TypeOK, StoreTypes,
     ProcessTypes, ControlOK, PCs, Modes, SetupPCs, WritingPCs, TerminalRunStates
<1>9. ASSUME HandleReleased PROVE TypeOK'
  BY <1>9, SettleTyping, SMT DEF HandleReleased, PutDown, Statuses, Errors, TypeOK,
     StoreTypes, ProcessTypes, ControlOK, PCs, Modes, SetupPCs, WritingPCs,
     TerminalRunStates
<1>10. ASSUME Settle PROVE TypeOK'
  BY <1>10, SettleTyping, SMT DEF Settle, SettleWrites, PutDown, RunIds, Statuses, Errors,
     TypeOK, StoreTypes, ProcessTypes, ControlOK, PCs, Modes, SetupPCs, WritingPCs,
     TerminalRunStates
<1>11. ASSUME HookRaises PROVE TypeOK'
  <2>1. current \in Requests /\ run \in RunIds
    BY <1>11, RunOfProcess DEF HookRaises, TypeOK, ControlOK, WritingPCs
  <2>2. rows' \in Tables
    BY <1>11, <2>1, SettleTyping DEF HookRaises, SettleWrites, TypeOK, StoreTypes,
         Statuses, Errors
  <2>3. errors' \subseteq RunIds \X (Requests \cup {NoRequest})
    BY <1>11, <2>1 DEF HookRaises, SettleWrites, TypeOK, StoreTypes
  <2>4. broken' \subseteq RunIds /\ faults' \in Nat /\ dropped' \subseteq Requests
    BY <1>11, <2>1, SMT DEF HookRaises, Abandoned, Inflight, Fault, TypeOK, StoreTypes
  <2>5. pc' \in {"drain", "top", "aggregate", "report", "finish", "exit"}
    BY <1>11 DEF HookRaises, RaiseOutOfConsume, AfterPass, TypeOK, ProcessTypes, Modes
  <2>6. StoreTypes' /\ ProcessTypes'
    BY <1>11, <2>2, <2>3, <2>4, <2>5, SMT DEF HookRaises, RaiseOutOfConsume, SettleWrites,
       PutDown, TypeOK, StoreTypes, ProcessTypes, PCs, Modes, TerminalRunStates
  <2>7. ControlOK'
    BY <1>11, <2>1, <2>5, SMT DEF HookRaises, SettleWrites, PutDown, TypeOK, ControlOK,
         SetupPCs,
       WritingPCs
  <2>. QED BY <2>6, <2>7 DEF TypeOK
<1>12. ASSUME HandlerFails PROVE TypeOK'
  BY <1>12, SMT DEF HandlerFails, Held, Abandoned, Inflight, RaiseOutOfConsume,
       AfterPass, PutDown, RunIds, Fault,
     MayFail, TypeOK, StoreTypes, ProcessTypes, ControlOK, PCs, Modes, SetupPCs, WritingPCs,
     TerminalRunStates
<1>13. ASSUME NEW u \in Requests, Await(u) PROVE TypeOK'
  BY <1>13, SMT DEF Await, FetchStates, FetchOutcomes, TypeOK, StoreTypes, ProcessTypes,
     ControlOK, PCs, Modes, SetupPCs, WritingPCs
<1>14. ASSUME NEW how \in FetchOutcomes, ResultArrives(how) PROVE TypeOK'
  BY <1>14, SMT DEF ResultArrives, TypeOK, StoreTypes, ProcessTypes, ControlOK, PCs, Modes,
     SetupPCs, WritingPCs
<1>. QED BY <1>1, <1>2, <1>3, <1>4, <1>5, <1>6, <1>7, <1>8, <1>9, <1>10, <1>11, <1>12,
     <1>13, <1>14

\* So does the end of a run, however it ends.
LEMMA ExitTyping ==
  ASSUME TypeOK
  PROVE  /\ Aggregate => TypeOK'
         /\ Export => TypeOK'
         /\ LoopError => TypeOK'
         /\ LateError => TypeOK'
         /\ Report => TypeOK'
         /\ ReportRaises => TypeOK'
         /\ Finish => TypeOK'
         /\ AfterFinish => TypeOK'
         /\ InterruptLoop => TypeOK'
         /\ InterruptDrain => TypeOK'
         /\ InterruptExit => TypeOK'
<1>1. ASSUME Aggregate PROVE TypeOK'
  BY <1>1, SMT DEF Aggregate, RunIds, TypeOK, StoreTypes, ProcessTypes, ControlOK, PCs,
     Modes, SetupPCs, WritingPCs, TerminalRunStates
<1>2. ASSUME Export PROVE TypeOK'
  BY <1>2, SMT DEF Export, TypeOK, StoreTypes, ProcessTypes, ControlOK, PCs, Modes,
     SetupPCs, WritingPCs, TerminalRunStates
<1>3. ASSUME LoopError PROVE TypeOK'
  BY <1>3, SMT DEF LoopError, Aborts, Batch, RunIds, Fault, MayFail, TypeOK, StoreTypes,
     ProcessTypes, ControlOK, PCs, Modes, SetupPCs, WritingPCs, TerminalRunStates
<1>4. ASSUME LateError PROVE TypeOK'
  BY <1>4, SMT DEF LateError, Aborts, Fault, MayFail, TypeOK, StoreTypes, ProcessTypes,
     ControlOK, PCs, Modes, SetupPCs, WritingPCs, TerminalRunStates
<1>5. ASSUME Report PROVE TypeOK'
  BY <1>5, SMT DEF Report, RunIds, TypeOK, StoreTypes, ProcessTypes, ControlOK, PCs, Modes,
     SetupPCs, WritingPCs, TerminalRunStates
<1>6. ASSUME ReportRaises PROVE TypeOK'
  BY <1>6, SMT DEF ReportRaises, RunIds, Fault, MayFail, TypeOK, StoreTypes, ProcessTypes,
     ControlOK, PCs, Modes, SetupPCs, WritingPCs, TerminalRunStates
<1>7. ASSUME Finish PROVE TypeOK'
  <2>1. runs' \in [RunIds -> RunStates]
    BY <1>7, RunWrites DEF Finish, TypeOK, StoreTypes, ProcessTypes, RunStates,
         TerminalRunStates
  <2>2. StoreTypes'
    BY <1>7, <2>1, SMT DEF Finish, TypeOK, StoreTypes
  <2>3. ProcessTypes'
    BY <1>7, SMT DEF Finish, TypeOK, ProcessTypes, PCs, Modes
  <2>4. ControlOK'
    BY <1>7, SMT DEF Finish, TypeOK, ControlOK, SetupPCs, WritingPCs
  <2>. QED BY <2>2, <2>3, <2>4 DEF TypeOK
<1>8. ASSUME AfterFinish PROVE TypeOK'
  BY <1>8, SMT DEF AfterFinish, TypeOK, StoreTypes, ProcessTypes, ControlOK, PCs, Modes,
     SetupPCs, WritingPCs, TerminalRunStates
<1>9. ASSUME InterruptLoop PROVE TypeOK'
  BY <1>9, SMT DEF InterruptLoop, Held, Batch, PutDown, Up, RunIds, Fault, MayFail,
       TypeOK, StoreTypes,
     ProcessTypes, ControlOK, PCs, Modes, SetupPCs, WritingPCs, TerminalRunStates
<1>10. ASSUME InterruptDrain PROVE TypeOK'
  BY <1>10, SMT DEF InterruptDrain, Held, AfterPass, PutDown, RunIds, Fault, MayFail,
       TypeOK,
     StoreTypes, ProcessTypes, ControlOK, PCs, Modes, SetupPCs, WritingPCs,
     TerminalRunStates
<1>11. ASSUME InterruptExit PROVE TypeOK'
  BY <1>11, SMT DEF InterruptExit, Held, Abandoned, Inflight, PutDown, RunIds, Fault,
       MayFail, TypeOK, StoreTypes,
     ProcessTypes, ControlOK, PCs, Modes, SetupPCs, WritingPCs, TerminalRunStates
<1>. QED BY <1>1, <1>2, <1>3, <1>4, <1>5, <1>6, <1>7, <1>8, <1>9, <1>10, <1>11

\* The program starts from an empty, well-typed workspace.
LEMMA InitTyping == Init => TypeOK
<1>. SUFFICES ASSUME Init PROVE TypeOK
  OBVIOUS
<1>1. rows \in Tables
  BY RowUpdates DEF Init, Tables
<1>2. runs \in [RunIds -> RunStates]
  BY DEF Init, RunStates
<1>3. StoreTypes
  BY <1>1, <1>2, BoundsOK DEF Init, StoreTypes
<1>4. ProcessTypes /\ ControlOK
  BY DEF Init, ProcessTypes, ControlOK, PCs, Modes, Idle, FetchStates, TerminalRunStates,
     WritingPCs
<1>. QED BY <1>3, <1>4 DEF TypeOK

\* Every step of Next, grouped as in the specification, preserves the types.
LEMMA StepTyping == TypeOK /\ [Next]_vars => TypeOK'
<1>. SUFFICES ASSUME TypeOK, [Next]_vars PROVE TypeOK'
  OBVIOUS
<1>1. CASE MainThread
  BY <1>1, SetupTyping, LoopTyping, ConsumeTyping, ExitTyping DEF MainThread
<1>2. CASE Fetches
  BY <1>2, LoopTyping, ConsumeTyping DEF Fetches
<1>3. CASE Failures
  BY <1>3, SetupTyping, LoopTyping, ConsumeTyping, ExitTyping DEF Failures
<1>4. CASE Operator
  BY <1>4, SetupTyping, LoopTyping DEF Operator
<1>5. CASE UNCHANGED vars
  BY <1>5 DEF vars, TypeOK, StoreTypes, ProcessTypes, ControlOK
<1>. QED BY <1>1, <1>2, <1>3, <1>4, <1>5 DEF Next

\* The control state, the tables and the futures stay well formed in every
\* behaviour of a crawl: whatever is interrupted, the process never writes a
\* result without a request, nor leaves a future behind when it is gone.
THEOREM TypeCorrect == Spec => []TypeOK
BY InitTyping, StepTyping, PTL DEF Spec
=============================================================================

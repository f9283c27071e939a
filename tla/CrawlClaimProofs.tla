-------------------------- MODULE CrawlClaimProofs --------------------------
(***************************************************************************)
(* The claims of the loop and what follows from them, for every set of     *)
(* requests, topology and bound:                                           *)
(*                                                                         *)
(*   - a claim has one holder (HolderOwnsClaim, inductive once the types   *)
(*     are known), and a live loop has a holder for every claim it did not *)
(*     drop at an interrupt (OwnerInv: a setup and the writes of consume() *)
(*     release what they put down);                                        *)
(*   - a page once done is reopened by its own consume() only              *)
(*     (DeliveredPagesStay);                                               *)
(*   - the budgets bound what is claimed and in flight together with what  *)
(*     has been counted;                                                   *)
(*   - a lost row has its error, written before the row or after it;       *)
(*   - attempts are bounded: what is queued or being written has one left  *)
(*     (AttemptsInv);                                                      *)
(*   - the crawl implements RequestLedger.                                 *)
(***************************************************************************)
EXTENDS CrawlStatusProofs

USE DEF dbVars, loopVars, writeVars, exitVars, bookVars, HoldingPCs

\* A step that touches no claimed row, takes no claim and begins no write.
LEMMA ClaimFrame ==
  ASSUME HolderOwnsClaim,
         \A u \in Requests :
           fetch'[u] # "none" => fetch[u] # "none" /\ rows'[u].status = rows[u].status,
         current' \in {current, NoRequest},
         pc' \notin {"submit", "await", "handle", "alias", "mark"}
  PROVE  HolderOwnsClaim'
  BY TopologyOK DEF HolderOwnsClaim

\* Starting, setting up and leaving a process keeps HolderOwnsClaim.
LEMMA SetupClaims ==
  ASSUME TypeOK, HolderOwnsClaim
  PROVE  /\ (\E resume, retry \in BOOLEAN : Start(resume, retry)) => HolderOwnsClaim'
         /\ Prepare => HolderOwnsClaim'
         /\ Retry => HolderOwnsClaim'
         /\ (\E u \in Requests : SeedOne(u)) => HolderOwnsClaim'
         /\ Seeded => HolderOwnsClaim'
         /\ SetupFails => HolderOwnsClaim'
         /\ LimitsAccepted => HolderOwnsClaim'
         /\ LimitsRejected => HolderOwnsClaim'
         /\ Exit => HolderOwnsClaim'
         /\ Crash => HolderOwnsClaim'
         /\ InterruptSetup => HolderOwnsClaim'
         /\ SetupReportRaises => HolderOwnsClaim'
         /\ Recover => HolderOwnsClaim'
<1>1. ASSUME \E resume, retry \in BOOLEAN : Start(resume, retry) PROVE HolderOwnsClaim'
  BY <1>1, SMT DEF Start, TypeOK, StoreTypes, ProcessTypes, ControlOK, SetupPCs, WritingPCs,
     HolderOwnsClaim
<1>2. ASSUME Prepare PROVE HolderOwnsClaim'
  BY <1>2, SMT DEF Prepare, TypeOK, StoreTypes, ProcessTypes, ControlOK, SetupPCs,
     WritingPCs, HolderOwnsClaim
<1>3. ASSUME Retry PROVE HolderOwnsClaim'
  BY <1>3, SMT DEF Retry, TypeOK, StoreTypes, ProcessTypes, ControlOK, SetupPCs, WritingPCs,
     HolderOwnsClaim
<1>4. ASSUME \E u \in Requests : SeedOne(u) PROVE HolderOwnsClaim'
  BY <1>4, SMT DEF SeedOne, TypeOK, StoreTypes, ProcessTypes, ControlOK, SetupPCs,
     WritingPCs, HolderOwnsClaim
<1>5. ASSUME Seeded PROVE HolderOwnsClaim'
  BY <1>5, SMT DEF Seeded, TypeOK, StoreTypes, ProcessTypes, ControlOK, SetupPCs,
     WritingPCs, HolderOwnsClaim
<1>6. ASSUME SetupFails PROVE HolderOwnsClaim'
  BY <1>6, SMT DEF SetupFails, ForgetProcess, Idle, FetchStates, Fault, MayFail, TypeOK,
     StoreTypes, ProcessTypes, ControlOK, SetupPCs, WritingPCs, HolderOwnsClaim
<1>7. ASSUME LimitsAccepted PROVE HolderOwnsClaim'
  BY <1>7, SMT DEF LimitsAccepted, TypeOK, StoreTypes, ProcessTypes, ControlOK, SetupPCs,
     WritingPCs, HolderOwnsClaim
<1>8. ASSUME LimitsRejected PROVE HolderOwnsClaim'
  BY <1>8, SMT DEF LimitsRejected, ForgetProcess, Idle, FetchStates, TypeOK, StoreTypes,
     ProcessTypes, ControlOK, SetupPCs, WritingPCs, HolderOwnsClaim
<1>9. ASSUME Exit PROVE HolderOwnsClaim'
  BY <1>9, SMT DEF Exit, ForgetProcess, Idle, FetchStates, TypeOK, StoreTypes, ProcessTypes,
     ControlOK, SetupPCs, WritingPCs, HolderOwnsClaim
<1>10. ASSUME Crash PROVE HolderOwnsClaim'
  BY <1>10, SMT DEF Crash, Up, ForgetProcess, Idle, FetchStates, Fault, MayFail, TypeOK,
     StoreTypes, ProcessTypes, ControlOK, SetupPCs, WritingPCs, HolderOwnsClaim
<1>11. ASSUME InterruptSetup PROVE HolderOwnsClaim'
  BY <1>11, SMT DEF InterruptSetup, ForgetProcess, Idle, FetchStates, Fault, MayFail,
     TypeOK, StoreTypes, ProcessTypes, ControlOK, SetupPCs, WritingPCs, HolderOwnsClaim
<1>12. ASSUME Recover PROVE HolderOwnsClaim'
  BY <1>12, SMT DEF Recover, TypeOK, StoreTypes, ProcessTypes, ControlOK, SetupPCs,
     WritingPCs, HolderOwnsClaim
<1>13. ASSUME SetupReportRaises PROVE HolderOwnsClaim'
  BY <1>13, SMT DEF SetupReportRaises, ForgetProcess, Idle, FetchStates, Fault, MayFail,
     TypeOK, StoreTypes, ProcessTypes, ControlOK, SetupPCs, WritingPCs, HolderOwnsClaim
<1>. QED BY <1>1, <1>2, <1>3, <1>4, <1>5, <1>6, <1>7, <1>8, <1>9, <1>10, <1>11, <1>12, <1>13

\* So do the operator, the run loop, claiming and the fetch threads.
LEMMA LoopClaims ==
  ASSUME TypeOK, HolderOwnsClaim
  PROVE  /\ (Pause \/ Resume \/ RequestStop) => HolderOwnsClaim'
         /\ LoopTop => HolderOwnsClaim'
         /\ StopSeen => HolderOwnsClaim'
         /\ PauseSeen => HolderOwnsClaim'
         /\ (Proceed \/ ProceedMisread) => HolderOwnsClaim'
         /\ CancelRequested => HolderOwnsClaim'
         /\ ResourceExceeded => HolderOwnsClaim'
         /\ GatePassed => HolderOwnsClaim'
         /\ ClaimClosed => HolderOwnsClaim'
         /\ (\E B \in SUBSET Pending(rows), w \in 1 .. Concurrency, width \in Widths :
               ClaimBatch(B, w, width)) => HolderOwnsClaim'
         /\ Submit => HolderOwnsClaim'
         /\ (\E u \in Requests : FetchStart(u) \/ FetchMisread(u)) => HolderOwnsClaim'
         /\ (\E u \in Requests : \E how \in FetchOutcomes : FetchEnd(u, how)) => HolderOwnsClaim'
         /\ WaitDone => HolderOwnsClaim'
         /\ PassEnds => HolderOwnsClaim'
         /\ DrainRest => HolderOwnsClaim'
<1>1. ASSUME Pause \/ Resume \/ RequestStop PROVE HolderOwnsClaim'
  BY <1>1, SMT DEF Pause, Resume, RequestStop, OperatorWrites, TypeOK, StoreTypes,
     ProcessTypes, ControlOK, SetupPCs, WritingPCs, HolderOwnsClaim
<1>2. ASSUME LoopTop PROVE HolderOwnsClaim'
  BY <1>2, SMT DEF LoopTop, TypeOK, StoreTypes, ProcessTypes, ControlOK, SetupPCs,
     WritingPCs, HolderOwnsClaim
<1>3. ASSUME StopSeen PROVE HolderOwnsClaim'
  BY <1>3, SMT DEF StopSeen, TypeOK, StoreTypes, ProcessTypes, ControlOK, SetupPCs,
     WritingPCs, HolderOwnsClaim
<1>4. ASSUME PauseSeen PROVE HolderOwnsClaim'
  BY <1>4, SMT DEF PauseSeen, TypeOK, StoreTypes, ProcessTypes, ControlOK, SetupPCs,
     WritingPCs, HolderOwnsClaim
<1>5. ASSUME Proceed \/ ProceedMisread PROVE HolderOwnsClaim'
  BY <1>5, SMT DEF Proceed, ProceedMisread, LetThrough, Fault, MayFail, TypeOK,
       StoreTypes, ProcessTypes, ControlOK, SetupPCs,
     WritingPCs, HolderOwnsClaim
<1>6. ASSUME CancelRequested PROVE HolderOwnsClaim'
  BY <1>6, SMT DEF CancelRequested, TypeOK, StoreTypes, ProcessTypes, ControlOK, SetupPCs,
     WritingPCs, HolderOwnsClaim
<1>7. ASSUME ResourceExceeded PROVE HolderOwnsClaim'
  BY <1>7, SMT DEF ResourceExceeded, Fault, MayFail, TypeOK, StoreTypes, ProcessTypes,
     ControlOK, SetupPCs, WritingPCs, HolderOwnsClaim
<1>8. ASSUME GatePassed PROVE HolderOwnsClaim'
  BY <1>8, SMT DEF GatePassed, TypeOK, StoreTypes, ProcessTypes, ControlOK, SetupPCs,
     WritingPCs, HolderOwnsClaim
<1>9. ASSUME ClaimClosed PROVE HolderOwnsClaim'
  BY <1>9, SMT DEF ClaimClosed, TypeOK, StoreTypes, ProcessTypes, ControlOK, SetupPCs,
     WritingPCs, HolderOwnsClaim
<1>10. ASSUME \E B \in SUBSET Pending(rows), w \in 1 .. Concurrency, width \in Widths :
                ClaimBatch(B, w, width)
      PROVE  HolderOwnsClaim'
  <2>1. PICK B \in SUBSET Pending(rows), w \in 1 .. Concurrency, width \in Widths :
          ClaimBatch(B, w, width)
    BY <1>10
  <2>2. \A u \in Requests : rows[u].status = "in_progress" => rows'[u] = rows[u]
    BY <2>1, ClaimIsPrivate DEF ClaimBatch, TypeOK, StoreTypes
  <2>3. \A u \in B : u \in Requests /\ rows[u].status = "pending"
    BY DEF Pending, InStatus
  <2>4. \A u \in B : rows'[u].status = "in_progress" /\ fetch[u] = "none"
    BY <2>1, <2>3 DEF ClaimBatch, Claim, TypeOK, StoreTypes, Tables, Row, HolderOwnsClaim
  <2>5. pc' \in {"submit", "wait", "aggregate"}
    BY <2>1, Zenon DEF ClaimBatch
  <2>. QED BY <2>1, <2>2, <2>4, <2>5 DEF ClaimBatch, HolderOwnsClaim
<1>11. ASSUME Submit PROVE HolderOwnsClaim'
  <2>1. \A u \in Requests : fetch'[u] = IF u \in ready THEN "queued" ELSE fetch[u]
    BY <1>11 DEF Submit
  <2>2. \A u \in Requests : u # current
    BY <1>11, TopologyOK DEF Submit, TypeOK, ControlOK, WritingPCs
  <2>. QED BY <1>11, <2>1, <2>2 DEF Submit, HolderOwnsClaim
<1>12. ASSUME \E u \in Requests : FetchStart(u) \/ FetchMisread(u) PROVE HolderOwnsClaim'
  BY <1>12, SMT DEF FetchStart, FetchMisread, Fault, MayFail, FetchStates, FetchOutcomes,
       TypeOK, StoreTypes,
     ProcessTypes, ControlOK, SetupPCs, WritingPCs, HolderOwnsClaim
<1>13. ASSUME \E u \in Requests : \E how \in FetchOutcomes : FetchEnd(u, how)
       PROVE HolderOwnsClaim'
  BY <1>13, SMT DEF FetchEnd, FetchStates, TypeOK, StoreTypes, ProcessTypes, ControlOK,
     SetupPCs, WritingPCs, HolderOwnsClaim
<1>14. ASSUME WaitDone PROVE HolderOwnsClaim'
  BY <1>14, SMT DEF WaitDone, Finished, TypeOK, StoreTypes, ProcessTypes, ControlOK,
     SetupPCs, WritingPCs, HolderOwnsClaim
<1>15. ASSUME PassEnds PROVE HolderOwnsClaim'
  <2>1. fetch' = fetch /\ rows' = rows /\ current' = current
    BY <1>15 DEF PassEnds
  <2>2. pc' \in {"drain", "top", "aggregate", "report", "finish", "exit"}
    BY <1>15 DEF PassEnds, AfterPass, TypeOK, ProcessTypes, Modes
  <2>. QED BY <2>1, <2>2, ClaimFrame
<1>16. ASSUME DrainRest PROVE HolderOwnsClaim'
  BY <1>16, SMT DEF DrainRest, Inflight, FetchStates, FetchOutcomes, TypeOK, StoreTypes,
     ProcessTypes, ControlOK, SetupPCs, WritingPCs, HolderOwnsClaim
<1>. QED BY <1>1, <1>2, <1>3, <1>4, <1>5, <1>6, <1>7, <1>8, <1>9, <1>10, <1>11, <1>12,
     <1>13, <1>14, <1>15, <1>16

\* So does every transaction of consume() and every way out of it.
LEMMA ConsumeClaims ==
  ASSUME TypeOK, HolderOwnsClaim
  PROVE  /\ (\E u \in Requests : Consume(u) \/ Await(u)) => HolderOwnsClaim'
         /\ (\E how \in FetchOutcomes : ResultArrives(how)) => HolderOwnsClaim'
         /\ (\E final \in Requests : HandleDelivered(final)) => HolderOwnsClaim'
         /\ Alias => HolderOwnsClaim'
         /\ Mark => HolderOwnsClaim'
         /\ Checkpoint => HolderOwnsClaim'
         /\ (\E how \in Thrown : StoreFails(how) \/ CallbackRaises(how)) => HolderOwnsClaim'
         /\ (\E found \in SUBSET Requests : HandleFailed(found)) => HolderOwnsClaim'
         /\ (HandleRefused \/ RefusedMisread) => HolderOwnsClaim'
         /\ HandleReleased => HolderOwnsClaim'
         /\ Settle => HolderOwnsClaim'
         /\ HookRaises => HolderOwnsClaim'
         /\ HandlerFails => HolderOwnsClaim'
<1>1. ASSUME \E u \in Requests : Consume(u) \/ Await(u) PROVE HolderOwnsClaim'
  <2>1. PICK u \in Requests : Consume(u) \/ Await(u)
    BY <1>1
  <2>2. fetch[u] # "none" /\ rows[u].status = "in_progress"
    BY <2>1 DEF Consume, Await, Finished, FetchOutcomes, HolderOwnsClaim
  <2>3. fetch'[u] = "none" /\ \A v \in Requests : v # u => fetch'[v] = fetch[v]
    BY <2>1 DEF Consume, Await, TypeOK, ProcessTypes
  <2>4. rows' = rows /\ current' = u /\ pc' \in {"await", "handle"}
    BY <2>1 DEF Consume, Await
  <2>. QED BY <2>2, <2>3, <2>4 DEF HolderOwnsClaim
<1>2. ASSUME \E final \in Requests : HandleDelivered(final) PROVE HolderOwnsClaim'
  <2>1. PICK final \in Requests : HandleDelivered(final)
    BY <1>2
  <2>2. current \in Requests
    BY <2>1 DEF HandleDelivered, TypeOK, ControlOK, WritingPCs
  <2>3. \A u \in Requests : rows[u].status = "in_progress" => rows'[u] = rows[u]
    BY <2>1, <2>2, ClaimIsPrivate DEF HandleDelivered, TypeOK, StoreTypes
  <2>. QED BY <2>1, <2>2, <2>3 DEF HandleDelivered, HolderOwnsClaim
<1>3. ASSUME Alias PROVE HolderOwnsClaim'
  <2>1. target \in Requests /\ current \in Requests
    BY <1>3 DEF Alias, TypeOK, ControlOK, WritingPCs
  <2>2. \A u \in Requests : rows[u].status = "in_progress" => rows'[u] = rows[u]
    BY <1>3, <2>1, ClaimIsPrivate DEF Alias, TypeOK, StoreTypes
  <2>. QED BY <1>3, <2>1, <2>2 DEF Alias, HolderOwnsClaim
<1>4. ASSUME Mark PROVE HolderOwnsClaim'
  <2>1. current \in Requests
    BY <1>4 DEF Mark, TypeOK, ControlOK, WritingPCs
  <2>2. \A u \in Requests : u # current => rows'[u] = rows[u]
    BY <1>4, <2>1, SettlesOneRow DEF Mark, TypeOK, StoreTypes
  <2>3. \A u \in Requests : fetch'[u] # "none" => fetch[u] # "none" /\ rows'[u].status = rows[u].status
    BY <1>4, <2>2 DEF Mark, HolderOwnsClaim
  <2>4. current' \in {current, NoRequest} /\ pc' \in {"checkpoint"}
    BY <1>4 DEF Mark
  <2>. QED BY <2>3, <2>4, ClaimFrame
<1>5. ASSUME Checkpoint PROVE HolderOwnsClaim'
  <2>1. fetch' = fetch /\ rows' = rows /\ current' = NoRequest
    BY <1>5 DEF Checkpoint, PutDown
  <2>2. pc' \in {"consume"}
    BY <1>5 DEF Checkpoint, RaiseOutOfConsume, AfterPass, TypeOK, ProcessTypes, Modes
  <2>. QED BY <2>1, <2>2, ClaimFrame
<1>6. ASSUME NEW how \in Thrown, StoreFails(how) \/ CallbackRaises(how)
      PROVE HolderOwnsClaim'
  <2>1. /\ pc \in WritingPCs /\ fetch' = fetch /\ current' = current /\ pc' = "settle"
        /\ ThrownUnder(how)
    BY <1>6 DEF StoreFails, CallbackRaises, ThrownUnder, WritingPCs
  <2>2. current \in Requests
    BY <2>1 DEF TypeOK, ControlOK
  <2>3. \A u \in Requests : u # current => rows'[u] = rows[u]
    BY <2>1, <2>2, SettlesOneRow DEF ThrownUnder, TypeOK, StoreTypes
  <2>4. \A u \in Requests : fetch'[u] # "none" => fetch[u] # "none" /\ rows'[u].status = rows[u].status
    BY <2>1, <2>3 DEF HolderOwnsClaim
  <2>. QED BY <2>1, <2>4, ClaimFrame
<1>7. ASSUME \E found \in SUBSET Requests : HandleFailed(found) PROVE HolderOwnsClaim'
  <2>1. PICK found \in SUBSET Requests : HandleFailed(found)
    BY <1>7
  <2>2. current \in Requests
    BY <2>1 DEF HandleFailed, TypeOK, ControlOK, WritingPCs
  <2>3. \A u \in Requests : rows[u].status = "in_progress" => rows'[u] = rows[u]
    BY <2>1, <2>2, ClaimIsPrivate DEF HandleFailed, TypeOK, StoreTypes
  <2>. QED BY <2>1, <2>2, <2>3 DEF HandleFailed, HolderOwnsClaim
<1>8. ASSUME HandleRefused \/ RefusedMisread PROVE HolderOwnsClaim'
  <2>1. pc = "handle" /\ fetch' = fetch /\ current' = current /\ Refused
    BY <1>8 DEF HandleRefused, RefusedMisread
  <2>2. current \in Requests
    BY <2>1 DEF TypeOK, ControlOK, WritingPCs
  <2>3. \A u \in Requests : u # current => rows'[u] = rows[u]
    BY <2>1, <2>2, SettlesOneRow DEF Refused, TypeOK, StoreTypes
  <2>4. \A u \in Requests : fetch'[u] # "none" => fetch[u] # "none" /\ rows'[u].status = rows[u].status
    BY <2>1, <2>3 DEF HolderOwnsClaim
  <2>5. pc' = "settle"
    BY <2>1 DEF Refused
  <2>. QED BY <2>1, <2>4, <2>5, ClaimFrame
<1>9. ASSUME HandleReleased PROVE HolderOwnsClaim'
  <2>1. current \in Requests
    BY <1>9 DEF HandleReleased, TypeOK, ControlOK, WritingPCs
  <2>2. \A u \in Requests : u # current => rows'[u] = rows[u]
    BY <1>9, <2>1, SettlesOneRow DEF HandleReleased, TypeOK, StoreTypes
  <2>3. \A u \in Requests : fetch'[u] # "none" => fetch[u] # "none" /\ rows'[u].status = rows[u].status
    BY <1>9, <2>2 DEF HandleReleased, HolderOwnsClaim
  <2>4. current' \in {current, NoRequest} /\ pc' \in {"consume"}
    BY <1>9 DEF HandleReleased, PutDown
  <2>. QED BY <2>3, <2>4, ClaimFrame
<1>10. ASSUME Settle PROVE HolderOwnsClaim'
  <2>1. current \in Requests
    BY <1>10 DEF Settle, TypeOK, ControlOK, WritingPCs
  <2>2. \A u \in Requests : u # current => rows'[u] = rows[u]
    BY <1>10, <2>1, SettlesOneRow DEF Settle, SettleWrites, TypeOK, StoreTypes
  <2>3. \A u \in Requests : fetch'[u] # "none" => fetch[u] # "none" /\ rows'[u].status = rows[u].status
    BY <1>10, <2>2 DEF Settle, HolderOwnsClaim
  <2>4. current' \in {current, NoRequest} /\ pc' \in {"consume"}
    BY <1>10 DEF Settle, SettleWrites, PutDown
  <2>. QED BY <2>3, <2>4, ClaimFrame
<1>11. ASSUME HookRaises PROVE HolderOwnsClaim'
  <2>1. current \in Requests
    BY <1>11 DEF HookRaises, TypeOK, ControlOK, WritingPCs
  <2>2. \A u \in Requests : u # current => rows'[u] = rows[u]
    BY <1>11, <2>1, SettlesOneRow DEF HookRaises, SettleWrites, TypeOK, StoreTypes
  <2>3. \A u \in Requests : fetch'[u] # "none" => fetch[u] # "none" /\ rows'[u].status = rows[u].status
    BY <1>11, <2>2 DEF HookRaises, HolderOwnsClaim
  <2>4. current' \in {current, NoRequest} /\ pc' \in {"drain", "top", "aggregate", "report", "finish", "exit"}
    BY <1>11 DEF HookRaises, SettleWrites, PutDown, RaiseOutOfConsume, AfterPass,
       TypeOK, ProcessTypes, Modes
  <2>. QED BY <2>3, <2>4, ClaimFrame
<1>12. ASSUME HandlerFails PROVE HolderOwnsClaim'
  <2>1. fetch' = fetch /\ rows' = rows /\ current' = NoRequest
    BY <1>12 DEF HandlerFails, PutDown
  <2>2. pc' \in {"drain", "top", "aggregate", "report", "finish", "exit"}
    BY <1>12 DEF HandlerFails, RaiseOutOfConsume, AfterPass, TypeOK, ProcessTypes, Modes
  <2>. QED BY <2>1, <2>2, ClaimFrame
<1>13. ASSUME \E how \in FetchOutcomes : ResultArrives(how) PROVE HolderOwnsClaim'
  BY <1>13 DEF ResultArrives, HolderOwnsClaim
<1>. QED BY <1>1, <1>2, <1>3, <1>4, <1>5, <1>6, <1>7, <1>8, <1>9, <1>10, <1>11, <1>12, <1>13

\* So does the end of a run, however it ends.
LEMMA ExitClaims ==
  ASSUME TypeOK, HolderOwnsClaim
  PROVE  /\ Aggregate => HolderOwnsClaim'
         /\ Export => HolderOwnsClaim'
         /\ LoopError => HolderOwnsClaim'
         /\ LateError => HolderOwnsClaim'
         /\ Report => HolderOwnsClaim'
         /\ ReportRaises => HolderOwnsClaim'
         /\ Finish => HolderOwnsClaim'
         /\ AfterFinish => HolderOwnsClaim'
         /\ InterruptLoop => HolderOwnsClaim'
         /\ InterruptDrain => HolderOwnsClaim'
         /\ InterruptExit => HolderOwnsClaim'
<1>1. ASSUME Aggregate PROVE HolderOwnsClaim'
  BY <1>1, SMT DEF Aggregate, TypeOK, StoreTypes, ProcessTypes, ControlOK, SetupPCs,
     WritingPCs, HolderOwnsClaim
<1>2. ASSUME Export PROVE HolderOwnsClaim'
  BY <1>2, SMT DEF Export, TypeOK, StoreTypes, ProcessTypes, ControlOK, SetupPCs,
     WritingPCs, HolderOwnsClaim
<1>3. ASSUME LoopError PROVE HolderOwnsClaim'
  BY <1>3, SMT DEF LoopError, Aborts, Fault, MayFail, TypeOK, StoreTypes, ProcessTypes,
     ControlOK, SetupPCs, WritingPCs, HolderOwnsClaim
<1>4. ASSUME LateError PROVE HolderOwnsClaim'
  BY <1>4, SMT DEF LateError, Aborts, Fault, MayFail, TypeOK, StoreTypes, ProcessTypes,
     ControlOK, SetupPCs, WritingPCs, HolderOwnsClaim
<1>5. ASSUME Report PROVE HolderOwnsClaim'
  BY <1>5, SMT DEF Report, TypeOK, StoreTypes, ProcessTypes, ControlOK, SetupPCs,
     WritingPCs, HolderOwnsClaim
<1>6. ASSUME ReportRaises PROVE HolderOwnsClaim'
  BY <1>6, SMT DEF ReportRaises, Fault, MayFail, TypeOK, StoreTypes, ProcessTypes,
     ControlOK, SetupPCs, WritingPCs, HolderOwnsClaim
<1>7. ASSUME Finish PROVE HolderOwnsClaim'
  BY <1>7, SMT DEF Finish, TypeOK, StoreTypes, ProcessTypes, ControlOK, SetupPCs,
     WritingPCs, HolderOwnsClaim
<1>8. ASSUME AfterFinish PROVE HolderOwnsClaim'
  BY <1>8, SMT DEF AfterFinish, TypeOK, StoreTypes, ProcessTypes, ControlOK, SetupPCs,
     WritingPCs, HolderOwnsClaim
<1>9. ASSUME InterruptLoop PROVE HolderOwnsClaim'
  <2>1. fetch' = fetch /\ rows' = rows /\ current' = NoRequest
    BY <1>9 DEF InterruptLoop, PutDown
  <2>2. pc' \in {"drain", "top", "aggregate", "report", "finish", "exit"}
    BY <1>9 DEF InterruptLoop
  <2>. QED BY <2>1, <2>2, ClaimFrame
<1>10. ASSUME InterruptDrain PROVE HolderOwnsClaim'
  <2>1. fetch' = fetch /\ rows' = rows /\ current' = NoRequest
    BY <1>10 DEF InterruptDrain, PutDown
  <2>2. pc' \in {"drain", "top", "aggregate", "report", "finish", "exit"}
    BY <1>10 DEF InterruptDrain, AfterPass, TypeOK, ProcessTypes, Modes
  <2>. QED BY <2>1, <2>2, ClaimFrame
<1>11. ASSUME InterruptExit PROVE HolderOwnsClaim'
  <2>1. fetch' = fetch /\ rows' = rows /\ current' = NoRequest
    BY <1>11 DEF InterruptExit, PutDown
  <2>2. pc' \in {"drain", "top", "aggregate", "report", "finish", "exit"}
    BY <1>11 DEF InterruptExit
  <2>. QED BY <2>1, <2>2, ClaimFrame
<1>. QED BY <1>1, <1>2, <1>3, <1>4, <1>5, <1>6, <1>7, <1>8, <1>9, <1>10, <1>11

\* No step of the main thread, a fetch thread, the operator or a fault breaks it.
LEMMA StepClaims == TypeOK /\ HolderOwnsClaim /\ [Next]_vars => HolderOwnsClaim'
<1>. SUFFICES ASSUME TypeOK, HolderOwnsClaim, [Next]_vars PROVE HolderOwnsClaim'
  OBVIOUS
<1>1. CASE MainThread
  BY <1>1, SetupClaims, LoopClaims, ConsumeClaims, ExitClaims DEF MainThread
<1>2. CASE Fetches
  BY <1>2, LoopClaims, ConsumeClaims DEF Fetches
<1>3. CASE Failures
  BY <1>3, SetupClaims, LoopClaims, ConsumeClaims, ExitClaims DEF Failures
<1>4. CASE Operator
  BY <1>4, SetupClaims, LoopClaims DEF Operator
<1>5. CASE UNCHANGED vars
  BY <1>5 DEF vars, HolderOwnsClaim
<1>. QED BY <1>1, <1>2, <1>3, <1>4, <1>5 DEF Next

\* No request is ever worked on by two holders, or by one whose claim another
\* step has released: a claimed row stays in_progress until its holder's write.
THEOREM ClaimsAreExclusive == Spec => []HolderOwnsClaim
<1>1. Init => HolderOwnsClaim
  BY DEF Init, Idle, HolderOwnsClaim
<1>. QED BY <1>1, TypeCorrect, StepClaims, PTL DEF Spec

-----------------------------------------------------------------------------
(* What the loop has claimed                                               *)

\* The requests in flight are a function of the futures.
LEMMA SameFutures == fetch' = fetch => Inflight' = Inflight
  BY DEF Inflight

\* Only a claim takes a row; the writes of consume() release the row they name.
LEMMA OnlyClaimTakes ==
  ASSUME NEW t \in Tables, NEW v \in Requests
  PROVE  /\ \A a, b : PrepareCycle(t, a, b)[v].status # "in_progress"
         /\ RetryFailed(t)[v].status = "in_progress" => t[v].status = "in_progress"
         /\ \A S : /\ Discover(t, S)[v].status = "in_progress" => t[v].status = "in_progress"
                   /\ Claim(t, S)[v].status = "in_progress" => v \in S \/ t[v].status = "in_progress"
         /\ \A u \in Requests :
              /\ EnqueueForced(t, u)[v].status = "in_progress" => t[v].status = "in_progress"
              /\ MarkRedirectTargetDone(t, u)[v].status = "in_progress" =>
                   t[v].status = "in_progress"
         /\ \A status, error : MarkDone(t, v, status, error)[v].status = status
         /\ \A error, retryable :
              MarkFailed(t, v, error, retryable)[v].status \in {"pending", "failed"}
<1>1. t[v] \in Row
  BY DEF Tables
<1>2. \A a, b : PrepareCycle(t, a, b)[v].status # "in_progress"
  BY <1>1, SMT DEF PrepareCycle, NoRow, Reset, Row, Settled
<1>3. RetryFailed(t)[v].status = "in_progress" => t[v].status = "in_progress"
  BY <1>1, SMT DEF RetryFailed, Reset, Row
<1>4. \A S : Discover(t, S)[v].status = "in_progress" => t[v].status = "in_progress"
  BY <1>1, SMT DEF Discover, NoRow, Row
<1>5. \A S : Claim(t, S)[v].status = "in_progress" => v \in S \/ t[v].status = "in_progress"
  BY <1>1, SMT DEF Claim, Row
<1>6. ASSUME NEW u \in Requests
      PROVE  /\ EnqueueForced(t, u)[v].status = "in_progress" => t[v].status = "in_progress"
             /\ MarkRedirectTargetDone(t, u)[v].status = "in_progress" =>
                  t[v].status = "in_progress"
  <2>1. EnqueueForced(t, u)[v].status = "in_progress" => t[v].status = "in_progress"
    BY <1>1, SMT DEF EnqueueForced, Requeued, NoRow, Row, Tables
  <2>2. MarkRedirectTargetDone(t, u)[v].status = "in_progress" => t[v].status = "in_progress"
    BY <1>1, SMT DEF MarkRedirectTargetDone, NoRow, Row, Tables
  <2>. QED BY <2>1, <2>2
<1>7. \A status, error : MarkDone(t, v, status, error)[v].status = status
  BY <1>1, SMT DEF MarkDone, Row, Tables
<1>8. ASSUME NEW error, NEW retryable
      PROVE  MarkFailed(t, v, error, retryable)[v].status \in {"pending", "failed"}
  BY <1>1, SMT DEF MarkFailed, Row, Tables
<1>. QED BY <1>2, <1>3, <1>4, <1>5, <1>6, <1>7, <1>8

\* Every claim the loop answers for: it is held, or it was given up knowingly.
Owned == Inflight \cup Held \cup Batch \cup dropped

\* The setup of a run starts from a table without claims.
SetupReleases == pc \in {"retry", "seed", "limits"} => InStatus(rows, {"in_progress"}) = {}

\* When consume() is about to put a request down its row has been released.
WriteReleases ==
  /\ pc = "checkpoint" => rows[current].status = "done"
  /\ pc = "settle" /\ outcome \in {"policy", "stopped"} => rows[current].status # "in_progress"

\* The last drain leaves no future behind but those it was made to abandon.
ExitIsDrained == pc = "exit" => Inflight \subseteq dropped

\* The invariant of NoClaimIsLost.
OwnerInv == ClaimsHaveOwner /\ SetupReleases /\ WriteReleases /\ ExitIsDrained

\* A step after which no crawl is live.
LEMMA OwnerIdle ==
  ASSUME pc' \in {"down", "prepare"} PROVE OwnerInv'
  BY DEF OwnerInv, ClaimsHaveOwner, InLoop, Up, SetupPCs, SetupReleases, WriteReleases,
     ExitIsDrained

\* A step of the loop or of an exit path that begins and ends no write.
LEMMA OwnerFrame ==
  ASSUME OwnerInv, InLoop,
         \A u \in Requests : rows'[u].status = "in_progress" =>
           \/ u \in Owned'
           \/ rows[u].status = "in_progress" /\ u \notin Owned,
         pc' \notin {"retry", "seed", "limits", "checkpoint", "settle"},
         pc' = "exit" => Inflight' \subseteq dropped'
  PROVE  OwnerInv'
  BY DEF OwnerInv, ClaimsHaveOwner, SetupReleases, WriteReleases, ExitIsDrained,
       InStatus, Owned

\* The form it has when the table and the holders stay as they are.
LEMMA OwnerQuiet ==
  ASSUME OwnerInv, InLoop, rows' = rows, Inflight' = Inflight, current' = current,
         dropped' = dropped,
         pc # "submit", pc' \notin {"retry", "seed", "limits", "checkpoint", "settle"},
         pc' = "exit" => Inflight \subseteq dropped
  PROVE  OwnerInv'
<1>1. Owned \subseteq Owned'
  BY DEF Owned, Held, Batch
<1>. QED BY <1>1, OwnerFrame

\* An interrupt or an error takes requests out of the loop's hands: what was held or
\* claimed is given up, and so is what is in flight when no drain follows.
LEMMA OwnerDrops ==
  ASSUME OwnerInv, InLoop, rows' = rows, Inflight' = Inflight,
         dropped \cup Held \cup Batch \subseteq dropped',
         pc' \notin {"retry", "seed", "limits", "checkpoint", "settle"},
         pc' = "exit" => Inflight \subseteq dropped'
  PROVE  OwnerInv'
<1>1. Owned \subseteq Owned'
  BY DEF Owned
<1>. QED BY <1>1, OwnerFrame

\* Process start, setup and exit.
LEMMA SetupOwners ==
  ASSUME TypeOK, OwnerInv
  PROVE  /\ (\E resume, retry \in BOOLEAN : Start(resume, retry)) => OwnerInv'
         /\ Prepare => OwnerInv'
         /\ Retry => OwnerInv'
         /\ (\E u \in Requests : SeedOne(u)) => OwnerInv'
         /\ (Seeded \/ LimitsAccepted) => OwnerInv'
         /\ (SetupFails \/ SetupReportRaises \/ LimitsRejected \/ InterruptSetup) => OwnerInv'
         /\ (Exit \/ Crash \/ Recover) => OwnerInv'
<1>. rows \in Tables
  BY DEF TypeOK, StoreTypes
<1>1. ASSUME \E resume, retry \in BOOLEAN : Start(resume, retry) PROVE OwnerInv'
  BY <1>1, OwnerIdle DEF Start
<1>2. ASSUME Prepare PROVE OwnerInv'
  <2>1. pc' = "retry" /\ InStatus(rows', {"in_progress"}) = {}
    BY <1>2, OnlyClaimTakes DEF Prepare, InStatus
  <2>. QED BY <2>1 DEF OwnerInv, ClaimsHaveOwner, InLoop, Up, SetupPCs, SetupReleases,
           WriteReleases, ExitIsDrained
<1>3. ASSUME Retry \/ \E u \in Requests : SeedOne(u) PROVE OwnerInv'
  <2>1. pc \in {"retry", "seed"} /\ pc' = "seed"
    BY <1>3 DEF Retry, SeedOne
  <2>2. \A u \in Requests : rows'[u].status = "in_progress" => rows[u].status = "in_progress"
    BY <1>3, OnlyClaimTakes DEF Retry, SeedOne
  <2>3. InStatus(rows', {"in_progress"}) = {}
    BY <2>1, <2>2 DEF OwnerInv, SetupReleases, InStatus
  <2>. QED BY <2>1, <2>3 DEF OwnerInv, ClaimsHaveOwner, InLoop, Up, SetupPCs, SetupReleases,
           WriteReleases, ExitIsDrained
<1>4. ASSUME Seeded \/ LimitsAccepted PROVE OwnerInv'
  <2>1. pc \in {"seed", "limits"} /\ pc' \in {"limits", "top"} /\ rows' = rows
    BY <1>4 DEF Seeded, LimitsAccepted
  <2>2. pc' = "top" => InStatus(rows', {"in_progress"}) = {}
    BY <1>4, <2>1 DEF Seeded, LimitsAccepted, OwnerInv, SetupReleases
  <2>3. pc' = "limits" => InStatus(rows', {"in_progress"}) = {}
    BY <1>4, <2>1 DEF Seeded, LimitsAccepted, OwnerInv, SetupReleases
  <2>. QED BY <2>1, <2>2, <2>3 DEF OwnerInv, ClaimsHaveOwner, InLoop, Up, SetupPCs,
       SetupReleases, WriteReleases, ExitIsDrained
<1>5. ASSUME SetupFails \/ SetupReportRaises \/ LimitsRejected \/ InterruptSetup
      PROVE OwnerInv'
  BY <1>5, OwnerIdle DEF SetupFails, SetupReportRaises, LimitsRejected, InterruptSetup,
     ForgetProcess
<1>6. ASSUME Exit \/ Crash \/ Recover PROVE OwnerInv'
  BY <1>6, OwnerIdle DEF Exit, Crash, Recover, ForgetProcess
<1>. QED BY <1>1, <1>2, <1>3, <1>4, <1>5, <1>6

\* The operator, the run loop, claiming, the fetch threads and the drains.
LEMMA LoopOwners ==
  ASSUME TypeOK, OwnerInv
  PROVE  /\ (Pause \/ Resume \/ RequestStop) => OwnerInv'
         /\ (LoopTop \/ StopSeen \/ PauseSeen \/ Proceed \/ ProceedMisread) => OwnerInv'
         /\ (CancelRequested \/ ResourceExceeded \/ GatePassed) => OwnerInv'
         /\ (ClaimClosed \/ WaitDone) => OwnerInv'
         /\ PassEnds => OwnerInv'
         /\ DrainRest => OwnerInv'
         /\ (\E B \in SUBSET Pending(rows), w \in 1 .. Concurrency, width \in Widths :
               ClaimBatch(B, w, width)) => OwnerInv'
         /\ Submit => OwnerInv'
         /\ (\E u \in Requests :
               \/ FetchStart(u) \/ (\E how \in FetchOutcomes : FetchEnd(u, how))
               \/ FetchMisread(u)) => OwnerInv'
<1>1. ASSUME Pause \/ Resume \/ RequestStop PROVE OwnerInv'
  <2>1. /\ fetch' = fetch /\ current' = current /\ pc' = pc /\ ready' = ready
        /\ rows' = rows /\ outcome' = outcome /\ dropped' = dropped
    BY <1>1 DEF Pause, Resume, RequestStop, OperatorWrites
  <2>. QED BY <2>1 DEF OwnerInv, ClaimsHaveOwner, InLoop, Up, SetupReleases, WriteReleases,
           ExitIsDrained, InStatus, Inflight, Held, Batch
<1>2. ASSUME LoopTop \/ StopSeen \/ PauseSeen \/ Proceed \/ ProceedMisread PROVE OwnerInv'
  <2>1. /\ rows' = rows /\ fetch' = fetch /\ current' = current /\ dropped' = dropped
        /\ pc \in {"top", "control"} /\ pc' \in {"control", "aggregate", "drain", "gate"}
    BY <1>2 DEF LoopTop, StopSeen, PauseSeen, Proceed, ProceedMisread, LetThrough
  <2>. QED BY <2>1, OwnerQuiet, SameFutures DEF InLoop, Up, SetupPCs
<1>3. ASSUME CancelRequested \/ ResourceExceeded \/ GatePassed PROVE OwnerInv'
  <2>1. /\ rows' = rows /\ fetch' = fetch /\ current' = current /\ dropped' = dropped
        /\ pc = "gate" /\ pc' \in {"claim", "drain"}
    BY <1>3 DEF CancelRequested, ResourceExceeded, GatePassed
  <2>. QED BY <2>1, OwnerQuiet, SameFutures DEF InLoop, Up, SetupPCs
<1>4. ASSUME ClaimClosed \/ WaitDone PROVE OwnerInv'
  <2>1. /\ rows' = rows /\ fetch' = fetch /\ current' = current /\ dropped' = dropped
        /\ pc \in {"claim", "wait", "drain"} /\ pc' \in {"aggregate", "wait", "consume"}
    BY <1>4 DEF ClaimClosed, WaitDone
  <2>. QED BY <2>1, OwnerQuiet, SameFutures DEF InLoop, Up, SetupPCs
<1>5. ASSUME PassEnds PROVE OwnerInv'
  <2>1. mode \in Modes /\ pc' = AfterPass(mode) /\ (mode = "loop" \/ Inflight = {})
    BY <1>5 DEF PassEnds, TypeOK, ProcessTypes
  <2>2. pc' \in {"top", "aggregate", "report", "finish", "exit"} /\ (pc' = "exit" => mode # "loop")
    BY <2>1 DEF AfterPass, Modes
  <2>3. /\ rows' = rows /\ fetch' = fetch /\ current' = current /\ dropped' = dropped
        /\ pc = "consume"
    BY <1>5 DEF PassEnds
  <2>. QED BY <2>1, <2>2, <2>3, OwnerQuiet, SameFutures DEF InLoop, Up, SetupPCs
<1>6. ASSUME DrainRest PROVE OwnerInv'
  <2>1. Inflight' = Inflight
    BY <1>6 DEF DrainRest, Inflight
  <2>. QED BY <1>6, <2>1, OwnerQuiet DEF DrainRest, InLoop, Up, SetupPCs
<1>7. ASSUME NEW B \in SUBSET Pending(rows), NEW w \in 1 .. Concurrency,
             NEW width \in Widths, ClaimBatch(B, w, width)
      PROVE  OwnerInv'
  <2>1. pc = "claim" /\ fetch' = fetch /\ current' = current /\ ready' = B /\ rows' = Claim(rows, B)
    BY <1>7, Zenon DEF ClaimBatch
  <2>2. dropped' = dropped /\ pc' \in {"submit", "wait", "aggregate"}
    BY <1>7, Zenon DEF ClaimBatch
  <2>3. B # {} => pc' = "submit"
    BY <1>7, Zenon DEF ClaimBatch
  <2>4. Owned \subseteq Inflight \cup Held \cup dropped
    BY <2>1 DEF Owned, Batch
  <2>5. Inflight \cup Held \cup B \cup dropped \subseteq Owned'
    BY <2>1, <2>2, <2>3 DEF Owned, Inflight, Held, Batch
  <2>6. \A u \in Requests : rows'[u].status = "in_progress" => u \in B \/ rows[u].status = "in_progress"
    BY <2>1, OnlyClaimTakes DEF TypeOK, StoreTypes
  <2>7. InLoop
    BY <2>1 DEF InLoop, Up, SetupPCs
  <2>. QED BY <2>2, <2>4, <2>5, <2>6, <2>7, OwnerFrame
<1>8. ASSUME Submit PROVE OwnerInv'
  <2>1. ready \subseteq Requests /\ \A u \in Requests :
          fetch'[u] = IF u \in ready THEN "queued" ELSE fetch[u]
    BY <1>8 DEF Submit, TypeOK, ProcessTypes
  <2>2. Inflight' = Inflight \cup ready
    BY <2>1 DEF Inflight
  <2>3. Owned \subseteq Owned'
    BY <1>8, <2>2 DEF Submit, Owned, Held, Batch
  <2>4. InLoop /\ rows' = rows /\ pc' = "wait"
    BY <1>8 DEF Submit, InLoop, Up, SetupPCs
  <2>. QED BY <2>3, <2>4, OwnerFrame
<1>9. ASSUME NEW u \in Requests,
             FetchStart(u) \/ (\E how \in FetchOutcomes : FetchEnd(u, how)) \/ FetchMisread(u)
      PROVE  OwnerInv'
  <2>1. Inflight' = Inflight
    BY <1>9, FetchKeepsInflight
  <2>2. /\ current' = current /\ pc' = pc /\ ready' = ready
        /\ rows' = rows /\ outcome' = outcome /\ dropped' = dropped
    BY <1>9, Zenon DEF FetchStart, FetchEnd, FetchMisread
  <2>. QED BY <2>1, <2>2 DEF OwnerInv, ClaimsHaveOwner, InLoop, Up, SetupReleases,
       WriteReleases,
           ExitIsDrained, InStatus, Held, Batch
<1>. QED BY <1>1, <1>2, <1>3, <1>4, <1>5, <1>6, <1>7, <1>8, <1>9

\* The second transaction of an unsuccessful outcome releases the row.
LEMMA SettleReleases ==
  ASSUME TypeOK, OwnerInv, SettleWrites, pc = "settle"
  PROVE  /\ rows'[current].status # "in_progress"
         /\ \A u \in Requests : u # current => rows'[u] = rows[u]
<1>1. current \in Requests /\ rows \in Tables
  BY DEF TypeOK, StoreTypes, ControlOK, WritingPCs
<1>2. CASE outcome = "extract"
  <2>1. rows' = MarkDone(rows, current, "failed", "extract")
    BY <1>2 DEF SettleWrites
  <2>. QED BY <1>1, <2>1, OnlyClaimTakes, SettlesOneRow
<1>3. CASE outcome \in {"policy", "stopped"}
  <2>1. rows' = rows
    BY <1>3 DEF SettleWrites
  <2>. QED BY <1>3, <2>1 DEF OwnerInv, WriteReleases
<1>4. CASE outcome \notin {"extract", "policy", "stopped"}
  <2>. DEFINE error == IF outcome = "session" THEN "session" ELSE "fetch"
              again == outcome = "transient"
  <2>1. rows' = MarkFailed(rows, current, error, again)
    BY <1>4 DEF SettleWrites
  <2>. HIDE DEF error, again
  <2>. QED BY <1>1, <2>1, OnlyClaimTakes, SettlesOneRow
<1>. QED BY <1>2, <1>3, <1>4

\* The first transaction of a handler writes the row of its request, or no row.
LEMMA ThrownWrites ==
  ASSUME TypeOK, NEW how \in Thrown, pc \in WritingPCs, ThrownUnder(how)
  PROVE  /\ \A u \in Requests : u # current => rows'[u] = rows[u]
         /\ IF how = "policy" THEN rows'[current].status = "blocked" ELSE rows' = rows
<1>1. current \in Requests /\ rows \in Tables
  BY DEF TypeOK, StoreTypes, ControlOK
<1>2. CASE how = "policy"
  <2>1. rows' = MarkDone(rows, current, "blocked", how)
    BY <1>2 DEF ThrownUnder
  <2>. QED BY <1>1, <1>2, <2>1, OnlyClaimTakes, SettlesOneRow
<1>3. CASE how # "policy"
  BY <1>3 DEF ThrownUnder
<1>. QED BY <1>2, <1>3

\* So does a refusal.
LEMMA RefusalWrites ==
  ASSUME TypeOK, pc = "handle", Refused
  PROVE  /\ \A u \in Requests : u # current => rows'[u] = rows[u]
         /\ rows'[current].status = "blocked"
<1>1. current \in Requests /\ rows \in Tables
  BY DEF TypeOK, StoreTypes, ControlOK, WritingPCs
<1>. QED BY <1>1, OnlyClaimTakes, SettlesOneRow DEF Refused

\* A write that goes on: the request stays held.
LEMMA OwnerWriting ==
  ASSUME OwnerInv, Inflight' = Inflight, current' = current, dropped' = dropped,
         pc \in HoldingPCs, pc' \in HoldingPCs,
         \A u \in Requests : rows'[u].status = "in_progress" =>
           rows[u].status = "in_progress" \/ u = current,
         current \in Requests,
         WriteReleases'
  PROVE  OwnerInv'
<1>1. InLoop /\ Owned \subseteq Inflight \cup Held \cup dropped
  BY DEF InLoop, Up, SetupPCs, WritingPCs, Owned, Batch
<1>2. current \in Held /\ Inflight \cup Held \cup dropped \subseteq Owned'
  BY TopologyOK DEF Held, Owned
<1>3. ClaimsHaveOwner'
  BY <1>1, <1>2 DEF OwnerInv, ClaimsHaveOwner, InStatus, Owned
<1>4. SetupReleases' /\ ExitIsDrained'
  BY DEF SetupReleases, ExitIsDrained, WritingPCs
<1>. QED BY <1>3, <1>4 DEF OwnerInv

\* A write that ends: the request is put down and its row is released.
LEMMA OwnerPutDown ==
  ASSUME OwnerInv, Inflight' = Inflight, dropped \subseteq dropped',
         current' = NoRequest, pc \in WritingPCs, rows'[current].status # "in_progress",
         \A u \in Requests : u # current => rows'[u] = rows[u],
         pc' \notin {"retry", "seed", "limits", "checkpoint", "settle"},
         pc' = "exit" => Inflight \subseteq dropped'
  PROVE  OwnerInv'
<1>1. InLoop /\ Owned = Inflight \cup Held \cup dropped
  BY DEF InLoop, Up, SetupPCs, WritingPCs, Owned, Batch
<1>2. Inflight \cup dropped \subseteq Owned'
  BY DEF Owned
<1>. QED BY <1>1, <1>2, OwnerFrame DEF Held

\* The transactions of consume() and the ways out of it.
LEMMA ConsumeOwners ==
  ASSUME TypeOK, OwnerInv
  PROVE  /\ (\E u \in Requests : Consume(u) \/ Await(u)) => OwnerInv'
         /\ (\E how \in FetchOutcomes : ResultArrives(how)) => OwnerInv'
         /\ (\E final \in Requests : HandleDelivered(final)) => OwnerInv'
         /\ Alias => OwnerInv'
         /\ Mark => OwnerInv'
         /\ (\E how \in Thrown : StoreFails(how) \/ CallbackRaises(how)) => OwnerInv'
         /\ Checkpoint => OwnerInv'
         /\ (\E found \in SUBSET Requests : HandleFailed(found)) => OwnerInv'
         /\ (HandleRefused \/ RefusedMisread) => OwnerInv'
         /\ HandleReleased => OwnerInv'
         /\ Settle => OwnerInv'
         /\ HookRaises => OwnerInv'
         /\ HandlerFails => OwnerInv'
<1>. rows \in Tables
  BY DEF TypeOK, StoreTypes
<1>a. /\ pc \in HoldingPCs => current \in Requests
      /\ pc \in WritingPCs => outcome \in FetchOutcomes
  BY DEF TypeOK, ControlOK
<1>1. ASSUME NEW u \in Requests, Consume(u) \/ Await(u) PROVE OwnerInv'
  <2>1. /\ pc = "consume" /\ pc' \in {"handle", "await"} /\ rows' = rows /\ current' = u
        /\ dropped' = dropped /\ fetch' = [fetch EXCEPT ![u] = "none"]
    BY <1>1 DEF Consume, Await
  <2>2. Inflight \subseteq Inflight' \cup {u}
    BY <2>1 DEF Inflight, TypeOK, ProcessTypes
  <2>3. current = NoRequest /\ u # NoRequest
    BY <2>1, TopologyOK DEF TypeOK, ControlOK, WritingPCs
  <2>4. Owned \subseteq Owned'
    BY <2>1, <2>2, <2>3 DEF Owned, Held, Batch
  <2>5. InLoop
    BY <2>1 DEF InLoop, Up, SetupPCs
  <2>. QED BY <2>1, <2>4, <2>5, OwnerFrame
<1>2. ASSUME NEW final \in Requests, HandleDelivered(final) PROVE OwnerInv'
  <2>1. \A u \in Requests : rows'[u].status = "in_progress" => rows[u].status = "in_progress"
    BY <1>2, OnlyClaimTakes DEF HandleDelivered
  <2>. QED BY <1>2, <1>a, <2>1, OwnerWriting, SameFutures DEF HandleDelivered,
       WritingPCs, WriteReleases
<1>3. ASSUME Alias PROVE OwnerInv'
  <2>1. target \in Requests
    BY <1>3 DEF Alias, TypeOK, ControlOK
  <2>2. \A u \in Requests : rows'[u].status = "in_progress" => rows[u].status = "in_progress"
    BY <1>3, <2>1, OnlyClaimTakes DEF Alias
  <2>. QED BY <1>3, <1>a, <2>2, OwnerWriting, SameFutures DEF Alias, WritingPCs,
       WriteReleases
<1>4. ASSUME Mark PROVE OwnerInv'
  <2>1. current \in Requests
    BY <1>4, <1>a DEF Mark, WritingPCs
  <2>2. rows'[current].status = "done" /\ \A u \in Requests : u # current => rows'[u] = rows[u]
    BY <1>4, <2>1, OnlyClaimTakes, SettlesOneRow DEF Mark
  <2>. QED BY <1>4, <2>1, <2>2, OwnerWriting, SameFutures DEF Mark, WritingPCs,
       WriteReleases
<1>5. ASSUME NEW how \in Thrown, StoreFails(how) \/ CallbackRaises(how) PROVE OwnerInv'
  <2>1. /\ pc \in WritingPCs /\ pc' = "settle" /\ fetch' = fetch /\ current' = current
        /\ dropped' = dropped /\ outcome' = how /\ ThrownUnder(how)
    BY <1>5 DEF StoreFails, CallbackRaises, ThrownUnder, WritingPCs
  <2>2. WriteReleases'
    BY <2>1, ThrownWrites DEF WriteReleases, Thrown
  <2>. QED BY <1>a, <2>1, <2>2, ThrownWrites, OwnerWriting, SameFutures DEF WritingPCs
<1>6. ASSUME Checkpoint PROVE OwnerInv'
  <2>1. rows'[current].status # "in_progress"
    BY <1>6 DEF Checkpoint, OwnerInv, WriteReleases
  <2>. QED BY <1>6, <2>1, OwnerPutDown, SameFutures DEF Checkpoint, PutDown, WritingPCs
<1>7. ASSUME NEW found \in SUBSET Requests, HandleFailed(found) PROVE OwnerInv'
  <2>1. \A u \in Requests : rows'[u].status = "in_progress" => rows[u].status = "in_progress"
    BY <1>7, OnlyClaimTakes DEF HandleFailed
  <2>. QED BY <1>7, <1>a, <2>1, OwnerWriting, SameFutures DEF HandleFailed, WritingPCs,
       WriteReleases
<1>8. ASSUME HandleRefused \/ RefusedMisread PROVE OwnerInv'
  <2>1. /\ pc = "handle" /\ fetch' = fetch /\ current' = current /\ dropped' = dropped
        /\ Refused
    BY <1>8 DEF HandleRefused, RefusedMisread
  <2>2. pc' = "settle"
    BY <2>1 DEF Refused
  <2>3. WriteReleases'
    BY <2>1, <2>2, RefusalWrites DEF WriteReleases
  <2>. QED BY <1>a, <2>1, <2>2, <2>3, RefusalWrites, OwnerWriting, SameFutures
       DEF WritingPCs
<1>9. ASSUME HandleReleased PROVE OwnerInv'
  <2>1. current \in Requests
    BY <1>9, <1>a DEF HandleReleased, WritingPCs
  <2>2. rows'[current].status = "pending" /\ \A u \in Requests : u # current => rows'[u] = rows[u]
    BY <1>9, <2>1, OnlyClaimTakes, SettlesOneRow DEF HandleReleased
  <2>. QED BY <1>9, <2>2, OwnerPutDown, SameFutures DEF HandleReleased, PutDown, WritingPCs
<1>10. ASSUME Settle PROVE OwnerInv'
  BY <1>10, SettleReleases, OwnerPutDown, SameFutures DEF Settle, SettleWrites, PutDown,
       WritingPCs
<1>11. ASSUME HookRaises PROVE OwnerInv'
  <2>1. /\ pc = "settle" /\ SettleWrites /\ fetch' = fetch
        /\ dropped' = dropped \cup Abandoned
    BY <1>11 DEF HookRaises
  <2>2. /\ pc' \in {"drain", "top", "aggregate", "report", "finish", "exit"}
        /\ pc' = "exit" => mode = "final"
    BY <1>11 DEF HookRaises, RaiseOutOfConsume, AfterPass, TypeOK, ProcessTypes, Modes
  <2>3. pc' = "exit" => Inflight \subseteq dropped'
    BY <2>1, <2>2 DEF Abandoned
  <2>4. current' = NoRequest
    BY <2>1 DEF SettleWrites, PutDown
  <2>. QED BY <2>1, <2>2, <2>3, <2>4, SettleReleases, OwnerPutDown, SameFutures
       DEF WritingPCs
<1>12. ASSUME HandlerFails PROVE OwnerInv'
  <2>1. /\ pc' \in {"drain", "top", "aggregate", "report", "finish", "exit"}
        /\ pc' = "exit" => mode = "final"
    BY <1>12 DEF HandlerFails, RaiseOutOfConsume, AfterPass, TypeOK, ProcessTypes, Modes
  <2>2. /\ pc \in WritingPCs /\ rows' = rows /\ fetch' = fetch
        /\ dropped' = dropped \cup Held \cup Abandoned
    BY <1>12 DEF HandlerFails
  <2>3. Batch = {} /\ InLoop
    BY <2>2 DEF Batch, InLoop, Up, SetupPCs, WritingPCs
  <2>. QED BY <2>1, <2>2, <2>3, OwnerDrops, SameFutures DEF Abandoned
<1>13. ASSUME NEW how \in FetchOutcomes, ResultArrives(how) PROVE OwnerInv'
  BY <1>13, <1>a, OwnerWriting, SameFutures DEF ResultArrives, WritingPCs, WriteReleases
<1>. QED BY <1>1, <1>2, <1>3, <1>4, <1>5, <1>6, <1>7, <1>8, <1>9, <1>10, <1>11, <1>12,
     <1>13

\* The end of a run.
LEMMA ExitOwners ==
  ASSUME TypeOK, LoopIsUndrained, OwnerInv
  PROVE  /\ (Aggregate \/ Export \/ Report \/ AfterFinish \/ Finish) => OwnerInv'
         /\ LoopError => OwnerInv'
         /\ (LateError \/ ReportRaises) => OwnerInv'
         /\ (InterruptLoop \/ InterruptDrain) => OwnerInv'
         /\ InterruptExit => OwnerInv'
<1>a. pc \notin HoldingPCs => current = NoRequest
  BY DEF TypeOK, ControlOK
<1>1. ASSUME Aggregate \/ Export \/ Report \/ AfterFinish \/ Finish PROVE OwnerInv'
  <2>1. /\ rows' = rows /\ fetch' = fetch /\ current' = current /\ dropped' = dropped
        /\ pc \in {"aggregate", "export", "report", "after", "finish"}
        /\ pc' \in {"export", "finish", "drain", "after"}
    BY <1>1 DEF Aggregate, Export, Report, AfterFinish, Finish
  <2>. QED BY <2>1, OwnerQuiet, SameFutures DEF InLoop, Up, SetupPCs
<1>2. ASSUME LoopError PROVE OwnerInv'
  <2>1. /\ pc \in {"top", "control", "gate", "claim", "submit", "aggregate", "export"}
        /\ rows' = rows /\ fetch' = fetch /\ dropped' = dropped \cup Batch /\ pc' = "drain"
    BY <1>2 DEF LoopError, Aborts
  <2>2. Held = {}
    BY <1>a, <2>1 DEF Held, WritingPCs
  <2>. QED BY <2>1, <2>2, OwnerDrops, SameFutures DEF InLoop, Up, SetupPCs
<1>3. ASSUME LateError \/ ReportRaises PROVE OwnerInv'
  BY <1>3, OwnerQuiet, SameFutures DEF LateError, Aborts, ReportRaises, InLoop, Up, SetupPCs
<1>4. ASSUME InterruptLoop \/ InterruptDrain PROVE OwnerInv'
  <2>1. /\ fetch' = fetch /\ rows' = rows /\ pc' \in {"drain", "report", "finish"}
    BY <1>4 DEF InterruptLoop, InterruptDrain, AfterPass
  <2>2. InLoop
    BY <1>4 DEF InterruptLoop, InterruptDrain, InLoop, Up, TypeOK, ControlOK
  <2>3. dropped' = dropped \cup Held \cup Batch
    BY <1>4, Zenon DEF InterruptLoop, InterruptDrain, LoopIsUndrained, Batch
  <2>. QED BY <2>1, <2>2, <2>3, OwnerDrops, SameFutures
<1>5. ASSUME InterruptExit PROVE OwnerInv'
  <2>1. /\ fetch' = fetch /\ rows' = rows /\ pc' \in {"drain", "exit"}
        /\ mode \in {"abort", "interrupt", "final"} /\ (pc' = "exit" => mode = "final")
        /\ dropped' = dropped \cup Held \cup Abandoned
    BY <1>5 DEF InterruptExit
  <2>2. InLoop
    BY <2>1 DEF InLoop, Up, TypeOK, ControlOK
  <2>3. Batch = {}
    BY <2>1 DEF Batch, LoopIsUndrained
  <2>. QED BY <2>1, <2>2, <2>3, OwnerDrops, SameFutures DEF Abandoned
<1>. QED BY <1>1, <1>2, <1>3, <1>4, <1>5

\* Every step of the program, its operator and its faults.
LEMMA StepOwners == TypeOK /\ Open /\ OwnerInv /\ [Next]_vars => OwnerInv'
<1>. SUFFICES ASSUME TypeOK, Open, OwnerInv, [Next]_vars PROVE OwnerInv'
  OBVIOUS
<1>. LoopIsUndrained
  BY DEF Open
<1>1. CASE MainThread
  BY <1>1, SetupOwners, LoopOwners, ConsumeOwners, ExitOwners DEF MainThread
<1>2. CASE Fetches
  BY <1>2, LoopOwners, ConsumeOwners DEF Fetches
<1>3. CASE Failures
  BY <1>3, SetupOwners, LoopOwners, ConsumeOwners, ExitOwners DEF Failures
<1>4. CASE Operator
  BY <1>4, SetupOwners, LoopOwners DEF Operator
<1>5. CASE UNCHANGED vars
  BY <1>5 DEF vars, OwnerInv, ClaimsHaveOwner, InLoop, Up, SetupReleases, WriteReleases,
     ExitIsDrained, InStatus, Inflight, Held, Batch
<1>. QED BY <1>1, <1>2, <1>3, <1>4, <1>5 DEF Next

\* From an empty table on.
LEMMA OwnersAreKept == Spec => []OwnerInv
<1>1. Init => OwnerInv
  BY DEF Init, OwnerInv, ClaimsHaveOwner, InLoop, Up, SetupReleases, WriteReleases,
       ExitIsDrained
<1>. QED BY <1>1, TypeCorrect, RunsAreOpen, StepOwners, PTL DEF Spec

\* A row in progress has a future, a place in the claimed batch or consume() working
\* on it or waiting for it, from the first claim to the last drain and on every exit
\* path.  The only claims without one were given up at a known moment: an interrupt or
\* a failing handler took the request out of consume()'s hands, an interrupt or an error
\* fell between a claim and its hand-over, or the last drain was broken off.
THEOREM NoClaimIsLost == Spec => []ClaimsHaveOwner
<1>1. OwnerInv => ClaimsHaveOwner
  BY DEF OwnerInv
<1>. QED BY <1>1, OwnersAreKept, PTL

\* The exit itself strands nothing: every row still in progress when a process ends was
\* given up at one of those moments, also when Ctrl-C falls while a drain waits for a
\* future it has popped.
THEOREM LastDrainReleasesAll == Spec => []NoOrphanAtExit
<1>1. TypeOK /\ OwnerInv => NoOrphanAtExit
  BY DEF TypeOK, ControlOK, WritingPCs, OwnerInv, ClaimsHaveOwner, ExitIsDrained,
       NoOrphanAtExit,
     InLoop, Up, SetupPCs, Held, Batch
<1>. QED BY <1>1, TypeCorrect, OwnersAreKept, PTL

-----------------------------------------------------------------------------
(* Delivered pages                                                         *)

\* The steps of a live run that write the table.
LEMMA OnlyTheseWriteRows ==
  ASSUME Next, rows' # rows, pc \notin SetupPCs, pc # "down"
  PROVE  \/ \E B \in SUBSET Pending(rows), w \in 1 .. Concurrency, width \in Widths :
              ClaimBatch(B, w, width)
         \/ \E final \in Requests : HandleDelivered(final)
         \/ \E found \in SUBSET Requests : HandleFailed(found)
         \/ Alias \/ Mark \/ HandleReleased \/ HandleRefused \/ RefusedMisread
         \/ \E how \in Thrown : StoreFails(how) \/ CallbackRaises(how)
         \/ Settle \/ HookRaises
<1>1. CASE MainThread
  BY <1>1, Zenon DEF MainThread, Prepare, Retry, Seeded, LimitsAccepted, SeedOne, Consume,
     Await, LoopTop, StopSeen, PauseSeen, Proceed, GatePassed, ClaimClosed, Submit, WaitDone,
     PassEnds, DrainRest, Checkpoint, Aggregate, Export, Report, Finish, AfterFinish, Exit,
     SetupPCs
<1>2. CASE Fetches
  BY <1>2, Zenon DEF Fetches, FetchStart, FetchEnd, ResultArrives
<1>3. CASE Failures
  BY <1>3, Zenon DEF Failures, SetupFails, SetupReportRaises, LimitsRejected,
     ResourceExceeded, HandlerFails, LoopError, LateError, ReportRaises, ProceedMisread,
     FetchMisread, InterruptSetup, InterruptLoop, InterruptDrain, InterruptExit, Crash
<1>4. CASE Operator
  BY <1>4, Zenon DEF Operator, Start, Recover, Pause, Resume, RequestStop, OperatorWrites,
     CancelRequested
<1>. QED BY <1>1, <1>2, <1>3, <1>4 DEF Next

\* No method of the queue reopens a finished row but those that name it: the claims,
\* discoveries and redirects of other requests pass it by.
LEMMA OthersStayDone ==
  ASSUME NEW t \in Tables, NEW v \in Requests, t[v].status = "done"
  PROVE  /\ \A S : Discover(t, S)[v].status = "done"
         /\ \A S : Claim(t, S)[v].status = "done"
         /\ \A u \in Requests : MarkRedirectTargetDone(t, u)[v].status = "done"
<1>1. t[v] \in Row
  BY DEF Tables
<1>. QED BY <1>1, SMT DEF Discover, Claim, MarkRedirectTargetDone, NoRow, Row, Tables

\* A delivered page leaves done, while its run lasts, only by its own consume(): an
\* exception after the mark fails it or queues it again, with an error on record, or
\* blocks it while the request is still in hand.
THEOREM DeliveredPagesStay == Spec => DeliveredStaysDone
<1>. DEFINE Step ==
       \A u \in InStatus(rows, {"done"}) :
         InLoop /\ InLoop' /\ rows'[u].status # "done" =>
           /\ u = current /\ pc \in {"checkpoint", "settle"}
           /\ <<run, u>> \in errors' \/ (rows'[u].status = "blocked" /\ u = current')
<1>1. TypeOK /\ HolderOwnsClaim /\ [Next]_vars => Step
  <2>. SUFFICES ASSUME TypeOK, HolderOwnsClaim, [Next]_vars, InLoop, InLoop',
                       NEW u \in Requests, rows[u].status = "done", rows'[u].status # "done"
                PROVE  /\ u = current /\ pc \in {"checkpoint", "settle"}
                       /\ \/ <<run, u>> \in errors'
                          \/ rows'[u].status = "blocked" /\ u = current'
    BY DEF InStatus
  <2>. rows \in Tables
    BY DEF TypeOK, StoreTypes
  <2>a. rows' # rows
    OBVIOUS
  <2>b. pc \notin SetupPCs /\ pc # "down" /\ pc' # "down"
    BY DEF InLoop, Up
  <2>c. current = u => pc \notin {"await", "handle", "alias", "mark"}
    BY DEF HolderOwnsClaim
  <2>1. CASE \E B \in SUBSET Pending(rows), w \in 1 .. Concurrency, width \in Widths :
               ClaimBatch(B, w, width)
    <3>1. \E B : rows' = Claim(rows, B)
      BY <2>1, Zenon DEF ClaimBatch
    <3>. QED BY <3>1, OthersStayDone
  <2>2. CASE \/ \E final \in Requests : HandleDelivered(final)
             \/ \E found \in SUBSET Requests : HandleFailed(found)
    <3>1. \E S : rows' = Discover(rows, S)
      BY <2>2, Zenon DEF HandleDelivered, HandleFailed
    <3>. QED BY <3>1, OthersStayDone
  <2>3. CASE Alias
    <3>1. target \in Requests /\ rows' = MarkRedirectTargetDone(rows, target)
      BY <2>3, <2>a DEF Alias, TypeOK, ControlOK
    <3>. QED BY <3>1, OthersStayDone
  <2>4. CASE Mark \/ HandleReleased \/ HandleRefused \/ RefusedMisread
    <3>1. pc \in {"handle", "mark"} /\ current \in Requests
      BY <2>4 DEF Mark, HandleReleased, HandleRefused, RefusedMisread, TypeOK, ControlOK,
         WritingPCs
    <3>2. \A v \in Requests : v # current => rows'[v] = rows[v]
      BY <2>4, <3>1, SettlesOneRow DEF Mark, HandleReleased, HandleRefused, RefusedMisread,
         Refused
    <3>. QED BY <2>c, <3>1, <3>2
  <2>5. CASE \E how \in Thrown : StoreFails(how) \/ CallbackRaises(how)
    <3>1. PICK how \in Thrown : StoreFails(how) \/ CallbackRaises(how)
      BY <2>5
    <3>2. /\ pc \in {"handle", "alias", "mark", "checkpoint"} /\ ThrownUnder(how)
          /\ current' = current
      BY <3>1 DEF StoreFails, CallbackRaises
    <3>3. how = "policy" /\ u = current
      BY <3>2, <2>a, ThrownWrites DEF WritingPCs
    <3>4. rows'[u].status = "blocked"
      BY <3>2, <3>3, ThrownWrites DEF WritingPCs
    <3>. QED BY <2>c, <3>2, <3>3, <3>4
  <2>6. CASE Settle \/ HookRaises
    <3>1. pc = "settle" /\ SettleWrites /\ current \in Requests
      BY <2>6 DEF Settle, HookRaises, TypeOK, ControlOK, WritingPCs
    <3>2. \A v \in Requests : v # current => rows'[v] = rows[v]
      BY <3>1, SettlesOneRow DEF SettleWrites
    <3>3. <<run, current>> \in errors'
      BY <3>1 DEF SettleWrites
    <3>. QED BY <3>1, <3>2, <3>3
  <2>7. \/ \E B \in SUBSET Pending(rows), w \in 1 .. Concurrency, width \in Widths :
             ClaimBatch(B, w, width)
        \/ \E final \in Requests : HandleDelivered(final)
        \/ \E found \in SUBSET Requests : HandleFailed(found)
        \/ Alias \/ Mark \/ HandleReleased \/ HandleRefused \/ RefusedMisread
        \/ \E how \in Thrown : StoreFails(how) \/ CallbackRaises(how)
        \/ Settle \/ HookRaises
    BY <2>a, <2>b, OnlyTheseWriteRows DEF vars
  <2>. QED BY <2>1, <2>2, <2>3, <2>4, <2>5, <2>6, <2>7
<1>. QED BY <1>1, TypeCorrect, ClaimsAreExclusive, PTL DEF Spec, DeliveredStaysDone

-----------------------------------------------------------------------------
(* The budgets                                                             *)

\* What may still become a delivered page.
Engaged == Inflight \cup Deliverable \cup Batch

\* Sets of requests are counted by natural numbers.
LEMMA EngagedFinite ==
  ASSUME TypeOK
  PROVE  /\ IsFiniteSet(Engaged) /\ IsFiniteSet(Inflight) /\ IsFiniteSet(Batch)
         /\ Cardinality(Engaged) \in Nat /\ Cardinality(Inflight) \in Nat
         /\ Cardinality(Batch) \in Nat
<1>1. Engaged \subseteq Requests /\ Inflight \subseteq Requests /\ Batch \subseteq Requests
  BY DEF Engaged, Inflight, Batch, Deliverable, Held, TypeOK, ProcessTypes
<1>. QED BY <1>1, RequestsFinite, FS_Subset, FS_CardinalityType

\* A step that engages nothing new keeps both budgets.
LEMMA BudgetFrame ==
  ASSUME TypeOK, BudgetsHold, Engaged' \subseteq Engaged, Batch' = {},
         processed' = processed, attempted' = attempted
  PROVE  BudgetsHold'
<1>1. Cardinality(Engaged') \in Nat /\ Cardinality(Engaged') <= Cardinality(Engaged)
  BY EngagedFinite, FS_Subset, FS_CardinalityType
<1>2. Cardinality(Batch') = 0
  BY FS_EmptySet
<1>3. processed \in Nat /\ attempted \in Nat /\ Limit \in Nat /\ MaxRequests \in Nat
  BY BoundsOK DEF TypeOK, ProcessTypes
<1>. QED BY <1>1, <1>2, <1>3, EngagedFinite DEF BudgetsHold, Engaged

\* The form it has when no future is added and no write is begun.
LEMMA BudgetQuiet ==
  ASSUME TypeOK, BudgetsHold, Inflight' \subseteq Inflight,
         current' = NoRequest \/ (current' = current /\ (pc = "settle" => pc' = "settle")),
         pc' # "submit", processed' = processed, attempted' = attempted
  PROVE  BudgetsHold'
<1>1. Engaged' \subseteq Engaged /\ Batch' = {}
  BY DEF Engaged, Deliverable, Held, Batch
<1>. QED BY <1>1, BudgetFrame

\* A process that is gone has used nothing of its budgets.
LEMMA BudgetForgotten ==
  ASSUME ForgetProcess PROVE BudgetsHold'
<1>1. Inflight' = {} /\ Deliverable' = {} /\ Batch' = {}
  BY DEF ForgetProcess, Inflight, Idle, Deliverable, Held, Batch
<1>. QED BY <1>1, FS_EmptySet, BoundsOK DEF ForgetProcess, BudgetsHold

\* Process start, setup and exit.
LEMMA SetupBudgets ==
  ASSUME TypeOK, BudgetsHold
  PROVE  /\ (\E resume, retry \in BOOLEAN : Start(resume, retry)) => BudgetsHold'
         /\ (Prepare \/ Retry \/ Seeded \/ LimitsAccepted \/ Recover) => BudgetsHold'
         /\ (\E u \in Requests : SeedOne(u)) => BudgetsHold'
         /\ (SetupFails \/ SetupReportRaises \/ LimitsRejected \/ InterruptSetup) => BudgetsHold'
         /\ (Exit \/ Crash) => BudgetsHold'
<1>. USE SameFutures DEF ControlOK, TypeOK, WritingPCs, SetupPCs
<1>1. ASSUME \E resume, retry \in BOOLEAN : Start(resume, retry) PROVE BudgetsHold'
  BY <1>1, BudgetQuiet DEF Start
<1>2. ASSUME Prepare \/ Retry \/ Seeded \/ LimitsAccepted PROVE BudgetsHold'
  BY <1>2, BudgetQuiet DEF Prepare, Retry, Seeded, LimitsAccepted
<1>3. ASSUME NEW u \in Requests, SeedOne(u) PROVE BudgetsHold'
  BY <1>3, BudgetQuiet DEF SeedOne
<1>4. ASSUME SetupFails \/ SetupReportRaises \/ LimitsRejected \/ InterruptSetup
      PROVE BudgetsHold'
  BY <1>4, BudgetForgotten DEF SetupFails, SetupReportRaises, LimitsRejected, InterruptSetup
<1>5. ASSUME Exit \/ Crash PROVE BudgetsHold'
  BY <1>5, BudgetForgotten DEF Exit, Crash
<1>6. ASSUME Recover PROVE BudgetsHold'
  BY <1>6, BudgetQuiet DEF Recover
<1>. QED BY <1>1, <1>2, <1>3, <1>4, <1>5, <1>6

\* A batch that fits the rooms the loop computed fits the budgets.
LEMMA ClaimFitsBudgets ==
  ASSUME TypeOK, BudgetsHold, NEW B \in SUBSET Pending(rows), NEW w \in 1 .. Concurrency,
         NEW width \in Widths, ClaimBatch(B, w, width)
  PROVE  BudgetsHold'
<1>1. B \in SUBSET Requests /\ IsFiniteSet(B) /\ Cardinality(B) \in Nat
  BY RequestsFinite, FS_Subset, FS_CardinalityType DEF Pending, InStatus
<1>2. pc = "claim" /\ fetch' = fetch /\ current' = current
  BY Zenon DEF ClaimBatch
<1>3. ready' = B /\ processed' = processed /\ attempted' = attempted
  BY Zenon DEF ClaimBatch
<1>4. current = NoRequest
  BY <1>2 DEF TypeOK, ControlOK, WritingPCs
<1>5. Deliverable' = {} /\ Inflight' = Inflight /\ Batch' \subseteq B
  BY <1>2, <1>3, <1>4 DEF Deliverable, Held, Inflight, Batch
<1>6. Fits(B, w, width)
  BY Zenon DEF ClaimBatch
<1>7. /\ Cardinality(B) <= Limit - processed - Cardinality(Inflight)
      /\ Cardinality(B) <= MaxRequests - attempted - Cardinality(Inflight)
  <2>1. \A room \in Rooms(w) : Cardinality(B) <= room
    BY <1>6, Zenon DEF Fits
  <2>. QED BY <2>1, Zenon DEF Rooms
<1>8. Inflight \cup Deliverable' \cup Batch' \subseteq Inflight \cup B
  BY <1>5
<1>9. /\ IsFiniteSet(Inflight \cup B)
      /\ Cardinality(Inflight \cup B) <= Cardinality(Inflight) + Cardinality(B)
  <2>1. Cardinality(Inflight \cup B)
          = Cardinality(Inflight) + Cardinality(B) - Cardinality(Inflight \cap B)
    BY <1>1, EngagedFinite, FS_Union
  <2>2. Cardinality(Inflight \cap B) \in Nat
    BY <1>1, EngagedFinite, FS_Subset, FS_CardinalityType
  <2>3. IsFiniteSet(Inflight \cup B)
    BY <1>1, EngagedFinite, FS_Union
  <2>4. Cardinality(Inflight) \in Nat
    BY EngagedFinite
  <2>. QED BY <1>1, <2>1, <2>2, <2>3, <2>4
<1>10. /\ Cardinality(Inflight \cup Deliverable' \cup Batch') \in Nat
       /\ Cardinality(Inflight \cup Deliverable' \cup Batch') <= Cardinality(Inflight \cup B)
  BY <1>8, <1>9, FS_Subset, FS_CardinalityType
<1>11. Cardinality(Batch') \in Nat /\ Cardinality(Batch') <= Cardinality(B)
  BY <1>1, <1>5, FS_Subset, FS_CardinalityType
<1>12. Cardinality(Inflight \cup B) \in Nat
  BY <1>9, FS_CardinalityType
<1>13. processed \in Nat /\ attempted \in Nat /\ Limit \in Nat /\ MaxRequests \in Nat
  BY BoundsOK DEF TypeOK, ProcessTypes
<1>14. processed' + Cardinality(Inflight' \cup Deliverable' \cup Batch') <= Limit
  BY <1>1, <1>3, <1>5, <1>7, <1>9, <1>10, <1>12, <1>13, EngagedFinite
<1>15. attempted' + Cardinality(Batch') <= MaxRequests
  BY <1>1, <1>3, <1>7, <1>11, <1>13, EngagedFinite
<1>. QED BY <1>14, <1>15 DEF BudgetsHold

\* The operator, the run loop, claiming, the fetch threads and the drains.
LEMMA LoopBudgets ==
  ASSUME TypeOK, BudgetsHold
  PROVE  /\ (Pause \/ Resume \/ RequestStop) => BudgetsHold'
         /\ (LoopTop \/ StopSeen \/ PauseSeen \/ Proceed \/ ProceedMisread) => BudgetsHold'
         /\ (CancelRequested \/ ResourceExceeded \/ GatePassed) => BudgetsHold'
         /\ (ClaimClosed \/ WaitDone \/ PassEnds \/ DrainRest) => BudgetsHold'
         /\ (\E B \in SUBSET Pending(rows), w \in 1 .. Concurrency, width \in Widths :
               ClaimBatch(B, w, width)) => BudgetsHold'
         /\ Submit => BudgetsHold'
         /\ (\E u \in Requests :
               \/ FetchStart(u) \/ (\E how \in FetchOutcomes : FetchEnd(u, how))
               \/ FetchMisread(u)) => BudgetsHold'
<1>1. ASSUME Pause \/ Resume \/ RequestStop PROVE BudgetsHold'
  <2>1. /\ fetch' = fetch /\ current' = current /\ pc' = pc /\ ready' = ready
        /\ processed' = processed /\ attempted' = attempted
    BY <1>1 DEF Pause, Resume, RequestStop, OperatorWrites
  <2>. QED BY <2>1 DEF BudgetsHold, Inflight, Deliverable, Held, Batch
<1>2. ASSUME LoopTop \/ StopSeen \/ PauseSeen \/ Proceed \/ ProceedMisread
      PROVE BudgetsHold'
  BY <1>2, BudgetQuiet, SameFutures DEF LoopTop, StopSeen, PauseSeen, Proceed,
     ProceedMisread, LetThrough
<1>3. ASSUME CancelRequested \/ ResourceExceeded \/ GatePassed PROVE BudgetsHold'
  BY <1>3, BudgetQuiet, SameFutures DEF CancelRequested, ResourceExceeded, GatePassed
<1>4. ASSUME ClaimClosed \/ WaitDone \/ PassEnds PROVE BudgetsHold'
  <2>1. pc' # "submit"
    BY <1>4 DEF ClaimClosed, WaitDone, PassEnds, AfterPass, TypeOK, ProcessTypes, Modes
  <2>. QED BY <1>4, <2>1, BudgetQuiet, SameFutures DEF ClaimClosed, WaitDone, PassEnds
<1>5. ASSUME DrainRest PROVE BudgetsHold'
  <2>1. Inflight' = Inflight
    BY <1>5 DEF DrainRest, Inflight
  <2>. QED BY <1>5, <2>1, BudgetQuiet DEF DrainRest
<1>6. ASSUME Submit PROVE BudgetsHold'
  <2>1. Inflight' = Inflight \cup ready /\ Batch = ready /\ Batch' = {} /\ Deliverable' = Deliverable
    <3>1. ready \subseteq Requests /\ \A u \in Requests :
            fetch'[u] = IF u \in ready THEN "queued" ELSE fetch[u]
      BY <1>6 DEF Submit, TypeOK, ProcessTypes
    <3>2. Inflight' = Inflight \cup ready
      BY <3>1 DEF Inflight
    <3>. QED BY <1>6, <3>2 DEF Submit, Batch, Deliverable, Held
  <2>2. Inflight' \cup Deliverable' \cup Batch' = Inflight \cup Deliverable \cup Batch
    BY <2>1
  <2>3. attempted' = attempted + Cardinality(Batch) /\ processed' = processed
    BY <1>6, <2>1 DEF Submit
  <2>4. Cardinality(Batch') = 0 /\ attempted' \in Nat
    BY <2>1, <2>3, FS_EmptySet, EngagedFinite DEF TypeOK, ProcessTypes
  <2>5. processed' + Cardinality((Inflight \cup Deliverable \cup Batch)') <= Limit
    BY <2>2, <2>3 DEF BudgetsHold
  <2>6. attempted' + Cardinality(Batch') <= MaxRequests
    BY <2>3, <2>4 DEF BudgetsHold
  <2>. QED BY <2>5, <2>6 DEF BudgetsHold
<1>7. ASSUME NEW u \in Requests,
             FetchStart(u) \/ (\E how \in FetchOutcomes : FetchEnd(u, how)) \/ FetchMisread(u)
      PROVE  BudgetsHold'
  <2>1. Inflight' = Inflight
    BY <1>7, FetchKeepsInflight
  <2>2. /\ current' = current /\ pc' = pc /\ ready' = ready
        /\ processed' = processed /\ attempted' = attempted
    BY <1>7, Zenon DEF FetchStart, FetchEnd, FetchMisread
  <2>. QED BY <2>1, <2>2 DEF BudgetsHold, Deliverable, Held, Batch
<1>. QED BY <1>1, <1>2, <1>3, <1>4, <1>5, <1>6, <1>7, ClaimFitsBudgets

\* A page that is counted is no longer engaged.
LEMMA CountedOnce ==
  ASSUME TypeOK, HolderOwnsClaim, BudgetsHold, pc = "checkpoint", pc' # "submit",
         processed' = processed + 1, attempted' = attempted, fetch' = fetch,
         current' = NoRequest \/ pc' = "settle"
  PROVE  BudgetsHold'
<1>1. current \in Requests /\ current \notin Inflight
  BY DEF TypeOK, ControlOK, WritingPCs, HolderOwnsClaim, Inflight
<1>2. Engaged = Inflight \cup {current} /\ Engaged' = Inflight /\ Batch' = {}
  BY <1>1, TopologyOK, SameFutures DEF Engaged, Deliverable, Held, Batch
<1>3. Cardinality(Engaged) = Cardinality(Inflight) + 1
  BY <1>1, <1>2, EngagedFinite, FS_AddElement
<1>4. Cardinality(Batch') = 0
  BY <1>2, FS_EmptySet
<1>5. processed \in Nat /\ attempted \in Nat /\ Limit \in Nat /\ MaxRequests \in Nat
  BY BoundsOK DEF TypeOK, ProcessTypes
<1>. QED BY <1>2, <1>3, <1>4, <1>5, EngagedFinite DEF BudgetsHold, Engaged

\* The transactions of consume() and the ways out of it.
LEMMA ConsumeBudgets ==
  ASSUME TypeOK, HolderOwnsClaim, BudgetsHold
  PROVE  /\ (\E u \in Requests : Consume(u) \/ Await(u)) => BudgetsHold'
         /\ (\E how \in FetchOutcomes : ResultArrives(how)) => BudgetsHold'
         /\ (\E final \in Requests : HandleDelivered(final)) => BudgetsHold'
         /\ (Alias \/ Mark) => BudgetsHold'
         /\ (\E how \in Thrown : StoreFails(how) \/ CallbackRaises(how)) => BudgetsHold'
         /\ Checkpoint => BudgetsHold'
         /\ (\E found \in SUBSET Requests : HandleFailed(found)) => BudgetsHold'
         /\ (HandleRefused \/ RefusedMisread \/ HandleReleased \/ Settle) => BudgetsHold'
         /\ (HookRaises \/ HandlerFails) => BudgetsHold'
<1>1. ASSUME NEW u \in Requests, Consume(u) \/ Await(u) PROVE BudgetsHold'
  <2>1. fetch[u] # "none" /\ fetch' = [fetch EXCEPT ![u] = "none"]
    BY <1>1 DEF Consume, Await, Finished, FetchOutcomes
  <2>2. u \in Inflight /\ Inflight' = Inflight \ {u}
    BY <2>1 DEF Inflight, TypeOK, ProcessTypes
  <2>3. Engaged' \subseteq Engaged /\ Batch' = {}
    BY <1>1, <2>2 DEF Consume, Await, Engaged, Deliverable, Held, Batch
  <2>. QED BY <1>1, <2>3, BudgetFrame DEF Consume, Await
<1>2. ASSUME NEW final \in Requests, HandleDelivered(final) PROVE BudgetsHold'
  BY <1>2, BudgetQuiet, SameFutures DEF HandleDelivered
<1>3. ASSUME Alias \/ Mark PROVE BudgetsHold'
  BY <1>3, BudgetQuiet, SameFutures DEF Alias, Mark
<1>4. ASSUME Checkpoint PROVE BudgetsHold'
  BY <1>4, CountedOnce DEF Checkpoint, PutDown
<1>5. ASSUME NEW found \in SUBSET Requests, HandleFailed(found) PROVE BudgetsHold'
  BY <1>5, BudgetQuiet, SameFutures DEF HandleFailed
<1>6. ASSUME HandleRefused \/ RefusedMisread \/ HandleReleased \/ Settle PROVE BudgetsHold'
  BY <1>6, BudgetQuiet, SameFutures DEF HandleRefused, RefusedMisread, Refused,
     HandleReleased, Settle, SettleWrites, PutDown
<1>7. ASSUME HookRaises \/ HandlerFails PROVE BudgetsHold'
  <2>1. pc' # "submit" /\ current' = NoRequest /\ fetch' = fetch
    BY <1>7 DEF HookRaises, HandlerFails, SettleWrites, PutDown, RaiseOutOfConsume,
         AfterPass,
       TypeOK, ProcessTypes, Modes
  <2>. QED BY <1>7, <2>1, BudgetQuiet, SameFutures DEF HookRaises, HandlerFails
<1>8. ASSUME NEW how \in Thrown, StoreFails(how) \/ CallbackRaises(how) PROVE BudgetsHold'
  <2>1. CASE StoreFails(how)
    BY <2>1, BudgetQuiet, SameFutures DEF StoreFails, ThrownUnder
  <2>2. CASE CallbackRaises(how)
    BY <2>2, CountedOnce DEF CallbackRaises, ThrownUnder
  <2>. QED BY <1>8, <2>1, <2>2
<1>9. ASSUME NEW how \in FetchOutcomes, ResultArrives(how) PROVE BudgetsHold'
  BY <1>9, BudgetQuiet, SameFutures DEF ResultArrives
<1>. QED BY <1>1, <1>2, <1>3, <1>4, <1>5, <1>6, <1>7, <1>8, <1>9

\* The end of a run.
LEMMA ExitBudgets ==
  ASSUME TypeOK, BudgetsHold
  PROVE  /\ (Aggregate \/ Export \/ Report \/ AfterFinish \/ Finish) => BudgetsHold'
         /\ (LoopError \/ LateError \/ ReportRaises) => BudgetsHold'
         /\ (InterruptLoop \/ InterruptDrain \/ InterruptExit) => BudgetsHold'
<1>1. ASSUME Aggregate \/ Export \/ Report \/ AfterFinish \/ Finish PROVE BudgetsHold'
  BY <1>1, BudgetQuiet, SameFutures DEF Aggregate, Export, Report, AfterFinish, Finish
<1>2. ASSUME LoopError \/ LateError \/ ReportRaises PROVE BudgetsHold'
  BY <1>2, BudgetQuiet, SameFutures DEF LoopError, LateError, Aborts, ReportRaises
<1>3. ASSUME InterruptLoop \/ InterruptDrain \/ InterruptExit PROVE BudgetsHold'
  <2>1. pc' # "submit" /\ current' = NoRequest /\ fetch' = fetch
    BY <1>3 DEF InterruptLoop, InterruptDrain, InterruptExit, PutDown, AfterPass,
       TypeOK, ProcessTypes, Modes
  <2>. QED BY <1>3, <2>1, BudgetQuiet, SameFutures DEF InterruptLoop, InterruptDrain,
       InterruptExit
<1>. QED BY <1>1, <1>2, <1>3

\* Every step of the program, its operator and its faults.
LEMMA StepBudgets == TypeOK /\ HolderOwnsClaim /\ BudgetsHold /\ [Next]_vars => BudgetsHold'
<1>. SUFFICES ASSUME TypeOK, HolderOwnsClaim, BudgetsHold, [Next]_vars PROVE BudgetsHold'
  OBVIOUS
<1>1. CASE MainThread
  BY <1>1, SetupBudgets, LoopBudgets, ConsumeBudgets, ExitBudgets DEF MainThread
<1>2. CASE Fetches
  BY <1>2, LoopBudgets, ConsumeBudgets DEF Fetches
<1>3. CASE Failures
  BY <1>3, SetupBudgets, LoopBudgets, ConsumeBudgets, ExitBudgets DEF Failures
<1>4. CASE Operator
  BY <1>4, SetupBudgets, LoopBudgets DEF Operator
<1>5. CASE UNCHANGED vars
  BY <1>5 DEF vars, BudgetsHold, Inflight, Deliverable, Held, Batch
<1>. QED BY <1>1, <1>2, <1>3, <1>4, <1>5 DEF Next

\* However many fetches run at once, a run delivers at most max_pages pages and starts
\* at most max_requests requests: the claim leaves room for what is in flight, claimed
\* and being consumed, and no retry, failed callback or drain counts a page twice.
THEOREM BudgetsAreKept == Spec => []BudgetsHold
<1>1. Init => BudgetsHold
  <2>. SUFFICES ASSUME Init PROVE BudgetsHold
    OBVIOUS
  <2>1. Inflight = {} /\ Deliverable = {} /\ Batch = {}
    BY DEF Init, Inflight, Idle, Deliverable, Held, Batch
  <2>. QED BY <2>1, FS_EmptySet, BoundsOK DEF Init, BudgetsHold
<1>. QED BY <1>1, TypeCorrect, ClaimsAreExclusive, StepBudgets, PTL DEF Spec

-----------------------------------------------------------------------------
(* Failures and their errors                                               *)

\* The statuses of a request that nobody will fetch again.
Lost == {"failed", "blocked"}

\* Only the writes of consume() fail or block a row, and they name it.
LEMMA OnlySettlementLoses ==
  ASSUME NEW t \in Tables, NEW v \in Requests
  PROVE  /\ \A a, b : PrepareCycle(t, a, b)[v].status \in Lost => t[v].status \in Lost
         /\ RetryFailed(t)[v].status \in Lost => t[v].status \in Lost
         /\ ReleaseClaims(t)[v].status \in Lost => t[v].status \in Lost
         /\ \A S : /\ Discover(t, S)[v].status \in Lost => t[v].status \in Lost
                   /\ Claim(t, S)[v].status \in Lost => t[v].status \in Lost
         /\ \A u \in Requests :
              /\ EnqueueForced(t, u)[v].status \in Lost => t[v].status \in Lost
              /\ MarkRedirectTargetDone(t, u)[v].status \in Lost => t[v].status \in Lost
<1>1. t[v] \in Row
  BY DEF Tables
<1>. USE DEF Lost
<1>2. \A a, b : PrepareCycle(t, a, b)[v].status \in Lost => t[v].status \in Lost
  BY <1>1, SMT DEF PrepareCycle, NoRow, Reset, Row, Settled
<1>3. RetryFailed(t)[v].status \in Lost => t[v].status \in Lost
  BY <1>1, SMT DEF RetryFailed, Reset, Row
<1>4. ReleaseClaims(t)[v].status \in Lost => t[v].status \in Lost
  BY <1>1, SMT DEF ReleaseClaims, Row
<1>5. \A S : Discover(t, S)[v].status \in Lost => t[v].status \in Lost
  BY <1>1, SMT DEF Discover, NoRow, Row
<1>6. \A S : Claim(t, S)[v].status \in Lost => t[v].status \in Lost
  BY <1>1, SMT DEF Claim, Row
<1>7. \A u \in Requests : EnqueueForced(t, u)[v].status \in Lost => t[v].status \in Lost
  BY <1>1, SMT DEF EnqueueForced, Requeued, NoRow, Row, Tables
<1>8. \A u \in Requests : MarkRedirectTargetDone(t, u)[v].status \in Lost => t[v].status \in Lost
  BY <1>1, SMT DEF MarkRedirectTargetDone, NoRow, Row, Tables
<1>. QED BY <1>2, <1>3, <1>4, <1>5, <1>6, <1>7, <1>8

\* A step that loses a row only when it is being written or its error is known.
LEMMA RecordFrame ==
  ASSUME FailureIsRecorded, broken \subseteq broken', errors \subseteq errors',
         \A u \in Requests : rows'[u].status \in Lost /\ u \notin Held' /\ broken' = {} =>
           \/ rows[u].status \in Lost /\ u \notin Held
           \/ \E r \in RunIds : <<r, u>> \in errors'
  PROVE  FailureIsRecorded'
  BY DEF FailureIsRecorded, InStatus, Lost

\* The form it has when nobody puts a request down.
LEMMA RecordQuiet ==
  ASSUME FailureIsRecorded, broken \subseteq broken', errors \subseteq errors',
         \A u \in Requests : rows'[u].status \in Lost => rows[u].status \in Lost,
         current = NoRequest \/ current' = current
  PROVE  FailureIsRecorded'
<1>1. Held \subseteq Held'
  BY DEF Held
<1>. QED BY <1>1, RecordFrame

\* A run whose transaction failed promises nothing.
LEMMA RecordBroken ==
  ASSUME run \in broken' PROVE FailureIsRecorded'
  BY DEF FailureIsRecorded

\* Process start, setup and exit.
LEMMA SetupRecords ==
  ASSUME TypeOK, FailureIsRecorded
  PROVE  /\ (\E resume, retry \in BOOLEAN : Start(resume, retry)) => FailureIsRecorded'
         /\ Prepare => FailureIsRecorded'
         /\ Retry => FailureIsRecorded'
         /\ (\E u \in Requests : SeedOne(u)) => FailureIsRecorded'
         /\ (Seeded \/ LimitsAccepted) => FailureIsRecorded'
         /\ (SetupFails \/ SetupReportRaises \/ LimitsRejected \/ InterruptSetup)
              => FailureIsRecorded'
         /\ (Exit \/ Crash) => FailureIsRecorded'
         /\ Recover => FailureIsRecorded'
<1>. rows \in Tables /\ (pc \notin HoldingPCs => current = NoRequest)
  BY DEF TypeOK, StoreTypes, ControlOK
<1>1. ASSUME \E resume, retry \in BOOLEAN : Start(resume, retry) PROVE FailureIsRecorded'
  BY <1>1, RecordQuiet DEF Start
<1>2. ASSUME Prepare PROVE FailureIsRecorded'
  BY <1>2, RecordQuiet, OnlySettlementLoses DEF Prepare
<1>3. ASSUME Retry PROVE FailureIsRecorded'
  BY <1>3, RecordQuiet, OnlySettlementLoses DEF Retry
<1>4. ASSUME NEW u \in Requests, SeedOne(u) PROVE FailureIsRecorded'
  BY <1>4, RecordQuiet, OnlySettlementLoses DEF SeedOne
<1>5. ASSUME Seeded \/ LimitsAccepted PROVE FailureIsRecorded'
  BY <1>5, RecordQuiet DEF Seeded, LimitsAccepted
<1>6. ASSUME SetupFails \/ SetupReportRaises \/ LimitsRejected \/ InterruptSetup
      PROVE  FailureIsRecorded'
  BY <1>6, RecordQuiet DEF SetupFails, SetupReportRaises, LimitsRejected, InterruptSetup,
       SetupPCs,
     WritingPCs
<1>7. ASSUME Exit PROVE FailureIsRecorded'
  BY <1>7, RecordQuiet DEF Exit, WritingPCs
<1>8. ASSUME Crash PROVE FailureIsRecorded'
  BY <1>8, RecordBroken DEF Crash
<1>9. ASSUME Recover PROVE FailureIsRecorded'
  BY <1>9, RecordQuiet, OnlySettlementLoses DEF Recover
<1>. QED BY <1>1, <1>2, <1>3, <1>4, <1>5, <1>6, <1>7, <1>8, <1>9

\* The operator, the run loop, claiming, the fetch threads and the drains.
LEMMA LoopRecords ==
  ASSUME TypeOK, FailureIsRecorded
  PROVE  /\ (Pause \/ Resume \/ RequestStop) => FailureIsRecorded'
         /\ (LoopTop \/ StopSeen \/ PauseSeen \/ Proceed \/ ProceedMisread) => FailureIsRecorded'
         /\ (CancelRequested \/ ResourceExceeded \/ GatePassed) => FailureIsRecorded'
         /\ (ClaimClosed \/ Submit \/ WaitDone \/ PassEnds \/ DrainRest) => FailureIsRecorded'
         /\ (\E B \in SUBSET Pending(rows), w \in 1 .. Concurrency, width \in Widths :
               ClaimBatch(B, w, width)) => FailureIsRecorded'
         /\ (\E u \in Requests :
               \/ FetchStart(u) \/ (\E how \in FetchOutcomes : FetchEnd(u, how))
               \/ FetchMisread(u)) => FailureIsRecorded'
<1>1. ASSUME Pause \/ Resume \/ RequestStop PROVE FailureIsRecorded'
  BY <1>1, RecordQuiet DEF Pause, Resume, RequestStop, OperatorWrites
<1>2. ASSUME LoopTop \/ StopSeen \/ PauseSeen \/ Proceed \/ ProceedMisread
      PROVE FailureIsRecorded'
  BY <1>2, RecordQuiet DEF LoopTop, StopSeen, PauseSeen, Proceed,
     ProceedMisread, LetThrough
<1>3. ASSUME CancelRequested \/ ResourceExceeded \/ GatePassed PROVE FailureIsRecorded'
  BY <1>3, RecordQuiet DEF CancelRequested, ResourceExceeded, GatePassed
<1>4. ASSUME ClaimClosed \/ Submit \/ WaitDone \/ PassEnds \/ DrainRest
      PROVE FailureIsRecorded'
  BY <1>4, RecordQuiet DEF ClaimClosed, Submit, WaitDone, PassEnds, DrainRest
<1>5. ASSUME NEW B \in SUBSET Pending(rows), NEW w \in 1 .. Concurrency,
             NEW width \in Widths, ClaimBatch(B, w, width)
      PROVE  FailureIsRecorded'
  <2>1. /\ rows' = Claim(rows, B) /\ current' = current
        /\ errors' = errors /\ broken' = broken
    BY <1>5, Zenon DEF ClaimBatch
  <2>. QED BY <2>1, RecordQuiet, OnlySettlementLoses DEF TypeOK, StoreTypes
<1>6. ASSUME NEW u \in Requests,
             FetchStart(u) \/ (\E how \in FetchOutcomes : FetchEnd(u, how)) \/ FetchMisread(u)
      PROVE  FailureIsRecorded'
  <2>1. rows' = rows /\ current' = current /\ errors' = errors /\ broken' = broken
    BY <1>6, Zenon DEF FetchStart, FetchEnd, FetchMisread
  <2>. QED BY <2>1, RecordQuiet
<1>. QED BY <1>1, <1>2, <1>3, <1>4, <1>5, <1>6

\* The second transaction of an unsuccessful outcome records the error.
LEMMA SettleRecords ==
  ASSUME TypeOK, FailureIsRecorded, SettleWrites, pc = "settle", broken \subseteq broken'
  PROVE  FailureIsRecorded'
<1>1. current \in Requests /\ rows \in Tables /\ run \in RunIds
  BY RunOfProcess DEF TypeOK, StoreTypes, ControlOK, WritingPCs
<1>2. \A u \in Requests : u # current => rows'[u] = rows[u]
  BY <1>1, SettlesOneRow DEF SettleWrites
<1>3. errors' = errors \cup {<<run, current>>} /\ current' = NoRequest
  BY DEF SettleWrites, PutDown
<1>. QED BY <1>1, <1>2, <1>3, RecordFrame DEF Held

\* The transactions of consume() and the ways out of it.
LEMMA ConsumeRecords ==
  ASSUME TypeOK, OwnerInv, FailureIsRecorded
  PROVE  /\ (\E u \in Requests : Consume(u) \/ Await(u)) => FailureIsRecorded'
         /\ (\E how \in FetchOutcomes : ResultArrives(how)) => FailureIsRecorded'
         /\ (\E final \in Requests : HandleDelivered(final)) => FailureIsRecorded'
         /\ Alias => FailureIsRecorded'
         /\ Mark => FailureIsRecorded'
         /\ (\E how \in Thrown : StoreFails(how) \/ CallbackRaises(how)) => FailureIsRecorded'
         /\ Checkpoint => FailureIsRecorded'
         /\ (\E found \in SUBSET Requests : HandleFailed(found)) => FailureIsRecorded'
         /\ (HandleRefused \/ RefusedMisread) => FailureIsRecorded'
         /\ HandleReleased => FailureIsRecorded'
         /\ (Settle \/ HookRaises) => FailureIsRecorded'
         /\ HandlerFails => FailureIsRecorded'
<1>. rows \in Tables /\ (pc \notin HoldingPCs => current = NoRequest)
  BY DEF TypeOK, StoreTypes, ControlOK
<1>a. pc \in WritingPCs => current \in Requests
  BY DEF TypeOK, ControlOK
<1>1. ASSUME NEW u \in Requests, Consume(u) \/ Await(u) PROVE FailureIsRecorded'
  BY <1>1, RecordQuiet DEF Consume, Await, WritingPCs
<1>2. ASSUME NEW final \in Requests, HandleDelivered(final) PROVE FailureIsRecorded'
  BY <1>2, RecordQuiet, OnlySettlementLoses DEF HandleDelivered
<1>3. ASSUME Alias PROVE FailureIsRecorded'
  <2>1. target \in Requests
    BY <1>3 DEF Alias, TypeOK, ControlOK
  <2>. QED BY <1>3, <2>1, RecordQuiet, OnlySettlementLoses DEF Alias
<1>4. ASSUME Mark PROVE FailureIsRecorded'
  <2>1. current \in Requests
    BY <1>4, <1>a DEF Mark, WritingPCs
  <2>2. rows'[current].status = "done" /\ \A u \in Requests : u # current => rows'[u] = rows[u]
    BY <1>4, <2>1, OnlyClaimTakes, SettlesOneRow DEF Mark
  <2>. QED BY <1>4, <2>1, <2>2, RecordQuiet DEF Mark, Lost
<1>5. ASSUME NEW how \in Thrown, StoreFails(how) \/ CallbackRaises(how)
      PROVE FailureIsRecorded'
  <2>1. /\ pc \in WritingPCs /\ current' = current /\ broken' = broken
        /\ errors \subseteq errors' /\ ThrownUnder(how)
    BY <1>5 DEF StoreFails, CallbackRaises, ThrownUnder, WritingPCs
  <2>2. \A u \in Requests : u # current => rows'[u] = rows[u]
    BY <2>1, ThrownWrites
  <2>3. current \in Held' /\ Held' = Held
    BY <1>a, <2>1, TopologyOK DEF Held
  <2>. QED BY <2>1, <2>2, <2>3, RecordFrame
<1>6. ASSUME Checkpoint PROVE FailureIsRecorded'
  <2>1. rows[current].status = "done"
    BY <1>6 DEF Checkpoint, OwnerInv, WriteReleases
  <2>. QED BY <1>6, <2>1, RecordFrame DEF Checkpoint, PutDown, Lost, Held
<1>7. ASSUME NEW found \in SUBSET Requests, HandleFailed(found) PROVE FailureIsRecorded'
  BY <1>7, RecordQuiet, OnlySettlementLoses DEF HandleFailed
<1>8. ASSUME HandleRefused \/ RefusedMisread PROVE FailureIsRecorded'
  <2>1. /\ pc = "handle" /\ current' = current /\ broken' = broken
        /\ errors' = errors /\ Refused
    BY <1>8 DEF HandleRefused, RefusedMisread
  <2>2. \A u \in Requests : u # current => rows'[u] = rows[u]
    BY <2>1, RefusalWrites
  <2>3. current \in Held' /\ Held' = Held
    BY <1>a, <2>1, TopologyOK DEF Held, WritingPCs
  <2>. QED BY <2>1, <2>2, <2>3, RecordFrame
<1>9. ASSUME HandleReleased PROVE FailureIsRecorded'
  <2>1. current \in Requests
    BY <1>9, <1>a DEF HandleReleased, WritingPCs
  <2>2. rows'[current].status = "pending" /\ \A u \in Requests : u # current => rows'[u] = rows[u]
    BY <1>9, <2>1, OnlyClaimTakes, SettlesOneRow DEF HandleReleased
  <2>. QED BY <1>9, <2>2, RecordFrame DEF HandleReleased, PutDown, Lost, Held
<1>10. ASSUME Settle \/ HookRaises PROVE FailureIsRecorded'
  BY <1>10, SettleRecords DEF Settle, HookRaises
<1>11. ASSUME HandlerFails PROVE FailureIsRecorded'
  BY <1>11, RecordBroken DEF HandlerFails
<1>12. ASSUME NEW how \in FetchOutcomes, ResultArrives(how) PROVE FailureIsRecorded'
  BY <1>12, RecordQuiet DEF ResultArrives
<1>. QED BY <1>1, <1>2, <1>3, <1>4, <1>5, <1>6, <1>7, <1>8, <1>9, <1>10, <1>11, <1>12

\* The end of a run.
LEMMA ExitRecords ==
  ASSUME TypeOK, FailureIsRecorded
  PROVE  /\ (Aggregate \/ Export \/ Report \/ AfterFinish \/ Finish) => FailureIsRecorded'
         /\ (LoopError \/ LateError \/ ReportRaises) => FailureIsRecorded'
         /\ (InterruptLoop \/ InterruptDrain) => FailureIsRecorded'
         /\ InterruptExit => FailureIsRecorded'
<1>1. ASSUME Aggregate \/ Export \/ Report \/ AfterFinish \/ Finish PROVE FailureIsRecorded'
  BY <1>1, RecordQuiet DEF Aggregate, Export, Report, AfterFinish, Finish
<1>2. ASSUME LoopError \/ LateError \/ ReportRaises PROVE FailureIsRecorded'
  BY <1>2, RecordQuiet DEF LoopError, LateError, Aborts, ReportRaises
<1>3. ASSUME InterruptLoop \/ InterruptDrain PROVE FailureIsRecorded'
  <2>1. rows' = rows /\ errors' = errors /\ broken \subseteq broken'
    BY <1>3 DEF InterruptLoop, InterruptDrain
  <2>2. current # NoRequest => run \in broken'
    BY <1>3 DEF InterruptLoop, InterruptDrain
  <2>. QED BY <2>1, <2>2, RecordQuiet, RecordBroken
<1>4. ASSUME InterruptExit PROVE FailureIsRecorded'
  BY <1>4, RecordBroken DEF InterruptExit
<1>. QED BY <1>1, <1>2, <1>3, <1>4

\* Every step of the program, its operator and its faults.
LEMMA StepRecords ==
  TypeOK /\ OwnerInv /\ FailureIsRecorded /\ [Next]_vars => FailureIsRecorded'
<1>. SUFFICES ASSUME TypeOK, OwnerInv, FailureIsRecorded, [Next]_vars
              PROVE FailureIsRecorded'
  OBVIOUS
<1>1. CASE MainThread
  BY <1>1, SetupRecords, LoopRecords, ConsumeRecords, ExitRecords DEF MainThread
<1>2. CASE Fetches
  BY <1>2, LoopRecords, ConsumeRecords DEF Fetches
<1>3. CASE Failures
  BY <1>3, SetupRecords, LoopRecords, ConsumeRecords, ExitRecords DEF Failures
<1>4. CASE Operator
  BY <1>4, SetupRecords, LoopRecords DEF Operator
<1>5. CASE UNCHANGED vars
  BY <1>5 DEF vars, FailureIsRecorded, InStatus, Held
<1>. QED BY <1>1, <1>2, <1>3, <1>4, <1>5 DEF Next

\* While every handler's transaction commits, a failed or blocked row has an error in
\* the errors table once consume() has put it down, although row and error are written
\* by different transactions, in one order by the handlers and in the other by settle.
THEOREM FailuresAreRecorded == Spec => []FailureIsRecorded
<1>1. Init => FailureIsRecorded
  BY DEF Init, FailureIsRecorded, InStatus, NoRow
<1>. QED BY <1>1, TypeCorrect, OwnersAreKept, StepRecords, PTL DEF Spec

-----------------------------------------------------------------------------
(* Attempts                                                                *)

\* The statuses of a request that will be fetched.
Queued == {"pending", "in_progress"}

\* No queue operation but mark_failed raises the attempts of a row.
LEMMA OnlyFailureCounts ==
  ASSUME NEW t \in Tables, NEW v \in Requests
  PROVE  /\ \A a, b : PrepareCycle(t, a, b)[v].attempts <= t[v].attempts
         /\ RetryFailed(t)[v].attempts <= t[v].attempts
         /\ ReleaseClaims(t)[v].attempts <= t[v].attempts
         /\ \A S : /\ Discover(t, S)[v].attempts <= t[v].attempts
                   /\ Claim(t, S)[v].attempts <= t[v].attempts
         /\ \A u \in Requests :
              /\ EnqueueForced(t, u)[v].attempts <= t[v].attempts
              /\ MarkRedirectTargetDone(t, u)[v].attempts <= t[v].attempts
              /\ \A status, error : MarkDone(t, u, status, error)[v].attempts <= t[v].attempts
<1>1. t[v] \in Row /\ t[v].attempts \in Nat
  BY DEF Tables, Row
<1>2. \A a, b : PrepareCycle(t, a, b)[v].attempts <= t[v].attempts
  BY <1>1, SMT DEF PrepareCycle, NoRow, Reset, Row
<1>3. RetryFailed(t)[v].attempts <= t[v].attempts
  BY <1>1, SMT DEF RetryFailed, Reset, Row
<1>4. ReleaseClaims(t)[v].attempts <= t[v].attempts
  BY <1>1, SMT DEF ReleaseClaims, Row
<1>5. \A S : Discover(t, S)[v].attempts <= t[v].attempts
  BY <1>1, SMT DEF Discover, NoRow, Row
<1>6. \A S : Claim(t, S)[v].attempts <= t[v].attempts
  BY <1>1, SMT DEF Claim, Row
<1>7. \A u \in Requests : EnqueueForced(t, u)[v].attempts <= t[v].attempts
  BY <1>1, SMT DEF EnqueueForced, Requeued, NoRow, Row, Tables
<1>8. \A u \in Requests : MarkRedirectTargetDone(t, u)[v].attempts <= t[v].attempts
  BY <1>1, SMT DEF MarkRedirectTargetDone, NoRow, Row, Tables
<1>9. \A u \in Requests : \A status, error : MarkDone(t, u, status, error)[v].attempts <= t[v].attempts
  BY <1>1, SMT DEF MarkDone, Row, Tables
<1>. QED BY <1>2, <1>3, <1>4, <1>5, <1>6, <1>7, <1>8, <1>9

\* A row enters the queue only new, with no attempt made.
LEMMA OnlyNewRowsAreQueued ==
  ASSUME NEW t \in Tables, NEW v \in Requests
  PROVE  /\ ReleaseClaims(t)[v].status \in Queued => t[v].status \in Queued
         /\ \A S : /\ Discover(t, S)[v].status \in Queued =>
                        t[v].status \in Queued \/ Discover(t, S)[v].attempts = 0
                   /\ Claim(t, S)[v].status \in Queued => t[v].status \in Queued
         /\ \A u \in Requests :
              MarkRedirectTargetDone(t, u)[v].status \in Queued => t[v].status \in Queued
<1>1. t[v] \in Row
  BY DEF Tables
<1>. USE DEF Queued
<1>2. ReleaseClaims(t)[v].status \in Queued => t[v].status \in Queued
  BY <1>1, SMT DEF ReleaseClaims, Row
<1>3. \A S : Discover(t, S)[v].status \in Queued =>
               t[v].status \in Queued \/ Discover(t, S)[v].attempts = 0
  BY <1>1, SMT DEF Discover, NoRow, Row
<1>4. \A S : Claim(t, S)[v].status \in Queued => t[v].status \in Queued
  BY <1>1, SMT DEF Claim, Row
<1>5. \A u \in Requests :
        MarkRedirectTargetDone(t, u)[v].status \in Queued => t[v].status \in Queued
  BY <1>1, SMT DEF MarkRedirectTargetDone, NoRow, Row, Tables
<1>. QED BY <1>2, <1>3, <1>4, <1>5

\* mark_failed counts one attempt, and requeues only within http.retries.
LEMMA FailureCountsOne ==
  ASSUME NEW t \in Tables, NEW v \in Requests, NEW error, NEW retryable
  PROVE  /\ MarkFailed(t, v, error, retryable)[v].attempts = t[v].attempts + 1
         /\ MarkFailed(t, v, error, retryable)[v].status \in Queued =>
              t[v].attempts + 1 < MaxAttempts
<1>1. t[v] \in Row
  BY DEF Tables
<1>2. MarkFailed(t, v, error, retryable)[v].attempts = t[v].attempts + 1
  BY <1>1, SMT DEF MarkFailed, Row, Tables
<1>3. MarkFailed(t, v, error, retryable)[v].status
        = IF MayRetry(t[v], error, retryable) THEN "pending" ELSE "failed"
  BY <1>1, SMT DEF MarkFailed, Row, Tables
<1>. QED BY <1>2, <1>3 DEF Queued, MayRetry

\* The attempts one run gives a request.
Tries == IF MaxAttempts > 1 THEN MaxAttempts ELSE 1

\* Every request of a starting run, every queued request and the one being
\* written has an attempt left.
SetupLeavesTry == pc \in SetupPCs => \A u \in Requests : rows[u].attempts <= Tries + run - 2
QueuedHasTry ==
  \A u \in Requests : rows[u].status \in Queued => rows[u].attempts <= Tries + run - 2
WriteHasTry == pc \in HoldingPCs => rows[current].attempts <= Tries + run - 2

\* The invariant of AttemptsAreBounded.
AttemptsInv == AttemptsBound /\ SetupLeavesTry /\ QueuedHasTry /\ WriteHasTry

\* The numbers the bounds compare.
LEMMA CountsAreNumbers ==
  ASSUME TypeOK
  PROVE  /\ Tries \in Nat /\ Tries >= 1 /\ Tries >= MaxAttempts /\ run \in Nat
         /\ pc # "down" => run >= 1
         /\ \A u \in Requests : rows[u].attempts \in Nat
<1>1. \A u \in Requests : rows[u].attempts \in Nat
  BY DEF TypeOK, StoreTypes, Tables, Row
<1>2. run \in Nat /\ (pc # "down" => run >= 1)
  BY BoundsOK DEF TypeOK, StoreTypes, ControlOK
<1>. QED BY <1>1, <1>2, MaxAttemptsNat DEF Tries

\* A step that counts no attempt and requeues only what has one left.
LEMMA AttemptsFrame ==
  ASSUME TypeOK, TypeOK', AttemptsInv, run' = run,
         \A u \in Requests : rows'[u].attempts <= rows[u].attempts,
         \A u \in Requests : rows'[u].status \in Queued =>
           \/ rows[u].status \in Queued
           \/ rows'[u].attempts = 0 /\ pc # "down"
           \/ pc \in SetupPCs
           \/ pc \in HoldingPCs /\ u = current,
         pc' \in SetupPCs => pc \in SetupPCs,
         pc' \in HoldingPCs => pc \in HoldingPCs /\ current' = current
  PROVE  AttemptsInv'
<1>1. \A u \in Requests : rows[u].attempts \in Nat /\ rows'[u].attempts \in Nat
  BY CountsAreNumbers DEF TypeOK, StoreTypes, Tables, Row
<1>2. Tries \in Nat /\ Tries >= 1 /\ run \in Nat /\ (pc # "down" => run >= 1) /\ Tries' = Tries
  BY CountsAreNumbers DEF Tries
<1>3. AttemptsBound'
  BY <1>1, <1>2 DEF AttemptsInv, AttemptsBound, Tries
<1>4. SetupLeavesTry'
  BY <1>1, <1>2 DEF AttemptsInv, SetupLeavesTry
<1>5. WriteHasTry'
  <2>1. pc' \in HoldingPCs => current \in Requests
    BY DEF TypeOK, ControlOK
  <2>. QED BY <1>1, <1>2, <2>1 DEF AttemptsInv, WriteHasTry
<1>6. QueuedHasTry'
  <2>. SUFFICES ASSUME NEW u \in Requests, rows'[u].status \in Queued
                PROVE  rows'[u].attempts <= Tries + run - 2
    BY <1>2 DEF QueuedHasTry
  <2>1. CASE rows'[u].attempts = 0 /\ pc # "down"
    BY <1>2, <2>1
  <2>2. rows[u].attempts <= Tries + run - 2 => rows'[u].attempts <= Tries + run - 2
    BY <1>1, <1>2
  <2>. QED BY <2>1, <2>2 DEF AttemptsInv, SetupLeavesTry, QueuedHasTry, WriteHasTry
<1>. QED BY <1>3, <1>4, <1>5, <1>6 DEF AttemptsInv

\* The form it has when the table stays as it is.
LEMMA AttemptsQuiet ==
  ASSUME TypeOK, TypeOK', AttemptsInv, run' = run, rows' = rows,
         pc' \in SetupPCs => pc \in SetupPCs,
         pc' \in HoldingPCs => pc \in HoldingPCs /\ current' = current
  PROVE  AttemptsInv'
<1>1. \A u \in Requests : rows'[u].attempts <= rows[u].attempts
  BY CountsAreNumbers
<1>. QED BY <1>1, AttemptsFrame

\* Process start, setup and exit.
LEMMA SetupAttempts ==
  ASSUME TypeOK, TypeOK', AttemptsInv
  PROVE  /\ (\E resume, retry \in BOOLEAN : Start(resume, retry)) => AttemptsInv'
         /\ Prepare => AttemptsInv'
         /\ Retry => AttemptsInv'
         /\ (\E u \in Requests : SeedOne(u)) => AttemptsInv'
         /\ (Seeded \/ LimitsAccepted) => AttemptsInv'
         /\ (SetupFails \/ SetupReportRaises \/ LimitsRejected \/ InterruptSetup) => AttemptsInv'
         /\ (Exit \/ Crash) => AttemptsInv'
         /\ Recover => AttemptsInv'
<1>. rows \in Tables
  BY DEF TypeOK, StoreTypes
<1>. USE DEF SetupPCs, WritingPCs
<1>1. ASSUME \E resume, retry \in BOOLEAN : Start(resume, retry) PROVE AttemptsInv'
  <2>1. rows' = rows /\ run' = run + 1 /\ pc' = "prepare"
    BY <1>1 DEF Start
  <2>2. \A u \in Requests : rows[u].attempts <= Tries + run - 1
    BY DEF AttemptsInv, AttemptsBound, Tries
  <2>3. Tries' = Tries /\ Tries \in Nat /\ run \in Nat /\ \A u \in Requests : rows[u].attempts \in Nat
    BY CountsAreNumbers DEF Tries
  <2>. QED BY <2>1, <2>2, <2>3 DEF AttemptsInv, AttemptsBound, SetupLeavesTry, QueuedHasTry,
           WriteHasTry, Tries
<1>2. ASSUME Prepare PROVE AttemptsInv'
  BY <1>2, AttemptsFrame, OnlyFailureCounts DEF Prepare
<1>3. ASSUME Retry PROVE AttemptsInv'
  <2>1. \A u \in Requests : rows'[u].attempts <= rows[u].attempts
    BY <1>3, OnlyFailureCounts, CountsAreNumbers DEF Retry
  <2>. QED BY <1>3, <2>1, AttemptsFrame DEF Retry
<1>4. ASSUME NEW u \in Requests, SeedOne(u) PROVE AttemptsInv'
  BY <1>4, AttemptsFrame, OnlyFailureCounts DEF SeedOne
<1>5. ASSUME Seeded \/ LimitsAccepted PROVE AttemptsInv'
  BY <1>5, AttemptsQuiet DEF Seeded, LimitsAccepted
<1>6. ASSUME SetupFails \/ SetupReportRaises \/ LimitsRejected \/ InterruptSetup
      PROVE AttemptsInv'
  BY <1>6, AttemptsQuiet DEF SetupFails, SetupReportRaises, LimitsRejected, InterruptSetup,
     ForgetProcess
<1>7. ASSUME Exit \/ Crash PROVE AttemptsInv'
  BY <1>7, AttemptsQuiet DEF Exit, Crash, ForgetProcess
<1>8. ASSUME Recover PROVE AttemptsInv'
  BY <1>8, AttemptsFrame, OnlyFailureCounts, OnlyNewRowsAreQueued DEF Recover
<1>. QED BY <1>1, <1>2, <1>3, <1>4, <1>5, <1>6, <1>7, <1>8

\* The operator, the run loop, claiming, the fetch threads and the drains.
LEMMA LoopAttempts ==
  ASSUME TypeOK, TypeOK', AttemptsInv
  PROVE  /\ (Pause \/ Resume \/ RequestStop) => AttemptsInv'
         /\ (LoopTop \/ StopSeen \/ PauseSeen \/ Proceed \/ ProceedMisread) => AttemptsInv'
         /\ (CancelRequested \/ ResourceExceeded \/ GatePassed) => AttemptsInv'
         /\ (ClaimClosed \/ Submit \/ WaitDone \/ DrainRest) => AttemptsInv'
         /\ PassEnds => AttemptsInv'
         /\ (\E B \in SUBSET Pending(rows), w \in 1 .. Concurrency, width \in Widths :
               ClaimBatch(B, w, width)) => AttemptsInv'
         /\ (\E u \in Requests :
               \/ FetchStart(u) \/ (\E how \in FetchOutcomes : FetchEnd(u, how))
               \/ FetchMisread(u)) => AttemptsInv'
<1>. USE DEF SetupPCs, WritingPCs
<1>1. ASSUME Pause \/ Resume \/ RequestStop PROVE AttemptsInv'
  BY <1>1, AttemptsQuiet DEF Pause, Resume, RequestStop, OperatorWrites
<1>2. ASSUME LoopTop \/ StopSeen \/ PauseSeen \/ Proceed \/ ProceedMisread
      PROVE AttemptsInv'
  BY <1>2, AttemptsQuiet DEF LoopTop, StopSeen, PauseSeen, Proceed, ProceedMisread,
     LetThrough
<1>3. ASSUME CancelRequested \/ ResourceExceeded \/ GatePassed PROVE AttemptsInv'
  BY <1>3, AttemptsQuiet DEF CancelRequested, ResourceExceeded, GatePassed
<1>4. ASSUME ClaimClosed \/ Submit \/ WaitDone \/ DrainRest PROVE AttemptsInv'
  BY <1>4, AttemptsQuiet DEF ClaimClosed, Submit, WaitDone, DrainRest
<1>5. ASSUME PassEnds PROVE AttemptsInv'
  <2>1. pc' \notin SetupPCs \cup HoldingPCs
    BY <1>5 DEF PassEnds, AfterPass, TypeOK, ProcessTypes, Modes
  <2>. QED BY <1>5, <2>1, AttemptsQuiet DEF PassEnds
<1>6. ASSUME NEW B \in SUBSET Pending(rows), NEW w \in 1 .. Concurrency,
             NEW width \in Widths, ClaimBatch(B, w, width)
      PROVE  AttemptsInv'
  <2>1. /\ rows' = Claim(rows, B) /\ current' = current /\ run' = run
        /\ pc' \in {"submit", "wait", "aggregate"}
    BY <1>6, Zenon DEF ClaimBatch
  <2>. QED BY <2>1, AttemptsFrame, OnlyFailureCounts, OnlyNewRowsAreQueued DEF TypeOK,
       StoreTypes
<1>7. ASSUME NEW u \in Requests,
             FetchStart(u) \/ (\E how \in FetchOutcomes : FetchEnd(u, how)) \/ FetchMisread(u)
      PROVE  AttemptsInv'
  <2>1. rows' = rows /\ run' = run /\ current' = current /\ pc' = pc
    BY <1>7, Zenon DEF FetchStart, FetchEnd, FetchMisread
  <2>. QED BY <2>1, AttemptsQuiet
<1>. QED BY <1>1, <1>2, <1>3, <1>4, <1>5, <1>6, <1>7

\* A request that is settled unsuccessfully uses the attempt it has left.
LEMMA SettleAttempts ==
  ASSUME TypeOK, TypeOK', AttemptsInv, SettleWrites, pc = "settle", run' = run,
         pc' \notin SetupPCs \cup HoldingPCs
  PROVE  AttemptsInv'
<1>. rows \in Tables /\ current \in Requests
  BY DEF TypeOK, StoreTypes, ControlOK, WritingPCs
<1>1. CASE outcome \in {"policy", "stopped"}
  BY <1>1, AttemptsQuiet DEF SettleWrites
<1>2. CASE outcome = "extract"
  <2>1. rows' = MarkDone(rows, current, "failed", "extract")
    BY <1>2 DEF SettleWrites
  <2>2. \A u \in Requests : rows'[u].status \in Queued => rows[u].status \in Queued
    BY <2>1, OnlyClaimTakes, SettlesOneRow DEF Queued
  <2>. QED BY <2>1, <2>2, OnlyFailureCounts, AttemptsFrame
<1>3. CASE outcome \notin {"extract", "policy", "stopped"}
  <2>. DEFINE error == IF outcome = "session" THEN "session" ELSE "fetch"
              again == outcome = "transient"
  <2>1. rows' = MarkFailed(rows, current, error, again)
    BY <1>3 DEF SettleWrites
  <2>. HIDE DEF error, again
  <2>2. \A u \in Requests : u # current => rows'[u] = rows[u]
    BY <2>1, SettlesOneRow
  <2>3. /\ rows'[current].attempts = rows[current].attempts + 1
        /\ rows'[current].status \in Queued => rows[current].attempts + 1 < MaxAttempts
    BY <2>1, FailureCountsOne
  <2>4. rows[current].attempts <= Tries + run - 2
    BY DEF AttemptsInv, WriteHasTry, WritingPCs
  <2>5. /\ Tries \in Nat /\ Tries >= MaxAttempts /\ run \in Nat /\ run >= 1 /\ Tries' = Tries
        /\ \A u \in Requests : rows[u].attempts \in Nat
    BY CountsAreNumbers DEF Tries
  <2>6. AttemptsBound'
    <3>. SUFFICES ASSUME NEW u \in Requests PROVE rows'[u].attempts <= Tries + run - 1
      BY DEF AttemptsBound, Tries
    <3>1. rows[u].attempts <= Tries + run - 1
      BY DEF AttemptsInv, AttemptsBound, Tries
    <3>. QED BY <2>2, <2>3, <2>4, <2>5, <3>1
  <2>7. QueuedHasTry'
    <3>. SUFFICES ASSUME NEW u \in Requests, rows'[u].status \in Queued
                  PROVE  rows'[u].attempts <= Tries + run - 2
      BY <2>5 DEF QueuedHasTry
    <3>1. CASE u = current
      BY <2>3, <2>5, <3>1, MaxAttemptsNat
    <3>2. CASE u # current
      BY <2>2, <3>2 DEF AttemptsInv, QueuedHasTry
    <3>. QED BY <3>1, <3>2
  <2>. QED BY <2>6, <2>7 DEF AttemptsInv, SetupLeavesTry, WriteHasTry
<1>. QED BY <1>1, <1>2, <1>3

\* The transactions of consume() and the ways out of it.
LEMMA ConsumeAttempts ==
  ASSUME TypeOK, TypeOK', HolderOwnsClaim, AttemptsInv
  PROVE  /\ (\E u \in Requests : Consume(u) \/ Await(u)) => AttemptsInv'
         /\ (\E how \in FetchOutcomes : ResultArrives(how)) => AttemptsInv'
         /\ (\E final \in Requests : HandleDelivered(final)) => AttemptsInv'
         /\ Alias => AttemptsInv'
         /\ Mark => AttemptsInv'
         /\ (\E how \in Thrown : StoreFails(how) \/ CallbackRaises(how)) => AttemptsInv'
         /\ Checkpoint => AttemptsInv'
         /\ (\E found \in SUBSET Requests : HandleFailed(found)) => AttemptsInv'
         /\ (HandleRefused \/ RefusedMisread \/ HandleReleased) => AttemptsInv'
         /\ Settle => AttemptsInv'
         /\ HookRaises => AttemptsInv'
         /\ HandlerFails => AttemptsInv'
<1>. rows \in Tables
  BY DEF TypeOK, StoreTypes
<1>a. pc \in WritingPCs => current \in Requests
  BY DEF TypeOK, ControlOK
<1>1. ASSUME NEW u \in Requests, Consume(u) \/ Await(u) PROVE AttemptsInv'
  <2>1. rows[u].status \in Queued
    BY <1>1 DEF Consume, Await, Finished, FetchOutcomes, HolderOwnsClaim, Queued
  <2>2. rows[u].attempts <= Tries + run - 2
    BY <2>1 DEF AttemptsInv, QueuedHasTry
  <2>3. /\ rows' = rows /\ run' = run /\ current' = u /\ pc' \in {"handle", "await"}
        /\ Tries' = Tries
    BY <1>1 DEF Consume, Await, Tries
  <2>. QED BY <2>2, <2>3 DEF AttemptsInv, AttemptsBound, SetupLeavesTry, QueuedHasTry,
       WriteHasTry, SetupPCs
<1>. USE DEF SetupPCs, WritingPCs
<1>2. ASSUME NEW final \in Requests, HandleDelivered(final) PROVE AttemptsInv'
  BY <1>2, AttemptsFrame, OnlyFailureCounts, OnlyNewRowsAreQueued DEF HandleDelivered
<1>3. ASSUME Alias PROVE AttemptsInv'
  <2>1. target \in Requests
    BY <1>3 DEF Alias, TypeOK, ControlOK
  <2>2. \A u \in Requests : rows'[u].attempts <= rows[u].attempts
    BY <1>3, <2>1, OnlyFailureCounts, CountsAreNumbers DEF Alias
  <2>3. \A u \in Requests : rows'[u].status \in Queued => rows[u].status \in Queued
    BY <1>3, <2>1, OnlyNewRowsAreQueued DEF Alias
  <2>. QED BY <1>3, <2>2, <2>3, AttemptsFrame DEF Alias
<1>4. ASSUME Mark PROVE AttemptsInv'
  <2>1. \A u \in Requests : u # current => rows'[u] = rows[u]
    BY <1>4, <1>a, SettlesOneRow DEF Mark
  <2>. QED BY <1>4, <1>a, <2>1, AttemptsFrame, OnlyFailureCounts DEF Mark
<1>5. ASSUME Checkpoint PROVE AttemptsInv'
  BY <1>5, AttemptsQuiet DEF Checkpoint
<1>6. ASSUME NEW found \in SUBSET Requests, HandleFailed(found) PROVE AttemptsInv'
  BY <1>6, AttemptsFrame, OnlyFailureCounts, OnlyNewRowsAreQueued DEF HandleFailed
<1>7. ASSUME HandleRefused \/ RefusedMisread \/ HandleReleased PROVE AttemptsInv'
  <2>1. /\ pc = "handle" /\ run' = run /\ pc' \in {"settle", "consume"}
        /\ pc' = "settle" => current' = current
    BY <1>7 DEF HandleRefused, RefusedMisread, Refused, HandleReleased
  <2>2. \E status, error : rows' = MarkDone(rows, current, status, error)
    BY <1>7, Zenon DEF HandleRefused, RefusedMisread, Refused, HandleReleased
  <2>3. \A u \in Requests : u # current => rows'[u] = rows[u]
    BY <1>a, <2>1, <2>2, SettlesOneRow
  <2>4. \A u \in Requests : rows'[u].attempts <= rows[u].attempts
    BY <1>a, <2>1, <2>2, OnlyFailureCounts
  <2>. QED BY <1>a, <2>1, <2>3, <2>4, AttemptsFrame
<1>8. ASSUME Settle PROVE AttemptsInv'
  BY <1>8, SettleAttempts DEF Settle
<1>9. ASSUME HookRaises \/ HandlerFails PROVE AttemptsInv'
  <2>1. pc' \notin SetupPCs \cup HoldingPCs
    BY <1>9 DEF HookRaises, HandlerFails, RaiseOutOfConsume, AfterPass, TypeOK,
         ProcessTypes, Modes
  <2>. QED BY <1>9, <2>1, SettleAttempts, AttemptsQuiet DEF HookRaises, HandlerFails
<1>10. ASSUME NEW how \in Thrown, StoreFails(how) \/ CallbackRaises(how) PROVE AttemptsInv'
  <2>1. /\ pc \in WritingPCs /\ run' = run /\ pc' = "settle" /\ current' = current
        /\ ThrownUnder(how)
    BY <1>10 DEF StoreFails, CallbackRaises, ThrownUnder
  <2>2. \A u \in Requests : u # current => rows'[u] = rows[u]
    BY <2>1, ThrownWrites
  <2>3. \A u \in Requests : rows'[u].attempts <= rows[u].attempts
    <3>1. CASE how = "policy"
      BY <1>a, <2>1, <3>1, OnlyFailureCounts DEF ThrownUnder
    <3>2. CASE how # "policy"
      BY <2>1, <3>2, CountsAreNumbers DEF ThrownUnder
    <3>. QED BY <3>1, <3>2
  <2>. QED BY <2>1, <2>2, <2>3, AttemptsFrame
<1>11. ASSUME NEW how \in FetchOutcomes, ResultArrives(how) PROVE AttemptsInv'
  BY <1>11, AttemptsQuiet DEF ResultArrives
<1>. QED BY <1>1, <1>2, <1>3, <1>4, <1>5, <1>6, <1>7, <1>8, <1>9, <1>10, <1>11

\* The end of a run.
LEMMA ExitAttempts ==
  ASSUME TypeOK, TypeOK', AttemptsInv
  PROVE  /\ (Aggregate \/ Export \/ Report \/ AfterFinish \/ Finish) => AttemptsInv'
         /\ (LoopError \/ LateError \/ ReportRaises) => AttemptsInv'
         /\ (InterruptLoop \/ InterruptDrain \/ InterruptExit) => AttemptsInv'
<1>. USE DEF SetupPCs, WritingPCs
<1>1. ASSUME Aggregate \/ Export \/ Report \/ AfterFinish \/ Finish PROVE AttemptsInv'
  BY <1>1, AttemptsQuiet DEF Aggregate, Export, Report, AfterFinish, Finish
<1>2. ASSUME LoopError \/ LateError \/ ReportRaises PROVE AttemptsInv'
  BY <1>2, AttemptsQuiet DEF LoopError, LateError, Aborts, ReportRaises
<1>3. ASSUME InterruptLoop \/ InterruptDrain \/ InterruptExit PROVE AttemptsInv'
  <2>1. pc' \notin SetupPCs \cup HoldingPCs
    BY <1>3 DEF InterruptLoop, InterruptDrain, InterruptExit, AfterPass
  <2>. QED BY <1>3, <2>1, AttemptsQuiet DEF InterruptLoop, InterruptDrain, InterruptExit
<1>. QED BY <1>1, <1>2, <1>3

\* Every step of the program, its operator and its faults.
LEMMA StepAttempts ==
  TypeOK /\ TypeOK' /\ HolderOwnsClaim /\ AttemptsInv /\ [Next]_vars => AttemptsInv'
<1>. SUFFICES ASSUME TypeOK, TypeOK', HolderOwnsClaim, AttemptsInv, [Next]_vars
              PROVE  AttemptsInv'
  OBVIOUS
<1>1. CASE MainThread
  BY <1>1, SetupAttempts, LoopAttempts, ConsumeAttempts, ExitAttempts DEF MainThread
<1>2. CASE Fetches
  BY <1>2, LoopAttempts, ConsumeAttempts DEF Fetches
<1>3. CASE Failures
  BY <1>3, SetupAttempts, LoopAttempts, ConsumeAttempts, ExitAttempts DEF Failures
<1>4. CASE Operator
  BY <1>4, SetupAttempts, LoopAttempts DEF Operator
<1>5. CASE UNCHANGED vars
  BY <1>5, AttemptsQuiet DEF vars
<1>. QED BY <1>1, <1>2, <1>3, <1>4, <1>5 DEF Next

\* A request gets at most http.retries attempts in its first run and one more in each
\* later one, whether its row is reset, forced back, released by a drain, repaired after
\* a crash or found again on another page.
THEOREM AttemptsAreBounded == Spec => []AttemptsBound
<1>1. Init => AttemptsInv
  <2>. SUFFICES ASSUME Init PROVE AttemptsInv
    OBVIOUS
  <2>1. \A u \in Requests : rows[u].attempts = 0 /\ rows[u].status = "absent"
    BY DEF Init, NoRow
  <2>2. Tries \in Nat /\ Tries >= 1 /\ run = 0 /\ pc = "down"
    BY MaxAttemptsNat DEF Init, Tries
  <2>. QED BY <2>1, <2>2 DEF AttemptsInv, AttemptsBound, SetupLeavesTry, QueuedHasTry,
       WriteHasTry,
           Tries, Queued, SetupPCs, WritingPCs
<1>2. AttemptsInv => AttemptsBound
  BY DEF AttemptsInv
<1>. QED BY <1>1, <1>2, TypeCorrect, ClaimsAreExclusive, StepAttempts, PTL DEF Spec

-----------------------------------------------------------------------------
(* The crawl implements RequestLedger                                      *)

\* The crawl as RequestLedger sees it.
LedgerNow == [u \in Requests |-> StateOf(u)]

\* A step of the ledger or none.
LedgerStep == [Ledger!Next]_<<LedgerNow, InLoop>>

\* The row consume() is about to settle has been claimed; an exception after the mark
\* may have found it settled.
SettlesOnce == pc = "settle" => rows[current].status \notin {"absent", "pending"}

\* So has every row consume() holds.
LEMMA HeldIsClaimed ==
  ASSUME TypeOK, HolderOwnsClaim, OwnerInv, SettlesOnce, pc \in HoldingPCs
  PROVE  /\ current \in Requests /\ InLoop
         /\ rows[current].status \in {"in_progress"} \cup Settled
<1>1. current \in Requests /\ rows[current] \in Row
  BY DEF TypeOK, StoreTypes, ControlOK, Tables
<1>2. rows[current].status \notin {"absent", "pending"}
  BY DEF HolderOwnsClaim, OwnerInv, WriteReleases, SettlesOnce, WritingPCs
<1>3. InLoop
  BY DEF InLoop, Up, SetupPCs, WritingPCs
<1>. QED BY <1>1, <1>2, <1>3 DEF Row, Statuses, Settled

\* SettlesOnce is about one moment of consume(), which HandleFailed, the refusals,
\* StoreFails and CallbackRaises begin.
LEMMA StepSettlesOnce ==
  ASSUME TypeOK, HolderOwnsClaim, OwnerInv, SettlesOnce, [Next]_vars
  PROVE  SettlesOnce'
<1>. rows \in Tables /\ (pc \in WritingPCs => current \in Requests)
  BY DEF TypeOK, StoreTypes, ControlOK
<1>1. CASE \E how \in Thrown : StoreFails(how) \/ CallbackRaises(how)
  <2>1. PICK how \in Thrown : StoreFails(how) \/ CallbackRaises(how)
    BY <1>1
  <2>2. pc \in WritingPCs /\ current' = current /\ ThrownUnder(how)
    BY <2>1 DEF StoreFails, CallbackRaises, WritingPCs
  <2>3. rows[current].status \notin {"absent", "pending"}
    BY <2>2, HeldIsClaimed DEF Settled
  <2>4. rows'[current].status \notin {"absent", "pending"}
    BY <2>2, <2>3, ThrownWrites
  <2>. QED BY <2>2, <2>4 DEF SettlesOnce
<1>2. CASE \E found \in SUBSET Requests : HandleFailed(found)
  <2>1. PICK found \in SUBSET Requests : HandleFailed(found)
    BY <1>2
  <2>2. /\ pc = "handle" /\ rows' = Discover(rows, found) /\ current' = current
    BY <2>1 DEF HandleFailed
  <2>3. rows[current].status = "in_progress" /\ current \in Requests
    BY <2>2 DEF HolderOwnsClaim, WritingPCs
  <2>4. rows'[current].status = "in_progress"
    BY <2>2, <2>3 DEF Discover
  <2>. QED BY <2>2, <2>4 DEF SettlesOnce
<1>3. CASE HandleRefused \/ RefusedMisread
  <2>1. pc = "handle" /\ current' = current /\ Refused
    BY <1>3 DEF HandleRefused, RefusedMisread
  <2>2. rows'[current].status = "blocked"
    BY <2>1, RefusalWrites
  <2>. QED BY <2>1, <2>2 DEF SettlesOnce
<1>4. CASE Fetches \/ Operator \/ UNCHANGED vars
  <2>1. pc' = "settle" => pc' = pc /\ rows' = rows /\ current' = current
    BY <1>4 DEF Fetches, FetchStart, FetchEnd, ResultArrives, Operator, Start, Recover,
       Pause, Resume, RequestStop, OperatorWrites, CancelRequested, vars
  <2>. QED BY <2>1 DEF SettlesOnce
<1>5. CASE MainThread /\ ~HandleRefused
           /\ ~(\E found \in SUBSET Requests : HandleFailed(found))
  <2>1. mode \in Modes
    BY DEF TypeOK, ProcessTypes
  <2>2. \/ Prepare \/ Retry \/ Seeded \/ LimitsAccepted
        \/ \E u \in Requests : SeedOne(u) \/ Consume(u) \/ Await(u)
        => pc' # "settle"
    BY DEF Prepare, Retry, Seeded, LimitsAccepted, SeedOne, Consume, Await
  <2>3. (LoopTop \/ StopSeen \/ PauseSeen \/ Proceed \/ GatePassed \/ ClaimClosed \/ Submit
           \/ WaitDone \/ DrainRest) => pc' # "settle"
    BY DEF LoopTop, StopSeen, PauseSeen, Proceed, LetThrough, GatePassed, ClaimClosed,
         Submit, WaitDone, DrainRest
  <2>4. PassEnds => pc' # "settle"
    BY <2>1 DEF PassEnds, AfterPass, Modes
  <2>5. (\E B \in SUBSET Pending(rows), w \in 1 .. Concurrency, width \in Widths :
           ClaimBatch(B, w, width)) => pc' # "settle"
    BY DEF ClaimBatch
  <2>6. ((\E final \in Requests : HandleDelivered(final)) \/ HandleReleased \/ Alias \/ Mark
           \/ Checkpoint \/ Settle) => pc' # "settle"
    BY DEF HandleDelivered, HandleReleased, Alias, Mark, Checkpoint, Settle
  <2>7. (Aggregate \/ Export \/ Report \/ Finish \/ AfterFinish \/ Exit) => pc' # "settle"
    BY DEF Aggregate, Export, Report, Finish, AfterFinish, Exit, ForgetProcess
  <2>8. pc' # "settle"
    BY <1>5, <2>2, <2>3, <2>4, <2>5, <2>6, <2>7, Zenon DEF MainThread
  <2>. QED BY <2>8 DEF SettlesOnce
<1>6. CASE Failures /\ ~RefusedMisread
           /\ ~(\E how \in Thrown : StoreFails(how) \/ CallbackRaises(how))
  <2>1. mode \in Modes
    BY DEF TypeOK, ProcessTypes
  <2>2. (SetupFails \/ SetupReportRaises \/ LimitsRejected \/ InterruptSetup \/ Crash) => pc' # "settle"
    BY DEF SetupFails, SetupReportRaises, LimitsRejected, InterruptSetup, Crash,
         ForgetProcess
  <2>3. (HookRaises \/ HandlerFails) => pc' # "settle"
    BY <2>1 DEF HookRaises, HandlerFails, RaiseOutOfConsume, AfterPass, Modes
  <2>4. (ResourceExceeded \/ LoopError \/ LateError \/ ReportRaises \/ ProceedMisread)
          => pc' # "settle"
    BY DEF ResourceExceeded, LoopError, LateError, Aborts, ReportRaises, ProceedMisread,
       LetThrough
  <2>5. (InterruptLoop \/ InterruptDrain \/ InterruptExit) => pc' # "settle"
    BY <2>1 DEF InterruptLoop, InterruptDrain, InterruptExit, AfterPass, Modes
  <2>6. CASE \E u \in Requests : FetchMisread(u)
    <3>1. pc' = pc /\ rows' = rows /\ current' = current
      BY <2>6 DEF FetchMisread
    <3>. QED BY <3>1 DEF SettlesOnce
  <2>7. CASE ~(\E u \in Requests : FetchMisread(u))
    <3>1. pc' # "settle"
      BY <1>6, <2>2, <2>3, <2>4, <2>5, <2>7, Zenon DEF Failures
    <3>. QED BY <3>1 DEF SettlesOnce
  <2>. QED BY <2>6, <2>7
<1>. QED BY <1>1, <1>2, <1>3, <1>4, <1>5, <1>6 DEF Next

-----------------------------------------------------------------------------
(* Steps of the table as steps of the ledger                               *)

\* Every request is where it was.
LEMMA LedgerSame ==
  ASSUME InLoop' = InLoop, \A u \in Requests : StateOf(u)' = StateOf(u) PROVE LedgerStep
  BY DEF LedgerStep, LedgerNow

\* The table, the crawl and the hands of consume() stay as they are.
LEMMA LedgerStutters ==
  ASSUME rows' = rows, InLoop' = InLoop, current' = current PROVE LedgerStep
  BY LedgerSame DEF StateOf

\* consume() writes the row of the request it holds, and goes on holding it.
LEMMA LedgerHolds ==
  ASSUME InLoop' = InLoop, current' = current,
         \A v \in Requests : v # current => rows'[v] = rows[v]
  PROVE  LedgerStep
  BY LedgerSame DEF StateOf

\* A process goes: the ledger is closed, with what it held as it was written.
LEMMA LedgerCloses ==
  ASSUME TypeOK, HolderOwnsClaim, OwnerInv, SettlesOnce,
         rows' = rows, ~InLoop', current' = NoRequest
  PROVE  LedgerStep
<1>. DEFINE S == {u \in Requests : u = current /\ rows[u].status \in Settled}
<1>1. InLoop \in BOOLEAN /\ InLoop' = FALSE
  BY DEF InLoop, Up
<1>2. current \in Requests => pc \in HoldingPCs
  BY TopologyOK DEF TypeOK, ControlOK
<1>3. \A u \in Requests : LedgerNow'[u] = LedgerOf(rows[u].status)
  BY TopologyOK DEF LedgerNow, StateOf
<1>4. CASE InLoop
  <2>1. \A u \in Requests : LedgerNow'[u] = IF u \in S THEN "settled" ELSE StateOf(u)
    <3>. SUFFICES ASSUME NEW u \in Requests
                  PROVE  LedgerNow'[u] = IF u \in S THEN "settled" ELSE StateOf(u)
      OBVIOUS
    <3>1. CASE u = current
      BY <1>2, <1>3, <3>1, HeldIsClaimed DEF StateOf, LedgerOf, Settled
    <3>2. CASE u # current
      BY <1>3, <3>2 DEF StateOf
    <3>. QED BY <3>1, <3>2
  <2>2. LedgerNow' = [u \in Requests |-> IF u \in S THEN "settled" ELSE StateOf(u)]
    BY <2>1 DEF LedgerNow
  <2>3. \A u \in S : StateOf(u) = "taken"
    BY DEF StateOf
  <2>4. Ledger!With(S, "settled") =
          [u \in Requests |-> IF u \in S THEN "settled" ELSE StateOf(u)]
    BY DEF Ledger!With
  <2>5. Ledger!Close(S)
    BY <1>1, <1>4, <2>2, <2>3, <2>4 DEF Ledger!Close, LedgerNow
  <2>. QED BY <2>5 DEF LedgerStep, Ledger!Next
<1>5. CASE ~InLoop
  <2>1. current = NoRequest
    BY <1>2, <1>5, HeldIsClaimed DEF TypeOK, ProcessTypes
  <2>2. InLoop' = InLoop
    BY <1>1, <1>5
  <2>. QED BY <2>1, <2>2, LedgerStutters
<1>. QED BY <1>4, <1>5

\* A loop begins: the ledger is opened.
LEMMA LedgerOpens ==
  ASSUME rows' = rows, ~InLoop, InLoop', InStatus(rows, {"in_progress"}) = {},
         current = NoRequest, current' = current
  PROVE  LedgerStep
<1>1. InLoop' = TRUE
  BY DEF InLoop, Up
<1>2. \A u \in Requests : StateOf(u) # "taken"
  BY TopologyOK DEF StateOf, LedgerOf, InStatus
<1>3. \A u \in Requests : StateOf(u)' = StateOf(u)
  BY DEF StateOf
<1>4. Ledger!Open
  BY <1>1, <1>2, <1>3 DEF Ledger!Open
<1>. QED BY <1>4 DEF LedgerStep, Ledger!Next

\* The setup of a run, and a recovery between runs.
LEMMA LedgerReopens ==
  ASSUME ~InLoop, ~InLoop', rows \in Tables, rows' \in Tables,
         current = NoRequest, current' = NoRequest,
         \A u \in Requests : rows'[u].status \notin {"absent", "pending"} =>
           LedgerOf(rows'[u].status) = LedgerOf(rows[u].status)
  PROVE  LedgerStep
<1>1. InLoop' = InLoop
  BY DEF InLoop, Up
<1>a. \A u \in Requests : StateOf(u) = LedgerOf(rows[u].status)
  BY TopologyOK DEF StateOf
<1>2. LedgerNow' = [u \in Requests |-> LedgerOf(rows'[u].status)]
  BY TopologyOK DEF LedgerNow, StateOf
<1>3. LedgerNow' \in [Requests -> {"unknown", "todo", "taken", "settled"}]
  BY <1>2 DEF LedgerOf
<1>4. \A u \in Requests : LedgerNow'[u] \in {"taken", "settled"} =>
        LedgerNow'[u] = LedgerOf(rows[u].status)
  BY <1>2 DEF LedgerOf
<1>5. Ledger!Reopen
  BY <1>1, <1>a, <1>3, <1>4 DEF Ledger!Reopen, LedgerNow
<1>. QED BY <1>5 DEF LedgerStep, Ledger!Next

\* A claim takes entries that were to do.
LEMMA LedgerTakes ==
  ASSUME InLoop, InLoop', rows \in Tables, current = NoRequest, current' = NoRequest,
         NEW B \in SUBSET Pending(rows), rows' = Claim(rows, B)
  PROVE  LedgerStep
<1>1. InLoop' = InLoop
  BY DEF InLoop, Up
<1>2. B \subseteq Requests /\ \A u \in B : rows[u].status = "pending"
  BY DEF Pending, InStatus
<1>3. \A u \in Requests : rows'[u].status = IF u \in B THEN "in_progress" ELSE rows[u].status
  BY <1>2, SMT DEF Claim, Tables, Row
<1>a. \A u \in Requests : StateOf(u) = LedgerOf(rows[u].status)
  BY TopologyOK DEF StateOf
<1>4. LedgerNow' = [u \in Requests |-> IF u \in B THEN "taken" ELSE StateOf(u)]
  BY <1>3, <1>a, TopologyOK DEF LedgerNow, LedgerOf, StateOf
<1>5. \A u \in B : StateOf(u) = "todo"
  BY <1>2, <1>a DEF LedgerOf
<1>6. Ledger!With(B, "taken") = [u \in Requests |-> IF u \in B THEN "taken" ELSE StateOf(u)]
  BY DEF Ledger!With
<1>7. Ledger!Take(B)
  BY <1>1, <1>2, <1>4, <1>5, <1>6 DEF Ledger!Take, LedgerNow
<1>. QED BY <1>2, <1>7 DEF LedgerStep, Ledger!Next

\* Rows come in, as work to do.
LEMMA LedgerAdmits ==
  ASSUME InLoop' = InLoop, rows \in Tables, current' = current,
         current \in Requests, rows[current].status # "absent",
         NEW S \in SUBSET Requests, rows' = Discover(rows, S)
  PROVE  LedgerStep
<1>. DEFINE New == {u \in S : rows[u].status = "absent"}
<1>1. \A u \in Requests : rows'[u].status = IF u \in New THEN "pending" ELSE rows[u].status
  BY SMT DEF Discover, Tables, Row, NoRow
<1>2. \A u \in Requests : StateOf(u)' = IF u \in New THEN "todo" ELSE StateOf(u)
  BY <1>1 DEF StateOf, LedgerOf
<1>3. LedgerNow' = [u \in Requests |-> IF u \in New THEN "todo" ELSE StateOf(u)]
  BY <1>2 DEF LedgerNow
<1>4. Ledger!With(New, "todo") = [u \in Requests |-> IF u \in New THEN "todo" ELSE StateOf(u)]
  BY DEF Ledger!With
<1>5. \A u \in New : StateOf(u) = "unknown"
  BY DEF StateOf, LedgerOf
<1>6. Ledger!Admit(New)
  BY <1>3, <1>4, <1>5 DEF Ledger!Admit, LedgerNow
<1>. QED BY <1>6 DEF LedgerStep, Ledger!Next

\* A redirect target becomes done, unless it was in progress or is done.
LEMMA LedgerAbsorbs ==
  ASSUME InLoop' = InLoop, current' = current, NEW u \in Requests, u # current,
         \A v \in Requests : v # u => rows'[v].status = rows[v].status,
         \/ rows[u].status \in {"absent", "pending"} /\ rows'[u].status = "done"
         \/ rows[u].status \in Settled /\ rows'[u].status \in Settled
         \/ rows'[u].status = rows[u].status
  PROVE  LedgerStep
<1>1. LedgerNow' = [LedgerNow EXCEPT ![u] = LedgerOf(rows'[u].status)]
  BY DEF LedgerNow, StateOf
<1>2. CASE rows[u].status \in {"absent", "pending"} /\ rows'[u].status = "done"
  <2>1. StateOf(u) \in {"unknown", "todo"} /\ LedgerOf(rows'[u].status) = "settled"
    BY <1>2 DEF StateOf, LedgerOf
  <2>2. Ledger!Absorb(u)
    BY <1>1, <2>1 DEF Ledger!Absorb, LedgerNow
  <2>. QED BY <2>2 DEF LedgerStep, Ledger!Next
<1>3. CASE LedgerOf(rows'[u].status) = LedgerOf(rows[u].status)
  <2>1. \A v \in Requests : StateOf(v)' = StateOf(v)
    BY <1>3 DEF StateOf
  <2>. QED BY <2>1, LedgerSame
<1>. QED BY <1>2, <1>3 DEF LedgerOf, Settled

\* consume() puts a request down: it is resolved, unless its row is left in progress.
LEMMA LedgerPutsDown ==
  ASSUME InLoop' = InLoop, current \in Requests, current' = NoRequest,
         \A v \in Requests : v # current => rows'[v] = rows[v],
         rows'[current].status \in {"pending", "in_progress"} \cup Settled
  PROVE  LedgerStep
<1>. DEFINE mark == LedgerOf(rows'[current].status)
<1>1. LedgerNow' = [LedgerNow EXCEPT ![current] = mark]
  BY TopologyOK DEF LedgerNow, StateOf
<1>2. LedgerNow[current] = "taken"
  BY DEF LedgerNow, StateOf
<1>3. CASE rows'[current].status = "in_progress"
  <2>1. \A v \in Requests : StateOf(v)' = StateOf(v)
    BY <1>3, TopologyOK DEF StateOf, LedgerOf
  <2>. QED BY <2>1, LedgerSame
<1>4. CASE rows'[current].status \in {"pending"} \cup Settled
  <2>1. mark \in {"todo", "settled"}
    BY <1>4 DEF LedgerOf, Settled
  <2>. HIDE DEF mark
  <2>2. Ledger!With({}, "todo") = LedgerNow
    BY DEF Ledger!With, LedgerNow
  <2>3. Ledger!Resolve(current, mark, {})
    BY <1>1, <1>2, <2>2 DEF Ledger!Resolve, LedgerNow
  <2>. QED BY <2>1, <2>3 DEF LedgerStep, Ledger!Next
<1>. QED BY <1>3, <1>4

\* An exception or an interrupt leaves the table as it is and empties the hands.
LEMMA LedgerLetsGo ==
  ASSUME TypeOK, HolderOwnsClaim, OwnerInv, SettlesOnce,
         rows' = rows, InLoop' = InLoop, current' = NoRequest
  PROVE  LedgerStep
<1>1. CASE pc \in HoldingPCs
  BY <1>1, HeldIsClaimed, LedgerPutsDown
<1>2. CASE pc \notin HoldingPCs
  BY <1>2, LedgerStutters DEF TypeOK, ControlOK
<1>. QED BY <1>1, <1>2

\* Only the setup of a run, a recovery and the transactions below write rows.
LEMMA SetupLedger ==
  ASSUME TypeOK, TypeOK', HolderOwnsClaim, OwnerInv, SettlesOnce
  PROVE  /\ (\E resume, retry \in BOOLEAN : Start(resume, retry)) => LedgerStep
         /\ Prepare => LedgerStep
         /\ Retry => LedgerStep
         /\ (\E u \in Requests : SeedOne(u)) => LedgerStep
         /\ Seeded => LedgerStep
         /\ LimitsAccepted => LedgerStep
         /\ (SetupFails \/ SetupReportRaises \/ LimitsRejected \/ InterruptSetup) => LedgerStep
         /\ (Exit \/ Crash) => LedgerStep
         /\ Recover => LedgerStep
<1>. rows \in Tables /\ rows' \in Tables /\ \A u \in Requests : rows[u] \in Row
  BY DEF TypeOK, StoreTypes, Tables
<1>a. pc \in SetupPCs \cup {"down"} => current = NoRequest
  BY DEF TypeOK, ControlOK, SetupPCs, WritingPCs
<1>1. ASSUME \E resume, retry \in BOOLEAN : Start(resume, retry) PROVE LedgerStep
  <2>1. rows' = rows /\ InLoop' = InLoop /\ current' = current
    BY <1>1 DEF Start, InLoop, Up, SetupPCs
  <2>. QED BY <2>1, LedgerStutters
<1>2. ASSUME Prepare PROVE LedgerStep
  <2>1. \A a, b : \A u \in Requests :
          PrepareCycle(rows, a, b)[u].status \notin {"absent", "pending"} =>
            PrepareCycle(rows, a, b)[u].status = rows[u].status
    BY SMT DEF PrepareCycle, NoRow, Reset, Row
  <2>2. ~InLoop /\ ~InLoop' /\ current = NoRequest /\ current' = NoRequest
    BY <1>a, <1>2 DEF Prepare, InLoop, SetupPCs
  <2>. QED BY <1>2, <2>1, <2>2, LedgerReopens DEF Prepare
<1>3. ASSUME Retry PROVE LedgerStep
  <2>1. \A u \in Requests :
          RetryFailed(rows)[u].status \notin {"absent", "pending"} =>
            RetryFailed(rows)[u].status = rows[u].status
    BY SMT DEF RetryFailed, Reset, Row
  <2>2. /\ ~InLoop /\ ~InLoop' /\ current = NoRequest /\ current' = NoRequest
        /\ rows' \in {rows, RetryFailed(rows)}
    BY <1>a, <1>3 DEF Retry, InLoop, SetupPCs
  <2>. QED BY <2>1, <2>2, LedgerReopens
<1>4. ASSUME NEW w \in Requests, SeedOne(w) PROVE LedgerStep
  <2>1. \A u \in Requests :
          EnqueueForced(rows, w)[u].status \notin {"absent", "pending"} =>
            EnqueueForced(rows, w)[u].status = rows[u].status
    BY SMT DEF EnqueueForced, Requeued, NoRow, Row, Tables
  <2>2. /\ ~InLoop /\ ~InLoop' /\ current = NoRequest /\ current' = NoRequest
        /\ rows' = EnqueueForced(rows, w)
    BY <1>a, <1>4 DEF SeedOne, InLoop, SetupPCs
  <2>. QED BY <2>1, <2>2, LedgerReopens
<1>5. ASSUME Seeded PROVE LedgerStep
  <2>1. rows' = rows /\ InLoop' = InLoop /\ current' = current
    BY <1>5 DEF Seeded, InLoop, Up, SetupPCs
  <2>. QED BY <2>1, LedgerStutters
<1>6. ASSUME LimitsAccepted PROVE LedgerStep
  <2>1. /\ rows' = rows /\ ~InLoop /\ InLoop' /\ InStatus(rows, {"in_progress"}) = {}
        /\ current = NoRequest /\ current' = current
    BY <1>a, <1>6 DEF LimitsAccepted, InLoop, Up, SetupPCs, OwnerInv, SetupReleases
  <2>. QED BY <2>1, LedgerOpens
<1>7. ASSUME SetupFails \/ SetupReportRaises \/ LimitsRejected \/ InterruptSetup \/ Exit \/ Crash
      PROVE  LedgerStep
  <2>1. rows' = rows /\ ForgetProcess
    BY <1>7 DEF SetupFails, SetupReportRaises, LimitsRejected, InterruptSetup, Exit, Crash
  <2>2. ~InLoop' /\ current' = NoRequest
    BY <2>1 DEF ForgetProcess, InLoop, Up
  <2>. QED BY <2>1, <2>2, LedgerCloses
<1>8. ASSUME Recover PROVE LedgerStep
  <2>1. \A u \in Requests :
          ReleaseClaims(rows)[u].status \notin {"absent", "pending"} =>
            ReleaseClaims(rows)[u].status = rows[u].status
    BY SMT DEF ReleaseClaims, Row
  <2>2. /\ ~InLoop /\ ~InLoop' /\ current = NoRequest /\ current' = NoRequest
        /\ rows' = ReleaseClaims(rows)
    BY <1>a, <1>8 DEF Recover, InLoop, Up
  <2>. QED BY <2>1, <2>2, LedgerReopens
<1>. QED BY <1>1, <1>2, <1>3, <1>4, <1>5, <1>6, <1>7, <1>8

\* The loop takes requests and leaves the table alone otherwise.
LEMMA LoopLedger ==
  ASSUME TypeOK
  PROVE  /\ (Pause \/ Resume \/ RequestStop \/ CancelRequested) => LedgerStep
         /\ (LoopTop \/ StopSeen \/ PauseSeen \/ Proceed \/ ProceedMisread \/ GatePassed)
              => LedgerStep
         /\ (ClaimClosed \/ Submit \/ WaitDone \/ DrainRest \/ ResourceExceeded) => LedgerStep
         /\ PassEnds => LedgerStep
         /\ (\E B \in SUBSET Pending(rows), w \in 1 .. Concurrency, width \in Widths :
               ClaimBatch(B, w, width)) => LedgerStep
         /\ Fetches => LedgerStep
         /\ (\E u \in Requests : FetchMisread(u)) => LedgerStep
<1>1. ASSUME Pause \/ Resume \/ RequestStop \/ CancelRequested PROVE LedgerStep
  <2>1. rows' = rows /\ InLoop' = InLoop /\ current' = current
    BY <1>1 DEF Pause, Resume, RequestStop, OperatorWrites, CancelRequested, InLoop, Up,
         SetupPCs
  <2>. QED BY <2>1, LedgerStutters
<1>2. ASSUME LoopTop \/ StopSeen \/ PauseSeen \/ Proceed \/ ProceedMisread \/ GatePassed
      PROVE LedgerStep
  <2>1. rows' = rows /\ InLoop' = InLoop /\ current' = current
    BY <1>2 DEF LoopTop, StopSeen, PauseSeen, Proceed, ProceedMisread, LetThrough,
       GatePassed, InLoop, Up, SetupPCs
  <2>. QED BY <2>1, LedgerStutters
<1>3. ASSUME ClaimClosed \/ Submit \/ WaitDone \/ DrainRest \/ ResourceExceeded
      PROVE LedgerStep
  <2>1. rows' = rows /\ InLoop' = InLoop /\ current' = current
    BY <1>3 DEF ClaimClosed, Submit, WaitDone, DrainRest, ResourceExceeded, InLoop, Up,
         SetupPCs
  <2>. QED BY <2>1, LedgerStutters
<1>4. ASSUME PassEnds PROVE LedgerStep
  <2>1. mode \in Modes
    BY DEF TypeOK, ProcessTypes
  <2>2. rows' = rows /\ InLoop' = InLoop /\ current' = current
    BY <1>4, <2>1 DEF PassEnds, AfterPass, Modes, InLoop, Up, SetupPCs
  <2>. QED BY <2>2, LedgerStutters
<1>5. ASSUME NEW B \in SUBSET Pending(rows), NEW w \in 1 .. Concurrency, NEW width \in Widths,
             ClaimBatch(B, w, width)
      PROVE  LedgerStep
  <2>1. /\ pc = "claim" /\ pc' \in {"submit", "wait", "aggregate"} /\ rows' = Claim(rows, B)
        /\ current' = current
    BY <1>5, Zenon DEF ClaimBatch
  <2>2. InLoop /\ InLoop' /\ rows \in Tables /\ current = NoRequest
    BY <2>1 DEF InLoop, Up, SetupPCs, TypeOK, StoreTypes, ControlOK, WritingPCs
  <2>. QED BY <2>1, <2>2, LedgerTakes
<1>6. ASSUME Fetches \/ \E u \in Requests : FetchMisread(u) PROVE LedgerStep
  <2>1. rows' = rows /\ InLoop' = InLoop /\ current' = current
    BY <1>6 DEF Fetches, FetchStart, FetchEnd, ResultArrives, FetchMisread, InLoop, Up,
       SetupPCs
  <2>. QED BY <2>1, LedgerStutters
<1>. QED BY <1>1, <1>2, <1>3, <1>4, <1>5, <1>6

\* The second transaction of an unsuccessful outcome resolves the request, or
\* leaves it settled.
LEMMA SettleLedger ==
  ASSUME TypeOK, OwnerInv, SettlesOnce, pc = "settle", SettleWrites, InLoop' = InLoop
  PROVE  LedgerStep
<1>1. rows \in Tables /\ current \in Requests /\ current' = NoRequest
  BY DEF TypeOK, StoreTypes, ControlOK, WritingPCs, SettleWrites, PutDown
<1>2. rows[current] \in Row /\ rows[current].status \in {"in_progress"} \cup Settled
  BY <1>1 DEF SettlesOnce, Tables, Row, Statuses, Settled
<1>3. \A v \in Requests : v # current => rows'[v] = rows[v]
  BY SettleReleases
<1>4. rows'[current].status \in {"pending", "in_progress"} \cup Settled
  <2>1. CASE outcome = "extract"
    <3>1. rows' = MarkDone(rows, current, "failed", "extract")
      BY <2>1 DEF SettleWrites
    <3>. QED BY <1>1, <3>1, OnlyClaimTakes DEF Settled
  <2>2. CASE outcome \in {"policy", "stopped"}
    BY <1>2, <2>2 DEF SettleWrites
  <2>3. CASE outcome \notin {"extract", "policy", "stopped"}
    <3>. DEFINE why == IF outcome = "session" THEN "session" ELSE "fetch"
    <3>1. rows' = MarkFailed(rows, current, why, outcome = "transient")
      BY <2>3 DEF SettleWrites
    <3>. HIDE DEF why
    <3>. QED BY <1>1, <3>1, OnlyClaimTakes DEF Settled
  <2>. QED BY <2>1, <2>2, <2>3
<1>. QED BY <1>1, <1>3, <1>4, LedgerPutsDown

\* The transactions of consume().
LEMMA ConsumeLedger ==
  ASSUME TypeOK, HolderOwnsClaim, OwnerInv, SettlesOnce
  PROVE  /\ (\E u \in Requests : Consume(u) \/ Await(u)) => LedgerStep
         /\ (\E final \in Requests : HandleDelivered(final)) => LedgerStep
         /\ Alias => LedgerStep
         /\ Mark => LedgerStep
         /\ Checkpoint => LedgerStep
         /\ (\E how \in Thrown : StoreFails(how) \/ CallbackRaises(how)) => LedgerStep
         /\ (\E found \in SUBSET Requests : HandleFailed(found)) => LedgerStep
         /\ (HandleRefused \/ RefusedMisread) => LedgerStep
         /\ HandleReleased => LedgerStep
         /\ Settle => LedgerStep
         /\ HookRaises => LedgerStep
         /\ HandlerFails => LedgerStep
<1>. rows \in Tables /\ (pc \in WritingPCs => current \in Requests) /\ mode \in Modes
  BY DEF TypeOK, StoreTypes, ControlOK, ProcessTypes
<1>1. ASSUME NEW u \in Requests, Consume(u) \/ Await(u) PROVE LedgerStep
  <2>1. /\ rows' = rows /\ InLoop' = InLoop /\ current' = u /\ pc = "consume"
        /\ fetch[u] # "none"
    BY <1>1 DEF Consume, Await, Finished, FetchOutcomes, InLoop, Up, SetupPCs
  <2>2. current = NoRequest /\ rows[u].status = "in_progress"
    BY <2>1 DEF TypeOK, ControlOK, WritingPCs, HolderOwnsClaim
  <2>3. \A v \in Requests : StateOf(v)' = StateOf(v)
    BY <2>1, <2>2, TopologyOK DEF StateOf, LedgerOf
  <2>. QED BY <2>1, <2>3, LedgerSame
<1>2. ASSUME NEW final \in Requests, HandleDelivered(final) PROVE LedgerStep
  <2>1. /\ rows' = Discover(rows, Links[current]) /\ InLoop' = InLoop /\ pc = "handle"
        /\ Links[current] \in SUBSET Requests /\ current' = current
    BY <1>2, TopologyOK DEF HandleDelivered, WritingPCs, InLoop, Up, SetupPCs
  <2>2. current \in Requests /\ rows[current].status # "absent"
    BY <2>1 DEF HolderOwnsClaim, WritingPCs
  <2>. QED BY <2>1, <2>2, LedgerAdmits
<1>3. ASSUME Alias PROVE LedgerStep
  <2>1. /\ InLoop' = InLoop /\ current' = current
        /\ target \in Requests /\ rows[target] \in Row
    BY <1>3 DEF Alias, InLoop, Up, SetupPCs, TypeOK, ControlOK, Tables
  <2>2. CASE target = current
    BY <1>3, <2>1, <2>2, LedgerStutters DEF Alias
  <2>3. CASE target # current
    <3>1. rows' = MarkRedirectTargetDone(rows, target)
      BY <1>3, <2>3 DEF Alias
    <3>2. \A v \in Requests : v # target => rows'[v] = rows[v]
      BY <2>1, <3>1 DEF MarkRedirectTargetDone, Tables
    <3>3. rows'[target].status = IF rows[target].status = "in_progress" THEN "in_progress" ELSE "done"
      BY <2>1, <3>1 DEF MarkRedirectTargetDone, NoRow, Row, Tables, Statuses
    <3>. QED BY <2>1, <2>3, <3>2, <3>3, LedgerAbsorbs DEF Row, Statuses, Settled
  <2>. QED BY <2>2, <2>3
<1>4. ASSUME Mark \/ HandleRefused \/ RefusedMisread PROVE LedgerStep
  <2>1. /\ pc \in WritingPCs /\ InLoop' = InLoop /\ current' = current
    BY <1>4 DEF Mark, HandleRefused, RefusedMisread, Refused, WritingPCs, InLoop, Up,
       SetupPCs
  <2>2. \E status, error : rows' = MarkDone(rows, current, status, error)
    BY <1>4, Zenon DEF Mark, HandleRefused, RefusedMisread, Refused
  <2>3. \A v \in Requests : v # current => rows'[v] = rows[v]
    BY <2>1, <2>2, SettlesOneRow
  <2>. QED BY <2>1, <2>3, LedgerHolds
<1>5. ASSUME Checkpoint PROVE LedgerStep
  <2>1. rows' = rows /\ InLoop' = InLoop /\ current' = NoRequest
    BY <1>5 DEF Checkpoint, PutDown, InLoop, Up, SetupPCs
  <2>. QED BY <2>1, LedgerLetsGo
<1>6. ASSUME NEW found \in SUBSET Requests, HandleFailed(found) PROVE LedgerStep
  <2>1. rows' = Discover(rows, found) /\ InLoop' = InLoop /\ pc = "handle" /\ current' = current
    BY <1>6 DEF HandleFailed, InLoop, Up, SetupPCs
  <2>2. current \in Requests /\ rows[current].status # "absent"
    BY <2>1 DEF HolderOwnsClaim, WritingPCs
  <2>. QED BY <2>1, <2>2, LedgerAdmits
<1>7. ASSUME Settle PROVE LedgerStep
  <2>1. pc = "settle" /\ SettleWrites /\ InLoop' = InLoop
    BY <1>7 DEF Settle, InLoop, Up, SetupPCs
  <2>. QED BY <2>1, SettleLedger
<1>8. ASSUME HookRaises \/ HandlerFails PROVE LedgerStep
  <2>1. pc' \in {"top", "aggregate", "report", "finish", "exit", "drain"}
    BY <1>8 DEF HookRaises, HandlerFails, RaiseOutOfConsume, AfterPass, Modes
  <2>2. pc \in WritingPCs /\ InLoop' = InLoop
    BY <1>8, <2>1 DEF HookRaises, HandlerFails, WritingPCs, InLoop, Up, SetupPCs
  <2>3. CASE HookRaises
    BY <2>2, <2>3, SettleLedger DEF HookRaises
  <2>4. CASE HandlerFails
    BY <2>2, <2>4, LedgerLetsGo DEF HandlerFails, PutDown
  <2>. QED BY <1>8, <2>3, <2>4
<1>9. ASSUME NEW how \in Thrown, StoreFails(how) \/ CallbackRaises(how) PROVE LedgerStep
  <2>1. /\ pc \in WritingPCs /\ InLoop' = InLoop /\ current' = current /\ ThrownUnder(how)
    BY <1>9 DEF StoreFails, CallbackRaises, ThrownUnder, WritingPCs, InLoop, Up, SetupPCs
  <2>. QED BY <2>1, ThrownWrites, LedgerHolds
<1>10. ASSUME HandleReleased PROVE LedgerStep
  <2>1. /\ pc = "handle" /\ InLoop' = InLoop /\ current' = NoRequest
        /\ rows' = MarkDone(rows, current, "pending", "none")
    BY <1>10 DEF HandleReleased, PutDown, InLoop, Up, SetupPCs
  <2>2. current \in Requests
    BY <2>1 DEF WritingPCs
  <2>3. /\ rows'[current].status = "pending"
        /\ \A v \in Requests : v # current => rows'[v] = rows[v]
    BY <2>1, <2>2, OnlyClaimTakes, SettlesOneRow
  <2>. QED BY <2>1, <2>2, <2>3, LedgerPutsDown
<1>. QED BY <1>1, <1>2, <1>3, <1>4, <1>5, <1>6, <1>7, <1>8, <1>9, <1>10

\* The end of the run writes no rows and closes the crawl last.
LEMMA ExitLedger ==
  ASSUME TypeOK, HolderOwnsClaim, OwnerInv, SettlesOnce
  PROVE  /\ (Aggregate \/ Export \/ Report \/ Finish \/ AfterFinish) => LedgerStep
         /\ (LoopError \/ LateError \/ ReportRaises) => LedgerStep
         /\ (InterruptLoop \/ InterruptDrain \/ InterruptExit) => LedgerStep
<1>1. ASSUME Aggregate \/ Export \/ Report \/ Finish \/ AfterFinish PROVE LedgerStep
  <2>1. rows' = rows /\ InLoop' = InLoop /\ current' = current
    BY <1>1 DEF Aggregate, Export, Report, Finish, AfterFinish, InLoop, Up, SetupPCs
  <2>. QED BY <2>1, LedgerStutters
<1>2. ASSUME LoopError \/ LateError \/ ReportRaises PROVE LedgerStep
  <2>1. rows' = rows /\ InLoop' = InLoop /\ current' = current
    BY <1>2 DEF LoopError, LateError, ReportRaises, Aborts, InLoop, Up, SetupPCs
  <2>. QED BY <2>1, LedgerStutters
<1>3. ASSUME InterruptLoop \/ InterruptDrain \/ InterruptExit PROVE LedgerStep
  <2>1. rows' = rows /\ InLoop /\ InLoop' /\ current' = NoRequest
    BY <1>3 DEF InterruptLoop, InterruptDrain, InterruptExit, PutDown, AfterPass, InLoop,
         Up, SetupPCs, TypeOK, ControlOK
  <2>2. InLoop' = InLoop
    BY <2>1 DEF InLoop, Up
  <2>. QED BY <2>1, <2>2, LedgerLetsGo
<1>. QED BY <1>1, <1>2, <1>3

\* Every step of the program, its operator and its faults.
LEMMA StepLedger ==
  ASSUME TypeOK, TypeOK', HolderOwnsClaim, OwnerInv, SettlesOnce, [Next]_vars
  PROVE  LedgerStep
<1>. USE SetupLedger, LoopLedger, ConsumeLedger, ExitLedger
<1>1. CASE MainThread
  BY <1>1, Zenon DEF MainThread
<1>2. CASE Fetches
  BY <1>2
<1>3. CASE Failures
  BY <1>3, Zenon DEF Failures
<1>4. CASE Operator
  BY <1>4, Zenon DEF Operator
<1>5. CASE UNCHANGED vars
  <2>1. rows' = rows /\ InLoop' = InLoop /\ current' = current
    BY <1>5 DEF vars, InLoop, Up
  <2>. QED BY <2>1, LedgerStutters
<1>. QED BY <1>1, <1>2, <1>3, <1>4, <1>5 DEF Next

\* The queue, the loop, its fetch threads and its restarts implement RequestLedger:
\* a request is taken by one claim at a time, consume() puts it down once for each time
\* it was taken, settled or back in the queue, whatever exceptions its handlers met, and
\* what was put down settled is reopened between two loops only.
THEOREM CrawlKeepsLedger == Spec => ImplementsLedger
<1>1. Init => Ledger!Init
  BY TopologyOK DEF Init, Ledger!Init, NoRow, StateOf, LedgerOf, InLoop, Up
<1>2. Init => SettlesOnce
  BY DEF Init, SettlesOnce
<1>3. TypeOK /\ HolderOwnsClaim /\ OwnerInv /\ SettlesOnce /\ [Next]_vars => SettlesOnce'
  BY StepSettlesOnce
<1>4. TypeOK /\ TypeOK' /\ HolderOwnsClaim /\ OwnerInv /\ SettlesOnce /\ [Next]_vars
        => [Ledger!Next]_(Ledger!ledgerVars)
  BY StepLedger DEF LedgerStep, LedgerNow, Ledger!ledgerVars
<1>. QED BY <1>1, <1>2, <1>3, <1>4, TypeCorrect, ClaimsAreExclusive, OwnersAreKept, PTL
         DEF Spec, ImplementsLedger, Ledger!Spec
=============================================================================

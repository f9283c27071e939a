----------------------------- MODULE GuardProofs -----------------------------
(***************************************************************************)
(* What must survive a crash, an exception or another thread at any step:  *)
(* the limits of the egress broker, the commits of a delivery, the repair  *)
(* of a rule and the update of the program, each for every value of its    *)
(* constants.                                                              *)
(***************************************************************************)
EXTENDS EgressBroker, ExportCommit, RepairLoop, Updater, FiniteSetTheorems, TLAPS

-----------------------------------------------------------------------------
(* The egress broker                                                       *)

\* The requests that hold one of the broker's slots.
Slots == {f \in Fetchers : route[f] \in Holding}

\* The counter of slots is the number of their holders, whoever waits or returns one.
SlotsInv ==
  /\ IsFiniteSet(Slots) /\ active = Cardinality(Slots) /\ active <= MaximumConcurrency

\* Each budget is checked and booked in one step.
BudgetInv == requests <= MaximumRequests /\ bytes <= MaximumBytes

\* A circuit that opened had its failures, and opens again at the next one.
CircuitInv ==
  /\ circuit.open # "no" => circuit.failures >= CircuitThreshold
  /\ TrippedCircuitReopens

\* No reading of the control file is newer than the file, and a cache with the file's
\* stamp holds its content unless two writes shared a stamp or the last answer was that
\* of a stat or read that failed.
CacheInv ==
  /\ control.stamp = 0 => ~control.stop
  /\ cache.stamp <= control.stamp
  /\ \A f \in Fetchers : observed[f] <= control.stamp
  /\ coarseWrites = 0 /\ cache.stamp = control.stamp /\ ~misread
       => cache.stop = control.stop

\* The inductive invariant of the broker: EgressLimitsHold is not one, since it counts
\* slots without saying whose they are.
EgressInv == EgressTypeOK /\ SlotsInv /\ BudgetInv /\ CircuitInv /\ CacheInv

\* A new broker has neither requests nor failures.
LEMMA EgressInitInv == EgressInit => EgressInv
<1>. SUFFICES ASSUME EgressInit PROVE EgressInv
  OBVIOUS
<1>1. Slots = {}
  BY DEF EgressInit, Slots, Holding
<1>2. EgressTypeOK
  BY EgressConstants DEF EgressInit, EgressTypeOK, ControlFile, Holding
<1>3. SlotsInv
  BY <1>1, FS_EmptySet, EgressConstants DEF EgressInit, SlotsInv
<1>4. BudgetInv /\ CircuitInv /\ CacheInv
  BY EgressConstants DEF EgressInit, BudgetInv, CircuitInv, TrippedCircuitReopens, CacheInv
<1>. QED BY <1>2, <1>3, <1>4 DEF EgressInv

\* What an admission or refusal assigns.
LEMMA AdmissionTypes ==
  ASSUME EgressTypeOK, NEW f \in Fetchers, NEW s \in BOOLEAN, Admission(f, s)
  PROVE  /\ route' \in [Fetchers -> {"idle", "enter", "enterRead", "report"} \cup Holding]
         /\ lock' \in Fetchers \cup {Nobody} /\ active' \in Nat
BY DEF Admission, To, EgressTypeOK, Holding

\* Every step keeps the types of the broker's state.
LEMMA EgressStepTypes ==
  EgressTypeOK /\ [EgressNext]_egressVars => EgressTypeOK'
<1>. SUFFICES ASSUME EgressTypeOK, [EgressNext]_egressVars PROVE EgressTypeOK'
  OBVIOUS
<1>. USE EgressConstants DEF EgressTypeOK, ControlFile, controlVars
<1>1. ASSUME NEW o \in Operators, EndUpdate(o) PROVE EgressTypeOK'
  <2>1. CASE control' = [stop |-> draft[o] = "stop", stamp |-> control.stamp + 1]
    BY <1>1, <2>1 DEF EndUpdate
  <2>2. CASE control' = [control EXCEPT !.stop = (draft[o] = "stop")]
    <3>1. control' \in [stop : BOOLEAN, stamp : Nat]
      BY <2>2
    <3>. QED BY <1>1, <3>1 DEF EndUpdate
  <2>. QED BY <1>1, <2>1, <2>2 DEF EndUpdate
<1>2. ASSUME NEW o \in Operators, NEW flag \in {"stop", "go", "keep"}, BeginUpdate(o, flag)
      PROVE EgressTypeOK'
  BY <1>2 DEF BeginUpdate
<1>3. ASSUME NEW f \in Fetchers, BeginRequest(f) PROVE EgressTypeOK'
  BY <1>3 DEF BeginRequest, To
<1>4. ASSUME NEW f \in Fetchers, Stat(f) PROVE EgressTypeOK'
  <2>0. cache.stop \in BOOLEAN
    OBVIOUS
  <2>1. CASE /\ cache' = [stop |-> FALSE, stamp |-> 0]
             /\ Admission(f, FALSE) /\ UNCHANGED observed
    <3>1. /\ route' \in [Fetchers -> {"idle", "enter", "enterRead", "report"} \cup Holding]
          /\ lock' \in Fetchers \cup {Nobody} /\ active' \in Nat
      BY <2>1, AdmissionTypes, FALSE \in BOOLEAN
    <3>2. misread' \in BOOLEAN
      BY <1>4 DEF Stat
    <3>. QED BY <1>4, <2>1, <3>1, <3>2 DEF Stat
  <2>3. CASE Admission(f, cache.stop) /\ UNCHANGED <<cache, misread, observed>>
    BY <1>4, <2>0, <2>3, AdmissionTypes DEF Stat
  <2>2. CASE To(f, IF route[f] = "enter" THEN "enterRead" ELSE "authRead")
             /\ UNCHANGED <<cache, misread, lock, active>>
    BY <1>4, <2>2 DEF Stat, To, Holding
  <2>. QED BY <1>4, <2>1, <2>2, <2>3 DEF Stat
<1>5. ASSUME NEW f \in Fetchers, ReadControl(f) PROVE EgressTypeOK'
  <2>1. control.stop \in BOOLEAN /\ Admission(f, control.stop)
    BY <1>5 DEF ReadControl
  <2>2. /\ route' \in [Fetchers -> {"idle", "enter", "enterRead", "report"} \cup Holding]
        /\ lock' \in Fetchers \cup {Nobody} /\ active' \in Nat
    BY <2>1, AdmissionTypes
  <2>. QED BY <1>5, <2>2 DEF ReadControl
<1>6. ASSUME NEW f \in Fetchers, Admit(f) PROVE EgressTypeOK'
  BY <1>6 DEF Admit, HalfOpen, To, Holding
<1>7. ASSUME NEW f \in Fetchers, Respond(f) PROVE EgressTypeOK'
  BY <1>7 DEF Respond, To, Holding
<1>8. ASSUME NEW f \in Fetchers, Break(f) PROVE EgressTypeOK'
  BY <1>8 DEF Break, To, Holding
<1>9. ASSUME NEW f \in Fetchers, RecordSuccess(f) PROVE EgressTypeOK'
  BY <1>9 DEF RecordSuccess, To, Holding
<1>10. ASSUME NEW f \in Fetchers, LeaveRequest(f) PROVE EgressTypeOK'
  BY <1>10 DEF LeaveRequest, To, Holding
<1>11. ASSUME NEW f \in Fetchers, RecordFailure(f) PROVE EgressTypeOK'
  BY <1>11 DEF RecordFailure, To, Holding
<1>12. CASE CircuitCools
  BY <1>12 DEF CircuitCools
<1>13. CASE Disconnect
  BY <1>13 DEF Disconnect
<1>14. CASE UNCHANGED egressVars
  BY <1>14 DEF egressVars
<1>15. ASSUME NEW f \in Fetchers, StatFails(f) \/ ReadFails(f) PROVE EgressTypeOK'
  <2>1. Admission(f, FALSE)
    BY <1>15 DEF StatFails, ReadFails
  <2>2. /\ route' \in [Fetchers -> {"idle", "enter", "enterRead", "report"} \cup Holding]
        /\ lock' \in Fetchers \cup {Nobody} /\ active' \in Nat
    BY <2>1, AdmissionTypes, FALSE \in BOOLEAN
  <2>3. CASE StatFails(f)
    BY <2>2, <2>3 DEF StatFails
  <2>4. CASE ReadFails(f)
    BY <2>2, <2>4 DEF ReadFails
  <2>. QED BY <1>15, <2>3, <2>4
<1>. QED BY <1>1, <1>2, <1>3, <1>4, <1>5, <1>6, <1>7, <1>8, <1>9, <1>10, <1>11, <1>12,
     <1>13, <1>14, <1>15
     DEF EgressNext, FetcherStep

\* A request that is admitted adds itself to the holders.
LEMMA SlotTaken ==
  ASSUME EgressTypeOK, SlotsInv, NEW f \in Fetchers, route[f] \notin Holding, active < MaximumConcurrency,
         NEW p \in Holding, route' = [route EXCEPT ![f] = p], active' = active + 1
  PROVE  SlotsInv'
<1>1. Slots' = Slots \cup {f} /\ f \notin Slots
  BY DEF EgressTypeOK, Slots
<1>2. IsFiniteSet(Slots') /\ Cardinality(Slots') = Cardinality(Slots) + 1
  BY <1>1, FS_AddElement DEF SlotsInv
<1>. QED BY <1>2, EgressConstants DEF SlotsInv, EgressTypeOK

\* A holder that goes on stays the same holder.
LEMMA SlotKept ==
  ASSUME EgressTypeOK, SlotsInv, NEW f \in Fetchers,
         NEW p, route' = [route EXCEPT ![f] = p],
         route[f] \in Holding <=> p \in Holding, active' = active
  PROVE  SlotsInv'
<1>1. Slots' = Slots
  BY DEF EgressTypeOK, Slots
<1>. QED BY <1>1 DEF SlotsInv

\* One that ends leaves the others.
LEMMA SlotReturned ==
  ASSUME EgressTypeOK, SlotsInv, NEW f \in Fetchers, route[f] \in Holding,
         NEW p, p \notin Holding, route' = [route EXCEPT ![f] = p],
         active' = IF active > 0 THEN active - 1 ELSE 0
  PROVE  SlotsInv'
<1>1. Slots' = Slots \ {f} /\ f \in Slots
  BY DEF EgressTypeOK, Slots
<1>2. IsFiniteSet(Slots') /\ Cardinality(Slots') = Cardinality(Slots) - 1
  BY <1>1, FS_RemoveElement DEF SlotsInv
<1>3. Cardinality(Slots) \in Nat /\ Cardinality(Slots) # 0
  BY <1>1, FS_CardinalityType, FS_EmptySet DEF SlotsInv
<1>. QED BY <1>2, <1>3, EgressConstants DEF SlotsInv, EgressTypeOK

\* An admission counts the slot it hands out.
LEMMA AdmissionSlots ==
  ASSUME EgressTypeOK, SlotsInv, NEW f \in Fetchers, NEW s \in BOOLEAN,
         route[f] \in {"enter", "enterRead", "auth", "authRead"}, Admission(f, s)
  PROVE  SlotsInv'
<1>1. CASE route[f] \in {"enter", "enterRead"}
           /\ (s \/ disconnected \/ active >= MaximumConcurrency)
  BY <1>1, SlotKept DEF Admission, To, Holding
<1>2. CASE route[f] \in {"enter", "enterRead"}
           /\ ~(s \/ disconnected \/ active >= MaximumConcurrency)
  <2>1. active < MaximumConcurrency
    BY <1>2, EgressConstants DEF EgressTypeOK
  <2>. QED BY <1>2, <2>1, SlotTaken DEF Admission, To, Holding
<1>3. CASE route[f] \in {"auth", "authRead"}
  BY <1>3, SlotKept DEF Admission, To, Holding
<1>. QED BY <1>1, <1>2, <1>3

\* Every step keeps the invariant.
LEMMA EgressStep == EgressInv /\ [EgressNext]_egressVars => EgressInv'
<1>. SUFFICES ASSUME EgressInv, [EgressNext]_egressVars PROVE EgressInv'
  OBVIOUS
<1>0. EgressTypeOK' /\ EgressTypeOK /\ SlotsInv /\ BudgetInv /\ CircuitInv /\ CacheInv
  BY EgressStepTypes DEF EgressInv
<1>. DEFINE Rest == BudgetInv /\ CircuitInv /\ CacheInv
<1>. USE EgressConstants DEF controlVars
<1>a. ASSUME UNCHANGED <<active, route>> PROVE SlotsInv'
  BY <1>0, <1>a DEF SlotsInv, Slots
<1>b. ASSUME UNCHANGED <<requests, bytes>> PROVE BudgetInv'
  BY <1>0, <1>b DEF BudgetInv
<1>c. ASSUME UNCHANGED <<circuit, tripped>> PROVE CircuitInv'
  BY <1>0, <1>c DEF CircuitInv, TrippedCircuitReopens
<1>d. ASSUME UNCHANGED <<control, coarseWrites, cache, misread, observed>> PROVE CacheInv'
  BY <1>0, <1>d DEF CacheInv
<1>1. ASSUME NEW o \in Operators, EndUpdate(o) PROVE SlotsInv' /\ Rest'
  <2>1. CacheInv'
    BY <1>0, <1>1 DEF EndUpdate, CacheInv, EgressTypeOK, ControlFile
  <2>. QED BY <1>1, <1>a, <1>b, <1>c, <2>1 DEF EndUpdate
<1>2. ASSUME NEW o \in Operators, NEW flag \in {"stop", "go", "keep"}, BeginUpdate(o, flag)
      PROVE  SlotsInv' /\ Rest'
  BY <1>2, <1>a, <1>b, <1>c, <1>d DEF BeginUpdate
<1>3. ASSUME NEW f \in Fetchers, BeginRequest(f) PROVE SlotsInv' /\ Rest'
  BY <1>0, <1>3, <1>b, <1>c, <1>d, SlotKept DEF BeginRequest, To, Holding
<1>4. ASSUME NEW f \in Fetchers, Stat(f) PROVE SlotsInv' /\ Rest'
  <2>1. CASE control.stamp = 0 /\ cache' = [stop |-> FALSE, stamp |-> 0]
             /\ Admission(f, FALSE) /\ UNCHANGED observed
    <3>1. ~control.stop /\ control.stop \in BOOLEAN /\ control.stamp \in Nat
      BY <1>0, <2>1 DEF CacheInv, EgressTypeOK, ControlFile
    <3>2. /\ cache'.stop = control.stop /\ cache'.stamp = 0
          /\ UNCHANGED <<control, coarseWrites, observed>>
      BY <1>4, <2>1, <3>1 DEF Stat
    <3>3. CacheInv'
      BY <1>0, <3>1, <3>2 DEF CacheInv
    <3>. QED BY <1>0, <1>4, <1>b, <1>c, <2>1, <3>3, AdmissionSlots DEF Stat
  <2>2. CASE Admission(f, cache.stop) /\ UNCHANGED <<cache, misread, observed>>
    <3>1. cache.stop \in BOOLEAN
      BY <1>0 DEF EgressTypeOK, ControlFile
    <3>. QED BY <1>0, <1>4, <1>b, <1>c, <1>d, <2>2, <3>1, AdmissionSlots DEF Stat
  <2>3. CASE /\ observed' = [observed EXCEPT ![f] = control.stamp]
             /\ To(f, IF route[f] = "enter" THEN "enterRead" ELSE "authRead")
             /\ UNCHANGED <<cache, misread, lock, active>>
    <3>1. CacheInv'
      BY <1>0, <1>4, <2>3 DEF Stat, CacheInv, EgressTypeOK, ControlFile
    <3>2. SlotsInv'
      BY <1>0, <1>4, <2>3, SlotKept DEF Stat, To, Holding
    <3>. QED BY <1>4, <1>b, <1>c, <3>1, <3>2 DEF Stat
  <2>. QED BY <1>4, <2>1, <2>2, <2>3 DEF Stat
<1>5. ASSUME NEW f \in Fetchers, ReadControl(f) PROVE SlotsInv' /\ Rest'
  <2>1. CacheInv'
    BY <1>0, <1>5 DEF ReadControl, CacheInv, EgressTypeOK, ControlFile
  <2>2. control.stop \in BOOLEAN
    BY <1>0 DEF EgressTypeOK, ControlFile
  <2>. QED BY <1>0, <1>5, <1>b, <1>c, <2>1, <2>2, AdmissionSlots DEF ReadControl
<1>6. ASSUME NEW f \in Fetchers, Admit(f) PROVE SlotsInv' /\ Rest'
  <2>1. SlotsInv'
    BY <1>0, <1>6, SlotKept DEF Admit, To, Holding
  <2>2. BudgetInv'
    BY <1>0, <1>6 DEF Admit, BudgetInv, EgressTypeOK
  <2>3. CircuitInv'
    BY <1>0, <1>6 DEF Admit, HalfOpen, CircuitInv, TrippedCircuitReopens, EgressTypeOK
  <2>. QED BY <1>6, <1>d, <2>1, <2>2, <2>3 DEF Admit
<1>7. ASSUME NEW f \in Fetchers, Respond(f) PROVE SlotsInv' /\ Rest'
  <2>1. SlotsInv'
    BY <1>0, <1>7, SlotKept DEF Respond, To, Holding
  <2>2. BudgetInv'
    BY <1>0, <1>7 DEF Respond, BudgetInv, EgressTypeOK
  <2>. QED BY <1>7, <1>c, <1>d, <2>1, <2>2 DEF Respond
<1>8. ASSUME NEW f \in Fetchers, Break(f) PROVE SlotsInv' /\ Rest'
  BY <1>0, <1>8, <1>b, <1>c, <1>d, SlotKept DEF Break, To, Holding
<1>9. ASSUME NEW f \in Fetchers, RecordSuccess(f) PROVE SlotsInv' /\ Rest'
  <2>1. SlotsInv'
    BY <1>0, <1>9, SlotKept DEF RecordSuccess, To, Holding
  <2>2. CircuitInv'
    BY <1>9 DEF RecordSuccess, CircuitInv, TrippedCircuitReopens
  <2>. QED BY <1>9, <1>b, <1>d, <2>1, <2>2 DEF RecordSuccess
<1>10. ASSUME NEW f \in Fetchers, LeaveRequest(f) PROVE SlotsInv' /\ Rest'
  <2>1. SlotsInv'
    <3>1. route[f] \in Holding
      BY <1>10 DEF LeaveRequest, Holding
    <3>2. "report" \notin Holding /\ "idle" \notin Holding
      BY DEF Holding
    <3>. QED BY <1>0, <1>10, <3>1, <3>2, SlotReturned DEF LeaveRequest, To
  <2>. QED BY <1>10, <1>b, <1>c, <1>d, <2>1 DEF LeaveRequest
<1>11. ASSUME NEW f \in Fetchers, RecordFailure(f) PROVE SlotsInv' /\ Rest'
  <2>1. SlotsInv'
    BY <1>0, <1>11, SlotKept DEF RecordFailure, To, Holding
  <2>2. CircuitInv'
    BY <1>0, <1>11 DEF RecordFailure, CircuitInv, TrippedCircuitReopens, EgressTypeOK
  <2>. QED BY <1>11, <1>b, <1>d, <2>1, <2>2 DEF RecordFailure
<1>12. ASSUME CircuitCools PROVE SlotsInv' /\ Rest'
  <2>1. CircuitInv'
    BY <1>0, <1>12 DEF CircuitCools, CircuitInv, TrippedCircuitReopens, EgressTypeOK
  <2>. QED BY <1>12, <1>a, <1>b, <1>d, <2>1 DEF CircuitCools
<1>13. ASSUME Disconnect PROVE SlotsInv' /\ Rest'
  BY <1>13, <1>a, <1>b, <1>c, <1>d DEF Disconnect
<1>14. CASE UNCHANGED egressVars
  BY <1>0, <1>14, <1>a, <1>b, <1>c, <1>d DEF egressVars, EgressInv
<1>15. ASSUME NEW f \in Fetchers, StatFails(f) \/ ReadFails(f) PROVE SlotsInv' /\ Rest'
  <2>1. /\ Admission(f, FALSE) /\ misread' = TRUE
        /\ UNCHANGED <<controlVars, requests, bytes, circuit, tripped>>
    BY <1>15 DEF StatFails, ReadFails
  <2>2. /\ control.stamp \in Nat /\ observed \in [Fetchers -> Nat]
        /\ \A g \in Fetchers : observed[g] <= control.stamp
    BY <1>0 DEF CacheInv, EgressTypeOK, ControlFile
  <2>3. cache'.stamp <= control.stamp /\ \A g \in Fetchers : observed'[g] <= control.stamp
    <3>1. CASE StatFails(f)
      BY <2>2, <3>1 DEF StatFails
    <3>2. CASE ReadFails(f)
      BY <2>2, <3>2 DEF ReadFails
    <3>. QED BY <1>15, <3>1, <3>2
  <2>5. CacheInv'
    BY <1>0, <2>1, <2>3 DEF CacheInv
  <2>4. SlotsInv'
    BY <1>0, <1>15, <2>1, AdmissionSlots DEF StatFails, ReadFails
  <2>. QED BY <2>1, <2>4, <2>5, <1>b, <1>c
<1>. QED BY <1>0, <1>1, <1>2, <1>3, <1>4, <1>5, <1>6, <1>7, <1>8, <1>9, <1>10, <1>11,
     <1>12, <1>13, <1>14, <1>15
     DEF EgressNext, FetcherStep, EgressInv

\* However many threads fetch at once, the broker counts its slots exactly, stays within its
\* concurrency, request and byte limits, and a circuit that opened opens again at the next
\* failure.
THEOREM EgressLimitsAreKept == EgressSpec => []EgressLimitsHold
<1>1. EgressInv => EgressLimitsHold
  BY DEF EgressInv, SlotsInv, Slots, BudgetInv, CircuitInv, SlotsAreCounted,
       EgressLimitsHold
<1>. QED BY <1>1, EgressInitInv, EgressStep, PTL DEF EgressSpec

\* What StopIsSeen says of a step.
StopIsSeenNow ==
  control.stop /\ coarseWrites = 0 => \A f \in Fetchers : Passes(f) => misread'

\* A thread passes a check of the switches only on a reading as new as the file, or on
\* that of a stat or read that failed.
LEMMA StopStep == EgressInv /\ [EgressNext]_egressVars => StopIsSeenNow
<1>. SUFFICES ASSUME EgressInv, [EgressNext]_egressVars, control.stop, coarseWrites = 0,
                     NEW f \in Fetchers, Passes(f), ~misread'
              PROVE  FALSE
  BY DEF StopIsSeenNow
<1>0. /\ route[f] \in {"enter", "enterRead", "auth", "authRead"}
      /\ route'[f] # route[f] /\ route'[f] \in {"auth", "admit"}
  BY DEF Passes
<1>. USE DEF EgressInv, EgressTypeOK, controlVars, To
<1>1. ASSUME NEW g \in Fetchers, Stat(g), g = f PROVE FALSE
  <2>1. control.stamp # 0
    BY DEF CacheInv
  <2>2. ASSUME control.stamp = cache.stamp, misread' = misread PROVE cache.stop
    <3>1. ~misread
      BY <2>2, Zenon
    <3>2. cache.stop = control.stop
      BY <2>2, <3>1 DEF CacheInv
    <3>. QED BY <3>2, Zenon
  <2>3. CASE /\ control.stamp # 0 /\ control.stamp = cache.stamp
             /\ Admission(f, cache.stop)
             /\ UNCHANGED <<cache, misread, observed>>
    BY <1>0, <2>2, <2>3 DEF Admission, Passes
  <2>4. CASE To(f, IF route[f] = "enter" THEN "enterRead" ELSE "authRead")
    BY <1>0, <2>4
  <2>. QED BY <1>1, <2>1, <2>3, <2>4 DEF Stat
<1>2. ASSUME NEW g \in Fetchers, ReadControl(g), g = f PROVE FALSE
  BY <1>0, <1>2 DEF ReadControl, Admission, Passes
<1>3. ASSUME NEW g \in Fetchers, FetcherStep(g), g # f PROVE route'[f] = route[f]
  BY <1>3 DEF FetcherStep, BeginRequest, Stat, StatFails, ReadControl, ReadFails, Admission,
     Admit, Respond, Break, RecordSuccess, LeaveRequest, RecordFailure
<1>4. ASSUME FetcherStep(f) PROVE Stat(f) \/ ReadControl(f)
  BY <1>0, <1>4 DEF FetcherStep, StatFails, ReadFails, BeginRequest, Admit, Respond, Break,
     RecordSuccess, LeaveRequest, RecordFailure
<1>5. ASSUME ~ \E g \in Fetchers : FetcherStep(g) PROVE route' = route
  BY <1>5 DEF EgressNext, egressVars, EndUpdate, BeginUpdate, CircuitCools, Disconnect
<1>. QED BY <1>0, <1>1, <1>2, <1>3, <1>4, <1>5

\* For any number of threads and operators, no check of the switches passes while the file
\* says stop, unless two writes fell into one tick of the file's clock or the answer is
\* that of a stat or read of the file that failed; the next reading ends the latter.
THEOREM StopIsAlwaysSeen == EgressSpec => StopIsSeen
<1>1. EgressInv /\ [EgressNext]_egressVars => [StopIsSeenNow]_egressVars
  BY StopStep
<1>. QED BY <1>1, EgressInitInv, EgressStep, PTL DEF EgressSpec, StopIsSeen, StopIsSeenNow

-----------------------------------------------------------------------------
(* Delivery of a run                                                       *)

\* A task has a run that began, and a run that never began has no commit.
TaskInv ==
  /\ point = "idle" <=> task = NoTask
  /\ point # "idle" => task.kind # "none" /\ task.run \in Runs /\ status[task.run] # "none"
  /\ \A r \in Runs : status[r] = "none" => \A x \in Exporters : commits[r][x] = "none"

\* A receipt names files of the run that it belongs to.
ReceiptInv ==
  /\ receipt \in [Runs -> [version : Nat, files : File] \cup {Nothing}]
  /\ \A r \in Runs : receipt[r] # Nothing =>
       receipt[r].files = [run |-> r, version |-> receipt[r].version]

\* A digest is never newer than the input, and the files that a finished export commits
\* hold the input of the digest or of a later change.
DigestInv ==
  /\ \A r \in Runs : input[r] <= lastInput
  /\ point \in {"fresh", "stale", "write", "finish"} => digest <= input[task.run]
  /\ point = "fresh" => output = [run |-> task.run, version |-> digest]
  /\ point = "finish" =>
       \E v \in 0 .. lastInput : /\ output = [run |-> task.run, version |-> v]
                                 /\ digest <= v /\ v <= input[task.run]

\* The export at hand is of exporter x for run r.
Working(r, x) == UnderWay /\ task.run = r /\ Open = x

\* Only an export at hand, one that was interrupted or killed, or one whose run goes on is
\* left as running.
RunningInv ==
  \A r \in Runs, x \in Exporters :
    commits[r][x] = "running" /\ ~Working(r, x) =>
      \/ stranded[r]
      \/ status[r] \in {"running", "retrying"} /\ task # [kind |-> "run", run |-> r]

\* A submission to the plugin is counted before its commit, so that at most one of them
\* is unrecorded.
SubmitInv ==
  /\ point = "submit" => commits[task.run]["plugin"] # "succeeded"
  /\ \A r \in Runs :
       /\ submitted[r] <= repeats[r] + 1
       /\ commits[r]["plugin"] # "succeeded" /\ ~(point = "record" /\ task.run = r) =>
            submitted[r] <= repeats[r]

\* The inductive invariant of the delivery of runs: CommitsAreSettled and DeliveryIsCurrent
\* need what a receipt, a digest and a submission say of files and commits.
ExportInv == ExportTypeOK /\ TaskInv /\ ReceiptInv /\ DigestInv /\ RunningInv /\ SubmitInv

\* What most steps of the proof need of it.
ExportStates == ExportTypeOK /\ TaskInv

\* A run that is exported without a change in between has the files of its digest.
LEMMA CommittedOutput ==
  ASSUME ExportStates, DigestInv, FinishDefault
  PROVE  output = [run |-> task.run, version |-> digest]
<1>1. PICK v \in 0 .. lastInput : /\ output = [run |-> task.run, version |-> v]
                                 /\ digest <= v /\ v <= input[task.run]
  BY DEF FinishDefault, DigestInv
<1>2. input[task.run] = digest /\ digest \in Nat
  BY DEF FinishDefault, ExportStates, ExportTypeOK
<1>3. v = digest
  BY <1>1, <1>2
<1>. QED BY <1>1, <1>3

\* It holds in an empty store.
LEMMA ExportInitInv == ExportInit => ExportInv
BY ExportConstants DEF ExportInit, ExportInv, ExportTypeOK, TaskInv, ReceiptInv,
     DigestInv, RunningInv, SubmitInv, NoTask, Exporters, File, Working, UnderWay

\* A job that ends finishes the run of a crawl, and changes that run's input.
LEMMA TaskEnds ==
  ASSUME ExportStates, \A r \in Runs : input[r] <= lastInput, EndTask, point # "idle"
  PROVE  /\ task' = NoTask /\ point' = "idle" /\ digest' = 0
         /\ status' \in [Runs -> {"none", "running", "retrying", "finished"}]
         /\ input' \in [Runs -> Nat] /\ lastInput' \in Nat
         /\ \A r \in Runs : input'[r] <= lastInput'
<1>. USE DEF ExportStates, ExportTypeOK, TaskInv, inputVars
<1>1. CASE task.kind = "run"
  <2>1. task.run \in Runs
    OBVIOUS
  <2>2. /\ lastInput' = lastInput + 1 /\ input' = [input EXCEPT ![task.run] = lastInput + 1]
        /\ status' = [status EXCEPT ![task.run] = "finished"]
    BY <1>1 DEF EndTask, ChangeInput
  <2>3. status' \in [Runs -> {"none", "running", "retrying", "finished"}]
    BY <2>1, <2>2
  <2>4. /\ input' \in [Runs -> Nat] /\ lastInput' \in Nat
        /\ \A r \in Runs : input'[r] <= lastInput'
    BY <2>1, <2>2
  <2>. QED BY <2>3, <2>4 DEF EndTask
<1>2. CASE task.kind # "run"
  BY <1>2 DEF EndTask
<1>. QED BY <1>1, <1>2

\* Every step keeps the types.
LEMMA ExportTypes ==
  ExportStates /\ ReceiptInv /\ DigestInv /\ [ExportNext]_exportVars => ExportTypeOK'
<1>. SUFFICES ASSUME ExportStates /\ ReceiptInv /\ DigestInv, [ExportNext]_exportVars
              PROVE ExportTypeOK'
  OBVIOUS
<1>. USE ExportConstants DEF ExportStates, ExportTypeOK, TaskInv, Exporters, File,
     inputVars, outsideVars, ReceiptInv
<1>1. ASSUME NEW kind \in {"run", "reprocess", "again"}, NEW r \in Runs, StartTask(kind, r)
      PROVE ExportTypeOK'
  BY <1>1 DEF StartTask, ChangeInput
<1>2. CASE TakeDigest
  BY <1>2 DEF TakeDigest, Reusable
<1>3. CASE Reuse
  BY <1>3 DEF Reuse
<1>4. CASE BeginDefault
  BY <1>4 DEF BeginDefault, SetCommit
<1>5. CASE Write
  BY <1>5 DEF Write
<1>6. CASE FinishDefault
  BY <1>6 DEF FinishDefault, SetCommit, CommitOf
<1>7. CASE ReusePlugin
  BY <1>7 DEF ReusePlugin
<1>8. CASE BeginPlugin
  BY <1>8 DEF BeginPlugin, SetCommit, CommitOf
<1>9. CASE Submit
  BY <1>9 DEF Submit
<1>10. CASE FinishPlugin
  BY <1>10 DEF FinishPlugin, SetCommit, CommitOf
<1>e. ASSUME EndTask, point # "idle"
      PROVE  /\ status' \in [Runs -> {"none", "running", "retrying", "finished"}]
             /\ input' \in [Runs -> Nat] /\ lastInput' \in Nat
             /\ task' = NoTask /\ point' = "idle" /\ digest' = 0
  BY <1>e, TaskEnds DEF DigestInv
<1>f. ASSUME FailExport, point # "idle", exportFaults' \in Nat PROVE ExportTypeOK'
  <2>1. task.run \in Runs /\ Open \in Exporters
    BY <1>f DEF Open
  <2>2. commits' \in [Runs -> [Exporters -> {"none", "running", "failed", "retrying",
                                            "succeeded"}]]
    BY <1>f, <2>1 DEF FailExport
  <2>3. repeats' \in [Runs -> Nat]
    BY <1>f, <2>1 DEF FailExport
  <2>4. UNCHANGED <<receipt, output, submitted, stranded>> /\ EndTask
    BY <1>f DEF FailExport
  <2>5. /\ status' \in [Runs -> {"none", "running", "retrying", "finished"}]
        /\ input' \in [Runs -> Nat] /\ lastInput' \in Nat
        /\ task' = NoTask /\ point' = "idle" /\ digest' = 0
    BY <1>e, <1>f, <2>4
  <2>6. receipt' = receipt /\ output' = output /\ submitted' = submitted /\ stranded' = stranded
    BY <2>4
  <2>7. task' \in [kind : {"none", "run", "reprocess", "again"}, run : Runs \cup {Nothing}]
    BY <2>5 DEF NoTask
  <2>8. /\ \A r \in Runs :
             receipt'[r] = Nothing \/ (receipt'[r].version \in Nat
                                     /\ receipt'[r].files \in File \cup {Nothing, Altered})
        /\ output' \in File \cup {Nothing, Altered}
        /\ submitted' \in [Runs -> Nat] /\ stranded' \in [Runs -> BOOLEAN]
    BY <2>6
  <2>9. point' \in {"idle", "digest", "fresh", "stale", "write", "finish", "submit", "record",
                   "plugin", "end"} /\ digest' \in Nat
    BY <2>5
  <2>. QED BY <1>f, <2>2, <2>3, <2>5, <2>7, <2>8, <2>9
<1>11. CASE EndExports
  BY <1>11, <1>e DEF EndExports, NoTask
<1>12. CASE Refused
  BY <1>12, <1>f DEF Refused
<1>13. CASE ExporterRaises
  BY <1>13, <1>f DEF ExporterRaises, UnderWay
<1>14. CASE Blocked
  BY <1>14, <1>e DEF Blocked, NoTask
<1>15. CASE Killed
  BY <1>15 DEF Killed, LeaveCommit, NoTask, UnderWay, Open, CommitOf
<1>16. CASE AlterFile
  BY <1>16 DEF AlterFile
<1>17. CASE RecoverRuns
  BY <1>17 DEF RecoverRuns
<1>18. ASSUME NEW r \in Runs, EditRecord(r) PROVE ExportTypeOK'
  BY <1>18 DEF EditRecord, ChangeInput
<1>19. CASE UNCHANGED exportVars
  BY <1>19 DEF exportVars
<1>20. CASE ExportInterrupted
  <2>1. stranded' \in [Runs -> BOOLEAN] /\ repeats' \in [Runs -> Nat]
    BY <1>20 DEF ExportInterrupted, LeaveCommit
  <2>. QED BY <1>20, <1>e, <2>1 DEF ExportInterrupted, LeaveCommit, NoTask
<1>. QED BY <1>1, <1>2, <1>3, <1>4, <1>5, <1>6, <1>7, <1>8, <1>9, <1>10, <1>11, <1>12,
     <1>13, <1>14, <1>15, <1>16, <1>17, <1>18, <1>19, <1>20 DEF ExportNext

\* Every step keeps tasks and runs in line.
LEMMA TaskStep ==
  ExportStates /\ [ExportNext]_exportVars => TaskInv'
<1>. SUFFICES ASSUME ExportStates, [ExportNext]_exportVars PROVE TaskInv'
  OBVIOUS
<1>. USE ExportConstants DEF ExportStates, ExportTypeOK, TaskInv, Exporters, inputVars,
     outsideVars, NoTask
<1>1. ASSUME NEW kind \in {"run", "reprocess", "again"}, NEW r \in Runs, StartTask(kind, r)
      PROVE TaskInv'
  BY <1>1 DEF StartTask, ChangeInput
<1>2. CASE TakeDigest
  BY <1>2 DEF TakeDigest, Reusable
<1>3. CASE Reuse
  BY <1>3 DEF Reuse
<1>4. CASE BeginDefault
  BY <1>4 DEF BeginDefault, SetCommit
<1>5. CASE Write
  BY <1>5 DEF Write
<1>6. CASE FinishDefault
  BY <1>6 DEF FinishDefault, SetCommit, CommitOf
<1>7. CASE ReusePlugin
  BY <1>7 DEF ReusePlugin
<1>8. CASE BeginPlugin
  BY <1>8 DEF BeginPlugin, SetCommit, CommitOf
<1>9. CASE Submit
  BY <1>9 DEF Submit
<1>10. CASE FinishPlugin
  BY <1>10 DEF FinishPlugin, SetCommit, CommitOf
<1>11. CASE EndExports
  BY <1>11 DEF EndExports, EndTask, ChangeInput, NoTask
<1>12. CASE Refused
  BY <1>12 DEF Refused, FailExport, EndTask, ChangeInput, NoTask, Open, CommitOf
<1>13. CASE ExporterRaises
  BY <1>13 DEF ExporterRaises, UnderWay, FailExport, EndTask, ChangeInput, NoTask, Open,
     CommitOf
<1>14. CASE Blocked
  BY <1>14 DEF Blocked, EndTask, ChangeInput, NoTask, CommitOf
<1>15. CASE Killed
  BY <1>15 DEF Killed, LeaveCommit, NoTask, UnderWay, Open, CommitOf
<1>16. CASE AlterFile
  BY <1>16 DEF AlterFile
<1>17. CASE RecoverRuns
  BY <1>17 DEF RecoverRuns
<1>18. ASSUME NEW r \in Runs, EditRecord(r) PROVE TaskInv'
  BY <1>18 DEF EditRecord, ChangeInput
<1>19. CASE UNCHANGED exportVars
  BY <1>19 DEF exportVars
<1>20. CASE ExportInterrupted
  BY <1>20 DEF ExportInterrupted, LeaveCommit, EndTask, ChangeInput, NoTask, UnderWay,
     Open, CommitOf
<1>. QED BY <1>1, <1>2, <1>3, <1>4, <1>5, <1>6, <1>7, <1>8, <1>9, <1>10, <1>11, <1>12,
     <1>13, <1>14, <1>15, <1>16, <1>17, <1>18, <1>19, <1>20 DEF ExportNext

\* Every step keeps receipts true to their files.
LEMMA ReceiptStep ==
  ExportStates /\ ReceiptInv /\ DigestInv /\ [ExportNext]_exportVars => ReceiptInv'
<1>. SUFFICES ASSUME ExportStates /\ ReceiptInv /\ DigestInv, [ExportNext]_exportVars
              PROVE ReceiptInv'
  OBVIOUS
<1>. USE ExportConstants DEF ExportStates, ExportTypeOK, TaskInv, ReceiptInv, File,
     inputVars, outsideVars
<1>1. ASSUME NEW kind \in {"run", "reprocess", "again"}, NEW r \in Runs, StartTask(kind, r)
      PROVE ReceiptInv'
  BY <1>1 DEF StartTask, ChangeInput
<1>2. CASE TakeDigest
  BY <1>2 DEF TakeDigest, Reusable
<1>3. CASE Reuse
  BY <1>3 DEF Reuse
<1>4. CASE BeginDefault
  BY <1>4 DEF BeginDefault, SetCommit
<1>5. CASE Write
  BY <1>5 DEF Write
<1>6. CASE FinishDefault
  <2>. DEFINE r == task.run
  <2>1. r \in Runs /\ digest \in Nat
    BY <1>6 DEF FinishDefault
  <2>2. output = [run |-> r, version |-> digest]
    BY <1>6, CommittedOutput
  <2>3. receipt' = [receipt EXCEPT ![r] = [version |-> digest, files |-> output]]
    BY <1>6 DEF FinishDefault
  <2>. HIDE DEF r
  <2>. DEFINE new == [version |-> digest, files |-> output]
  <2>4. new \in [version : Nat, files : File]
    BY <2>1, <2>2
  <2>5. new.files = [run |-> r, version |-> new.version]
    BY <2>2
  <2>. HIDE DEF new
  <2>. QED BY <2>1, <2>3, <2>4, <2>5 DEF new
<1>7. CASE ReusePlugin
  BY <1>7 DEF ReusePlugin
<1>8. CASE BeginPlugin
  BY <1>8 DEF BeginPlugin, SetCommit, CommitOf
<1>9. CASE Submit
  BY <1>9 DEF Submit
<1>10. CASE FinishPlugin
  BY <1>10 DEF FinishPlugin, SetCommit, CommitOf
<1>11. CASE EndExports
  BY <1>11 DEF EndExports, EndTask, ChangeInput, NoTask
<1>12. CASE Refused
  BY <1>12 DEF Refused, FailExport, EndTask, ChangeInput, NoTask, Open, CommitOf
<1>13. CASE ExporterRaises
  BY <1>13 DEF ExporterRaises, UnderWay, FailExport, EndTask, ChangeInput, NoTask, Open,
     CommitOf
<1>14. CASE Blocked
  BY <1>14 DEF Blocked, EndTask, ChangeInput, NoTask, CommitOf
<1>15. CASE Killed
  BY <1>15 DEF Killed, LeaveCommit, NoTask, UnderWay, Open, CommitOf
<1>16. CASE AlterFile
  BY <1>16 DEF AlterFile
<1>17. CASE RecoverRuns
  BY <1>17 DEF RecoverRuns
<1>18. ASSUME NEW r \in Runs, EditRecord(r) PROVE ReceiptInv'
  BY <1>18 DEF EditRecord, ChangeInput
<1>19. CASE UNCHANGED exportVars
  BY <1>19 DEF exportVars
<1>20. CASE ExportInterrupted
  BY <1>20 DEF ExportInterrupted, LeaveCommit, EndTask, ChangeInput, NoTask, UnderWay,
     Open, CommitOf
<1>. QED BY <1>1, <1>2, <1>3, <1>4, <1>5, <1>6, <1>7, <1>8, <1>9, <1>10, <1>11, <1>12,
     <1>13, <1>14, <1>15, <1>16, <1>17, <1>18, <1>19, <1>20 DEF ExportNext

\* Every step keeps digests behind the input.
LEMMA DigestStep ==
  ExportStates /\ ReceiptInv /\ DigestInv /\ [ExportNext]_exportVars => DigestInv'
<1>. SUFFICES ASSUME ExportStates /\ ReceiptInv /\ DigestInv, [ExportNext]_exportVars
              PROVE DigestInv'
  OBVIOUS
<1>. USE ExportConstants DEF ExportStates, ExportTypeOK, TaskInv, DigestInv, inputVars,
     outsideVars
<1>1. ASSUME NEW kind \in {"run", "reprocess", "again"}, NEW r \in Runs, StartTask(kind, r)
      PROVE DigestInv'
  BY <1>1 DEF StartTask, ChangeInput
<1>2. CASE TakeDigest
  <2>1. task.run \in Runs /\ digest' = input[task.run]
    BY <1>2 DEF TakeDigest
  <2>2. ASSUME point' = "fresh" PROVE output' = [run |-> task'.run, version |-> digest']
    <3>1. /\ receipt[task.run] # Nothing /\ receipt[task.run].version = digest'
          /\ receipt[task.run].files = output
      BY <1>2, <2>1, <2>2 DEF TakeDigest, Reusable
    <3>2. receipt[task.run].files = [run |-> task.run, version |-> receipt[task.run].version]
      BY <2>1, <3>1 DEF ReceiptInv
    <3>. QED BY <1>2, <3>1, <3>2 DEF TakeDigest
  <2>. QED BY <1>2, <2>1, <2>2 DEF TakeDigest
<1>3. CASE Reuse
  BY <1>3 DEF Reuse
<1>4. CASE BeginDefault
  BY <1>4 DEF BeginDefault, SetCommit
<1>5. CASE Write
  BY <1>5 DEF Write
<1>6. CASE FinishDefault
  BY <1>6 DEF FinishDefault, SetCommit, CommitOf
<1>7. CASE ReusePlugin
  BY <1>7 DEF ReusePlugin
<1>8. CASE BeginPlugin
  BY <1>8 DEF BeginPlugin, SetCommit, CommitOf
<1>9. CASE Submit
  BY <1>9 DEF Submit
<1>10. CASE FinishPlugin
  BY <1>10 DEF FinishPlugin, SetCommit, CommitOf
<1>e. ASSUME EndTask, point # "idle" PROVE DigestInv'
  BY <1>e, TaskEnds
<1>11. CASE EndExports
  BY <1>11, <1>e DEF EndExports
<1>12. CASE Refused
  BY <1>12, <1>e DEF Refused, FailExport
<1>13. CASE ExporterRaises
  BY <1>13, <1>e DEF ExporterRaises, FailExport, UnderWay
<1>14. CASE Blocked
  BY <1>14, <1>e DEF Blocked
<1>15. CASE Killed
  BY <1>15 DEF Killed, LeaveCommit, NoTask, UnderWay, Open, CommitOf
<1>16. CASE AlterFile
  BY <1>16 DEF AlterFile
<1>17. CASE RecoverRuns
  BY <1>17 DEF RecoverRuns
<1>18. ASSUME NEW r \in Runs, EditRecord(r) PROVE DigestInv'
  BY <1>18 DEF EditRecord, ChangeInput
<1>19. CASE UNCHANGED exportVars
  BY <1>19 DEF exportVars
<1>20. CASE ExportInterrupted
  BY <1>20, <1>e DEF ExportInterrupted
<1>. QED BY <1>1, <1>2, <1>3, <1>4, <1>5, <1>6, <1>7, <1>8, <1>9, <1>10, <1>11, <1>12,
     <1>13, <1>14, <1>15, <1>16, <1>17, <1>18, <1>19, <1>20 DEF ExportNext

\* Every step leaves no commit as running without a reason.
LEMMA RunningStep ==
  ExportStates /\ RunningInv /\ [ExportNext]_exportVars => RunningInv'
<1>. SUFFICES ASSUME ExportStates /\ RunningInv, [ExportNext]_exportVars PROVE RunningInv'
  OBVIOUS
<1>. USE ExportConstants DEF ExportStates, ExportTypeOK, TaskInv, RunningInv, Working,
     UnderWay, Open, Exporters, inputVars, outsideVars, NoTask
<1>1. ASSUME NEW kind \in {"run", "reprocess", "again"}, NEW r \in Runs, StartTask(kind, r)
      PROVE RunningInv'
  BY <1>1 DEF StartTask, ChangeInput
<1>2. CASE TakeDigest
  BY <1>2 DEF TakeDigest, Reusable
<1>3. CASE Reuse
  BY <1>3 DEF Reuse
<1>4. CASE BeginDefault
  BY <1>4 DEF BeginDefault, SetCommit
<1>5. CASE Write
  BY <1>5 DEF Write
<1>6. CASE FinishDefault
  BY <1>6 DEF FinishDefault, SetCommit, CommitOf
<1>7. CASE ReusePlugin
  BY <1>7 DEF ReusePlugin
<1>8. CASE BeginPlugin
  BY <1>8 DEF BeginPlugin, SetCommit, CommitOf
<1>9. CASE Submit
  BY <1>9 DEF Submit
<1>10. CASE FinishPlugin
  BY <1>10 DEF FinishPlugin, SetCommit, CommitOf
<1>11. CASE EndExports
  BY <1>11 DEF EndExports, EndTask, ChangeInput, NoTask
<1>12. CASE Refused
  BY <1>12 DEF Refused, FailExport, EndTask, ChangeInput, NoTask, Open, CommitOf
<1>13. CASE ExporterRaises
  BY <1>13 DEF ExporterRaises, UnderWay, FailExport, EndTask, ChangeInput, NoTask, Open,
     CommitOf
<1>14. CASE Blocked
  BY <1>14 DEF Blocked, EndTask, ChangeInput, NoTask, CommitOf
<1>15. CASE Killed
  BY <1>15 DEF Killed, LeaveCommit, NoTask, UnderWay, Open, CommitOf
<1>16. CASE AlterFile
  BY <1>16 DEF AlterFile
<1>17. CASE RecoverRuns
  BY <1>17 DEF RecoverRuns
<1>18. ASSUME NEW r \in Runs, EditRecord(r) PROVE RunningInv'
  BY <1>18 DEF EditRecord, ChangeInput
<1>19. CASE UNCHANGED exportVars
  BY <1>19 DEF exportVars
<1>20. CASE ExportInterrupted
  BY <1>20 DEF ExportInterrupted, LeaveCommit, EndTask, ChangeInput, NoTask, UnderWay,
     Open, CommitOf
<1>. QED BY <1>1, <1>2, <1>3, <1>4, <1>5, <1>6, <1>7, <1>8, <1>9, <1>10, <1>11, <1>12,
     <1>13, <1>14, <1>15, <1>16, <1>17, <1>18, <1>19, <1>20 DEF ExportNext

\* Every step keeps submissions and repeats in line.
LEMMA SubmitStep ==
  ExportStates /\ SubmitInv /\ [ExportNext]_exportVars => SubmitInv'
<1>. SUFFICES ASSUME ExportStates /\ SubmitInv, [ExportNext]_exportVars PROVE SubmitInv'
  OBVIOUS
<1>. USE ExportConstants DEF ExportStates, ExportTypeOK, TaskInv, SubmitInv, Exporters,
     inputVars, outsideVars, NoTask
<1>1. ASSUME NEW kind \in {"run", "reprocess", "again"}, NEW r \in Runs, StartTask(kind, r)
      PROVE SubmitInv'
  BY <1>1 DEF StartTask, ChangeInput
<1>2. CASE TakeDigest
  BY <1>2 DEF TakeDigest, Reusable
<1>3. CASE Reuse
  BY <1>3 DEF Reuse
<1>4. CASE BeginDefault
  BY <1>4 DEF BeginDefault, SetCommit
<1>5. CASE Write
  BY <1>5 DEF Write
<1>6. CASE FinishDefault
  BY <1>6 DEF FinishDefault, SetCommit, CommitOf
<1>7. CASE ReusePlugin
  BY <1>7 DEF ReusePlugin
<1>8. CASE BeginPlugin
  BY <1>8 DEF BeginPlugin, SetCommit, CommitOf
<1>9. CASE Submit
  BY <1>9 DEF Submit
<1>10. CASE FinishPlugin
  BY <1>10 DEF FinishPlugin, SetCommit, CommitOf
<1>11. CASE EndExports
  BY <1>11 DEF EndExports, EndTask, ChangeInput, NoTask
<1>12. CASE Refused
  BY <1>12 DEF Refused, FailExport, EndTask, ChangeInput, NoTask, Open, CommitOf
<1>13. CASE ExporterRaises
  BY <1>13 DEF ExporterRaises, UnderWay, FailExport, EndTask, ChangeInput, NoTask, Open,
     CommitOf
<1>14. CASE Blocked
  BY <1>14 DEF Blocked, EndTask, ChangeInput, NoTask, CommitOf
<1>15. CASE Killed
  BY <1>15 DEF Killed, LeaveCommit, NoTask, UnderWay, Open, CommitOf
<1>16. CASE AlterFile
  BY <1>16 DEF AlterFile
<1>17. CASE RecoverRuns
  BY <1>17 DEF RecoverRuns
<1>18. ASSUME NEW r \in Runs, EditRecord(r) PROVE SubmitInv'
  BY <1>18 DEF EditRecord, ChangeInput
<1>19. CASE UNCHANGED exportVars
  BY <1>19 DEF exportVars
<1>20. CASE ExportInterrupted
  BY <1>20 DEF ExportInterrupted, LeaveCommit, EndTask, ChangeInput, NoTask, UnderWay,
     Open, CommitOf
<1>. QED BY <1>1, <1>2, <1>3, <1>4, <1>5, <1>6, <1>7, <1>8, <1>9, <1>10, <1>11, <1>12,
     <1>13, <1>14, <1>15, <1>16, <1>17, <1>18, <1>19, <1>20 DEF ExportNext

\* Every step keeps the invariant.
LEMMA ExportStep == ExportInv /\ [ExportNext]_exportVars => ExportInv'
BY ExportTypes, TaskStep, ReceiptStep, DigestStep, RunningStep, SubmitStep DEF ExportInv,
     ExportStates

\* For any number of runs, failures, interrupts, kills and recoveries: the plugin gets a
\* run once, and once more for each attempt that was forced or cut short, and a commit that
\* nobody takes up is left only by an interrupt of the exporter of a crawl, whose run it
\* finishes, or by a job on a finished run that is interrupted or killed.
THEOREM CommitsStaySettled == ExportSpec => []CommitsAreSettled
<1>1. ExportInv => CommitsAreSettled
  <2>. SUFFICES ASSUME ExportInv PROVE CommitsAreSettled
    OBVIOUS
  <2>1. ASSUME NEW r \in Runs PROVE submitted[r] <= 1 + repeats[r]
    BY DEF ExportInv, ExportTypeOK, SubmitInv
  <2>2. ASSUME NEW r \in Runs, NEW x \in Exporters, commits[r][x] = "running", task.run # r
        PROVE  status[r] \in {"running", "retrying"} \/ stranded[r]
    BY <2>2 DEF ExportInv, RunningInv, Working
  <2>. QED BY <2>1, <2>2 DEF ExportInv, CommitsAreSettled
<1>. QED BY <1>1, ExportInitInv, ExportStep, PTL DEF ExportSpec

\* What DeliveryIsCurrent says of a step.
CurrentNow ==
  point' = "plugin" /\ point \in {"fresh", "finish"} =>
    output = [run |-> task.run, version |-> digest]

\* A delivery that goes on to the plugin has the files of the digest it took.
LEMMA CurrentStep == ExportInv /\ [ExportNext]_exportVars => CurrentNow
<1>. SUFFICES ASSUME ExportInv, [ExportNext]_exportVars,
                     point' = "plugin", point \in {"fresh", "finish"}
              PROVE  output = [run |-> task.run, version |-> digest]
  BY DEF CurrentNow
<1>1. CASE point = "fresh"
  BY <1>1 DEF ExportInv, DigestInv
<1>2. CASE point = "finish"
  <2>1. FinishDefault
    BY <1>2 DEF ExportNext, exportVars, StartTask, TakeDigest, Reuse, BeginDefault,
         Write,
     ReusePlugin, BeginPlugin, Submit, FinishPlugin, EndExports, Refused, ExporterRaises,
     FailExport, EndTask, Blocked, ExportInterrupted, Killed, AlterFile, RecoverRuns, EditRecord
  <2>. QED BY <2>1, CommittedOutput DEF ExportInv, ExportStates
<1>. QED BY <1>1, <1>2

\* A default delivery that succeeds, made or reused, has its files in the output directory,
\* and they are the export of the input that the job looked at.
THEOREM DeliveryStaysCurrent == ExportSpec => DeliveryIsCurrent
<1>1. ExportInv /\ [ExportNext]_exportVars => [CurrentNow]_exportVars
  BY CurrentStep
<1>. QED BY <1>1, ExportInitInv, ExportStep, PTL DEF ExportSpec, DeliveryIsCurrent,
     CurrentNow

-----------------------------------------------------------------------------
(* Repair of a rule                                                        *)

\* Nobody edited the configuration while a command ran.
Unedited == raced = FALSE

\* The record's snapshot is no newer than the file and lacks the rule, and its digests are
\* of the snapshot with the rule in it.
RecordInv ==
  Unedited =>
    /\ record.kept.base <= content.base
    /\ record.phase \in {"prepared", "applied"} =>
         /\ record.kept.repaired = FALSE
         /\ record.prepared = [base |-> record.kept.base, repaired |-> TRUE, audit |-> "none"]
    /\ record.phase = "applied" => record.active.base = record.kept.base

\* A rule in the file has its record, and the file is the recorded one until it is edited.
FileInv ==
  Unedited /\ content.repaired = TRUE =>
    /\ record.phase \in {"prepared", "applied"}
    /\ content.base = record.kept.base /\ record.phase = "applied" => content = record.active

\* What a command knows at each of its writes.
PlaceInv ==
  Unedited =>
    /\ At("compared") => content = loaded /\ content.repaired = FALSE
    /\ repairStep \in {"recorded", "decided", "publish"} =>
         record.phase = "prepared" /\ content = record.kept
    /\ repairStep \in {"observe", "stable"} => record.phase = "applied" /\ content = record.active
    /\ At("published") => content = loaded /\ content.repaired = TRUE
    /\ repairStep \in {"republish", "published"} =>
         record.phase = "prepared" /\ content.base = record.kept.base
    /\ repairStep \in {"restore", "mark", "close"} =>
         record.phase \in {"prepared", "applied"} /\ content.base = record.kept.base
    /\ repairStep \in {"mark", "close"} => content = record.kept

\* The inductive invariant of a repair: RepairIsTracked speaks of idle states, and is kept
\* because each unfinished command has the record and the file in one of these relations.
RepairInv == RepairTypeOK /\ RecordInv /\ FileInv /\ PlaceInv

\* What a content consists of.
LEMMA ContentFields ==
  ASSUME NEW c \in Content
  PROVE  c.base \in Nat /\ c.repaired \in BOOLEAN /\ c.audit \in {"none", "observing", "stable"}
BY DEF Content

\* What makes a content.
LEMMA ContentMade ==
  ASSUME NEW n \in Nat, NEW k \in BOOLEAN, NEW a \in {"none", "observing", "stable"}
  PROVE  [base |-> n, repaired |-> k, audit |-> a] \in Content
BY DEF Content

\* Each field of a content may be assigned alone.
LEMMA ContentUpdate ==
  ASSUME NEW c \in Content, NEW n \in Nat, NEW k \in BOOLEAN,
         NEW a \in {"none", "observing", "stable"}
  PROVE  /\ [c EXCEPT !.base = n] = [base |-> n, repaired |-> c.repaired, audit |-> c.audit]
         /\ [c EXCEPT !.repaired = k] = [base |-> c.base, repaired |-> k, audit |-> c.audit]
         /\ [c EXCEPT !.audit = a] = [base |-> c.base, repaired |-> c.repaired, audit |-> a]
<1>1. [c EXCEPT !.base = n] = [base |-> n, repaired |-> c.repaired, audit |-> c.audit]
  BY DEF Content
<1>2. [c EXCEPT !.repaired = k] = [base |-> c.base, repaired |-> k, audit |-> c.audit]
  BY DEF Content
<1>3. [c EXCEPT !.audit = a] = [base |-> c.base, repaired |-> c.repaired, audit |-> a]
  BY DEF Content
<1>. QED BY <1>1, <1>2, <1>3

\* What Edit assigns.
LEMMA EditedContent ==
  ASSUME NEW c \in Content, NEW n \in Nat, NEW k \in BOOLEAN
  PROVE  /\ [c EXCEPT !.base = n, !.repaired = k] = [base |-> n, repaired |-> k, audit |-> c.audit]
         /\ [c EXCEPT !.base = n, !.repaired = k] \in Content
<1>. DEFINE x == [c EXCEPT !.base = n]
<1>1. [c EXCEPT !.base = n, !.repaired = k] = [x EXCEPT !.repaired = k]
  OBVIOUS
<1>2. x \in Content /\ x = [base |-> n, repaired |-> c.repaired, audit |-> c.audit]
  BY DEF Content
<1>. HIDE DEF x
<1>3. [x EXCEPT !.repaired = k] = [base |-> n, repaired |-> k, audit |-> c.audit]
  BY <1>2 DEF Content
<1>4. [base |-> n, repaired |-> k, audit |-> c.audit] \in Content
  BY DEF Content
<1>. QED BY <1>1, <1>3, <1>4

\* The rule and the audit note may be assigned together.
LEMMA MarkedContent ==
  ASSUME NEW c \in Content, NEW k \in BOOLEAN, NEW a \in {"none", "observing", "stable"}
  PROVE  /\ [c EXCEPT !.repaired = k, !.audit = a] = [base |-> c.base, repaired |-> k, audit |-> a]
         /\ [c EXCEPT !.audit = a, !.repaired = k] = [base |-> c.base, repaired |-> k, audit |-> a]
         /\ [base |-> c.base, repaired |-> k, audit |-> a] \in Content
<1>. DEFINE x == [c EXCEPT !.repaired = k]
            y == [c EXCEPT !.audit = a]
<1>1. /\ [c EXCEPT !.repaired = k, !.audit = a] = [x EXCEPT !.audit = a]
      /\ [c EXCEPT !.audit = a, !.repaired = k] = [y EXCEPT !.repaired = k]
  OBVIOUS
<1>2. x \in Content /\ x = [base |-> c.base, repaired |-> k, audit |-> c.audit]
  BY DEF Content
<1>3. y \in Content /\ y = [base |-> c.base, repaired |-> c.repaired, audit |-> a]
  BY DEF Content
<1>. HIDE DEF x, y
<1>4. [x EXCEPT !.audit = a] = [base |-> c.base, repaired |-> k, audit |-> a]
  BY <1>2 DEF Content
<1>5. [y EXCEPT !.repaired = k] = [base |-> c.base, repaired |-> k, audit |-> a]
  BY <1>3 DEF Content
<1>6. [base |-> c.base, repaired |-> k, audit |-> a] \in Content
  BY DEF Content
<1>. QED BY <1>1, <1>4, <1>5, <1>6

\* What _publish assigns.
LEMMA RepairedContent ==
  ASSUME content \in Content, NEW a \in {"none", "observing", "stable"}
  PROVE  /\ Repaired(a) = [base |-> content.base, repaired |-> TRUE, audit |-> a]
         /\ Repaired(a) \in Content
<1>1. TRUE \in BOOLEAN
  OBVIOUS
<1>2. /\ [content EXCEPT !.repaired = TRUE, !.audit = a] = [base |-> content.base, repaired |-> TRUE, audit |-> a]
      /\ [base |-> content.base, repaired |-> TRUE, audit |-> a] \in Content
  BY <1>1, MarkedContent, Zenon
<1>. QED BY <1>2, Zenon DEF Repaired

\* What the prepared digest of the record stands for.
LEMMA PreparedContent ==
  ASSUME NEW c \in Content
  PROVE  /\ Unaudited(c) = [base |-> c.base, repaired |-> c.repaired, audit |-> "none"]
         /\ [Unaudited(c) EXCEPT !.repaired = TRUE] = [base |-> c.base, repaired |-> TRUE, audit |-> "none"]
<1>1. TRUE \in BOOLEAN /\ "none" \in {"none", "observing", "stable"}
  OBVIOUS
<1>2. Unaudited(c) = [base |-> c.base, repaired |-> c.repaired, audit |-> "none"]
  BY <1>1, ContentUpdate, Zenon DEF Unaudited
<1>3. [c EXCEPT !.audit = "none", !.repaired = TRUE] = [base |-> c.base, repaired |-> TRUE, audit |-> "none"]
  BY <1>1, MarkedContent, Zenon
<1>. QED BY <1>2, <1>3, Zenon DEF Unaudited

\* Each column of a candidate's row may be assigned alone.
LEMMA RowUpdate ==
  ASSUME NEW r \in Row, NEW b \in BOOLEAN, NEW n \in Nat,
         NEW o \in {Outcome[e] : e \in Evidence} \cup {NoResult}
  PROVE  /\ [r EXCEPT !.seen = b] \in Row
         /\ [r EXCEPT !.applied = b] \in Row
         /\ [r EXCEPT !.flagged = b] \in Row
         /\ [r EXCEPT !.risky = b] \in Row
         /\ [r EXCEPT !.rounds = n] \in Row
         /\ [r EXCEPT !.regressions = n] \in Row
         /\ [r EXCEPT !.last = o] \in Row
<1>1. [r EXCEPT !.seen = b] \in Row
  BY DEF Row
<1>2. [r EXCEPT !.applied = b] \in Row
  BY DEF Row
<1>3. [r EXCEPT !.flagged = b] \in Row
  BY DEF Row
<1>4. [r EXCEPT !.risky = b] \in Row
  BY DEF Row
<1>5. [r EXCEPT !.rounds = n] \in Row
  BY DEF Row
<1>6. [r EXCEPT !.regressions = n] \in Row
  BY DEF Row
<1>7. [r EXCEPT !.last = o] \in Row
  BY DEF Row
<1>. QED BY <1>1, <1>2, <1>3, <1>4, <1>5, <1>6, <1>7

\* What an application assigns.
LEMMA AppliedRow ==
  ASSUME NEW r \in Row
  PROVE  [r EXCEPT !.seen = TRUE, !.applied = TRUE, !.regressions = 0, !.flagged = FALSE] \in Row
<1>. DEFINE r1 == [r EXCEPT !.seen = TRUE]
<1>. DEFINE r2 == [r1 EXCEPT !.applied = TRUE]
<1>. DEFINE r3 == [r2 EXCEPT !.regressions = 0]
<1>. DEFINE r4 == [r3 EXCEPT !.flagged = FALSE]
<1>e. [r EXCEPT !.seen = TRUE, !.applied = TRUE, !.regressions = 0, !.flagged = FALSE] = r4
  OBVIOUS
<1>1. r1 \in Row
  BY RowUpdate
<1>. HIDE DEF r1
<1>2. r2 \in Row
  BY <1>1, RowUpdate
<1>. HIDE DEF r2
<1>3. r3 \in Row
  BY <1>2, RowUpdate
<1>. HIDE DEF r3
<1>4. r4 \in Row
  BY <1>3, RowUpdate
<1>. HIDE DEF r4
<1>. QED BY <1>e, <1>4

\* What the observation of an improvement assigns.
LEMMA GoodRow ==
  ASSUME NEW r \in Row, NEW o \in {Outcome[e] : e \in Evidence} \cup {NoResult},
         NEW b \in BOOLEAN, NEW m \in Nat, NEW n \in Nat
  PROVE  [r EXCEPT !.seen = TRUE, !.last = o, !.risky = b, !.rounds = m, !.regressions = n] \in Row
<1>. DEFINE r1 == [r EXCEPT !.seen = TRUE]
<1>. DEFINE r2 == [r1 EXCEPT !.last = o]
<1>. DEFINE r3 == [r2 EXCEPT !.risky = b]
<1>. DEFINE r4 == [r3 EXCEPT !.rounds = m]
<1>. DEFINE r5 == [r4 EXCEPT !.regressions = n]
<1>e. [r EXCEPT !.seen = TRUE, !.last = o, !.risky = b, !.rounds = m, !.regressions = n] = r5
  OBVIOUS
<1>1. r1 \in Row
  BY RowUpdate
<1>. HIDE DEF r1
<1>2. r2 \in Row
  BY <1>1, RowUpdate
<1>. HIDE DEF r2
<1>3. r3 \in Row
  BY <1>2, RowUpdate
<1>. HIDE DEF r3
<1>4. r4 \in Row
  BY <1>3, RowUpdate
<1>. HIDE DEF r4
<1>5. r5 \in Row
  BY <1>4, RowUpdate
<1>. HIDE DEF r5
<1>. QED BY <1>e, <1>5

\* What the observation of a regression assigns.
LEMMA BadRow ==
  ASSUME NEW r \in Row, NEW o \in {Outcome[e] : e \in Evidence} \cup {NoResult},
         NEW b \in BOOLEAN, NEW n \in Nat, NEW f \in BOOLEAN
  PROVE  [r EXCEPT !.seen = TRUE, !.last = o, !.risky = b, !.regressions = n, !.flagged = f] \in Row
<1>. DEFINE r1 == [r EXCEPT !.seen = TRUE]
<1>. DEFINE r2 == [r1 EXCEPT !.last = o]
<1>. DEFINE r3 == [r2 EXCEPT !.risky = b]
<1>. DEFINE r4 == [r3 EXCEPT !.regressions = n]
<1>. DEFINE r5 == [r4 EXCEPT !.flagged = f]
<1>e. [r EXCEPT !.seen = TRUE, !.last = o, !.risky = b, !.regressions = n, !.flagged = f] = r5
  OBVIOUS
<1>1. r1 \in Row
  BY RowUpdate
<1>. HIDE DEF r1
<1>2. r2 \in Row
  BY <1>1, RowUpdate
<1>. HIDE DEF r2
<1>3. r3 \in Row
  BY <1>2, RowUpdate
<1>. HIDE DEF r3
<1>4. r4 \in Row
  BY <1>3, RowUpdate
<1>. HIDE DEF r4
<1>5. r5 \in Row
  BY <1>4, RowUpdate
<1>. HIDE DEF r5
<1>. QED BY <1>e, <1>5

\* What a rollback assigns.
LEMMA RolledBackRow ==
  ASSUME NEW r \in Row
  PROVE  [r EXCEPT !.flagged = FALSE, !.regressions = 0] \in Row
<1>. DEFINE r1 == [r EXCEPT !.flagged = FALSE]
<1>. DEFINE r2 == [r1 EXCEPT !.regressions = 0]
<1>e. [r EXCEPT !.flagged = FALSE, !.regressions = 0] = r2
  OBVIOUS
<1>1. r1 \in Row
  BY RowUpdate
<1>. HIDE DEF r1
<1>2. r2 \in Row
  BY <1>1, RowUpdate
<1>. HIDE DEF r2
<1>. QED BY <1>e, <1>2

\* A configuration without a repair satisfies the invariant.
LEMMA RepairInitInv == RepairInit => RepairInv
<1>1. RepairInit => RepairTypeOK
  <2>1. Original \in Content
    BY DEF Original, Content
  <2>2. [phase |-> "none", kept |-> Original, active |-> Original, prepared |-> Original] \in Record
    BY <2>1 DEF Record
  <2>3. [seen |-> FALSE, applied |-> FALSE, rounds |-> 0, regressions |-> 0,
         flagged |-> FALSE, risky |-> FALSE, last |-> NoResult] \in Row
    BY DEF Row
  <2>4. ASSUME RepairInit
        PROVE content \in Content /\ loaded \in Content /\ record \in Record /\ row \in Row
    BY <2>1, <2>2, <2>3, <2>4 DEF RepairInit
  <2>5. ASSUME RepairInit
        PROVE  /\ used \subseteq Evidence /\ raced \in BOOLEAN /\ repairFaults \in Nat
               /\ repairStep = "idle"
    BY <2>5 DEF RepairInit
  <2>. QED BY <2>4, <2>5 DEF RepairTypeOK
<1>2. RepairInit => RecordInv /\ FileInv /\ PlaceInv
  BY DEF RepairInit, Original, RecordInv, FileInv, PlaceInv, At
<1>. QED BY <1>1, <1>2 DEF RepairInv

\* Every step keeps the types.
LEMMA RepairTypes ==
  RepairTypeOK /\ [RepairNext]_repairVars => RepairTypeOK'
<1>. SUFFICES ASSUME RepairTypeOK, [RepairNext]_repairVars PROVE RepairTypeOK'
  OBVIOUS
<1>18. CASE UNCHANGED repairVars
  BY <1>18 DEF repairVars, RepairTypeOK, At
<1>. USE RepairConstants DEF RepairTypeOK, At, Then
<1>1. CASE Edit
  <2>1. PICK kept \in {content.repaired, FALSE} :
          content' = [content EXCEPT !.base = @ + 1, !.repaired = kept]
    BY <1>1 DEF Edit
  <2>a. content \in Content
    OBVIOUS
  <2>b. content.base \in Nat /\ content.repaired \in BOOLEAN
    BY <2>a, ContentFields
  <2>c. kept \in BOOLEAN
    <3>1. CASE kept = content.repaired
      BY <3>1, <2>b
    <3>2. CASE kept = FALSE
      BY <3>2
    <3>. QED BY <2>1, <3>1, <3>2
  <2>2. content \in Content /\ kept \in BOOLEAN /\ content.base + 1 \in Nat
    BY <2>a, <2>b, <2>c
  <2>3. content' \in Content
    BY <2>1, <2>2, EditedContent
  <2>. QED BY <1>1, <2>3 DEF Edit
<1>2. CASE BeginApply
  BY <1>2 DEF BeginApply, Content, Record
<1>3. CASE Prepare
  BY <1>3 DEF Prepare, Unaudited, Content, Record
<1>4. CASE NotApplied
  BY <1>4 DEF NotApplied, Content, Record
<1>5. CASE Publish
  <2>1. loaded.audit \in {"none", "observing", "stable"} /\ content \in Content
    BY DEF Content
  <2>2. Repaired(loaded.audit) \in Content
    BY <2>1, RepairedContent
  <2>. QED BY <1>5, <2>2 DEF Publish
<1>6. CASE Published
  BY <1>6 DEF Published, Content, Record
<1>7. ASSUME NEW e \in Evidence, NEW llm \in BOOLEAN, NEW confident \in BOOLEAN, Decide(e, llm, confident)
      PROVE RepairTypeOK'
  <2>0. row \in Row
    OBVIOUS
  <2>1. [row EXCEPT !.seen = TRUE] \in Row
    BY <2>0, RowUpdate
  <2>2. [row EXCEPT !.seen = TRUE, !.applied = TRUE, !.regressions = 0, !.flagged = FALSE] \in Row
    BY <2>0, AppliedRow
  <2>3. row' \in Row
    BY <1>7, <2>1, <2>2 DEF Decide
  <2>4. used' \subseteq Evidence
    BY <1>7 DEF Decide
  <2>5. loaded' \in Content
    BY <1>7 DEF Decide, Content
  <2>6. repairStep' \in {"decided", "publish"}
    BY <1>7 DEF Decide
  <2>. QED BY <1>7, <2>3, <2>4, <2>5, <2>6 DEF Decide
<1>8. CASE BeginObserve
  BY <1>8 DEF BeginObserve, Content, Record
<1>9. ASSUME NEW e \in Evidence, ObserveGood(e) PROVE RepairTypeOK'
  <2>1. row' \in Row
    <3>1. CASE UNCHANGED row
      BY <3>1
    <3>2. CASE row' # row
      <4>1. PICK risk \in {row.risky, FALSE} :
              row' = [row EXCEPT !.seen = TRUE, !.last = Outcome[e], !.risky = risk,
                        !.rounds = IF row.applied THEN @ + 1 ELSE @,
                        !.regressions = IF row.applied THEN 0 ELSE @]
        BY <1>9, <3>2 DEF ObserveGood
      <4>2. row \in Row /\ risk \in BOOLEAN
        BY DEF Row
      <4>3. (IF row.applied THEN row.rounds + 1 ELSE row.rounds) \in Nat
            /\ (IF row.applied THEN 0 ELSE row.regressions) \in Nat
        BY DEF Row
      <4>. HIDE DEF RepairTypeOK
      <4>. QED BY <4>1, <4>2, <4>3, <1>9, GoodRow
    <3>. QED BY <3>1, <3>2
  <2>2. repairStep' \in {"stable", "idle"} /\ used' \subseteq Evidence
    BY <1>9 DEF ObserveGood
  <2>. QED BY <1>9, <2>1, <2>2 DEF ObserveGood
<1>10. ASSUME NEW e \in Evidence, ObserveBad(e) PROVE RepairTypeOK'
  <2>. DEFINE regressions == row.regressions + 1
              directive == row.applied /\ regressions >= RegressionLimit /\ ~row.flagged
  <2>1. row' \in Row
    <3>1. CASE UNCHANGED row
      BY <3>1
    <3>2. CASE row' # row
      <4>1. PICK risk \in {row.risky, TRUE} :
              row' = [row EXCEPT !.seen = TRUE, !.last = Outcome[e], !.risky = risk,
                        !.regressions = IF row.applied THEN regressions ELSE @,
                        !.flagged = @ \/ directive]
        BY <1>10, <3>2 DEF ObserveBad
      <4>2. row \in Row /\ risk \in BOOLEAN
        BY DEF Row
      <4>3. (IF row.applied THEN regressions ELSE row.regressions) \in Nat
        BY DEF Row
      <4>4. (row.flagged \/ directive) \in BOOLEAN
        OBVIOUS
      <4>. DEFINE count == IF row.applied THEN regressions ELSE row.regressions
                  flag == row.flagged \/ directive
      <4>5. row' = [row EXCEPT !.seen = TRUE, !.last = Outcome[e], !.risky = risk,
                      !.regressions = count, !.flagged = flag]
        BY <4>1, Zenon
      <4>6. count \in Nat /\ flag \in BOOLEAN
        BY <4>3, <4>4
      <4>7. Outcome[e] \in {Outcome[x] : x \in Evidence} \cup {NoResult}
        BY <1>10
      <4>. HIDE DEF RepairTypeOK, count, flag
      <4>. QED BY <4>2, <4>5, <4>6, <4>7, BadRow, Zenon
    <3>. QED BY <3>1, <3>2
  <2>2. repairStep' \in {"restore", "idle"} /\ used' \subseteq Evidence
    BY <1>10 DEF ObserveBad
  <2>. QED BY <1>10, <2>1, <2>2 DEF ObserveBad
<1>11. CASE Promote
  BY <1>11 DEF Promote, Content, Record
<1>12. CASE Republish
  <2>1. Repaired("stable") \in Content
    BY RepairedContent
  <2>. QED BY <1>12, <2>1 DEF Republish
<1>13. CASE BeginRollback
  BY <1>13 DEF BeginRollback, RollbackAllowed, Content, Record
<1>14. CASE Restore
  BY <1>14 DEF Restore, Content, Record
<1>15. CASE MarkRolledBack
  <2>1. row' \in Row
    <3>1. row \in Row
      OBVIOUS
    <3>2. row' = [row EXCEPT !.flagged = FALSE, !.regressions = 0]
      BY <1>15 DEF MarkRolledBack
    <3>. HIDE DEF RepairTypeOK
    <3>. QED BY <3>1, <3>2, RolledBackRow
  <2>. QED BY <1>15, <2>1 DEF MarkRolledBack
<1>16. CASE CloseRepair
  BY <1>16 DEF CloseRepair, Content, Record
<1>17. CASE Interrupted
  BY <1>17 DEF Interrupted, Content, Record
<1>. HIDE DEF RepairTypeOK, At, Then
<1>. QED BY <1>1, <1>2, <1>3, <1>4, <1>5, <1>6, <1>7, <1>8, <1>9, <1>10, <1>11, <1>12,
     <1>13, <1>14, <1>15, <1>16, <1>17, <1>18 DEF RepairNext

\* Every step keeps the record true to its snapshot.
LEMMA RecordStep ==
  RepairInv /\ [RepairNext]_repairVars => RecordInv'
<1>. SUFFICES ASSUME RepairInv, [RepairNext]_repairVars PROVE RecordInv'
  OBVIOUS
<1>18. CASE UNCHANGED repairVars
  BY <1>18 DEF repairVars, At, Unedited, RepairInv, RecordInv, FileInv, PlaceInv
<1>. USE RepairConstants DEF RepairTypeOK, Content, Record, At, Then, Unedited,
     RepairInv, RecordInv, FileInv, PlaceInv
<1>1. CASE Edit
  <2>1. PICK kept \in {content.repaired, FALSE} :
          content' = [content EXCEPT !.base = @ + 1, !.repaired = kept]
    BY <1>1 DEF Edit
  <2>a. content \in Content
    OBVIOUS
  <2>b. content.base \in Nat /\ content.repaired \in BOOLEAN
    BY <2>a, ContentFields
  <2>c. kept \in BOOLEAN
    <3>1. CASE kept = content.repaired
      BY <3>1, <2>b
    <3>2. CASE kept = FALSE
      BY <3>2
    <3>. QED BY <2>1, <3>1, <3>2
  <2>2. content \in Content /\ kept \in BOOLEAN /\ content.base + 1 \in Nat
    BY <2>a, <2>b, <2>c
  <2>3. content' = [base |-> content.base + 1, repaired |-> kept, audit |-> content.audit]
    BY <2>1, <2>2, EditedContent
  <2>4. Unedited => record.kept.base <= content.base /\ record.kept.base \in Nat
    BY DEF RecordInv
  <2>5. Unedited => content.base + 1 # record.kept.base /\ record.kept.base <= content.base + 1
    BY <2>4, <2>b
  <2>. QED BY <1>1, <2>1, <2>3, <2>5 DEF Edit
<1>2. CASE BeginApply
  BY <1>2 DEF BeginApply
<1>3. CASE Prepare
  <2>1. loaded \in Content
    OBVIOUS
  <2>2. [Unaudited(loaded) EXCEPT !.repaired = TRUE]
          = [base |-> loaded.base, repaired |-> TRUE, audit |-> "none"]
    BY <2>1, PreparedContent
  <2>3. /\ record'.phase = "prepared" /\ record'.kept = content
        /\ record'.prepared = [Unaudited(loaded) EXCEPT !.repaired = TRUE]
    BY <1>3 DEF Prepare
  <2>. QED BY <1>3, <2>2, <2>3 DEF Prepare
<1>4. CASE NotApplied
  BY <1>4 DEF NotApplied
<1>5. CASE Publish
  <2>1. loaded.audit \in {"none", "observing", "stable"} /\ content \in Content
    BY DEF Content
  <2>2. Repaired(loaded.audit) = [base |-> content.base, repaired |-> TRUE, audit |-> loaded.audit]
    BY <2>1, RepairedContent
  <2>. QED BY <1>5, <2>2 DEF Publish
<1>6. CASE Published
  BY <1>6 DEF Published
<1>7. ASSUME NEW e \in Evidence, NEW llm \in BOOLEAN, NEW confident \in BOOLEAN, Decide(e, llm, confident)
      PROVE RecordInv'
  BY <1>7 DEF Decide, Tier
<1>8. CASE BeginObserve
  BY <1>8 DEF BeginObserve
<1>9. ASSUME NEW e \in Evidence, ObserveGood(e) PROVE RecordInv'
  BY <1>9 DEF ObserveGood
<1>10. ASSUME NEW e \in Evidence, ObserveBad(e) PROVE RecordInv'
  BY <1>10 DEF ObserveBad
<1>11. CASE Promote
  BY <1>11 DEF Promote
<1>12. CASE Republish
  <2>1. Repaired("stable") = [base |-> content.base, repaired |-> TRUE, audit |-> "stable"]
    BY RepairedContent
  <2>. QED BY <1>12, <2>1 DEF Republish
<1>13. CASE BeginRollback
  <2>1. content \in Content
    OBVIOUS
  <2>2. Unaudited(content) = [base |-> content.base, repaired |-> content.repaired, audit |-> "none"]
    BY <2>1, PreparedContent
  <2>. QED BY <1>13, <2>2 DEF BeginRollback, RollbackAllowed
<1>14. CASE Restore
  BY <1>14 DEF Restore
<1>15. CASE MarkRolledBack
  BY <1>15 DEF MarkRolledBack
<1>16. CASE CloseRepair
  BY <1>16 DEF CloseRepair
<1>17. CASE Interrupted
  BY <1>17 DEF Interrupted
<1>. HIDE DEF RepairTypeOK, Content, Record, At, Then, Unedited, RepairInv, RecordInv,
     FileInv, PlaceInv
<1>. QED BY <1>1, <1>2, <1>3, <1>4, <1>5, <1>6, <1>7, <1>8, <1>9, <1>10, <1>11, <1>12,
     <1>13, <1>14, <1>15, <1>16, <1>17, <1>18 DEF RepairNext

\* Every step keeps the file and the record in line.
LEMMA FileStep ==
  RepairInv /\ [RepairNext]_repairVars => FileInv'
<1>. SUFFICES ASSUME RepairInv, [RepairNext]_repairVars PROVE FileInv'
  OBVIOUS
<1>18. CASE UNCHANGED repairVars
  BY <1>18 DEF repairVars, At, Unedited, RepairInv, RecordInv, FileInv, PlaceInv
<1>. USE RepairConstants DEF RepairTypeOK, Content, Record, At, Then, Unedited,
     RepairInv, RecordInv, FileInv, PlaceInv
<1>1. CASE Edit
  <2>1. PICK kept \in {content.repaired, FALSE} :
          content' = [content EXCEPT !.base = @ + 1, !.repaired = kept]
    BY <1>1 DEF Edit
  <2>a. content \in Content
    OBVIOUS
  <2>b. content.base \in Nat /\ content.repaired \in BOOLEAN
    BY <2>a, ContentFields
  <2>c. kept \in BOOLEAN
    <3>1. CASE kept = content.repaired
      BY <3>1, <2>b
    <3>2. CASE kept = FALSE
      BY <3>2
    <3>. QED BY <2>1, <3>1, <3>2
  <2>2. content \in Content /\ kept \in BOOLEAN /\ content.base + 1 \in Nat
    BY <2>a, <2>b, <2>c
  <2>3. content' = [base |-> content.base + 1, repaired |-> kept, audit |-> content.audit]
    BY <2>1, <2>2, EditedContent
  <2>4. Unedited => record.kept.base <= content.base /\ record.kept.base \in Nat
    BY DEF RecordInv
  <2>5. Unedited => content.base + 1 # record.kept.base /\ record.kept.base <= content.base + 1
    BY <2>4, <2>b
  <2>. QED BY <1>1, <2>1, <2>3, <2>5 DEF Edit
<1>2. CASE BeginApply
  BY <1>2 DEF BeginApply
<1>3. CASE Prepare
  <2>1. loaded \in Content
    OBVIOUS
  <2>2. [Unaudited(loaded) EXCEPT !.repaired = TRUE]
          = [base |-> loaded.base, repaired |-> TRUE, audit |-> "none"]
    BY <2>1, PreparedContent
  <2>3. /\ record'.phase = "prepared" /\ record'.kept = content
        /\ record'.prepared = [Unaudited(loaded) EXCEPT !.repaired = TRUE]
    BY <1>3 DEF Prepare
  <2>. QED BY <1>3, <2>2, <2>3 DEF Prepare
<1>4. CASE NotApplied
  BY <1>4 DEF NotApplied
<1>5. CASE Publish
  <2>1. loaded.audit \in {"none", "observing", "stable"} /\ content \in Content
    BY DEF Content
  <2>2. Repaired(loaded.audit) = [base |-> content.base, repaired |-> TRUE, audit |-> loaded.audit]
    BY <2>1, RepairedContent
  <2>. QED BY <1>5, <2>2 DEF Publish
<1>6. CASE Published
  BY <1>6 DEF Published
<1>7. ASSUME NEW e \in Evidence, NEW llm \in BOOLEAN, NEW confident \in BOOLEAN, Decide(e, llm, confident)
      PROVE FileInv'
  BY <1>7 DEF Decide, Tier
<1>8. CASE BeginObserve
  BY <1>8 DEF BeginObserve
<1>9. ASSUME NEW e \in Evidence, ObserveGood(e) PROVE FileInv'
  BY <1>9 DEF ObserveGood
<1>10. ASSUME NEW e \in Evidence, ObserveBad(e) PROVE FileInv'
  BY <1>10 DEF ObserveBad
<1>11. CASE Promote
  BY <1>11 DEF Promote
<1>12. CASE Republish
  <2>1. Repaired("stable") = [base |-> content.base, repaired |-> TRUE, audit |-> "stable"]
    BY RepairedContent
  <2>. QED BY <1>12, <2>1 DEF Republish
<1>13. CASE BeginRollback
  <2>1. content \in Content
    OBVIOUS
  <2>2. Unaudited(content) = [base |-> content.base, repaired |-> content.repaired, audit |-> "none"]
    BY <2>1, PreparedContent
  <2>. QED BY <1>13, <2>2 DEF BeginRollback, RollbackAllowed
<1>14. CASE Restore
  BY <1>14 DEF Restore
<1>15. CASE MarkRolledBack
  BY <1>15 DEF MarkRolledBack
<1>16. CASE CloseRepair
  BY <1>16 DEF CloseRepair
<1>17. CASE Interrupted
  BY <1>17 DEF Interrupted
<1>. HIDE DEF RepairTypeOK, Content, Record, At, Then, Unedited, RepairInv, RecordInv,
     FileInv, PlaceInv
<1>. QED BY <1>1, <1>2, <1>3, <1>4, <1>5, <1>6, <1>7, <1>8, <1>9, <1>10, <1>11, <1>12,
     <1>13, <1>14, <1>15, <1>16, <1>17, <1>18 DEF RepairNext

\* Every step leaves what the next one relies on.
LEMMA PlaceStep ==
  RepairInv /\ [RepairNext]_repairVars => PlaceInv'
<1>. SUFFICES ASSUME RepairInv, [RepairNext]_repairVars PROVE PlaceInv'
  OBVIOUS
<1>18. CASE UNCHANGED repairVars
  BY <1>18 DEF repairVars, At, Unedited, RepairInv, RecordInv, FileInv, PlaceInv
<1>. USE RepairConstants DEF RepairTypeOK, Content, Record, At, Then, Unedited,
     RepairInv, RecordInv, FileInv, PlaceInv
<1>1. CASE Edit
  <2>1. PICK kept \in {content.repaired, FALSE} :
          content' = [content EXCEPT !.base = @ + 1, !.repaired = kept]
    BY <1>1 DEF Edit
  <2>a. content \in Content
    OBVIOUS
  <2>b. content.base \in Nat /\ content.repaired \in BOOLEAN
    BY <2>a, ContentFields
  <2>c. kept \in BOOLEAN
    <3>1. CASE kept = content.repaired
      BY <3>1, <2>b
    <3>2. CASE kept = FALSE
      BY <3>2
    <3>. QED BY <2>1, <3>1, <3>2
  <2>2. content \in Content /\ kept \in BOOLEAN /\ content.base + 1 \in Nat
    BY <2>a, <2>b, <2>c
  <2>3. content' = [base |-> content.base + 1, repaired |-> kept, audit |-> content.audit]
    BY <2>1, <2>2, EditedContent
  <2>4. Unedited => record.kept.base <= content.base /\ record.kept.base \in Nat
    BY DEF RecordInv
  <2>5. Unedited => content.base + 1 # record.kept.base /\ record.kept.base <= content.base + 1
    BY <2>4, <2>b
  <2>. QED BY <1>1, <2>1, <2>3, <2>5 DEF Edit
<1>2. CASE BeginApply
  BY <1>2 DEF BeginApply
<1>3. CASE Prepare
  <2>1. loaded \in Content
    OBVIOUS
  <2>2. [Unaudited(loaded) EXCEPT !.repaired = TRUE]
          = [base |-> loaded.base, repaired |-> TRUE, audit |-> "none"]
    BY <2>1, PreparedContent
  <2>3. /\ record'.phase = "prepared" /\ record'.kept = content
        /\ record'.prepared = [Unaudited(loaded) EXCEPT !.repaired = TRUE]
    BY <1>3 DEF Prepare
  <2>. QED BY <1>3, <2>2, <2>3 DEF Prepare
<1>4. CASE NotApplied
  BY <1>4 DEF NotApplied
<1>5. CASE Publish
  <2>1. loaded.audit \in {"none", "observing", "stable"} /\ content \in Content
    BY DEF Content
  <2>2. Repaired(loaded.audit) = [base |-> content.base, repaired |-> TRUE, audit |-> loaded.audit]
    BY <2>1, RepairedContent
  <2>. QED BY <1>5, <2>2 DEF Publish
<1>6. CASE Published
  BY <1>6 DEF Published
<1>7. ASSUME NEW e \in Evidence, NEW llm \in BOOLEAN, NEW confident \in BOOLEAN, Decide(e, llm, confident)
      PROVE PlaceInv'
  BY <1>7 DEF Decide, Tier
<1>8. CASE BeginObserve
  BY <1>8 DEF BeginObserve
<1>9. ASSUME NEW e \in Evidence, ObserveGood(e) PROVE PlaceInv'
  BY <1>9 DEF ObserveGood
<1>10. ASSUME NEW e \in Evidence, ObserveBad(e) PROVE PlaceInv'
  BY <1>10 DEF ObserveBad
<1>11. CASE Promote
  BY <1>11 DEF Promote
<1>12. CASE Republish
  <2>1. Repaired("stable") = [base |-> content.base, repaired |-> TRUE, audit |-> "stable"]
    BY RepairedContent
  <2>. QED BY <1>12, <2>1 DEF Republish
<1>13. CASE BeginRollback
  <2>1. content \in Content
    OBVIOUS
  <2>2. Unaudited(content) = [base |-> content.base, repaired |-> content.repaired, audit |-> "none"]
    BY <2>1, PreparedContent
  <2>. QED BY <1>13, <2>2 DEF BeginRollback, RollbackAllowed
<1>14. CASE Restore
  BY <1>14 DEF Restore
<1>15. CASE MarkRolledBack
  BY <1>15 DEF MarkRolledBack
<1>16. CASE CloseRepair
  BY <1>16 DEF CloseRepair
<1>17. CASE Interrupted
  BY <1>17 DEF Interrupted
<1>. HIDE DEF RepairTypeOK, Content, Record, At, Then, Unedited, RepairInv, RecordInv,
     FileInv, PlaceInv
<1>. QED BY <1>1, <1>2, <1>3, <1>4, <1>5, <1>6, <1>7, <1>8, <1>9, <1>10, <1>11, <1>12,
     <1>13, <1>14, <1>15, <1>16, <1>17, <1>18 DEF RepairNext

\* A tracked file is one that a rollback accepts.
LEMMA RepairTracked == RepairInv => RepairIsTracked
<1>. SUFFICES ASSUME RepairInv PROVE RepairIsTracked
  OBVIOUS
<1>1. content \in Content /\ RepairTypeOK
  BY DEF RepairInv, RepairTypeOK
<1>2. Unaudited(content) = [base |-> content.base, repaired |-> content.repaired, audit |-> "none"]
  BY <1>1, PreparedContent
<1>3. ASSUME content.repaired, ~raced
      PROVE  /\ record.phase \in {"prepared", "applied"} /\ ~record.kept.repaired
             /\ At("idle") /\ content.base = record.kept.base => RollbackAllowed
  <2>1. content.repaired = TRUE /\ Unedited
    BY <1>1, <1>3 DEF Content, RepairTypeOK, Unedited
  <2>2. RecordInv /\ FileInv
    BY <2>1 DEF RepairInv
  <2>. QED BY <1>2, <2>1, <2>2 DEF RecordInv, FileInv, RollbackAllowed
<1>. QED BY <1>1, <1>3 DEF RepairIsTracked

\* The invariant holds wherever commands, edits and crashes lead.
LEMMA RepairInductive == RepairSpec => []RepairInv
<1>1. RepairInv /\ [RepairNext]_repairVars => RepairInv'
  BY RepairTypes, RecordStep, FileStep, PlaceStep DEF RepairInv
<1>. QED BY <1>1, RepairInitInv, PTL DEF RepairSpec

\* For any evidence, limits and numbers of edits, observations and crashes: a rule in the
\* configuration has the record that undoes it, and a rollback accepts an unedited file.
THEOREM RepairStaysTracked == RepairSpec => []RepairIsTracked
BY RepairInductive, RepairTracked, PTL

\* No command takes back an edit of the owner, unless it overtook a rollback.
THEOREM EditsAreKept == RepairSpec => EditsKept
<1>1. RepairInv /\ [RepairNext]_repairVars =>
        [content'.base < content.base => At("restore") /\ raced]_repairVars
  <2>. SUFFICES ASSUME RepairInv, RepairNext, content'.base < content.base
                PROVE  At("restore") /\ raced
    BY DEF repairVars
  <2>0. content \in Content /\ loaded.audit \in {"none", "observing", "stable"}
    BY DEF RepairInv, RepairTypeOK, Content
  <2>6. \/ Edit \/ Publish \/ Republish \/ Restore
        \/ content' = content
    BY DEF RepairNext, BeginApply, Prepare, NotApplied, Published, Decide, BeginObserve,
           ObserveGood, ObserveBad, Promote, BeginRollback, MarkRolledBack, CloseRepair,
           Interrupted
  <2>. USE DEF RepairInv, RepairTypeOK, Content, Record, At
  <2>1. CASE Edit
    <3>1. PICK kept \in {content.repaired, FALSE} :
            content' = [content EXCEPT !.base = @ + 1, !.repaired = kept]
      BY <2>1 DEF Edit
    <3>0. content.base \in Nat /\ content.repaired \in BOOLEAN
      BY <2>0, ContentFields
    <3>2. kept \in BOOLEAN /\ content.base + 1 \in Nat
      <4>1. CASE kept = content.repaired
        BY <4>1, <3>0
      <4>2. CASE kept = FALSE
        <5>1. kept \in BOOLEAN
          BY <4>2
        <5>2. content.base + 1 \in Nat
          BY <3>0
        <5>. QED BY <5>1, <5>2
      <4>. QED BY <3>1, <4>1, <4>2
    <3>3. content'.base = content.base + 1
      BY <2>0, <3>1, <3>2, EditedContent
    <3>. QED BY <3>0, <3>3
  <2>2. CASE Publish
    <3>1. Repaired(loaded.audit).base = content.base
      BY <2>0, RepairedContent
    <3>. QED BY <2>2, <3>1 DEF Publish
  <2>3. CASE Republish
    <3>1. Repaired("stable").base = content.base
      BY <2>0, RepairedContent
    <3>. QED BY <2>3, <3>1 DEF Republish
  <2>4. CASE Restore
    BY <2>4 DEF Restore, Unedited, PlaceInv
  <2>5. CASE content' = content
    BY <2>5
  <2>7. content'.base # content.base \/ ~(content'.base < content.base)
    BY <2>0
  <2>. HIDE DEF RepairInv, RepairTypeOK, Content, Record, At
  <2>. QED BY <2>1, <2>2, <2>3, <2>4, <2>5, <2>6
<1>. QED BY <1>1, RepairInductive, PTL DEF EditsKept, RepairSpec

-----------------------------------------------------------------------------
(* Update of the program                                                   *)

\* How the step of a run and its outcome go together.
StepInv ==
  /\ step # "idle" => run >= 1 /\ outcome \in {"running", "stuck"}
  /\ outcome = "stuck" => step \in {"rollback", "idle"}
  /\ step = "idle" => outcome # "running"
  /\ current # NoFile => step = "replace" /\ current \in applied
  /\ release <= goal
  /\ step \in {"finish", "delete"} => release = goal

\* The asides of the current run are not in the list of left-overs: it has not ended, or it
\* ended without writing the list.
Unlisted ==
  \/ step \in {"clean", "fetch", "replace"}
  \/ step = "rollback" /\ outcome # "stuck"
  \/ outcome = "crashed"

\* Asides and entries of the list are of this run or of earlier ones.
ListInv ==
  /\ \A a \in asides : a.run <= run
  /\ \A x \in leftOver : x.run <= run
  /\ step \in {"clean", "fetch"} => \A a \in asides : a.run # run
  /\ Unlisted => run >= 1 /\ \A x \in leftOver : x.run # run

\* A payload path in the list was dropped by a release.
DroppedInv ==
  \A x \in leftOver : x.run = 0 => \E t \in 1 .. release : x.file \in Deleted(t)

\* While files are replaced or put back, each is the old one, or the old one is aside.
SwapInv ==
  step \in {"replace", "rollback"} /\ outcome = "running" =>
    /\ \A f \in Files : f \notin applied => disk[f] = before[f]
    /\ \A f \in applied : before[f] # 0 => [file |-> f, run |-> run, content |-> before[f]] \in asides
    /\ \A a \in OwnAsides : a.file \in applied /\ a.content = before[a.file] /\ a.content # 0
    /\ step = "replace" => \A f \in todo : f \notin applied

\* The file is what the release to be wants.
Provided(f) == disk[f] = Manifest[goal][f] \/ (f \in UserOwned /\ disk[f] # 0)

\* A lasting file is still to be replaced, being replaced, or as the release wants it,
\* although the plan was made before the clean-up.
WorkInv ==
  /\ step \in {"clean", "fetch", "replace"} =>
       \A f \in Lasting(goal) : f \in todo \/ f = current \/ Provided(f)
  /\ step \in {"finish", "delete"} => \A f \in Lasting(goal) : Provided(f)

\* After a crash in the middle, the old files are still there.
CrashedInv ==
  outcome = "crashed" =>
    \A f \in Lasting(goal) :
      before[f] # 0 =>
        \/ disk[f] = before[f]
        \/ [file |-> f, run |-> run, content |-> before[f]] \in asides

\* The inductive invariant of an update.  OldFilesKept and AppliedIsComplete are kept by
\* later clean-ups because the list never names what they speak of.
UpdateInv == UpdateTypeOK /\ StepInv /\ ListInv /\ DroppedInv /\ SwapInv /\ WorkInv
             /\ CrashedInv /\ AppliedIsComplete

\* Releases are numbered from 1.
LEMMA ReleaseFacts ==
  /\ Len(Manifest) \in Nat /\ Releases = 1 .. Len(Manifest) /\ 1 \in Releases
  /\ \A r \in Releases : r \in Nat /\ Manifest[r] \in [Files -> Nat]
BY UpdaterConstants DEF Releases

\* What a release drops.
LEMMA DeletedFacts ==
  ASSUME NEW r \in Releases, NEW f \in Files
  PROVE  f \in Deleted(r) <=> Manifest[r][f] = 0 /\ \E s \in 1 .. r : Manifest[s][f] # 0
<1>1. f \in Shipped(r) <=> Manifest[r][f] # 0
  BY DEF Shipped
<1>2. f \in UNION {Shipped(s) : s \in 1 .. r} <=> \E s \in 1 .. r : f \in Shipped(s)
  OBVIOUS
<1>3. (\E s \in 1 .. r : f \in Shipped(s)) <=> \E s \in 1 .. r : Manifest[s][f] # 0
  BY DEF Shipped
<1>. QED BY <1>1, <1>2, <1>3 DEF Deleted

\* A lasting file was dropped by no earlier release.
LEMMA LastingFacts ==
  ASSUME NEW r \in Releases, NEW f \in Lasting(r)
  PROVE  /\ f \in Files /\ f \in Shipped(r) /\ Manifest[r][f] # 0
         /\ \A t \in 1 .. r : f \notin Deleted(t)
<1>1. f \in Files /\ f \in Shipped(r) /\ ~Returns(f, r) /\ Manifest[r][f] # 0
  BY DEF Lasting, Shipped
<1>2. ASSUME NEW t \in 1 .. r, f \in Deleted(t)
      PROVE  FALSE
  <2>1. t \in Releases
    BY ReleaseFacts
  <2>2. Manifest[t][f] = 0 /\ \E s \in 1 .. t : Manifest[s][f] # 0
    BY <1>1, <1>2, <2>1, DeletedFacts
  <2>3. PICK s \in 1 .. t : Manifest[s][f] # 0
    BY <2>2
  <2>4. s # t
    BY <2>2, <2>3
  <2>5. s \in 1 .. r /\ s < t
    BY <2>1, <2>4, ReleaseFacts
  <2>6. f \in Shipped(s)
    BY <1>1, <2>3 DEF Shipped
  <2>. QED BY <1>1, <1>2, <2>5, <2>6 DEF Returns
<1>. QED BY <1>1, <1>2

\* So the list does not name it.
LEMMA NotListed ==
  ASSUME UpdateTypeOK, DroppedInv, NEW r \in Releases, release <= r, NEW f \in Lasting(r)
  PROVE  [file |-> f, run |-> 0] \notin leftOver
<1>1. SUFFICES ASSUME [file |-> f, run |-> 0] \in leftOver PROVE FALSE
  OBVIOUS
<1>2. PICK t \in 1 .. release : f \in Deleted(t)
  BY <1>1 DEF DroppedInv
<1>3. t \in 1 .. r
  BY ReleaseFacts DEF UpdateTypeOK
<1>. QED BY <1>2, <1>3, LastingFacts

\* What a clean-up leaves.
LEMMA CleanUpEffect ==
  ASSUME UpdateTypeOK, CleanUp
  PROVE  /\ disk' \in [Files -> FileContent] /\ asides' \subseteq asides /\ leftOver' \subseteq leftOver
         /\ \A f \in Files : [file |-> f, run |-> 0] \notin leftOver => disk'[f] = disk[f]
         /\ \A f \in Files : disk'[f] # 0 => disk'[f] = disk[f]
         /\ \A f \in Files : [file |-> f, run |-> 0] \in leftOver /\ disk'[f] # 0
              => [file |-> f, run |-> 0] \in leftOver'
         /\ \A a \in asides : PathOf(a) \notin leftOver => a \in asides'
<1>. USE DEF UpdateTypeOK
<1>1. PICK removed \in SUBSET Alive :
        /\ disk' = DiskWithout(removed)
        /\ asides' = AsidesWithout(removed)
        /\ leftOver' = Alive \ removed
  BY DEF CleanUp
<1>2. Alive \subseteq leftOver
  BY DEF Alive
<1>3. 0 \in FileContent
  BY DEF FileContent
<1>4. disk' \in [Files -> FileContent]
  BY <1>1, <1>3 DEF DiskWithout
<1>5. asides' \subseteq asides /\ leftOver' \subseteq leftOver
  BY <1>1, <1>2 DEF AsidesWithout
<1>6. \A f \in Files : disk'[f] = IF [file |-> f, run |-> 0] \in removed THEN 0 ELSE disk[f]
  BY <1>1 DEF DiskWithout
<1>7. ASSUME NEW f \in Files, [file |-> f, run |-> 0] \in leftOver, disk'[f] # 0
      PROVE  [file |-> f, run |-> 0] \in leftOver'
  <2>1. disk[f] # 0 /\ [file |-> f, run |-> 0] \notin removed
    BY <1>6, <1>7
  <2>2. [file |-> f, run |-> 0] \in Alive
    BY <1>7, <2>1 DEF Alive
  <2>. QED BY <1>1, <2>1, <2>2
<1>8. ASSUME NEW a \in asides, PathOf(a) \notin leftOver
      PROVE  a \in asides'
  BY <1>1, <1>2, <1>8 DEF AsidesWithout
<1>. QED BY <1>2, <1>4, <1>5, <1>6, <1>7, <1>8

\* What a kill leaves.
LEMMA CrashEffect ==
  ASSUME UpdateTypeOK, UpdateCrash
  PROVE  /\ disk' \in [Files -> FileContent] /\ asides' \subseteq asides
         /\ release' \in Releases /\ release' \in {release, goal}
         /\ step \in {"replace", "rollback"} =>
              /\ asides' = asides
              /\ \A f \in Files : f # current => disk'[f] = disk[f]
<1>. USE DEF UpdateTypeOK
<1>1. PICK gone :
        /\ step \in {"replace", "rollback"} => gone = {}
        /\ asides' = AsidesWithout(gone)
        /\ \/ disk' = DiskWithout(gone)
           \/ current # NoFile /\ disk' = [disk EXCEPT ![current] = Partial]
  BY DEF UpdateCrash
<1>2. 0 \in FileContent /\ Partial \in FileContent
  BY DEF FileContent
<1>3. DiskWithout(gone) \in [Files -> FileContent]
  BY <1>2 DEF DiskWithout
<1>4. disk' \in [Files -> FileContent]
  BY <1>1, <1>2, <1>3
<1>5. release' \in {release, goal}
  BY DEF UpdateCrash
<1>6. gone = {} => AsidesWithout(gone) = asides /\ DiskWithout(gone) = disk
  BY DEF AsidesWithout, DiskWithout
<1>7. asides' \subseteq asides
  BY <1>1 DEF AsidesWithout
<1>. QED BY <1>1, <1>4, <1>5, <1>6, <1>7

\* A list that cannot be written gains nothing.
LEMMA ListWriteEffect ==
  ASSUME ListWriteFails
  PROVE  leftOver' \subseteq leftOver
BY DEF ListWriteFails

\* What an update leaves that cannot write its list at the end.
LEMMA FinishFailsEffect ==
  ASSUME FinishFails, UpdateTypeOK
  PROVE  /\ step = "finish" /\ step' = "idle" /\ outcome' = "unfinished" /\ errors' \in Nat
         /\ asides' \subseteq asides /\ leftOver' \subseteq leftOver
         /\ disk' = disk /\ release' = release /\ goal' = goal /\ run' = run
         /\ todo' = todo /\ current' = current /\ applied' = applied /\ before' = before
<1>1. asides' \subseteq asides
  BY DEF FinishFails, OwnAsides
<1>. QED BY <1>1, ListWriteEffect DEF FinishFails, Fault, planVars, UpdateTypeOK

\* An installation satisfies the invariant.
LEMMA UpdateInitInv == UpdateInit => UpdateInv
<1>. SUFFICES ASSUME UpdateInit PROVE UpdateInv
  OBVIOUS
<1>. USE UpdaterConstants, ReleaseFacts DEF UpdateInit
<1>1. Manifest[1] \in [Files -> FileContent]
  BY DEF FileContent
<1>2. UpdateTypeOK
  BY <1>1 DEF UpdateTypeOK
<1>3. StepInv /\ ListInv /\ DroppedInv /\ SwapInv
  BY DEF StepInv, ListInv, Unlisted, DroppedInv, SwapInv
<1>4. WorkInv /\ CrashedInv /\ AppliedIsComplete
  BY DEF WorkInv, CrashedInv, AppliedIsComplete
<1>. QED BY <1>2, <1>3, <1>4 DEF UpdateInv

\* Every step keeps the types.
LEMMA UpdateTypes ==
  UpdateTypeOK /\ StepInv /\ [UpdateNext]_updateVars => UpdateTypeOK'
<1>. SUFFICES ASSUME UpdateTypeOK /\ StepInv, [UpdateNext]_updateVars PROVE UpdateTypeOK'
  OBVIOUS
<1>. USE UpdaterConstants DEF UpdateTypeOK, StepInv
<1>1. ASSUME NEW r \in Releases, Plan(r) PROVE UpdateTypeOK'
  <2>1. ToFetch(r) \subseteq Files
    BY DEF ToFetch, Shipped
  <2>. QED BY <1>1, <2>1 DEF Plan
<1>2. CASE CleanFirst
  <2>1. disk' \in [Files -> FileContent] /\ asides' \subseteq asides /\ leftOver' \subseteq leftOver
    BY <1>2, CleanUpEffect DEF CleanFirst
  <2>. QED BY <1>2, <2>1 DEF CleanFirst, planVars
<1>3. CASE CleanAlone
  <2>1. disk' \in [Files -> FileContent] /\ asides' \subseteq asides /\ leftOver' \subseteq leftOver
    BY <1>3, CleanUpEffect DEF CleanAlone
  <2>. QED BY <1>3, <2>1 DEF CleanAlone, planVars
<1>4. ASSUME NEW full \in BOOLEAN, Fetch(full) PROVE UpdateTypeOK'
  BY <1>4 DEF Fetch, planVars, Shipped
<1>5. CASE FetchFails
  BY <1>5 DEF FetchFails, Fault, planVars
<1>6. ASSUME NEW f \in Files, Preserve(f) PROVE UpdateTypeOK'
  BY <1>6 DEF Preserve, planVars
<1>7. ASSUME NEW f \in Files, MoveAside(f) PROVE UpdateTypeOK'
  <2>1. disk' \in [Files -> FileContent]
    BY <1>7 DEF MoveAside, FileContent
  <2>2. asides' \subseteq Aside
    BY <1>7 DEF MoveAside, Aside
  <2>. QED BY <1>7, <2>1, <2>2 DEF MoveAside, planVars
<1>8. ASSUME NEW f \in Files, RollBackFile(f) PROVE UpdateTypeOK'
  <2>1. \A a \in AsideOf(f) : a.content \in FileContent
    BY DEF AsideOf, OwnAsides, Aside
  <2>2. 0 \in FileContent
    BY DEF FileContent
  <2>3. PICK c \in FileContent : disk' = [disk EXCEPT ![f] = c]
    BY <1>8, <2>1, <2>2 DEF RollBackFile
  <2>4. disk' \in [Files -> FileContent]
    BY <2>3
  <2>. QED BY <1>8, <2>4 DEF RollBackFile, planVars
<1>9. ASSUME NEW f \in Files, RollBackStuck(f) PROVE UpdateTypeOK'
  <2>1. disk' \in [Files -> FileContent]
    BY <1>9 DEF RollBackStuck, FileContent
  <2>2. \A a \in AsideOf(f) : PathOf(a) \in Path
    BY DEF AsideOf, OwnAsides, Aside, PathOf, Path
  <2>3. leftOver' \subseteq Path
    BY <1>9, <2>2 DEF RollBackStuck
  <2>. QED BY <1>9, <2>1, <2>3 DEF RollBackStuck, Fault, planVars
<1>10. CASE WriteNew
  <2>1. Manifest[goal][current] \in FileContent
    BY <1>10, ReleaseFacts DEF WriteNew, FileContent
  <2>. QED BY <1>10, <2>1 DEF WriteNew, planVars
<1>11. CASE ReplaceFails
  <2>1. Partial \in FileContent
    BY DEF FileContent
  <2>2. disk' \in [Files -> FileContent]
    BY <1>11, <2>1 DEF ReplaceFails
  <2>. QED BY <1>11, <2>2 DEF ReplaceFails, Fault, planVars
<1>12. CASE RollBackEnds
  <2>1. leftOver' \subseteq leftOver /\ errors' \in Nat
    BY <1>12, ListWriteEffect DEF RollBackEnds, Fault
  <2>. QED BY <1>12, <2>1 DEF RollBackEnds, planVars
<1>13. CASE ReplaceEnds
  BY <1>13 DEF ReplaceEnds
<1>14. CASE Finish
  <2>1. PICK inUse \in SUBSET OwnAsides :
          /\ asides' = (asides \ OwnAsides) \cup inUse
          /\ leftOver' = leftOver \cup {PathOf(a) : a \in inUse}
    BY <1>14 DEF Finish
  <2>2. OwnAsides \subseteq asides
    BY DEF OwnAsides
  <2>3. \A a \in inUse : PathOf(a) \in Path
    BY <2>2 DEF Aside, PathOf, Path
  <2>4. asides' \subseteq Aside /\ leftOver' \subseteq Path
    BY <2>1, <2>2, <2>3
  <2>. QED BY <1>14, <2>4 DEF Finish, planVars
<1>15. CASE RemoveDeleted
  <2>1. PICK inUse \in SUBSET Present(goal) :
          /\ disk' = [f \in Files |-> IF f \in Deleted(goal) \ inUse THEN 0 ELSE disk[f]]
          /\ leftOver' = leftOver \cup {[file |-> f, run |-> 0] : f \in inUse}
    BY <1>15 DEF RemoveDeleted
  <2>2. disk' \in [Files -> FileContent]
    BY <2>1 DEF FileContent
  <2>3. Present(goal) \subseteq Files
    BY DEF Present, Deleted, Shipped
  <2>4. leftOver' \subseteq Path
    BY <2>1, <2>3 DEF Path
  <2>. QED BY <1>15, <2>2, <2>4 DEF RemoveDeleted, planVars
<1>16. CASE UpdateCrash
  <2>1. disk' \in [Files -> FileContent] /\ asides' \subseteq asides /\ release' \in Releases
    BY <1>16, CrashEffect
  <2>2. step' = "idle" /\ outcome' \in {"crashed", "none"} /\ current' = NoFile /\ errors' \in Nat
    BY <1>16 DEF UpdateCrash, Fault
  <2>3. leftOver' \subseteq leftOver /\ UNCHANGED <<goal, run, todo, applied, before>>
    BY <1>16, ListWriteEffect DEF UpdateCrash
  <2>. QED BY <2>1, <2>2, <2>3
<1>17. CASE UNCHANGED updateVars
  BY <1>17 DEF updateVars
<1>18. CASE FinishFails
  BY <1>18, FinishFailsEffect
<1>. HIDE DEF UpdateTypeOK, StepInv
<1>. QED BY <1>1, <1>2, <1>3, <1>4, <1>5, <1>6, <1>7, <1>8, <1>9, <1>10, <1>11, <1>12,
     <1>13, <1>14, <1>15, <1>16, <1>17, <1>18 DEF UpdateNext

\* Every step keeps step and outcome in line.
LEMMA StepStep ==
  UpdateTypeOK /\ StepInv /\ [UpdateNext]_updateVars => StepInv'
<1>. SUFFICES ASSUME UpdateTypeOK /\ StepInv, [UpdateNext]_updateVars PROVE StepInv'
  OBVIOUS
<1>. USE UpdaterConstants DEF UpdateTypeOK, StepInv
<1>1. ASSUME NEW r \in Releases, Plan(r) PROVE StepInv'
  BY <1>1, ReleaseFacts DEF Plan
<1>2. CASE CleanFirst
  BY <1>2 DEF CleanFirst, planVars
<1>3. CASE CleanAlone
  BY <1>3 DEF CleanAlone, planVars
<1>4. ASSUME NEW full \in BOOLEAN, Fetch(full) PROVE StepInv'
  BY <1>4 DEF Fetch, planVars
<1>5. CASE FetchFails
  BY <1>5 DEF FetchFails, Fault, planVars
<1>6. ASSUME NEW f \in Files, Preserve(f) PROVE StepInv'
  BY <1>6 DEF Preserve, planVars
<1>7. ASSUME NEW f \in Files, MoveAside(f) PROVE StepInv'
  BY <1>7 DEF MoveAside, planVars
<1>8. ASSUME NEW f \in Files, RollBackFile(f) PROVE StepInv'
  BY <1>8 DEF RollBackFile, planVars, AsideOf, OwnAsides
<1>9. ASSUME NEW f \in Files, RollBackStuck(f) PROVE StepInv'
  BY <1>9 DEF RollBackStuck, Fault, planVars, AsideOf, OwnAsides
<1>10. CASE WriteNew
  BY <1>10 DEF WriteNew, planVars
<1>11. CASE ReplaceFails
  BY <1>11 DEF ReplaceFails, Fault, planVars
<1>12. CASE RollBackEnds
  BY <1>12 DEF RollBackEnds, planVars
<1>13. CASE ReplaceEnds
  BY <1>13, ReleaseFacts DEF ReplaceEnds
<1>14. CASE Finish
  BY <1>14 DEF Finish, planVars, OwnAsides
<1>15. CASE RemoveDeleted
  BY <1>15 DEF RemoveDeleted, planVars, Present
<1>16. CASE UpdateCrash
  <2>1. release' \in {release, goal}
    BY <1>16, CrashEffect
  <2>2. step' = "idle" /\ outcome' \in {"crashed", "none"} /\ current' = NoFile /\ goal' = goal
    BY <1>16 DEF UpdateCrash
  <2>. QED BY <2>1, <2>2, ReleaseFacts
<1>17. CASE UNCHANGED updateVars
  BY <1>17 DEF updateVars
<1>18. CASE FinishFails
  BY <1>18, FinishFailsEffect
<1>. HIDE DEF UpdateTypeOK, StepInv
<1>. QED BY <1>1, <1>2, <1>3, <1>4, <1>5, <1>6, <1>7, <1>8, <1>9, <1>10, <1>11, <1>12,
     <1>13, <1>14, <1>15, <1>16, <1>17, <1>18 DEF UpdateNext

\* Every step keeps the runs of asides and entries in order.
LEMMA ListStep ==
  UpdateTypeOK /\ StepInv /\ ListInv /\ [UpdateNext]_updateVars => ListInv'
<1>. SUFFICES ASSUME UpdateTypeOK /\ StepInv /\ ListInv, [UpdateNext]_updateVars
              PROVE ListInv'
  OBVIOUS
<1>. USE UpdaterConstants DEF UpdateTypeOK, StepInv, ListInv, Unlisted
<1>1. ASSUME NEW r \in Releases, Plan(r) PROVE ListInv'
  <2>1. \A a \in asides : a.run \in Nat
    BY DEF Aside
  <2>2. \A x \in leftOver : x.run \in Nat
    BY DEF Path
  <2>. QED BY <1>1, <2>1, <2>2 DEF Plan
<1>2. CASE CleanFirst
  <2>1. asides' \subseteq asides /\ leftOver' \subseteq leftOver
    BY <1>2, CleanUpEffect DEF CleanFirst
  <2>. QED BY <1>2, <2>1 DEF CleanFirst, planVars
<1>3. CASE CleanAlone
  <2>1. asides' \subseteq asides /\ leftOver' \subseteq leftOver
    BY <1>3, CleanUpEffect DEF CleanAlone
  <2>. QED BY <1>3, <2>1 DEF CleanAlone, planVars
<1>4. ASSUME NEW full \in BOOLEAN, Fetch(full) PROVE ListInv'
  BY <1>4 DEF Fetch, planVars
<1>5. CASE FetchFails
  BY <1>5 DEF FetchFails, Fault, planVars
<1>6. ASSUME NEW f \in Files, Preserve(f) PROVE ListInv'
  BY <1>6 DEF Preserve, planVars
<1>7. ASSUME NEW f \in Files, MoveAside(f) PROVE ListInv'
  BY <1>7 DEF MoveAside, planVars
<1>8. ASSUME NEW f \in Files, RollBackFile(f) PROVE ListInv'
  BY <1>8 DEF RollBackFile, planVars, AsideOf, OwnAsides
<1>9. ASSUME NEW f \in Files, RollBackStuck(f) PROVE ListInv'
  <2>1. \A a \in AsideOf(f) : PathOf(a).run = run
    BY DEF AsideOf, OwnAsides, PathOf
  <2>2. \A x \in leftOver' : x \in leftOver \/ x.run = run
    BY <1>9, <2>1 DEF RollBackStuck
  <2>3. /\ step = "rollback" /\ step' = step /\ outcome' = "stuck"
        /\ run' = run /\ asides' = asides
    BY <1>9 DEF RollBackStuck, planVars
  <2>. QED BY <2>2, <2>3
<1>10. CASE WriteNew
  BY <1>10 DEF WriteNew, planVars
<1>11. CASE ReplaceFails
  BY <1>11 DEF ReplaceFails, Fault, planVars
<1>12. CASE RollBackEnds
  <2>1. leftOver' \subseteq leftOver
    BY <1>12, ListWriteEffect DEF RollBackEnds
  <2>. QED BY <1>12, <2>1 DEF RollBackEnds, planVars
<1>13. CASE ReplaceEnds
  BY <1>13 DEF ReplaceEnds
<1>14. CASE Finish
  <2>1. asides' \subseteq asides /\ \A x \in leftOver' : x \in leftOver \/ x.run = run
    BY <1>14 DEF Finish, OwnAsides, PathOf
  <2>. QED BY <1>14, <2>1 DEF Finish, planVars
<1>15. CASE RemoveDeleted
  <2>1. \A x \in leftOver' : x \in leftOver \/ x.run = 0
    BY <1>15 DEF RemoveDeleted
  <2>. QED BY <1>15, <2>1 DEF RemoveDeleted, planVars
<1>16. CASE UpdateCrash
  <2>1. asides' \subseteq asides
    BY <1>16, CrashEffect
  <2>2. /\ step' = "idle" /\ run' = run /\ leftOver' \subseteq leftOver
        /\ outcome' = IF step \in {"replace", "rollback"} /\ outcome # "stuck" THEN "crashed" ELSE "none"
    BY <1>16, ListWriteEffect DEF UpdateCrash
  <2>. QED BY <2>1, <2>2
<1>17. CASE UNCHANGED updateVars
  BY <1>17 DEF updateVars
<1>18. CASE FinishFails
  BY <1>18, FinishFailsEffect
<1>. HIDE DEF UpdateTypeOK, StepInv, ListInv, Unlisted
<1>. QED BY <1>1, <1>2, <1>3, <1>4, <1>5, <1>6, <1>7, <1>8, <1>9, <1>10, <1>11, <1>12,
     <1>13, <1>14, <1>15, <1>16, <1>17, <1>18 DEF UpdateNext

\* Every step enters only what a release dropped.
LEMMA DroppedStep ==
  UpdateTypeOK /\ StepInv /\ DroppedInv /\ [UpdateNext]_updateVars => DroppedInv'
<1>. SUFFICES ASSUME UpdateTypeOK /\ StepInv /\ DroppedInv, [UpdateNext]_updateVars
              PROVE DroppedInv'
  OBVIOUS
<1>. USE UpdaterConstants DEF UpdateTypeOK, StepInv, DroppedInv
<1>1. ASSUME NEW r \in Releases, Plan(r) PROVE DroppedInv'
  BY <1>1 DEF Plan, ToFetch
<1>2. CASE CleanFirst
  <2>1. leftOver' \subseteq leftOver /\ release' = release
    BY <1>2, CleanUpEffect DEF CleanFirst, planVars
  <2>. QED BY <2>1
<1>3. CASE CleanAlone
  <2>1. leftOver' \subseteq leftOver /\ release' = release
    BY <1>3, CleanUpEffect DEF CleanAlone, planVars
  <2>. QED BY <2>1
<1>4. ASSUME NEW full \in BOOLEAN, Fetch(full) PROVE DroppedInv'
  BY <1>4 DEF Fetch, planVars
<1>5. CASE FetchFails
  BY <1>5 DEF FetchFails, Fault, planVars
<1>6. ASSUME NEW f \in Files, Preserve(f) PROVE DroppedInv'
  BY <1>6 DEF Preserve, planVars
<1>7. ASSUME NEW f \in Files, MoveAside(f) PROVE DroppedInv'
  BY <1>7 DEF MoveAside, planVars
<1>8. ASSUME NEW f \in Files, RollBackFile(f) PROVE DroppedInv'
  BY <1>8 DEF RollBackFile, planVars, AsideOf, OwnAsides
<1>9. ASSUME NEW f \in Files, RollBackStuck(f) PROVE DroppedInv'
  <2>1. \A a \in AsideOf(f) : PathOf(a).run # 0
    BY DEF AsideOf, OwnAsides, PathOf, Aside
  <2>2. \A x \in leftOver' : x \in leftOver \/ x.run # 0
    BY <1>9, <2>1 DEF RollBackStuck
  <2>. QED BY <1>9, <2>2 DEF RollBackStuck, planVars
<1>10. CASE WriteNew
  BY <1>10 DEF WriteNew, planVars
<1>11. CASE ReplaceFails
  BY <1>11 DEF ReplaceFails, Fault, planVars
<1>12. CASE RollBackEnds
  <2>1. leftOver' \subseteq leftOver /\ release' = release
    BY <1>12, ListWriteEffect DEF RollBackEnds, planVars
  <2>. QED BY <2>1
<1>13. CASE ReplaceEnds
  <2>1. release' = goal /\ leftOver' = leftOver
    BY <1>13 DEF ReplaceEnds
  <2>2. 1 .. release \subseteq 1 .. goal
    BY ReleaseFacts
  <2>. QED BY <2>1, <2>2
<1>14. CASE Finish
  <2>1. \A a \in OwnAsides : PathOf(a).run # 0
    BY DEF OwnAsides, PathOf, Aside
  <2>2. \A x \in leftOver' : x \in leftOver \/ x.run # 0
    BY <1>14, <2>1 DEF Finish
  <2>. QED BY <1>14, <2>2 DEF Finish, planVars
<1>15. CASE RemoveDeleted
  <2>1. \A x \in leftOver' : x \in leftOver \/ x.file \in Deleted(goal)
    BY <1>15 DEF RemoveDeleted, Present
  <2>2. release' = goal /\ goal \in 1 .. goal
    BY <1>15, ReleaseFacts DEF RemoveDeleted, planVars
  <2>3. release = goal
    BY <1>15 DEF RemoveDeleted
  <2>. QED BY <2>1, <2>2, <2>3
<1>16. CASE UpdateCrash
  <2>1. release' \in {release, goal}
    BY <1>16, CrashEffect
  <2>2. leftOver' \subseteq leftOver
    BY <1>16, ListWriteEffect DEF UpdateCrash
  <2>3. 1 .. release \subseteq 1 .. release'
    BY <2>1, ReleaseFacts
  <2>. QED BY <2>2, <2>3
<1>17. CASE UNCHANGED updateVars
  BY <1>17 DEF updateVars
<1>18. CASE FinishFails
  BY <1>18, FinishFailsEffect
<1>. HIDE DEF UpdateTypeOK, StepInv, DroppedInv
<1>. QED BY <1>1, <1>2, <1>3, <1>4, <1>5, <1>6, <1>7, <1>8, <1>9, <1>10, <1>11, <1>12,
     <1>13, <1>14, <1>15, <1>16, <1>17, <1>18 DEF UpdateNext

\* Every step keeps the old file at its path or aside.
LEMMA SwapStep ==
  UpdateTypeOK /\ StepInv /\ ListInv /\ SwapInv /\ [UpdateNext]_updateVars => SwapInv'
<1>. SUFFICES ASSUME UpdateTypeOK /\ StepInv /\ ListInv /\ SwapInv, [UpdateNext]_updateVars
              PROVE SwapInv'
  OBVIOUS
<1>. USE UpdaterConstants DEF UpdateTypeOK, StepInv, SwapInv, OwnAsides
<1>1. ASSUME NEW r \in Releases, Plan(r) PROVE SwapInv'
  BY <1>1 DEF Plan, ToFetch
<1>2. CASE CleanFirst
  BY <1>2 DEF CleanFirst
<1>3. CASE CleanAlone
  BY <1>3 DEF CleanAlone
<1>4. ASSUME NEW full \in BOOLEAN, Fetch(full) PROVE SwapInv'
  BY <1>4 DEF Fetch, planVars, ListInv
<1>5. CASE FetchFails
  BY <1>5 DEF FetchFails
<1>6. ASSUME NEW f \in Files, Preserve(f) PROVE SwapInv'
  BY <1>6 DEF Preserve, planVars
<1>7. ASSUME NEW f \in Files, MoveAside(f) PROVE SwapInv'
  BY <1>7 DEF MoveAside, planVars
<1>8. ASSUME NEW f \in Files, RollBackFile(f) PROVE SwapInv'
  <2>. SUFFICES ASSUME outcome = "running" PROVE SwapInv'
    BY <1>8 DEF RollBackFile
  <2>1. /\ step = "rollback" /\ step' = step /\ before' = before /\ run' = run
        /\ f \in applied /\ applied' = applied \ {f} /\ asides' = asides \ AsideOf(f)
    BY <1>8 DEF RollBackFile, planVars
  <2>2. before[f] # 0 => AsideOf(f) # {}
    <3>1. [file |-> f, run |-> run, content |-> before[f]] \in asides =>
            [file |-> f, run |-> run, content |-> before[f]] \in AsideOf(f)
      BY DEF AsideOf
    <3>. QED BY <2>1, <3>1
  <2>3. \A a \in AsideOf(f) : a.content = before[f] /\ before[f] # 0
    BY <2>1 DEF AsideOf
  <2>4. disk' = [disk EXCEPT ![f] = before[f]]
    BY <1>8, <2>2, <2>3 DEF RollBackFile
  <2>5. \A g \in Files : g \notin applied' => disk'[g] = before'[g]
    BY <2>1, <2>4
  <2>6. ASSUME NEW g \in applied', before'[g] # 0
        PROVE  [file |-> g, run |-> run', content |-> before'[g]] \in asides'
    <3>1. [file |-> g, run |-> run, content |-> before[g]] \in asides
      BY <2>1, <2>6
    <3>2. [file |-> g, run |-> run, content |-> before[g]] \notin AsideOf(f)
      BY <2>1, <2>6 DEF AsideOf
    <3>. QED BY <2>1, <3>1, <3>2
  <2>7. ASSUME NEW a \in asides', a.run = run'
        PROVE  a.file \in applied' /\ a.content = before'[a.file] /\ a.content # 0
    <3>1. a \in OwnAsides /\ a \notin AsideOf(f)
      BY <2>1, <2>7
    <3>. QED BY <2>1, <3>1 DEF AsideOf
  <2>. QED BY <2>1, <2>5, <2>6, <2>7
<1>9. ASSUME NEW f \in Files, RollBackStuck(f) PROVE SwapInv'
  BY <1>9 DEF RollBackStuck
<1>10. CASE WriteNew
  BY <1>10 DEF WriteNew, planVars
<1>11. CASE ReplaceFails
  BY <1>11 DEF ReplaceFails, Fault, planVars
<1>12. CASE RollBackEnds
  BY <1>12 DEF RollBackEnds
<1>13. CASE ReplaceEnds
  BY <1>13 DEF ReplaceEnds
<1>14. CASE Finish
  BY <1>14 DEF Finish
<1>15. CASE RemoveDeleted
  BY <1>15 DEF RemoveDeleted
<1>16. CASE UpdateCrash
  BY <1>16 DEF UpdateCrash
<1>17. CASE UNCHANGED updateVars
  BY <1>17 DEF updateVars
<1>18. CASE FinishFails
  BY <1>18, FinishFailsEffect
<1>. HIDE DEF UpdateTypeOK, StepInv, SwapInv, OwnAsides
<1>. QED BY <1>1, <1>2, <1>3, <1>4, <1>5, <1>6, <1>7, <1>8, <1>9, <1>10, <1>11, <1>12,
     <1>13, <1>14, <1>15, <1>16, <1>17, <1>18 DEF UpdateNext

\* Every step brings a lasting file towards its release.
LEMMA WorkStep ==
  UpdateTypeOK /\ StepInv /\ DroppedInv /\ WorkInv /\ [UpdateNext]_updateVars => WorkInv'
<1>. SUFFICES ASSUME UpdateTypeOK /\ StepInv /\ DroppedInv /\ WorkInv, [UpdateNext]_updateVars
              PROVE WorkInv'
  OBVIOUS
<1>. USE UpdaterConstants DEF UpdateTypeOK, StepInv, WorkInv, Provided
<1>1. ASSUME NEW r \in Releases, Plan(r) PROVE WorkInv'
  <2>1. goal' = r /\ disk' = disk /\ todo' = ToFetch(r) /\ step' = "clean"
    BY <1>1 DEF Plan
  <2>2. ASSUME NEW f \in Lasting(r)
        PROVE  f \in ToFetch(r) \/ disk[f] = Manifest[r][f] \/ (f \in UserOwned /\ disk[f] # 0)
    BY LastingFacts DEF ToFetch
  <2>. QED BY <2>1, <2>2
<1>2. CASE CleanFirst
  <2>1. goal' = goal /\ todo' = todo /\ current' = current /\ step = "clean" /\ step' = "fetch"
    BY <1>2 DEF CleanFirst, planVars
  <2>2. ASSUME NEW f \in Lasting(goal) PROVE disk'[f] = disk[f]
    <3>1. f \in Files /\ [file |-> f, run |-> 0] \notin leftOver
      BY NotListed, LastingFacts
    <3>. QED BY <1>2, <3>1, CleanUpEffect DEF CleanFirst
  <2>. QED BY <2>1, <2>2
<1>3. CASE CleanAlone
  BY <1>3 DEF CleanAlone
<1>4. ASSUME NEW full \in BOOLEAN, Fetch(full) PROVE WorkInv'
  <2>1. /\ goal' = goal /\ disk' = disk /\ current' = current /\ step = "fetch" /\ step' = "replace"
        /\ todo' = todo \/ todo' = Shipped(goal)
    BY <1>4 DEF Fetch, planVars
  <2>2. \A f \in Lasting(goal) : f \in Shipped(goal)
    BY LastingFacts
  <2>. QED BY <2>1, <2>2
<1>5. CASE FetchFails
  BY <1>5 DEF FetchFails
<1>6. ASSUME NEW f \in Files, Preserve(f) PROVE WorkInv'
  <2>1. /\ goal' = goal /\ disk' = disk /\ current' = current /\ step = "replace" /\ step' = step
        /\ todo' = todo \ {f} /\ f \in UserOwned /\ disk[f] # 0
    BY <1>6 DEF Preserve, planVars
  <2>. QED BY <2>1
<1>7. ASSUME NEW f \in Files, MoveAside(f) PROVE WorkInv'
  <2>1. /\ goal' = goal /\ step = "replace" /\ step' = step /\ current = NoFile
        /\ todo' = todo \ {f} /\ current' = f /\ disk' = [disk EXCEPT ![f] = 0]
    BY <1>7 DEF MoveAside, planVars
  <2>2. ASSUME NEW g \in Lasting(goal) PROVE g \in Files
    BY LastingFacts
  <2>. QED BY <2>1, <2>2
<1>8. ASSUME NEW f \in Files, RollBackFile(f) PROVE WorkInv'
  BY <1>8 DEF RollBackFile
<1>9. ASSUME NEW f \in Files, RollBackStuck(f) PROVE WorkInv'
  BY <1>9 DEF RollBackStuck
<1>10. CASE WriteNew
  <2>1. /\ goal' = goal /\ step = "replace" /\ step' = step /\ current \in Files /\ current' = NoFile
        /\ todo' = todo /\ disk' = [disk EXCEPT ![current] = Manifest[goal][current]]
    BY <1>10 DEF WriteNew, planVars
  <2>2. ASSUME NEW g \in Lasting(goal) PROVE g \in Files
    BY LastingFacts
  <2>. QED BY <2>1, <2>2
<1>11. CASE ReplaceFails
  BY <1>11 DEF ReplaceFails
<1>12. CASE RollBackEnds
  BY <1>12 DEF RollBackEnds
<1>13. CASE ReplaceEnds
  <2>1. /\ goal' = goal /\ disk' = disk /\ step = "replace" /\ step' = "finish"
        /\ todo = {} /\ current = NoFile
    BY <1>13 DEF ReplaceEnds
  <2>2. ASSUME NEW g \in Lasting(goal) PROVE g \in Files
    BY LastingFacts
  <2>. QED BY <2>1, <2>2
<1>14. CASE Finish
  BY <1>14 DEF Finish, planVars, OwnAsides
<1>15. CASE RemoveDeleted
  BY <1>15 DEF RemoveDeleted
<1>16. CASE UpdateCrash
  BY <1>16 DEF UpdateCrash
<1>17. CASE UNCHANGED updateVars
  BY <1>17 DEF updateVars, Lasting, Shipped, Returns
<1>18. CASE FinishFails
  BY <1>18, FinishFailsEffect
<1>. HIDE DEF UpdateTypeOK, StepInv, WorkInv, Provided
<1>. QED BY <1>1, <1>2, <1>3, <1>4, <1>5, <1>6, <1>7, <1>8, <1>9, <1>10, <1>11, <1>12,
     <1>13, <1>14, <1>15, <1>16, <1>17, <1>18 DEF UpdateNext

\* No step takes an old file from a crashed update.
LEMMA CrashedStep ==
  UpdateTypeOK /\ StepInv /\ ListInv /\ DroppedInv /\ SwapInv /\ WorkInv /\ CrashedInv /\ [UpdateNext]_updateVars => CrashedInv'
<1>. SUFFICES ASSUME UpdateTypeOK /\ StepInv /\ ListInv /\ DroppedInv /\ SwapInv /\ WorkInv /\ CrashedInv, [UpdateNext]_updateVars
              PROVE CrashedInv'
  OBVIOUS
<1>. USE UpdaterConstants DEF UpdateTypeOK, StepInv, CrashedInv
<1>1. ASSUME NEW r \in Releases, Plan(r) PROVE CrashedInv'
  <2>1. outcome' # "crashed"
    BY <1>1 DEF Plan
  <2>. QED BY <2>1
<1>2. CASE CleanFirst
  <2>1. outcome' # "crashed"
    BY <1>2 DEF CleanFirst
  <2>. QED BY <2>1
<1>3. CASE CleanAlone
  <2>1. ASSUME outcome = "crashed", NEW g \in Lasting(goal), before[g] # 0
        PROVE  \/ disk'[g] = before[g]
               \/ [file |-> g, run |-> run, content |-> before[g]] \in asides'
    <3>1. g \in Files /\ [file |-> g, run |-> 0] \notin leftOver
      BY NotListed, LastingFacts
    <3>2. CASE disk[g] = before[g]
      BY <1>3, <3>1, <3>2, CleanUpEffect DEF CleanAlone
    <3>3. CASE [file |-> g, run |-> run, content |-> before[g]] \in asides
      <4>1. PathOf([file |-> g, run |-> run, content |-> before[g]]).run = run
        BY DEF PathOf
      <4>2. PathOf([file |-> g, run |-> run, content |-> before[g]]) \notin leftOver
        BY <2>1, <4>1 DEF ListInv, Unlisted
      <4>. QED BY <1>3, <3>3, <4>2, CleanUpEffect DEF CleanAlone
    <3>. QED BY <2>1, <3>2, <3>3
  <2>2. goal' = goal /\ before' = before /\ run' = run /\ outcome' = outcome
    BY <1>3 DEF CleanAlone, planVars
  <2>. QED BY <2>1, <2>2
<1>4. ASSUME NEW full \in BOOLEAN, Fetch(full) PROVE CrashedInv'
  <2>1. outcome' # "crashed"
    BY <1>4 DEF Fetch
  <2>. QED BY <2>1
<1>5. CASE FetchFails
  <2>1. outcome' # "crashed"
    BY <1>5 DEF FetchFails
  <2>. QED BY <2>1
<1>6. ASSUME NEW f \in Files, Preserve(f) PROVE CrashedInv'
  <2>1. outcome' # "crashed"
    BY <1>6 DEF Preserve
  <2>. QED BY <2>1
<1>7. ASSUME NEW f \in Files, MoveAside(f) PROVE CrashedInv'
  <2>1. outcome' # "crashed"
    BY <1>7 DEF MoveAside
  <2>. QED BY <2>1
<1>8. ASSUME NEW f \in Files, RollBackFile(f) PROVE CrashedInv'
  <2>1. outcome' # "crashed"
    BY <1>8 DEF RollBackFile
  <2>. QED BY <2>1
<1>9. ASSUME NEW f \in Files, RollBackStuck(f) PROVE CrashedInv'
  <2>1. outcome' # "crashed"
    BY <1>9 DEF RollBackStuck
  <2>. QED BY <2>1
<1>10. CASE WriteNew
  <2>1. outcome' # "crashed"
    BY <1>10 DEF WriteNew
  <2>. QED BY <2>1
<1>11. CASE ReplaceFails
  <2>1. outcome' # "crashed"
    BY <1>11 DEF ReplaceFails
  <2>. QED BY <2>1
<1>12. CASE RollBackEnds
  <2>1. outcome' # "crashed"
    BY <1>12 DEF RollBackEnds
  <2>. QED BY <2>1
<1>13. CASE ReplaceEnds
  <2>1. outcome' # "crashed"
    BY <1>13 DEF ReplaceEnds
  <2>. QED BY <2>1
<1>14. CASE Finish
  <2>1. outcome' # "crashed"
    BY <1>14 DEF Finish
  <2>. QED BY <2>1
<1>15. CASE RemoveDeleted
  <2>1. outcome' # "crashed"
    BY <1>15 DEF RemoveDeleted
  <2>. QED BY <2>1
<1>16. CASE UpdateCrash
  <2>1. SUFFICES ASSUME outcome' = "crashed" PROVE CrashedInv'
    OBVIOUS
  <2>2. /\ step \in {"replace", "rollback"} /\ outcome = "running"
        /\ goal' = goal /\ before' = before /\ run' = run
    BY <1>16, <2>1 DEF UpdateCrash
  <2>3. asides' = asides /\ \A f \in Files : f # current => disk'[f] = disk[f]
    BY <1>16, <2>2, CrashEffect
  <2>4. ASSUME NEW f \in Lasting(goal), before[f] # 0
        PROVE  \/ disk'[f] = before[f]
               \/ [file |-> f, run |-> run, content |-> before[f]] \in asides'
    <3>1. f \in Files
      BY LastingFacts
    <3>2. CASE f \in applied
      BY <2>2, <2>3, <2>4, <3>2 DEF SwapInv
    <3>3. CASE f \notin applied
      BY <2>2, <2>3, <3>1, <3>3 DEF SwapInv
    <3>. QED BY <3>2, <3>3
  <2>. QED BY <2>2, <2>4
<1>17. CASE UNCHANGED updateVars
  BY <1>17 DEF updateVars, Lasting, Shipped, Returns
<1>18. CASE FinishFails
  <2>1. outcome' # "crashed"
    BY <1>18, FinishFailsEffect
  <2>. QED BY <2>1
<1>. HIDE DEF UpdateTypeOK, StepInv, CrashedInv
<1>. QED BY <1>1, <1>2, <1>3, <1>4, <1>5, <1>6, <1>7, <1>8, <1>9, <1>10, <1>11, <1>12,
     <1>13, <1>14, <1>15, <1>16, <1>17, <1>18 DEF UpdateNext

\* No step takes a file from a finished update.
LEMMA CompleteStep ==
  UpdateTypeOK /\ StepInv /\ ListInv /\ DroppedInv /\ SwapInv /\ WorkInv /\ AppliedIsComplete /\ [UpdateNext]_updateVars => AppliedIsComplete'
<1>. SUFFICES ASSUME UpdateTypeOK /\ StepInv /\ ListInv /\ DroppedInv /\ SwapInv /\ WorkInv /\ AppliedIsComplete, [UpdateNext]_updateVars
              PROVE AppliedIsComplete'
  OBVIOUS
<1>. USE UpdaterConstants DEF UpdateTypeOK, StepInv, AppliedIsComplete
<1>1. ASSUME NEW r \in Releases, Plan(r) PROVE AppliedIsComplete'
  BY <1>1 DEF Plan, ToFetch
<1>2. CASE CleanFirst
  BY <1>2 DEF CleanFirst, planVars
<1>3. CASE CleanAlone
  <2>1. release' = release /\ outcome' = outcome /\ CleanUp
    BY <1>3 DEF CleanAlone, planVars
  <2>2. ASSUME NEW g \in Lasting(release) PROVE disk'[g] = disk[g]
    <3>1. g \in Files /\ [file |-> g, run |-> 0] \notin leftOver
      <4>1. release \in Releases /\ release <= release
        BY ReleaseFacts
      <4>. QED BY <4>1, NotListed, LastingFacts
    <3>. QED BY <2>1, <3>1, CleanUpEffect
  <2>3. ASSUME outcome = "applied", NEW g \in Deleted(release)
        PROVE  disk'[g] = 0 \/ [file |-> g, run |-> 0] \in leftOver'
    <3>1. g \in Files
      BY DEF Deleted, Shipped
    <3>2. disk[g] = 0 \/ [file |-> g, run |-> 0] \in leftOver
      BY <2>3
    <3>. QED BY <2>1, <3>1, <3>2, CleanUpEffect
  <2>4. ASSUME outcome \in {"applied", "unfinished"}, NEW g \in Lasting(release)
        PROVE  Complete(g)'
    BY <2>1, <2>2, <2>4 DEF Complete
  <2>. QED BY <2>1, <2>3, <2>4
<1>4. ASSUME NEW full \in BOOLEAN, Fetch(full) PROVE AppliedIsComplete'
  BY <1>4 DEF Fetch, planVars
<1>5. CASE FetchFails
  BY <1>5 DEF FetchFails, Fault, planVars
<1>6. ASSUME NEW f \in Files, Preserve(f) PROVE AppliedIsComplete'
  BY <1>6 DEF Preserve, planVars
<1>7. ASSUME NEW f \in Files, MoveAside(f) PROVE AppliedIsComplete'
  BY <1>7 DEF MoveAside, planVars
<1>8. ASSUME NEW f \in Files, RollBackFile(f) PROVE AppliedIsComplete'
  BY <1>8 DEF RollBackFile, planVars, AsideOf, OwnAsides
<1>9. ASSUME NEW f \in Files, RollBackStuck(f) PROVE AppliedIsComplete'
  BY <1>9 DEF RollBackStuck, Fault, planVars, AsideOf, OwnAsides
<1>10. CASE WriteNew
  BY <1>10 DEF WriteNew, planVars
<1>11. CASE ReplaceFails
  BY <1>11 DEF ReplaceFails, Fault, planVars
<1>12. CASE RollBackEnds
  BY <1>12 DEF RollBackEnds, planVars
<1>13. CASE ReplaceEnds
  BY <1>13 DEF ReplaceEnds
<1>14. CASE Finish
  BY <1>14 DEF Finish, planVars, OwnAsides
<1>15. CASE RemoveDeleted
  <2>1. PICK inUse \in SUBSET Present(goal) :
          /\ disk' = [f \in Files |-> IF f \in Deleted(goal) \ inUse THEN 0 ELSE disk[f]]
          /\ leftOver' = leftOver \cup {[file |-> f, run |-> 0] : f \in inUse}
    BY <1>15 DEF RemoveDeleted
  <2>2. release' = release /\ release = goal /\ step = "delete"
    BY <1>15 DEF RemoveDeleted, planVars
  <2>3. ASSUME NEW g \in Lasting(goal) PROVE Complete(g)'
    <3>1. g \in Files /\ g \in Shipped(goal)
      BY LastingFacts
    <3>2. g \notin Deleted(goal)
      BY <3>1 DEF Deleted
    <3>3. disk'[g] = disk[g]
      BY <2>1, <3>1, <3>2
    <3>4. Provided(g)
      BY <2>2 DEF WorkInv
    <3>. QED BY <2>2, <3>3, <3>4 DEF Provided, Complete
  <2>4. ASSUME NEW g \in Deleted(goal)
        PROVE disk'[g] = 0 \/ [file |-> g, run |-> 0] \in leftOver'
    <3>1. g \in Files
      BY DEF Deleted, Shipped
    <3>. QED BY <2>1, <3>1
  <2>. QED BY <2>2, <2>3, <2>4
<1>16. CASE UpdateCrash
  BY <1>16 DEF UpdateCrash, Fault
<1>17. CASE UNCHANGED updateVars
  BY <1>17 DEF updateVars, Lasting, Shipped, Returns, Deleted, Complete
<1>18. CASE FinishFails
  <2>1. /\ step = "finish" /\ outcome' = "unfinished" /\ disk' = disk
        /\ release' = release /\ release = goal
    BY <1>18, FinishFailsEffect
  <2>2. ASSUME NEW g \in Lasting(release) PROVE Complete(g)'
    <3>1. Provided(g)
      BY <2>1, <2>2 DEF WorkInv
    <3>. QED BY <2>1, <3>1 DEF Provided, Complete
  <2>. QED BY <2>1, <2>2
<1>. HIDE DEF UpdateTypeOK, StepInv, AppliedIsComplete
<1>. QED BY <1>1, <1>2, <1>3, <1>4, <1>5, <1>6, <1>7, <1>8, <1>9, <1>10, <1>11, <1>12,
     <1>13, <1>14, <1>15, <1>16, <1>17, <1>18 DEF UpdateNext

\* The invariant holds wherever runs, faults and clean-ups lead.
LEMMA UpdateInductive == UpdateSpec => []UpdateInv
<1>1. UpdateInv /\ [UpdateNext]_updateVars => UpdateInv'
  BY UpdateTypes, StepStep, ListStep, DroppedStep, SwapStep, WorkStep, CrashedStep,
       CompleteStep
     DEF UpdateInv
<1>. QED BY <1>1, UpdateInitInv, PTL DEF UpdateSpec

\* The old files are kept in all of these states.
LEMMA FilesKept == UpdateInv => OldFilesKept
<1>. SUFFICES ASSUME UpdateInv,
                     step \in {"replace", "rollback"} \/ outcome = "crashed",
                     NEW f \in Lasting(goal), before[f] # 0, outcome # "stuck"
              PROVE  \/ disk[f] = before[f]
                     \/ [file |-> f, run |-> run, content |-> before[f]] \in asides
  BY DEF OldFilesKept
<1>. USE DEF UpdateInv
<1>1. f \in Files
  BY LastingFacts DEF UpdateTypeOK
<1>2. CASE outcome = "crashed"
  BY <1>2 DEF CrashedInv
<1>3. CASE step \in {"replace", "rollback"} /\ outcome # "crashed"
  <2>1. outcome = "running"
    BY <1>3 DEF StepInv
  <2>. QED BY <1>1, <1>3, <2>1 DEF SwapInv
<1>. QED BY <1>2, <1>3

\* A rollback that met no error ends with the files as they were.
LEMMA UndoneStep ==
  UpdateInv /\ [UpdateNext]_updateVars =>
    [outcome = "running" /\ outcome' = "failed" => disk' = before']_updateVars
<1>. SUFFICES ASSUME UpdateInv, UpdateNext, outcome = "running", outcome' = "failed"
              PROVE  disk' = before'
  BY DEF updateVars
<1>1. CASE FetchFails
  BY <1>1 DEF FetchFails
<1>2. CASE RollBackEnds
  <2>1. step = "rollback" /\ applied = {} /\ disk' = disk /\ before' = before
    BY <1>2 DEF RollBackEnds
  <2>2. disk \in [Files -> FileContent] /\ before \in [Files -> FileContent]
    BY DEF UpdateInv, UpdateTypeOK
  <2>3. \A f \in Files : disk[f] = before[f]
    BY <2>1 DEF UpdateInv, SwapInv
  <2>. QED BY <2>1, <2>2, <2>3
<1>3. FetchFails \/ RollBackEnds
  BY DEF UpdateNext, Plan, CleanFirst, CleanAlone, Fetch, Preserve, MoveAside, RollBackFile,
         RollBackStuck, WriteNew, ReplaceFails, ReplaceEnds, Finish, FinishFails,
         RemoveDeleted, UpdateCrash
<1>. QED BY <1>1, <1>2, <1>3

\* For any releases, files and numbers of runs, errors and crashes: an update that is
\* interrupted or fails before all its files are written keeps or restores the old ones,
\* and one whose files are all written, reported as applied or, for a list of left-overs
\* that cannot be written, as failed, is complete and stays so through later clean-ups.
THEOREM UpdatesAreSafe == UpdateSpec => UpdateIsSafe
<1>1. UpdateInv => UpdateTypeOK /\ OldFilesKept /\ AppliedIsComplete
  BY FilesKept DEF UpdateInv
<1>. QED
  BY <1>1, UpdateInductive, UndoneStep, PTL DEF UpdateSpec, UpdateIsSafe, FailedUpdateUndone
=============================================================================

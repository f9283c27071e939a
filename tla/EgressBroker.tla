---------------------------- MODULE EgressBroker ----------------------------
(***************************************************************************)
(* The network boundary of a crawl (security/egress.py): the threads that  *)
(* fetch from one host, the budgets and the circuit breaker they share,    *)
(* and the control file (runtime/run_control.py) other processes rewrite   *)
(* to stop the task.                                                       *)
(*                                                                         *)
(* A response counts as one unit of traffic.  The pause flag is left out:  *)
(* the broker does not look at it, and to pause is to write back the stop  *)
(* flag that was read.  The checks of an address, a purpose or a token     *)
(* only decide whether a request is refused.                               *)
(***************************************************************************)
EXTENDS Naturals, FiniteSets

CONSTANTS
  Fetchers,            \* threads that send requests
  Operators,           \* processes that update the control file
  Nobody,              \* no thread holds the lock
  MaximumConcurrency, MaximumRequests, MaximumBytes, CircuitThreshold,
  MaxControlWrites,    \* bound: updates of the control file
  MaxCoarseWrites      \* bound: writes within one tick of the file's clock

ASSUME EgressConstants ==
  /\ Nobody \notin Fetchers
  /\ MaximumConcurrency \in Nat \ {0} /\ MaximumRequests \in Nat \ {0}
  /\ MaximumBytes \in Nat \ {0} /\ CircuitThreshold \in Nat \ {0}
  /\ MaxControlWrites \in Nat /\ MaxCoarseWrites \in Nat

VARIABLES
  control,       \* the file: stop flag and modification time; 0: no file
  draft,         \* what an operator's update is about to write
  controlWrites, coarseWrites,
  cache,         \* _control_cache
  misread,       \* the last answer was the one a failed stat or read stands for
  disconnected,  \* _task_disabled
  lock,          \* holder of the broker's lock, where it is kept over a step
  active, requests, bytes,
  circuit,       \* failures, and whether open_until is unset, ahead or past
  tripped,       \* the circuit opened, and no request succeeded since
  route,         \* where each request is
  observed       \* the modification time a thread read with stat

controlVars == <<control, draft, controlWrites, coarseWrites>>

egressVars == <<controlVars, cache, misread, disconnected, lock, active, requests, bytes,
                circuit, tripped, route, observed>>

Holding == {"auth", "authRead", "admit", "flight", "clear", "leave", "leaveFailed"}

ControlFile == [stop : BOOLEAN, stamp : Nat]

EgressTypeOK ==
  /\ control \in ControlFile /\ cache \in ControlFile
  /\ draft \in [Operators -> {"none", "stop", "go"}]
  /\ controlWrites \in Nat /\ coarseWrites \in Nat
  /\ disconnected \in BOOLEAN /\ misread \in BOOLEAN
  /\ lock \in Fetchers \cup {Nobody}
  /\ active \in Nat /\ requests \in Nat /\ bytes \in Nat
  /\ circuit \in [failures : Nat, open : {"no", "open", "due"}]
  /\ tripped \in BOOLEAN
  /\ route \in [Fetchers -> {"idle", "enter", "enterRead", "report"} \cup Holding]
  /\ observed \in [Fetchers -> Nat]

EgressInit ==
  /\ control = [stop |-> FALSE, stamp |-> 0]
  /\ draft = [o \in Operators |-> "none"]
  /\ controlWrites = 0 /\ coarseWrites = 0
  /\ cache = [stop |-> FALSE, stamp |-> 0]
  /\ disconnected = FALSE /\ misread = FALSE
  /\ lock = Nobody
  /\ active = 0 /\ requests = 0 /\ bytes = 0
  /\ circuit = [failures |-> 0, open |-> "no"]
  /\ tripped = FALSE
  /\ route = [f \in Fetchers |-> "idle"]
  /\ observed = [f \in Fetchers |-> 0]

-----------------------------------------------------------------------------
(* The control file                                                        *)

\* update reads the file, and later writes it back as a whole: stop and resume set
\* the flag, pause keeps what was read.
BeginUpdate(o, flag) ==
  /\ draft[o] = "none" /\ controlWrites < MaxControlWrites
  /\ draft' = [draft EXCEPT ![o] =
       IF flag = "keep" THEN (IF control.stop THEN "stop" ELSE "go") ELSE flag]
  /\ controlWrites' = controlWrites + 1
  /\ UNCHANGED <<control, coarseWrites, cache, misread, disconnected, lock, active, requests,
                 bytes, circuit, tripped, route, observed>>

\* Mutant of EndUpdate: a replaced file keeps its modification time.
EndUpdateSameTime(o) ==
  /\ draft[o] # "none"
  /\ control' = [stop |-> draft[o] = "stop", stamp |-> 1]
  /\ draft' = [draft EXCEPT ![o] = "none"]
  /\ UNCHANGED <<controlWrites, coarseWrites, cache, misread, disconnected, lock, active,
                 requests, bytes, circuit, tripped, route, observed>>

\* The clock may not have moved since the write before.
EndUpdate(o) ==
  /\ draft[o] # "none"
  /\ \/ /\ control' = [stop |-> draft[o] = "stop", stamp |-> control.stamp + 1]
        /\ UNCHANGED coarseWrites
     \/ /\ control.stamp # 0 /\ coarseWrites < MaxCoarseWrites
        /\ control' = [control EXCEPT !.stop = (draft[o] = "stop")]
        /\ coarseWrites' = coarseWrites + 1
  /\ draft' = [draft EXCEPT ![o] = "none"]
  /\ UNCHANGED <<controlWrites, cache, misread, disconnected, lock, active, requests, bytes,
                 circuit, tripped, route, observed>>

-----------------------------------------------------------------------------
(* request: the switches are checked twice, first with the lock held       *)

To(f, place) == route' = [route EXCEPT ![f] = place]

BeginRequest(f) ==
  /\ route[f] = "idle" /\ lock = Nobody
  /\ lock' = f
  /\ To(f, "enter")
  /\ UNCHANGED <<controlVars, cache, misread, disconnected, active, requests, bytes, circuit,
                 tripped, observed>>

\* The switches are known: f gets a slot, goes on to the budgets, or is refused.
Admission(f, stopped) ==
  IF route[f] \in {"enter", "enterRead"}
  THEN /\ lock' = Nobody
       /\ IF stopped \/ disconnected \/ active >= MaximumConcurrency
          THEN To(f, "idle") /\ UNCHANGED active
          ELSE To(f, "auth") /\ active' = active + 1
  ELSE /\ To(f, IF stopped \/ disconnected THEN "leave" ELSE "admit")
       /\ UNCHANGED <<lock, active>>

\* stat of the control file: no file, the time in the cache, or a new one.
Stat(f) ==
  /\ route[f] \in {"enter", "auth"}
  /\ \/ /\ control.stamp = 0
        /\ cache' = [stop |-> FALSE, stamp |-> 0] /\ misread' = FALSE
        /\ Admission(f, FALSE)
        /\ UNCHANGED observed
     \/ /\ control.stamp # 0 /\ control.stamp = cache.stamp
        /\ Admission(f, cache.stop)
        /\ UNCHANGED <<cache, misread, observed>>
     \/ /\ control.stamp \notin {0, cache.stamp}
        /\ observed' = [observed EXCEPT ![f] = control.stamp]
        /\ To(f, IF route[f] = "enter" THEN "enterRead" ELSE "authRead")
        /\ UNCHANGED <<cache, misread, lock, active>>
  /\ UNCHANGED <<controlVars, disconnected, requests, bytes, circuit, tripped>>

\* A stat that fails counts as no file.
StatFails(f) ==
  /\ route[f] \in {"enter", "auth"} /\ control.stamp # 0
  /\ cache' = [stop |-> FALSE, stamp |-> 0] /\ misread' = TRUE
  /\ Admission(f, FALSE)
  /\ UNCHANGED <<controlVars, disconnected, requests, bytes, circuit, tripped, observed>>

\* The file as it is by now, cached under the time it had before.
ReadControl(f) ==
  /\ route[f] \in {"enterRead", "authRead"}
  /\ cache' = [stop |-> control.stop, stamp |-> observed[f]] /\ misread' = FALSE
  /\ Admission(f, control.stop)
  /\ observed' = [observed EXCEPT ![f] = 0]
  /\ UNCHANGED <<controlVars, disconnected, requests, bytes, circuit, tripped>>

\* A file that cannot be read or parsed counts as no stop, and that answer is cached
\* for as long as the file keeps its time.
ReadFails(f) ==
  /\ route[f] \in {"enterRead", "authRead"}
  /\ cache' = [stop |-> FALSE, stamp |-> observed[f]] /\ misread' = TRUE
  /\ Admission(f, FALSE)
  /\ observed' = [observed EXCEPT ![f] = 0]
  /\ UNCHANGED <<controlVars, disconnected, requests, bytes, circuit, tripped>>

-----------------------------------------------------------------------------
(* Budgets and circuit, under the lock                                     *)

\* _check_circuit lets everybody through once the time is over.
HalfOpen ==
  IF circuit.open = "due"
  THEN [failures |-> IF circuit.failures > 0 THEN circuit.failures - 1 ELSE 0, open |-> "no"]
  ELSE circuit

\* The second half of authorize; the circuit may close although the budget refuses.
Admit(f) ==
  /\ route[f] = "admit" /\ lock = Nobody
  /\ circuit' = HalfOpen
  /\ IF circuit.open # "open" /\ requests < MaximumRequests
     THEN requests' = requests + 1 /\ To(f, "flight")
     ELSE To(f, "leave") /\ UNCHANGED requests
  /\ UNCHANGED <<controlVars, cache, misread, disconnected, lock, active, bytes, tripped, observed>>

\* record_response raises when the traffic budget would be exceeded.
Respond(f) ==
  /\ route[f] = "flight" /\ lock = Nobody
  /\ IF bytes < MaximumBytes
     THEN bytes' = bytes + 1 /\ To(f, "clear")
     ELSE To(f, "leave") /\ UNCHANGED bytes
  /\ UNCHANGED <<controlVars, cache, misread, disconnected, lock, active, requests, circuit,
                 tripped, observed>>

\* An error the circuit counts, or one it does not (a redirect, a refusal).
Break(f) ==
  /\ route[f] = "flight"
  /\ \E place \in {"leave", "leaveFailed"} : To(f, place)
  /\ UNCHANGED <<controlVars, cache, misread, disconnected, lock, active, requests, bytes,
                 circuit, tripped, observed>>

RecordSuccess(f) ==
  /\ route[f] = "clear" /\ lock = Nobody
  /\ circuit' = [failures |-> 0, open |-> "no"]
  /\ tripped' = FALSE
  /\ To(f, "leave")
  /\ UNCHANGED <<controlVars, cache, misread, disconnected, lock, active, requests, bytes, observed>>

\* Mutant of LeaveRequest: a refused request does not give its slot back.
LeaveKeepsSlot(f) ==
  /\ route[f] \in {"leave", "leaveFailed"} /\ lock = Nobody
  /\ active' = IF route[f] = "leaveFailed" THEN active - 1 ELSE active
  /\ To(f, IF route[f] = "leaveFailed" THEN "report" ELSE "idle")
  /\ UNCHANGED <<controlVars, cache, misread, disconnected, lock, requests, bytes, circuit,
                 tripped, observed>>

\* The finally clause of request.
LeaveRequest(f) ==
  /\ route[f] \in {"leave", "leaveFailed"} /\ lock = Nobody
  /\ active' = IF active > 0 THEN active - 1 ELSE 0
  /\ To(f, IF route[f] = "leaveFailed" THEN "report" ELSE "idle")
  /\ UNCHANGED <<controlVars, cache, misread, disconnected, lock, requests, bytes, circuit,
                 tripped, observed>>

\* The fetcher's handler, when the slot is free already.
RecordFailure(f) ==
  /\ route[f] = "report" /\ lock = Nobody
  /\ LET failures == circuit.failures + 1
     IN  /\ circuit' = [failures |-> failures,
                        open |-> IF failures >= CircuitThreshold THEN "open" ELSE "no"]
         /\ tripped' = (tripped \/ failures >= CircuitThreshold)
  /\ To(f, "idle")
  /\ UNCHANGED <<controlVars, cache, misread, disconnected, lock, active, requests, bytes, observed>>

\* circuit_recovery seconds pass.
CircuitCools ==
  /\ circuit.open = "open"
  /\ circuit' = [circuit EXCEPT !.open = "due"]
  /\ UNCHANGED <<controlVars, cache, misread, disconnected, lock, active, requests, bytes,
                 tripped, route, observed>>

\* disconnect_task, by the run loop that is about to end.
Disconnect ==
  /\ ~disconnected
  /\ disconnected' = TRUE
  /\ UNCHANGED <<controlVars, cache, misread, lock, active, requests, bytes, circuit, tripped,
                 route, observed>>

FetcherStep(f) ==
  \/ BeginRequest(f) \/ Stat(f) \/ StatFails(f) \/ ReadControl(f) \/ ReadFails(f)
  \/ Admit(f) \/ Respond(f) \/ Break(f)
  \/ RecordSuccess(f) \/ LeaveRequest(f) \/ RecordFailure(f)

EgressNext ==
  \/ \E o \in Operators :
       \/ EndUpdate(o)
       \/ \E flag \in {"stop", "go", "keep"} : BeginUpdate(o, flag)
  \/ \E f \in Fetchers : FetcherStep(f)
  \/ CircuitCools \/ Disconnect

EgressSpec == EgressInit /\ [][EgressNext]_egressVars

-----------------------------------------------------------------------------
(* Properties                                                              *)

\* The count of slots is that of the requests under way, however they end.
SlotsAreCounted ==
  /\ active = Cardinality({f \in Fetchers : route[f] \in Holding})
  /\ active <= MaximumConcurrency

\* A host whose circuit opened, and which answered nothing since, is cut off again by
\* its next failure, however many requests passed while it was half open.
TrippedCircuitReopens ==
  tripped => circuit.failures + 1 >= CircuitThreshold

\* The limits of the broker hold with every interleaving of the fetching threads.
EgressLimitsHold ==
  /\ EgressTypeOK
  /\ SlotsAreCounted
  /\ requests <= MaximumRequests /\ bytes <= MaximumBytes
  /\ TrippedCircuitReopens

\* The check of the switches f is in lets its request go on.
Passes(f) ==
  \/ route[f] \in {"enter", "enterRead"} /\ route'[f] = "auth"
  \/ route[f] \in {"auth", "authRead"} /\ route'[f] = "admit"

\* No check of the switches passes while the file says stop, although each thread
\* reads the file and its time in two steps and all share one cache, unless two
\* writes fell into one tick of the file's clock, or the answer is that of a stat or
\* a read that failed.  The next read that succeeds ends the second exception.
StopIsSeen ==
  [][control.stop /\ coarseWrites = 0 =>
       \A f \in Fetchers : Passes(f) => misread']_egressVars
=============================================================================

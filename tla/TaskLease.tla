----------------------------- MODULE TaskLease -----------------------------
(***************************************************************************)
(* The leased task queue of runtime/redis_worker.py: the tasks and         *)
(* dead_letter tables of _LocalQueue and the workers that run consume_loop *)
(* over them.  Every committed SQLite transaction is a step, and so is     *)
(* the SELECT of nack, which runs before a transaction is open.            *)
(*                                                                         *)
(* A worker is one process life: a restarted process is another worker,    *)
(* and every lease has a fresh token, so the pair (task, worker) names a   *)
(* lease.  The worker passes max_attempts = 1 to nack and attempts starts  *)
(* at 1, so nack always takes its dead-letter branch.  The workers table   *)
(* (heartbeats, for display only) is left out.                             *)
(***************************************************************************)
EXTENDS Naturals

CONSTANTS
  MaxTasks,   \* bound: tasks submitted in a behaviour
  Workers,    \* process lives that call consume_loop
  NoWorker,   \* the empty lease token
  MaxFaults   \* bound: crashes, and executions that outlast their lease

ASSUME LeaseConstants ==
  MaxTasks \in Nat /\ MaxFaults \in Nat /\ NoWorker \notin Workers

\* Tasks are numbered in the order pop serves them: submitted_at, then rowid.
Tasks == 1 .. MaxTasks

VARIABLES
  tasks,      \* the tasks table
  dead,       \* tasks with a row in dead_letter
  succeeded,  \* tasks whose executor returned
  at,         \* where each worker is in consume_loop
  job,        \* the task it popped last
  lapsed,     \* workers whose lease ran out (visible_at < now)
  faults

vars == <<tasks, dead, succeeded, at, job, lapsed, faults>>

Row == [status : {"new", "queued", "in_flight", "gone"},
        token : Workers \cup {NoWorker}, attempts : Nat]

Places == {"idle", "execute", "ack", "nack", "record", "remove", "crashed"}

TypeOK ==
  /\ tasks \in [Tasks -> Row]
  /\ dead \subseteq Tasks /\ succeeded \subseteq Tasks
  /\ at \in [Workers -> Places]
  /\ job \in [Workers -> Tasks \cup {0}]
  /\ lapsed \subseteq Workers
  /\ faults \in Nat
  /\ \A w \in Workers : at[w] \notin {"idle", "crashed"} => job[w] \in Tasks

Init ==
  /\ tasks = [t \in Tasks |-> [status |-> "new", token |-> NoWorker, attempts |-> 0]]
  /\ dead = {} /\ succeeded = {}
  /\ at = [w \in Workers |-> "idle"]
  /\ job = [w \in Workers |-> 0]
  /\ lapsed = {}
  /\ faults = 0

Queued(attempts) == [status |-> "queued", token |-> NoWorker, attempts |-> attempts]

Gone(row) == [row EXCEPT !.status = "gone", !.token = NoWorker]

Leased(w) == at[w] \in {"execute", "ack", "nack", "record", "remove"}

-----------------------------------------------------------------------------
(* The queue                                                               *)

Submit(t) ==
  /\ tasks[t].status = "new" /\ \A s \in 1 .. t - 1 : tasks[s].status # "new"
  /\ tasks' = [tasks EXCEPT ![t] = Queued(1)]
  /\ UNCHANGED <<dead, succeeded, at, job, lapsed, faults>>

\* Mutant of Expired: visible_at is not compared.
ExpiredAtOnce(row) == row.status = "in_flight"

\* Leases that ran out go back to the queue and cost an attempt.
Expired(row) == row.status = "in_flight" /\ row.token \in lapsed

\* Mutant of Reclaimed: pop looks at queued tasks only.
ReclaimedNever == tasks

Reclaimed ==
  [t \in Tasks |-> IF Expired(tasks[t]) THEN Queued(tasks[t].attempts + 1)
                                        ELSE tasks[t]]

\* Reclaim and lease in one transaction: the oldest queued task goes to w.
Pop(w) ==
  /\ at[w] = "idle"
  /\ \E t \in Tasks :
       /\ Reclaimed[t].status = "queued"
       /\ \A s \in 1 .. t - 1 : Reclaimed[s].status # "queued"
       /\ tasks' = [Reclaimed EXCEPT ![t].status = "in_flight", ![t].token = w]
       /\ job' = [job EXCEPT ![w] = t]
  /\ at' = [at EXCEPT ![w] = "execute"]
  /\ lapsed' = lapsed \ {w}
  /\ UNCHANGED <<dead, succeeded, faults>>

\* DELETE with the token: nothing happens when the lease is no longer w's.
Ack(w) ==
  /\ at[w] = "ack"
  /\ tasks' = [tasks EXCEPT ![job[w]] = IF @.token = w THEN Gone(@) ELSE @]
  /\ at' = [at EXCEPT ![w] = "idle"]
  /\ UNCHANGED <<dead, succeeded, job, lapsed, faults>>

\* Mutant of NackRead: the row is removed without a dead letter.
NackReadDiscards(w) ==
  /\ at[w] = "nack"
  /\ at' = [at EXCEPT ![w] = IF tasks[job[w]].token = w THEN "remove" ELSE "idle"]
  /\ UNCHANGED <<tasks, dead, succeeded, job, lapsed, faults>>

\* nack: the token is compared here, and only here.
NackRead(w) ==
  /\ at[w] = "nack"
  /\ at' = [at EXCEPT ![w] = IF tasks[job[w]].token = w THEN "record" ELSE "idle"]
  /\ UNCHANGED <<tasks, dead, succeeded, job, lapsed, faults>>

\* dead_letter_record commits by itself.
Record(w) ==
  /\ at[w] = "record"
  /\ dead' = dead \cup {job[w]}
  /\ at' = [at EXCEPT ![w] = "remove"]
  /\ UNCHANGED <<tasks, succeeded, job, lapsed, faults>>

\* DELETE by task_id alone.
Remove(w) ==
  /\ at[w] = "remove"
  /\ tasks' = [tasks EXCEPT ![job[w]] = Gone(@)]
  /\ at' = [at EXCEPT ![w] = "idle"]
  /\ UNCHANGED <<dead, succeeded, job, lapsed, faults>>

-----------------------------------------------------------------------------
(* The worker                                                              *)

Succeed(w) ==
  /\ at[w] = "execute"
  /\ succeeded' = succeeded \cup {job[w]}
  /\ at' = [at EXCEPT ![w] = "ack"]
  /\ UNCHANGED <<tasks, dead, job, lapsed, faults>>

ExecutorRaises(w) ==
  /\ at[w] = "execute"
  /\ at' = [at EXCEPT ![w] = "nack"]
  /\ UNCHANGED <<tasks, dead, succeeded, job, lapsed, faults>>

\* A kill, or Ctrl-C, which leaves consume_loop without ack or nack.
Crash(w) ==
  /\ at[w] # "crashed" /\ faults < MaxFaults
  /\ at' = [at EXCEPT ![w] = "crashed"]
  /\ faults' = faults + 1
  /\ UNCHANGED <<tasks, dead, succeeded, job, lapsed>>

\* Nothing renews a lease: LEASE_SECONDS pass while w still works on its task.
Outlast(w) ==
  /\ Leased(w) /\ w \notin lapsed /\ faults < MaxFaults
  /\ lapsed' = lapsed \cup {w}
  /\ faults' = faults + 1
  /\ UNCHANGED <<tasks, dead, succeeded, at, job>>

\* LEASE_SECONDS pass after a crash.
Lapse(w) ==
  /\ at[w] = "crashed" /\ w \notin lapsed
  /\ lapsed' = lapsed \cup {w}
  /\ UNCHANGED <<tasks, dead, succeeded, at, job, faults>>

-----------------------------------------------------------------------------
(* Specification                                                           *)

Work(w) ==
  \/ Pop(w) \/ Succeed(w) \/ ExecutorRaises(w) \/ Ack(w)
  \/ NackRead(w) \/ Record(w) \/ Remove(w)

Next ==
  \/ \E t \in Tasks : Submit(t)
  \/ \E w \in Workers : Work(w) \/ Crash(w) \/ Outlast(w) \/ Lapse(w)

Spec == Init /\ [][Next]_vars

-----------------------------------------------------------------------------
(* Properties                                                              *)

\* A task leaves the table only with a trace: its executor returned, or a dead
\* letter names it, whatever crashed and however the leases overlapped.
LeavesTrace == \A t \in Tasks : tasks[t].status = "gone" => t \in succeeded \cup dead

TaskNeverLost == TypeOK /\ LeavesTrace

\* The lease of a worker that still has time is the one in the table, unless a
\* worker that outlasted its own lease removed the dead-lettered row.
LeaseInTable ==
  \A w \in Workers : Leased(w) /\ w \notin lapsed =>
    \/ tasks[job[w]].status = "in_flight" /\ tasks[job[w]].token = w
    \/ tasks[job[w]].status = "gone"

\* Two workers never hold one task on leases that have not run out.
OneLiveLease ==
  \A v, w \in Workers :
    Leased(v) /\ Leased(w) /\ {v, w} \cap lapsed = {} /\ job[v] = job[w] => v = w

\* As long as only finitely many executions crash or outlast their lease, every
\* submitted task comes to an end.
TaskResolved ==
  \A t \in Tasks : tasks[t].status # "new" ~> t \in succeeded \cup dead

\* A worker removes a task that is in flight only under its own lease (the
\* comment on TaskSpec.lease_token).
RemovesOwnLease ==
  [][\A t \in Tasks :
       tasks[t].status = "in_flight" /\ tasks'[t].status = "gone" =>
         at[tasks[t].token] # "idle" /\ at'[tasks[t].token] = "idle"]_vars
=============================================================================

-------------------------- MODULE TaskLeaseProofs --------------------------
(* Theorems about TaskLease, for every number of tasks, workers and faults. *)
EXTENDS TaskLease, TLAPS

\* A worker that left idle works on a task, and removing its row keeps a row.
LEMMA JobRow ==
  ASSUME TypeOK, NEW w \in Workers, at[w] \notin {"idle", "crashed"}
  PROVE  job[w] \in Tasks /\ Gone(tasks[job[w]]) \in Row
<1>1. job[w] \in Tasks
  BY DEF TypeOK
<1>2. tasks[job[w]] \in Row
  BY <1>1 DEF TypeOK
<1>3. Gone(tasks[job[w]]) \in Row
  BY <1>2 DEF Gone, Row
<1> QED
  BY <1>1, <1>3

\* Every step of the queue and of the workers keeps the types.
LEMMA LeaseStepTyping == TypeOK /\ [Next]_vars => TypeOK'
<1> SUFFICES ASSUME TypeOK, [Next]_vars PROVE TypeOK'
  OBVIOUS
<1> USE LeaseConstants DEF TypeOK, Row, Places, Tasks
<1>1. ASSUME NEW t \in Tasks, Submit(t) PROVE TypeOK'
  BY <1>1 DEF Submit, Queued
<1>2. ASSUME NEW w \in Workers, Pop(w) PROVE TypeOK'
  <2>1. Reclaimed \in [Tasks -> Row]
    BY DEF Reclaimed, Queued
  <2>2. PICK t \in Tasks :
          /\ tasks' = [Reclaimed EXCEPT ![t].status = "in_flight", ![t].token = w]
          /\ job' = [job EXCEPT ![w] = t]
    BY <1>2 DEF Pop
  <2>3. tasks' \in [Tasks -> Row]
    BY <2>1, <2>2
  <2> QED
    BY <1>2, <2>2, <2>3 DEF Pop
<1>3. ASSUME NEW w \in Workers, Ack(w) PROVE TypeOK'
  <2>1. job[w] \in Tasks /\ Gone(tasks[job[w]]) \in Row
    BY <1>3, JobRow DEF Ack
  <2>2. tasks' \in [Tasks -> Row]
    BY <1>3, <2>1 DEF Ack
  <2> QED
    BY <1>3, <2>2 DEF Ack
<1>4. ASSUME NEW w \in Workers, NackRead(w) PROVE TypeOK'
  BY <1>4 DEF NackRead
<1>5. ASSUME NEW w \in Workers, Record(w) PROVE TypeOK'
  BY <1>5 DEF Record
<1>6. ASSUME NEW w \in Workers, Remove(w) PROVE TypeOK'
  <2>1. job[w] \in Tasks /\ Gone(tasks[job[w]]) \in Row
    BY <1>6, JobRow DEF Remove
  <2>2. tasks' \in [Tasks -> Row]
    BY <1>6, <2>1 DEF Remove
  <2> QED
    BY <1>6, <2>2 DEF Remove
<1>7. ASSUME NEW w \in Workers, Succeed(w) \/ ExecutorRaises(w) PROVE TypeOK'
  BY <1>7 DEF Succeed, ExecutorRaises
<1>8. ASSUME NEW w \in Workers, Crash(w) \/ Outlast(w) \/ Lapse(w) PROVE TypeOK'
  <2>1. CASE Crash(w)
    <3>1. at' \in [Workers -> Places] /\ faults' \in Nat
      BY <2>1 DEF Crash
    <3>2. \A v \in Workers : at'[v] \notin {"idle", "crashed"} => job'[v] \in Tasks
      BY <2>1 DEF Crash
    <3> QED
      BY <2>1, <3>1, <3>2 DEF Crash
  <2>2. CASE Outlast(w) \/ Lapse(w)
    <3>1. UNCHANGED <<tasks, dead, succeeded, at, job>>
      BY <2>2 DEF Outlast, Lapse
    <3>2. lapsed' \subseteq Workers /\ faults' \in Nat
      BY <2>2 DEF Outlast, Lapse
    <3> QED
      BY <3>1, <3>2
  <2> QED
    BY <1>8, <2>1, <2>2
<1>9. CASE UNCHANGED vars
  BY <1>9 DEF vars
<1> QED
  BY <1>1, <1>2, <1>3, <1>4, <1>5, <1>6, <1>7, <1>8, <1>9 DEF Next, Work

\* The tables and the workers of the task queue stay well typed.
THEOREM LeaseTypes == Spec => []TypeOK
<1>1. Init => TypeOK
  BY LeaseConstants DEF Init, TypeOK, Row, Places, Tasks
<1> QED
  BY <1>1, LeaseStepTyping, PTL DEF Spec

\* No step takes a lease with time left out of the table: pop reclaims only
\* leases that ran out, and a removal without the token ends the task.
LEMMA LeaseStep == TypeOK /\ LeaseInTable /\ [Next]_vars => LeaseInTable'
<1> SUFFICES ASSUME TypeOK, LeaseInTable, [Next]_vars PROVE LeaseInTable'
  OBVIOUS
<1> USE LeaseConstants DEF TypeOK, LeaseInTable, Leased, Row
<1>1. ASSUME NEW t \in Tasks, Submit(t) PROVE LeaseInTable'
  BY <1>1 DEF Submit
<1>2. ASSUME NEW v \in Workers, Pop(v) PROVE LeaseInTable'
  <2>1. PICK t \in Tasks :
          /\ Reclaimed[t].status = "queued"
          /\ tasks' = [Reclaimed EXCEPT ![t].status = "in_flight", ![t].token = v]
          /\ job' = [job EXCEPT ![v] = t]
    BY <1>2 DEF Pop
  <2>2. at' = [at EXCEPT ![v] = "execute"] /\ lapsed' = lapsed \ {v}
    BY <1>2 DEF Pop
  <2>3. Reclaimed \in [Tasks -> Row]
    BY DEF Reclaimed, Queued, Tasks
  <2>4. tasks'[t].status = "in_flight" /\ tasks'[t].token = v
    BY <2>1, <2>3
  <2> SUFFICES ASSUME NEW u \in Workers, (Leased(u) /\ u \notin lapsed)'
               PROVE  (\/ tasks[job[u]].status = "in_flight" /\ tasks[job[u]].token = u
                       \/ tasks[job[u]].status = "gone")'
    OBVIOUS
  <2>5. CASE u = v
    BY <2>1, <2>4, <2>5
  <2>6. CASE u # v
    <3>1. Leased(u) /\ u \notin lapsed /\ job'[u] = job[u] /\ job[u] \in Tasks
      BY <2>1, <2>2, <2>6
    <3>2. ~Expired(tasks[job[u]])
      BY <3>1 DEF Expired
    <3>3. Reclaimed[job[u]] = tasks[job[u]]
      BY <3>1, <3>2 DEF Reclaimed
    <3>4. job[u] # t
      BY <2>1, <3>1, <3>3
    <3> QED
      BY <2>1, <2>3, <3>1, <3>3, <3>4
  <2> QED
    BY <2>5, <2>6
<1>3. ASSUME NEW v \in Workers, Ack(v) PROVE LeaseInTable'
  BY <1>3 DEF Ack, Gone
<1>4. ASSUME NEW v \in Workers, Remove(v) PROVE LeaseInTable'
  BY <1>4 DEF Remove, Gone
<1>5. ASSUME NEW v \in Workers, NackRead(v) \/ Record(v) \/ Succeed(v) \/ ExecutorRaises(v)
      PROVE  LeaseInTable'
  BY <1>5 DEF NackRead, Record, Succeed, ExecutorRaises
<1>6. ASSUME NEW v \in Workers, Crash(v) \/ Outlast(v) \/ Lapse(v) PROVE LeaseInTable'
  BY <1>6 DEF Crash, Outlast, Lapse
<1>7. CASE UNCHANGED vars
  BY <1>7 DEF vars
<1> QED
  BY <1>1, <1>2, <1>3, <1>4, <1>5, <1>6, <1>7 DEF Next, Work

\* A task with a live lease is not queued once pop has reclaimed what ran out,
\* so no step gives it to a second worker.
LEMMA SecondHolderStep ==
  TypeOK /\ LeaseInTable /\ OneLiveLease /\ [Next]_vars => OneLiveLease'
<1> SUFFICES ASSUME TypeOK, LeaseInTable, OneLiveLease, [Next]_vars
             PROVE  OneLiveLease'
  OBVIOUS
<1> USE LeaseConstants DEF TypeOK, OneLiveLease, Leased
<1>1. ASSUME NEW p \in Workers, Pop(p) PROVE OneLiveLease'
  <2>1. PICK t \in Tasks :
          Reclaimed[t].status = "queued" /\ job' = [job EXCEPT ![p] = t]
    BY <1>1 DEF Pop
  <2>2. at' = [at EXCEPT ![p] = "execute"] /\ lapsed' = lapsed \ {p}
    BY <1>1 DEF Pop
  <2>3. ASSUME NEW u \in Workers, u # p, Leased(u), u \notin lapsed PROVE job[u] # t
    <3>1. tasks[job[u]].status = "gone" \/ tasks[job[u]].token = u
      BY <2>3 DEF LeaseInTable
    <3>2. tasks[job[u]].status \in {"in_flight", "gone"}
      BY <2>3 DEF LeaseInTable
    <3>3. ~Expired(tasks[job[u]])
      BY <2>3, <3>1 DEF Expired
    <3> QED
      BY <2>1, <3>2, <3>3 DEF Reclaimed
  <2> QED
    BY <2>1, <2>2, <2>3
<1>2. ASSUME NEW t \in Tasks, Submit(t) PROVE OneLiveLease'
  BY <1>2 DEF Submit
<1>3. ASSUME NEW p \in Workers,
             Ack(p) \/ Remove(p) \/ NackRead(p) \/ Record(p) \/ Succeed(p) \/ ExecutorRaises(p)
      PROVE  OneLiveLease'
  BY <1>3 DEF Ack, Remove, NackRead, Record, Succeed, ExecutorRaises
<1>4. ASSUME NEW p \in Workers, Crash(p) \/ Outlast(p) \/ Lapse(p) PROVE OneLiveLease'
  BY <1>4 DEF Crash, Outlast, Lapse
<1>5. CASE UNCHANGED vars
  BY <1>5 DEF vars
<1> QED
  BY <1>1, <1>2, <1>3, <1>4, <1>5 DEF Next, Work

\* However many workers share the queue, and whatever crashes, two of them hold
\* one task only when the lease of one of them has run out (pop).
THEOREM LeaseIsExclusive == Spec => []OneLiveLease
<1> DEFINE IInv == TypeOK /\ LeaseInTable /\ OneLiveLease
<1>1. Init => IInv
  <2>1. Init => TypeOK
    BY LeaseConstants DEF Init, TypeOK, Row, Places, Tasks
  <2>2. Init => LeaseInTable /\ OneLiveLease
    BY DEF Init, LeaseInTable, OneLiveLease, Leased
  <2> QED
    BY <2>1, <2>2
<1>2. IInv /\ [Next]_vars => IInv'
  BY LeaseStepTyping, LeaseStep, SecondHolderStep
<1>3. IInv => OneLiveLease
  OBVIOUS
<1> QED
  BY <1>1, <1>2, <1>3, PTL DEF Spec

\* A worker about to remove a row has left the trace the removal needs: its
\* executor returned, or its dead letter is committed.
TraceBeforeRemoval ==
  \A w \in Workers : /\ at[w] = "ack" => job[w] \in succeeded
                     /\ at[w] = "remove" => job[w] \in dead

\* Rows leave the table in ack and in the last transaction of nack only, and
\* succeeded and dead never shrink.
LEMMA TraceStep ==
  TypeOK /\ LeavesTrace /\ TraceBeforeRemoval /\ [Next]_vars
    => LeavesTrace' /\ TraceBeforeRemoval'
<1> SUFFICES ASSUME TypeOK, LeavesTrace, TraceBeforeRemoval, [Next]_vars
             PROVE  LeavesTrace' /\ TraceBeforeRemoval'
  OBVIOUS
<1> USE DEF TypeOK, LeavesTrace, TraceBeforeRemoval
<1>1. ASSUME NEW t \in Tasks, Submit(t) PROVE LeavesTrace' /\ TraceBeforeRemoval'
  BY <1>1 DEF Submit, Queued
<1>2. ASSUME NEW w \in Workers, Pop(w) PROVE LeavesTrace' /\ TraceBeforeRemoval'
  <2>1. PICK t \in Tasks :
          /\ tasks' = [Reclaimed EXCEPT ![t].status = "in_flight", ![t].token = w]
          /\ job' = [job EXCEPT ![w] = t]
    BY <1>2 DEF Pop
  <2>2. at' = [at EXCEPT ![w] = "execute"] /\ succeeded' = succeeded /\ dead' = dead
    BY <1>2 DEF Pop
  <2>3. \A s \in Tasks : Reclaimed[s].status = "gone" => tasks[s].status = "gone"
    BY DEF Reclaimed, Queued
  <2>4. \A s \in Tasks : tasks'[s].status = "gone" => Reclaimed[s].status = "gone"
    BY <2>1 DEF Reclaimed, Queued, Row
  <2>5. TraceBeforeRemoval'
    BY <2>1, <2>2
  <2> QED
    BY <2>2, <2>3, <2>4, <2>5
<1>3. ASSUME NEW w \in Workers, Ack(w) \/ Remove(w)
      PROVE  LeavesTrace' /\ TraceBeforeRemoval'
  <2>1. job[w] \in Tasks /\ job[w] \in succeeded \cup dead
    BY <1>3 DEF Ack, Remove
  <2>2. \A t \in Tasks : t # job[w] => tasks'[t] = tasks[t]
    BY <1>3, <2>1 DEF Ack, Remove
  <2>3. UNCHANGED <<succeeded, dead, job>> /\ at' = [at EXCEPT ![w] = "idle"]
    BY <1>3 DEF Ack, Remove
  <2> QED
    BY <2>1, <2>2, <2>3
<1>4. ASSUME NEW w \in Workers, NackRead(w) \/ Record(w) \/ Succeed(w) \/ ExecutorRaises(w)
      PROVE  LeavesTrace' /\ TraceBeforeRemoval'
  BY <1>4 DEF NackRead, Record, Succeed, ExecutorRaises
<1>5. ASSUME NEW w \in Workers, Crash(w) \/ Outlast(w) \/ Lapse(w)
      PROVE  LeavesTrace' /\ TraceBeforeRemoval'
  BY <1>5 DEF Crash, Outlast, Lapse
<1>6. CASE UNCHANGED vars
  BY <1>6 DEF vars
<1> QED
  BY <1>1, <1>2, <1>3, <1>4, <1>5, <1>6 DEF Next, Work

\* A submitted task never disappears from the queue without a result or a dead
\* letter, whatever crashes between two transactions of ack, nack and pop.
THEOREM TasksLeaveATrace == Spec => []TaskNeverLost
<1>1. Init => LeavesTrace /\ TraceBeforeRemoval
  BY DEF Init, LeavesTrace, TraceBeforeRemoval
<1>2. TypeOK /\ LeavesTrace => TaskNeverLost
  BY DEF TaskNeverLost
<1> QED
  BY <1>1, <1>2, LeaseTypes, TraceStep, PTL DEF Spec
=============================================================================

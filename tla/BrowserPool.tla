---------------------------- MODULE BrowserPool ----------------------------
(***************************************************************************)
(* The browser workers of fetching/browser_pool.py: threads that each own  *)
(* a queue and a browser, the callers that put a task in a queue and wait  *)
(* for it with a timeout, and close, which ends each queue with a          *)
(* sentinel.                                                               *)
(*                                                                         *)
(* A task is a number, and every task renders in a context of its own key. *)
(* The steps of a page (navigation, actions, egress) are one outcome.      *)
(***************************************************************************)
EXTENDS Naturals, Sequences

CONSTANTS
  MaxBrowserTasks,   \* bound: calls of fetch
  Workers,           \* number of workers
  MaxBrowserFaults   \* bound: failed starts, failed renderings and timeouts

ASSUME BrowserConstants ==
  MaxBrowserTasks \in Nat /\ Workers \in Nat \ {0} /\ MaxBrowserFaults \in Nat

Jobs == 1 .. MaxBrowserTasks

Sentinel == 0

VARIABLES
  tasks,      \* tasks handed in so far: _counter
  closed,
  sentinels,  \* queues close has ended
  queues,
  worker,     \* what each worker does
  rendering,  \* the task a worker has taken; 0: none
  attempt,
  contexts,   \* keys of the open contexts of each worker
  answer,     \* what the caller of a task will find
  discarded,  \* tasks whose caller gave up
  mischief

browserVars == <<tasks, closed, sentinels, queues, worker, rendering, attempt, contexts,
                 answer, discarded, mischief>>

WorkerIds == 1 .. Workers

BrowserTypeOK ==
  /\ tasks \in 0 .. MaxBrowserTasks
  /\ closed \in BOOLEAN /\ sentinels \subseteq WorkerIds
  /\ queues \in [WorkerIds -> Seq(Jobs \cup {Sentinel})]
  /\ worker \in [WorkerIds -> {"starting", "ready", "taken", "rendering", "rendered",
                               "broken", "ended"}]
  /\ rendering \in [WorkerIds -> Jobs \cup {0}]
  /\ attempt \in [WorkerIds -> 1 .. 2]
  /\ contexts \in [WorkerIds -> SUBSET Jobs]
  /\ answer \in [Jobs -> {"none", "result", "error"}]
  /\ discarded \subseteq Jobs
  /\ mischief \in Nat

BrowserInit ==
  /\ tasks = 0 /\ closed = FALSE /\ sentinels = {}
  /\ queues = [w \in WorkerIds |-> <<>>]
  /\ worker = [w \in WorkerIds |-> "starting"]
  /\ rendering = [w \in WorkerIds |-> 0]
  /\ attempt = [w \in WorkerIds |-> 1]
  /\ contexts = [w \in WorkerIds |-> {}]
  /\ answer = [j \in Jobs |-> "none"]
  /\ discarded = {}
  /\ mischief = 0

-----------------------------------------------------------------------------

Mischief == mischief < MaxBrowserFaults /\ mischief' = mischief + 1

Becomes(w, state) == worker' = [worker EXCEPT ![w] = state]

\* The queue of task j.
QueueOf(j) == ((j - 1) % Workers) + 1

(* Callers and close                                                       *)

\* Mutant of FetchPage: the pool is not locked, and close may come first.
FetchUnlocked ==
  /\ tasks < MaxBrowserTasks
  /\ tasks' = tasks + 1
  /\ queues' = [queues EXCEPT ![QueueOf(tasks + 1)] = Append(@, tasks + 1)]
  /\ UNCHANGED <<closed, sentinels, worker, rendering, attempt, contexts, answer,
                 discarded, mischief>>

\* The check of _closed, the choice of a queue and the put are one locked section.
FetchPage ==
  /\ ~closed /\ tasks < MaxBrowserTasks
  /\ tasks' = tasks + 1
  /\ queues' = [queues EXCEPT ![QueueOf(tasks + 1)] = Append(@, tasks + 1)]
  /\ UNCHANGED <<closed, sentinels, worker, rendering, attempt, contexts, answer,
                 discarded, mischief>>

\* The caller waited as long as it would.
GiveUpWaiting(j) ==
  /\ j <= tasks /\ answer[j] = "none" /\ j \notin discarded /\ Mischief
  /\ discarded' = discarded \cup {j}
  /\ UNCHANGED <<tasks, closed, sentinels, queues, worker, rendering, attempt, contexts, answer>>

Close ==
  /\ ~closed
  /\ closed' = TRUE
  /\ UNCHANGED <<tasks, sentinels, queues, worker, rendering, attempt, contexts, answer,
                 discarded, mischief>>

\* The sentinels follow one by one, without the lock.
EndQueue(w) ==
  /\ closed /\ w \notin sentinels /\ \A v \in 1 .. w - 1 : v \in sentinels
  /\ sentinels' = sentinels \cup {w}
  /\ queues' = [queues EXCEPT ![w] = Append(@, Sentinel)]
  /\ UNCHANGED <<tasks, closed, worker, rendering, attempt, contexts, answer, discarded,
                 mischief>>

-----------------------------------------------------------------------------
(* A worker                                                                *)

Start(w) ==
  /\ worker[w] = "starting"
  /\ \/ Becomes(w, "ready") /\ UNCHANGED mischief
     \/ Becomes(w, "broken") /\ Mischief
  /\ UNCHANGED <<tasks, closed, sentinels, queues, rendering, attempt, contexts, answer, discarded>>

\* The next task, or the end of the queue: every context is closed.  An exception of
\* this cleanup makes the thread wait for a second sentinel, which never comes.
Take(w) ==
  /\ worker[w] = "ready" /\ queues[w] # <<>>
  /\ queues' = [queues EXCEPT ![w] = Tail(@)]
  /\ IF Head(queues[w]) = Sentinel
     THEN /\ contexts' = [contexts EXCEPT ![w] = {}]
          /\ \/ Becomes(w, "ended") /\ UNCHANGED mischief
             \/ Becomes(w, "broken") /\ Mischief
          /\ UNCHANGED <<rendering, attempt>>
     ELSE /\ rendering' = [rendering EXCEPT ![w] = Head(queues[w])]
          /\ attempt' = [attempt EXCEPT ![w] = 1]
          /\ Becomes(w, "taken")
          /\ UNCHANGED <<contexts, mischief>>
  /\ UNCHANGED <<tasks, closed, sentinels, answer, discarded>>

Answered(w, outcome) ==
  /\ answer' = [answer EXCEPT ![rendering[w]] = outcome]
  /\ rendering' = [rendering EXCEPT ![w] = 0]
  /\ Becomes(w, "ready")

\* A worker whose browser did not start answers every task with that error.
Refuse(w) ==
  /\ worker[w] = "broken" /\ queues[w] # <<>>
  /\ queues' = [queues EXCEPT ![w] = Tail(@)]
  /\ IF Head(queues[w]) = Sentinel
     THEN Becomes(w, "ended") /\ UNCHANGED answer
     ELSE answer' = [answer EXCEPT ![Head(queues[w])] = "error"] /\ UNCHANGED worker
  /\ UNCHANGED <<tasks, closed, sentinels, rendering, attempt, contexts, discarded, mischief>>

\* A task that was discarded in the queue is not rendered.
BeginRender(w) ==
  /\ worker[w] = "taken"
  /\ IF rendering[w] \in discarded
     THEN Answered(w, "error") /\ UNCHANGED contexts
     ELSE /\ contexts' = [contexts EXCEPT ![w] = @ \cup {rendering[w]}]
          /\ Becomes(w, "rendering")
          /\ UNCHANGED <<answer, rendering>>
  /\ UNCHANGED <<tasks, closed, sentinels, queues, attempt, discarded, mischief>>

\* The page is rendered.
RenderPage(w) ==
  /\ worker[w] = "rendering"
  /\ Becomes(w, "rendered")
  /\ UNCHANGED <<tasks, closed, sentinels, queues, rendering, attempt, contexts, answer,
                 discarded, mischief>>

\* Rendering raises, by itself or because it sees that the task was discarded.  The
\* first attempt of a task somebody waits for is repeated in a new context.
RenderRaises(w) ==
  /\ worker[w] = "rendering"
  /\ \/ rendering[w] \in discarded /\ UNCHANGED mischief
     \/ rendering[w] \notin discarded /\ Mischief
  /\ IF attempt[w] = 1 /\ rendering[w] \notin discarded
     THEN attempt' = [attempt EXCEPT ![w] = 2] /\ UNCHANGED <<answer, rendering, worker>>
     ELSE Answered(w, "error") /\ UNCHANGED attempt
  /\ UNCHANGED <<tasks, closed, sentinels, queues, contexts, discarded>>

\* The context of a task discarded meanwhile is closed.
Deliver(w) ==
  /\ worker[w] = "rendered"
  /\ contexts' = [contexts EXCEPT ![w] =
                    IF rendering[w] \in discarded THEN @ \ {rendering[w]} ELSE @]
  /\ Answered(w, "result")
  /\ UNCHANGED <<tasks, closed, sentinels, queues, attempt, discarded, mischief>>

WorkerStep(w) ==
  \/ Start(w) \/ Take(w) \/ Refuse(w) \/ BeginRender(w) \/ RenderPage(w) \/ RenderRaises(w)
  \/ Deliver(w)

BrowserNext ==
  \/ FetchPage \/ Close
  \/ \E j \in Jobs : GiveUpWaiting(j)
  \/ \E w \in WorkerIds : EndQueue(w) \/ WorkerStep(w)

BrowserSpec == BrowserInit /\ [][BrowserNext]_browserVars

-----------------------------------------------------------------------------
(* Properties                                                              *)

\* Every task that was accepted is answered, although its worker failed to start,
\* its page failed, its caller gave up, or the pool was closed right after.
AcceptedIsAnswered ==
  /\ []BrowserTypeOK
  /\ \A j \in Jobs : tasks >= j ~> answer[j] # "none"
=============================================================================

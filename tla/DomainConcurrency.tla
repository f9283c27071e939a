------------------------- MODULE DomainConcurrency -------------------------
(***************************************************************************)
(* The two semaphores of fetching/domain_semaphore.py: tasks of one event  *)
(* loop wait for a slot of their domain and then for one of all slots.     *)
(* Semaphores are cached by domain, and the cache evicts idle ones.        *)
(*                                                                         *)
(* A step runs up to the next await that blocks.  asyncio.Semaphore hands  *)
(* a free slot to the task that waited longest; a task that was handed one *)
(* of all slots counts as inside, whether it runs again or is cancelled    *)
(* first, for either way it gives back the same slots.                     *)
(***************************************************************************)
EXTENDS Naturals, Sequences, FiniteSets

CONSTANTS
  Tasks,
  Scopes,        \* domains
  GlobalLimit, PerDomainLimit,
  MaxCached,     \* _max_cache
  MaxSemaphores, \* bound: semaphores created in a behaviour
  MaxCancels     \* bound: cancelled tasks

ASSUME DomainConstants ==
  /\ IsFiniteSet(Tasks) /\ Scopes # {}
  /\ GlobalLimit \in Nat \ {0} /\ PerDomainLimit \in Nat \ {0}
  /\ MaxCached \in Nat /\ MaxCached >= 2
  /\ MaxSemaphores \in Nat /\ MaxCancels \in Nat

Semaphores == 1 .. MaxSemaphores

VARIABLES
  sems,        \* the cached semaphore of each domain, 0 for none
  created,     \* semaphores created so far: they are numbered by age
  slots,       \* free slots of each semaphore
  queue,       \* tasks that wait for each semaphore
  globalSlots, globalQueue,
  references,  \* tasks inside acquire, by domain
  waits,       \* where each task is
  scopeOf, semOf,
  cancels

domainVars == <<sems, created, slots, queue, globalSlots, globalQueue,
                references, waits, scopeOf, semOf, cancels>>

\* The scope of a task that is not inside acquire means nothing.
AnyScope == CHOOSE s \in Scopes : TRUE

DomainTypeOK ==
  /\ sems \in [Scopes -> Semaphores \cup {0}]
  /\ created \in 0 .. MaxSemaphores
  /\ slots \in [Semaphores -> 0 .. PerDomainLimit]
  /\ queue \in [Semaphores -> Seq(Tasks)]
  /\ globalSlots \in 0 .. GlobalLimit /\ globalQueue \in Seq(Tasks)
  /\ references \in [Scopes -> Nat]
  /\ waits \in [Tasks -> {"out", "domain", "granted", "global", "inside"}]
  /\ scopeOf \in [Tasks -> Scopes] /\ semOf \in [Tasks -> Semaphores \cup {0}]
  /\ cancels \in Nat

DomainInit ==
  /\ sems = [s \in Scopes |-> 0] /\ created = 0
  /\ slots = [m \in Semaphores |-> PerDomainLimit]
  /\ queue = [m \in Semaphores |-> <<>>]
  /\ globalSlots = GlobalLimit /\ globalQueue = <<>>
  /\ references = [s \in Scopes |-> 0]
  /\ waits = [t \in Tasks |-> "out"]
  /\ scopeOf = [t \in Tasks |-> AnyScope]
  /\ semOf = [t \in Tasks |-> 0]
  /\ cancels = 0

-----------------------------------------------------------------------------

\* A task stands in a queue once.
Remove(s, x) ==
  IF \A i \in DOMAIN s : s[i] # x THEN s
  ELSE LET i == CHOOSE i \in DOMAIN s : s[i] = x
       IN  SubSeq(s, 1, i - 1) \o SubSeq(s, i + 1, Len(s))

\* Mutant of Evictable: the oldest semaphore goes, whoever uses it.
EvictableAny(s) == TRUE

\* _evict_idle_locked keeps a domain somebody is inside acquire for.
Evictable(s) == references[s] = 0 /\ slots[sems[s]] = PerDomainLimit

Cached == {d \in Scopes : sems[d] # 0}

\* How many domains make room in a full cache, at most.
EvictTarget == IF MaxCached \div 4 > 1 THEN MaxCached \div 4 ELSE 1

\* Those that do: the oldest of the idle ones.
Evicted ==
  IF Cardinality(Cached) < MaxCached THEN {}
  ELSE {d \in Cached :
          /\ Evictable(d)
          /\ Cardinality({e \in Cached : sems[e] < sems[d] /\ Evictable(e)}) < EvictTarget}

\* With a slot of its domain, t takes one of all slots or waits for it.
TakeGlobal(t) ==
  IF globalSlots > 0
  THEN waits' = [waits EXCEPT ![t] = "inside"] /\ globalSlots' = globalSlots - 1
       /\ UNCHANGED globalQueue
  ELSE waits' = [waits EXCEPT ![t] = "global"] /\ globalQueue' = Append(globalQueue, t)
       /\ UNCHANGED globalSlots

\* The cached semaphore of s, or a new one.
Acquire(t, s) ==
  /\ waits[t] = "out"
  /\ sems[s] = 0 => created < MaxSemaphores
  /\ LET m == IF sems[s] # 0 THEN sems[s] ELSE created + 1
     IN  /\ IF sems[s] # 0
            THEN UNCHANGED <<sems, created>>
            ELSE /\ sems' = [d \in Scopes |-> IF d = s THEN m
                                              ELSE IF d \in Evicted THEN 0 ELSE sems[d]]
                 /\ created' = m
         /\ semOf' = [semOf EXCEPT ![t] = m]
         /\ IF slots[m] > 0
            THEN slots' = [slots EXCEPT ![m] = @ - 1] /\ TakeGlobal(t) /\ UNCHANGED queue
            ELSE /\ waits' = [waits EXCEPT ![t] = "domain"]
                 /\ queue' = [queue EXCEPT ![m] = Append(@, t)]
                 /\ UNCHANGED <<slots, globalSlots, globalQueue>>
  /\ scopeOf' = [scopeOf EXCEPT ![t] = s]
  /\ references' = [references EXCEPT ![s] = @ + 1]
  /\ UNCHANGED cancels

\* A task that was handed a slot of its domain runs again.
Continue(t) ==
  /\ waits[t] = "granted"
  /\ TakeGlobal(t)
  /\ UNCHANGED <<sems, created, slots, queue, references, scopeOf, semOf, cancels>>

\* t gives its slots to the tasks that waited longest, or back.
GiveBack(t) ==
  LET m == semOf[t]
      hasDomain == waits[t] \in {"granted", "global", "inside"}
      hasGlobal == waits[t] = "inside"
      waiting == IF waits[t] = "domain" THEN Remove(queue[m], t) ELSE queue[m]
      waitingAll == Remove(globalQueue, t)
      next == IF hasDomain /\ waiting # <<>> THEN {waiting[1]} ELSE {}
      nextAll == IF hasGlobal /\ waitingAll # <<>> THEN {waitingAll[1]} ELSE {}
  IN  /\ queue' = [queue EXCEPT ![m] = IF next = {} THEN waiting ELSE Tail(waiting)]
      /\ slots' = IF hasDomain /\ next = {} THEN [slots EXCEPT ![m] = @ + 1] ELSE slots
      /\ globalQueue' = IF nextAll = {} THEN waitingAll ELSE Tail(waitingAll)
      /\ globalSlots' = IF hasGlobal /\ nextAll = {} THEN globalSlots + 1 ELSE globalSlots
      /\ waits' = [u \in Tasks |-> IF u = t THEN "out" ELSE IF u \in next THEN "granted"
                                   ELSE IF u \in nextAll THEN "inside" ELSE waits[u]]
      /\ references' = [references EXCEPT ![scopeOf[t]] = @ - 1]
      /\ semOf' = [semOf EXCEPT ![t] = 0] /\ scopeOf' = [scopeOf EXCEPT ![t] = AnyScope]
      /\ UNCHANGED <<sems, created>>

Exit(t) ==
  /\ waits[t] = "inside"
  /\ GiveBack(t)
  /\ UNCHANGED cancels

\* Mutant of CancelWait: a cancelled task leaves the queues but keeps what it has.
CancelWaitKeepsSlots(t) ==
  /\ waits[t] \in {"domain", "granted", "global"} /\ cancels < MaxCancels
  /\ queue' = [queue EXCEPT ![semOf[t]] = Remove(@, t)]
  /\ globalQueue' = Remove(globalQueue, t)
  /\ waits' = [waits EXCEPT ![t] = "out"]
  /\ references' = [references EXCEPT ![scopeOf[t]] = @ - 1]
  /\ semOf' = [semOf EXCEPT ![t] = 0] /\ scopeOf' = [scopeOf EXCEPT ![t] = AnyScope]
  /\ cancels' = cancels + 1
  /\ UNCHANGED <<sems, created, slots, globalSlots>>

\* A task is cancelled while it waits: the context managers release what it has.
CancelWait(t) ==
  /\ waits[t] \in {"domain", "granted", "global"} /\ cancels < MaxCancels
  /\ GiveBack(t)
  /\ cancels' = cancels + 1

DomainNext ==
  \E t \in Tasks :
    \/ \E s \in Scopes : Acquire(t, s)
    \/ Continue(t) \/ Exit(t) \/ CancelWait(t)

DomainSpec == DomainInit /\ [][DomainNext]_domainVars

-----------------------------------------------------------------------------
(* Properties                                                              *)

Inside(s) == {t \in Tasks : waits[t] = "inside" /\ scopeOf[t] = s}

\* Neither limit is exceeded although semaphores are evicted and created again while
\* tasks wait, hold slots or are cancelled.
DomainLimitsHold ==
  /\ DomainTypeOK
  /\ \A s \in Scopes : Cardinality(Inside(s)) <= PerDomainLimit
  /\ Cardinality({t \in Tasks : waits[t] = "inside"}) <= GlobalLimit

\* A task that waits gets its slots or is cancelled: no slot is lost to a
\* cancellation, and the two semaphores are never waited for in a circle.
AcquireIsServed ==
  \A t \in Tasks : waits[t] \in {"domain", "granted", "global"} ~> waits[t] \in {"inside", "out"}
=============================================================================

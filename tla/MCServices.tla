----------------------------- MODULE MCServices -----------------------------
(***************************************************************************)
(* What keeps several jobs going at once: the schedule store, the          *)
(* semaphores of the async fetcher, the browser pool and the folder        *)
(* watcher.  They share no state, so one component runs in each behaviour, *)
(* with its fairness, while the others keep their first state.             *)
(***************************************************************************)
EXTENDS ScheduleLease, DomainConcurrency, BrowserPool, FolderWatch

VARIABLE focus

allVars == <<focus, scheduleVars, domainVars, browserVars, watchVars>>

ServicesInit ==
  /\ focus \in {"schedule", "domain", "browser", "watch"}
  /\ ScheduleInit /\ DomainInit /\ BrowserInit /\ WatchInit

ServicesNext ==
  \/ /\ focus = "schedule" /\ ScheduleNext
     /\ UNCHANGED <<focus, domainVars, browserVars, watchVars>>
  \/ /\ focus = "domain" /\ DomainNext
     /\ UNCHANGED <<focus, scheduleVars, browserVars, watchVars>>
  \/ /\ focus = "browser" /\ BrowserNext
     /\ UNCHANGED <<focus, scheduleVars, domainVars, watchVars>>
  \/ /\ focus = "watch" /\ WatchNext
     /\ UNCHANGED <<focus, scheduleVars, domainVars, browserVars>>

\* Cron keeps calling run_due, crawls end, and leases run out.
ScheduleFairness ==
  /\ \A s \in Schedules : WF_scheduleVars(focus = "schedule" /\ LeasePasses(s))
  /\ \A t \in Triggers : WF_scheduleVars(focus = "schedule" /\ ClaimDue(t))
  /\ \A t \in Triggers, s \in Schedules : WF_scheduleVars(focus = "schedule" /\ Work(t, s))

\* The event loop runs ready tasks, and requests end.
DomainFairness ==
  \A t \in Tasks : WF_domainVars(focus = "domain" /\ (Continue(t) \/ Exit(t)))

\* Threads run, a page ends within its own timeouts, and close runs to its end.
BrowserFairness ==
  \A w \in WorkerIds :
    /\ WF_browserVars(focus = "browser" /\ WorkerStep(w))
    /\ WF_browserVars(focus = "browser" /\ EndQueue(w))

\* The watcher polls, files come to rest, and retry windows end.
WatchFairness ==
  /\ WF_watchVars(focus = "watch" /\ ScanStep)
  /\ \A f \in WatchedFiles :
       /\ WF_watchVars(focus = "watch" /\ ComesToRest(f))
       /\ WF_watchVars(focus = "watch" /\ RetryWindowEnds(f))

ServicesSpec ==
  /\ ServicesInit /\ [][ServicesNext]_allVars
  /\ ScheduleFairness /\ DomainFairness /\ BrowserFairness /\ WatchFairness
=============================================================================

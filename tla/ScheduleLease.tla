--------------------------- MODULE ScheduleLease ---------------------------
(***************************************************************************)
(* The local schedule store (runtime/scheduler.py): trigger processes that *)
(* call run_due lease the due schedules, run each on a pool thread and     *)
(* finish or defer it.  Each committed transaction is a step.              *)
(*                                                                         *)
(* Time is abstract: a schedule becomes due, a lease runs out.  A crawl    *)
(* holds the session lease of its workspace, so a second one started on    *)
(* the same configuration raises at once.                                  *)
(***************************************************************************)
EXTENDS Naturals, Sequences, FiniteSets

CONSTANTS
  Schedules,          \* rows of the schedules table
  Triggers,           \* processes that call run_due
  Limit,              \* run_due's limit
  PoolSize,           \* threads of run_due's pool
  MaxScheduleFaults   \* bound: crashes, overruns, toggles and errors

ASSUME ScheduleConstants ==
  /\ Limit \in Nat \ {0} /\ PoolSize \in Nat \ {0} /\ MaxScheduleFaults \in Nat

VARIABLES
  enabled,    \* schedules with enabled = 1
  line,       \* due schedules, in the order of next_run_at
  lease,      \* lease_until of each row: none, live or past
  claims,     \* claims[t][s]: what trigger t does with the schedule s it claimed
  disturbed,  \* schedules toggled, or whose lease ran out, while claimed
  mishaps     \* faults so far

scheduleVars == <<enabled, line, lease, claims, disturbed, mishaps>>

ClaimStates == {"none", "queued", "running", "refused"}

ScheduleTypeOK ==
  /\ enabled \subseteq Schedules
  /\ line \in Seq(Schedules)
  /\ lease \in [Schedules -> {"none", "live", "past"}]
  /\ claims \in [Triggers -> [Schedules -> ClaimStates]]
  /\ disturbed \subseteq Schedules
  /\ mishaps \in Nat

ScheduleInit ==
  /\ enabled = Schedules
  /\ line = <<>>
  /\ lease = [s \in Schedules |-> "none"]
  /\ claims = [t \in Triggers |-> [s \in Schedules |-> "none"]]
  /\ disturbed = {}
  /\ mishaps = 0

-----------------------------------------------------------------------------
(* Helpers                                                                 *)

Claimed(s) == \E t \in Triggers : claims[t][s] # "none"

Idle(t) == \A s \in Schedules : claims[t][s] = "none"

Mishap == mishaps < MaxScheduleFaults /\ mishaps' = mishaps + 1

Due(s) == \E i \in DOMAIN line : line[i] = s

\* A schedule stands in line once.
Without(s) ==
  IF ~Due(s) THEN line
  ELSE LET i == CHOOSE i \in DOMAIN line : line[i] = s
       IN  SubSeq(line, 1, i - 1) \o SubSeq(line, i + 1, Len(line))

\* Mutant of Eligible: lease_until is not looked at.
EligibleAnyLease(s) == s \in enabled

\* The WHERE clause of claim_due, next_run_at aside.
Eligible(s) == s \in enabled /\ lease[s] # "live"

\* ORDER BY next_run_at LIMIT: the first Limit schedules in line that qualify.
Batch ==
  {s \in Schedules :
     \E i \in DOMAIN line :
       /\ line[i] = s /\ Eligible(s)
       /\ Cardinality({j \in 1 .. i : Eligible(line[j])}) <= Limit}

\* A claim of t on s ends; the row is left alone when it was the last one.
Drop(t, s) ==
  /\ claims' = [claims EXCEPT ![t][s] = "none"]
  /\ disturbed' = IF \E u \in Triggers \ {t} : claims[u][s] # "none"
                  THEN disturbed ELSE disturbed \ {s}

-----------------------------------------------------------------------------
(* The store                                                               *)

\* next_run_at is reached.
ComesDue(s) ==
  /\ ~Due(s)
  /\ line' = Append(line, s)
  /\ UNCHANGED <<enabled, lease, claims, disturbed, mishaps>>

\* The lease of a row nobody works on, left by a crash or an exception, runs out.
LeasePasses(s) ==
  /\ lease[s] = "live" /\ ~Claimed(s)
  /\ lease' = [lease EXCEPT ![s] = "past"]
  /\ UNCHANGED <<enabled, line, claims, disturbed, mishaps>>

\* 300 seconds pass while a trigger works on s, or s waits for a thread.
Outlasts(s) ==
  /\ lease[s] = "live" /\ Claimed(s) /\ Mishap
  /\ lease' = [lease EXCEPT ![s] = "past"]
  /\ disturbed' = disturbed \cup {s}
  /\ UNCHANGED <<enabled, line, claims>>

\* set_enabled drops the lease, of a running schedule too.
SetEnabled(s) ==
  /\ Mishap
  /\ enabled' = IF s \in enabled THEN enabled \ {s} ELSE enabled \cup {s}
  /\ lease' = [lease EXCEPT ![s] = "none"]
  /\ disturbed' = IF Claimed(s) THEN disturbed \cup {s} ELSE disturbed
  /\ UNCHANGED <<line, claims>>

\* run_due: one transaction selects and leases, then the pool gets the schedules.
ClaimDue(t) ==
  /\ Idle(t) /\ Batch # {}
  /\ lease' = [s \in Schedules |-> IF s \in Batch THEN "live" ELSE lease[s]]
  /\ claims' = [claims EXCEPT ![t] = [s \in Schedules |-> IF s \in Batch THEN "queued" ELSE "none"]]
  /\ UNCHANGED <<enabled, line, disturbed, mishaps>>

\* A thread takes s: the crawl starts, or the session lease of its workspace is held.
Begin(t, s) ==
  /\ claims[t][s] = "queued"
  /\ Cardinality({x \in Schedules : claims[t][x] \in {"running", "refused"}}) < PoolSize
  /\ claims' = [claims EXCEPT ![t][s] =
                  IF \E u \in Triggers : claims[u][s] = "running" THEN "refused" ELSE "running"]
  /\ UNCHANGED <<enabled, line, lease, disturbed, mishaps>>

\* The conditions of s do not hold: it is tried again later.
Defer(t, s) ==
  /\ claims[t][s] = "queued"
  /\ lease' = [lease EXCEPT ![s] = "none"]
  /\ line' = Without(s)
  /\ Drop(t, s)
  /\ UNCHANGED <<enabled, mishaps>>

\* evaluate_conditions raises outside of any handler: the row keeps its lease.
ConditionsRaise(t, s) ==
  /\ claims[t][s] = "queued" /\ Mishap
  /\ Drop(t, s)
  /\ UNCHANGED <<enabled, line, lease>>

\* Mutant of Finish: next_run_at does not move, as when the update is rolled back.
FinishUncommitted(t, s) ==
  /\ claims[t][s] \in {"running", "refused"}
  /\ Drop(t, s)
  /\ UNCHANGED <<enabled, line, lease, mishaps>>

\* The executor returned or raised: the lease is dropped, whoever holds it, and the
\* next run is an interval away.
Finish(t, s) ==
  /\ claims[t][s] \in {"running", "refused"}
  /\ lease' = [lease EXCEPT ![s] = "none"]
  /\ line' = Without(s)
  /\ Drop(t, s)
  /\ UNCHANGED <<enabled, mishaps>>

TriggerDies(t) ==
  /\ ~Idle(t) /\ Mishap
  /\ claims' = [claims EXCEPT ![t] = [s \in Schedules |-> "none"]]
  /\ disturbed' = {s \in disturbed : \E u \in Triggers \ {t} : claims[u][s] # "none"}
  /\ UNCHANGED <<enabled, line, lease>>

Work(t, s) == Begin(t, s) \/ Defer(t, s) \/ Finish(t, s)

ScheduleNext ==
  \/ \E s \in Schedules : ComesDue(s) \/ LeasePasses(s) \/ Outlasts(s) \/ SetEnabled(s)
  \/ \E t \in Triggers : ClaimDue(t) \/ TriggerDies(t)
  \/ \E t \in Triggers, s \in Schedules : Work(t, s) \/ ConditionsRaise(t, s)

ScheduleSpec == ScheduleInit /\ [][ScheduleNext]_scheduleVars

-----------------------------------------------------------------------------
(* Properties                                                              *)

\* What the lease guarantees: two triggers have one schedule only when its lease
\* ran out, or was dropped by a toggle, while the first of them still had it.
SharedOnlyIfDisturbed ==
  /\ ScheduleTypeOK
  /\ \A s \in Schedules : \A t, u \in Triggers :
       claims[t][s] # "none" /\ claims[u][s] # "none" /\ t # u => s \in disturbed

\* A due schedule is served or deferred, or its owner disables it, however many of
\* its triggers crashed: the order of next_run_at starves nobody.
DueScheduleRuns == \A s \in Schedules : Due(s) ~> ~Due(s) \/ s \notin enabled
=============================================================================

-------------------------- MODULE MonitorBaseline --------------------------
(***************************************************************************)
(* Checks of one monitored page (scheduling/change_detector.py) by several *)
(* detectors, in the GUI and on the command line, that share the baseline  *)
(* and the event queue of scheduling/monitor_store.py.                     *)
(*                                                                         *)
(* Contents are numbers, as the threshold rules read them.  A baseline is  *)
(* compared as a whole when it is replaced; as its time of check is one no *)
(* other baseline has, it is equal to the one a detector knows just when   *)
(* nobody replaced it since.                                               *)
(***************************************************************************)
EXTENDS Naturals, Sequences

CONSTANTS
  Detectors,        \* ChangeDetector objects
  Contents,         \* what the page may show
  Confirmations,    \* consecutive_checks
  Threshold,        \* minimum_absolute_change
  None,             \* no content
  MaxPageChanges,   \* bound: changes of the page in a behaviour
  MaxSaveFaults     \* bound: failed saves and restarts in a behaviour

ASSUME MonitorConstants ==
  /\ Contents \subseteq Nat /\ None \notin Nat
  /\ Confirmations \in Nat \ {0} /\ Threshold \in Nat
  /\ MaxPageChanges \in Nat /\ MaxSaveFaults \in Nat

VARIABLES
  page,         \* what the page shows
  pageChanges,
  stored,       \* the row of the baselines table
  memory,       \* _baselines of each detector, which its rule mirrors
  upToDate,     \* detectors whose memory is the stored row
  seen,         \* what the check under way fetched; None: no check
  events,       \* the events enqueued with the baselines
  saveFaults

monitorVars == <<page, pageChanges, stored, memory, upToDate, seen, events, saveFaults>>

\* content None: there is no baseline yet.
Baseline == [content : Contents \cup {None}, notified : Contents \cup {None},
             candidate : Contents \cup {None}, count : Nat]

Event == [from : Contents, to : Contents, eligible : BOOLEAN]

NoBaseline == [content |-> None, notified |-> None, candidate |-> None, count |-> 0]

MonitorTypeOK ==
  /\ page \in Contents /\ pageChanges \in Nat /\ saveFaults \in Nat
  /\ stored \in Baseline
  /\ memory \in [Detectors -> Baseline]
  /\ upToDate \subseteq Detectors
  /\ seen \in [Detectors -> Contents \cup {None}]
  /\ events \in Seq(Event)

MonitorInit ==
  /\ page \in Contents /\ pageChanges = 0
  /\ stored = NoBaseline
  /\ memory = [d \in Detectors |-> NoBaseline]
  /\ upToDate = Detectors
  /\ seen = [d \in Detectors |-> None]
  /\ events = <<>>
  /\ saveFaults = 0

-----------------------------------------------------------------------------
(* The outcome of a check                                                  *)

Distance(x, y) == IF x > y THEN x - y ELSE y - x

\* What a threshold is measured from.  Until a first event was eligible that is the
\* check before, so that small changes do not add up yet.
Reference(b) == IF b.notified = None THEN b.content ELSE b.notified

\* _notification_reason, without the cooldown.
EligibleFor(b, c) == Distance(Reference(b), c) >= Threshold

Confirmed(b, c) == (IF b.candidate = c THEN b.count + 1 ELSE 1) >= Confirmations

Changed(b, c) == b.content # None /\ c # b.content /\ Confirmed(b, c)

\* The baseline check_rule saves after content c; a new one, an unchanged one, one
\* that waits for confirmation, or one that goes with an event.
Checked(b, c) ==
  IF b.content = None THEN [NoBaseline EXCEPT !.content = c]
  ELSE IF c = b.content THEN [b EXCEPT !.candidate = None, !.count = 0]
  ELSE IF ~Confirmed(b, c)
  THEN [b EXCEPT !.candidate = c, !.count = IF b.candidate = c THEN @ + 1 ELSE 1]
  ELSE [content |-> c, candidate |-> None, count |-> 0,
        notified |-> IF EligibleFor(b, c) THEN c ELSE b.notified]

\* Baseline and event are one transaction.
Write(d) ==
  LET b == memory[d]
      c == seen[d]
  IN  /\ stored' = Checked(b, c)
      /\ events' = IF Changed(b, c)
                   THEN Append(events, [from |-> b.content, to |-> c,
                                        eligible |-> EligibleFor(b, c)])
                   ELSE events

Checking(d) == seen[d] # None

-----------------------------------------------------------------------------
(* Actions                                                                 *)

PageChanges(c) ==
  /\ c # page /\ pageChanges < MaxPageChanges
  /\ page' = c
  /\ pageChanges' = pageChanges + 1
  /\ UNCHANGED <<stored, memory, upToDate, seen, events, saveFaults>>

\* A new detector reads the stored baselines; a crash ends a check under way.
Restart(d) ==
  /\ saveFaults < MaxSaveFaults
  /\ memory' = [memory EXCEPT ![d] = stored]
  /\ upToDate' = upToDate \cup {d}
  /\ seen' = [seen EXCEPT ![d] = None]
  /\ saveFaults' = saveFaults + 1
  /\ UNCHANGED <<page, pageChanges, stored, events>>

Fetch(d) ==
  /\ ~Checking(d)
  /\ seen' = [seen EXCEPT ![d] = page]
  /\ UNCHANGED <<page, pageChanges, stored, memory, upToDate, events, saveFaults>>

\* Mutant of Save: the baseline is replaced whatever it is by now.
SaveUnchecked(d) ==
  /\ Checking(d) /\ Write(d)
  /\ memory' = [memory EXCEPT ![d] = stored']
  /\ upToDate' = {d}
  /\ seen' = [seen EXCEPT ![d] = None]
  /\ UNCHANGED <<page, pageChanges, saveFaults>>

\* The stored baseline is still the one this detector knows.
Save(d) ==
  /\ Checking(d) /\ d \in upToDate
  /\ Write(d)
  /\ memory' = [memory EXCEPT ![d] = stored']
  /\ upToDate' = {d}
  /\ seen' = [seen EXCEPT ![d] = None]
  /\ UNCHANGED <<page, pageChanges, saveFaults>>

\* Mutant of Conflict: the detector keeps the baseline it knew.
ConflictKeeps(d) ==
  /\ Checking(d) /\ d \notin upToDate
  /\ seen' = [seen EXCEPT ![d] = None]
  /\ UNCHANGED <<page, pageChanges, stored, memory, upToDate, events, saveFaults>>

\* Another detector replaced it: this check fails and the rule takes what is stored.
Conflict(d) ==
  /\ Checking(d) /\ d \notin upToDate
  /\ memory' = [memory EXCEPT ![d] = stored]
  /\ upToDate' = upToDate \cup {d}
  /\ seen' = [seen EXCEPT ![d] = None]
  /\ UNCHANGED <<page, pageChanges, stored, events, saveFaults>>

\* The database raises, before or after the commit took effect: the rule goes back to
\* the baseline it had.
SaveRaises(d) ==
  /\ Checking(d) /\ saveFaults < MaxSaveFaults
  /\ \/ UNCHANGED <<stored, events, upToDate>>
     \/ d \in upToDate /\ Write(d) /\ upToDate' = {}
  /\ seen' = [seen EXCEPT ![d] = None]
  /\ saveFaults' = saveFaults + 1
  /\ UNCHANGED <<page, pageChanges, memory>>

MonitorNext ==
  \/ \E c \in Contents : PageChanges(c)
  \/ \E d \in Detectors : Restart(d) \/ Fetch(d) \/ Save(d) \/ Conflict(d) \/ SaveRaises(d)

MonitorSpec == MonitorInit /\ [][MonitorNext]_monitorVars

-----------------------------------------------------------------------------
(* Properties                                                              *)

\* The events are one history of the page: each begins where the one before ended,
\* and the last ends at the stored baseline, however many detectors check at once,
\* with stale baselines, and whatever save is lost or reported as lost.
EventsFormChain ==
  /\ \A i \in 1 .. Len(events) :
       /\ events[i].from # events[i].to
       /\ i < Len(events) => events[i].to = events[i + 1].from
  /\ events # <<>> => events[Len(events)].to = stored.content

\* The reference of later thresholds is what the last eligible event showed, and once
\* one was sent small changes add up to the next.
DriftIsNotified ==
  LET sent == {i \in DOMAIN events : events[i].eligible}
  IN  /\ stored.notified = None <=> sent = {}
      /\ \A i \in sent : (\A j \in sent : j <= i) => stored.notified = events[i].to
      /\ stored.notified # stored.content =>
           stored.notified = None \/ Distance(stored.notified, stored.content) < Threshold

\* The table of events and the stored baseline tell the same history.
EventsAreSound == MonitorTypeOK /\ EventsFormChain /\ DriftIsNotified

\* A page that stops changing becomes the baseline: no check is lost to conflicts.
LastContentIsSeen == pageChanges = MaxPageChanges ~> stored.content = page
=============================================================================

-------------------------- MODULE SchedulingProofs --------------------------
(***************************************************************************)
(* Three stores that several processes share under a token: the baselines  *)
(* of the change monitor (compare-and-swap), the outbox of its events      *)
(* (lease and attempt count) and the schedules (lease).  Each invariant    *)
(* says what the holder of the token may rely on, for any number of        *)
(* detectors, senders, triggers, rows, attempts and faults.                *)
(*                                                                         *)
(* A later section is about the semaphores of the async fetcher, for any   *)
(* number of tasks, domains and cached semaphores: slots and holders add   *)
(* up to the limit, and a semaphore that is in use stays in the cache.     *)
(*                                                                         *)
(* At the end comes the folder watcher: its table of signatures, the looks *)
(* it takes and the versions it converted, while the table has room.       *)
(***************************************************************************)
EXTENDS MonitorBaseline, Delivery, ScheduleLease, DomainConcurrency, FolderWatch,
        SequenceTheorems, FiniteSetTheorems, WellFoundedInduction, TLAPS

-----------------------------------------------------------------------------
(* Numbers                                                                 *)

\* The least element of a set of numbers, which First takes from a batch.
LEMMA LeastNatural ==
  ASSUME NEW S \in SUBSET Nat, S # {}
  PROVE  \E m \in S : \A n \in S : m <= n
<1>. DEFINE R == OpToRel(<, Nat)
<1>1. \A n, m \in Nat : <<n, m>> \in R <=> n < m
  BY DEF OpToRel
<1>2. IsWellFoundedOn(R, Nat)
  BY NatLessThanWellFounded, Zenon
<1>. HIDE DEF R
<1>3. \E m \in S : \A n \in S : ~ (<<n, m>> \in R)
  BY <1>2, WFMin
<1>4. PICK m \in S : \A n \in S : ~ (<<n, m>> \in R)
  BY <1>3
<1>5. \A n \in S : ~ (n < m)
  BY <1>1, <1>4
<1>6. \A n \in S : m <= n
  BY <1>5, m \in Nat, \A n \in S : n \in Nat
<1>. QED BY <1>6

\* What a counter that may not be one is.
LEMMA OneOrNone == \A n \in Nat : n <= 1 /\ n # 1 => n = 0
OBVIOUS

-----------------------------------------------------------------------------
(* The monitor                                                             *)

\* What the compare-and-swap tells a detector: its memory is the stored row.
Known == \A d \in upToDate : memory[d] = stored

\* Without a baseline there is no history.
NothingBefore == stored.content = None => events = <<>> /\ stored.notified = None

\* The invariant of MonitorIsSound.
MonitorInv == MonitorTypeOK /\ Known /\ NothingBefore /\ EventsFormChain /\ DriftIsNotified

\* Thresholds are compared with numbers.
LEMMA DistanceIsNat == \A x, y \in Nat : Distance(x, y) \in Nat
BY DEF Distance

\* check_rule saves a baseline in each of its four outcomes.
LEMMA CheckedIsBaseline ==
  ASSUME NEW b \in Baseline, NEW c \in Contents
  PROVE  Checked(b, c) \in Baseline
<1>. USE MonitorConstants
<1>1. CASE b.content = None
  BY <1>1 DEF Checked, NoBaseline, Baseline
<1>2. CASE b.content # None /\ c = b.content
  BY <1>2 DEF Checked, Baseline
<1>3. CASE b.content # None /\ c # b.content /\ ~Confirmed(b, c)
  <2>. DEFINE n == IF b.candidate = c THEN b.count + 1 ELSE 1
  <2>1. Checked(b, c) = [b EXCEPT !.candidate = c, !.count = n]
    BY <1>3 DEF Checked
  <2>2. n \in Nat
    BY DEF Baseline
  <2>. HIDE DEF n
  <2>. QED BY <2>1, <2>2 DEF Baseline
<1>4. CASE b.content # None /\ c # b.content /\ Confirmed(b, c)
  BY <1>4 DEF Checked, Baseline
<1>. QED BY <1>1, <1>2, <1>3, <1>4

\* A history stays sound while no event is added and the baseline shows what it showed.
LEMMA HistoryFrame ==
  ASSUME NothingBefore, EventsFormChain, DriftIsNotified,
         events' = events, stored'.content = stored.content, stored'.notified = stored.notified
  PROVE  NothingBefore' /\ EventsFormChain' /\ DriftIsNotified'
BY DEF NothingBefore, EventsFormChain, DriftIsNotified

\* The confirmed change of a page: the event begins where the last one ended, and the
\* reference moves exactly when the event is eligible.
LEMMA EventExtendsHistory ==
  ASSUME MonitorInv, NEW c \in Contents,
         stored.content # None, c # stored.content,
         NEW big \in BOOLEAN, big = EligibleFor(stored, c),
         events' = Append(events, [from |-> stored.content, to |-> c, eligible |-> big]),
         stored' = [content |-> c, candidate |-> None, count |-> 0,
                    notified |-> IF big THEN c ELSE stored.notified]
  PROVE  events' \in Seq(Event) /\ NothingBefore' /\ EventsFormChain' /\ DriftIsNotified'
<1>. DEFINE e == [from |-> stored.content, to |-> c, eligible |-> big]
            n == Len(events)
<1>. USE MonitorConstants
<1>1. /\ events \in Seq(Event) /\ n \in Nat /\ stored.content \in Contents
      /\ stored.notified \in Contents \cup {None}
  BY DEF MonitorInv, MonitorTypeOK, Baseline
<1>2. e \in Event
  BY <1>1 DEF Event
<1>3. /\ events' \in Seq(Event) /\ Len(events') = n + 1 /\ events'[n + 1] = e
      /\ \A i \in 1 .. n : events'[i] = events[i]
      /\ DOMAIN events' = 1 .. n + 1 /\ DOMAIN events = 1 .. n
  BY <1>1, <1>2
<1>4. stored'.content = c /\ stored'.notified = IF big THEN c ELSE stored.notified
  OBVIOUS
<1>5. c # None
  OBVIOUS
<1>6. NothingBefore'
  BY <1>4, <1>5 DEF NothingBefore
<1>. DEFINE Sent == {i \in DOMAIN events : events[i].eligible}
<1>7. Sent' = IF big THEN Sent \cup {n + 1} ELSE Sent
  BY <1>3
<1>. HIDE DEF e
<1>8. e.from = stored.content /\ e.to = c /\ e.eligible = big
  BY DEF e
<1>9. EventsFormChain'
  <2>1. ASSUME NEW i \in 1 .. n + 1
        PROVE  /\ events'[i].from # events'[i].to
               /\ i < n + 1 => events'[i].to = events'[i + 1].from
    <3>1. CASE i = n + 1
      BY <3>1, <1>3, <1>8
    <3>2. CASE i < n
      BY <1>1, <1>3, <3>2 DEF MonitorInv, EventsFormChain
    <3>3. CASE i = n
      BY <1>1, <1>3, <1>8, <3>3 DEF MonitorInv, EventsFormChain
    <3>. QED BY <1>1, <3>1, <3>2, <3>3
  <2>. QED BY <1>3, <1>4, <1>8, <2>1 DEF EventsFormChain
<1>10. DriftIsNotified'
  <2>0. /\ stored.notified = None <=> Sent = {}
        /\ \A i \in Sent : (\A j \in Sent : j <= i) => stored.notified = events[i].to
    BY DEF MonitorInv, DriftIsNotified
  <2>1. CASE big
    <3>1. Sent' # {} /\ stored'.notified # None
      BY <1>4, <1>5, <1>7, <2>1
    <3>2. ASSUME NEW i \in Sent', \A j \in Sent' : j <= i
          PROVE  stored'.notified = events'[i].to
      <4>1. i = n + 1
        BY <1>1, <1>7, <2>1, <3>2
      <4>. QED BY <1>3, <1>4, <1>8, <2>1, <4>1
    <3>. HIDE DEF Sent
    <3>. QED BY <1>4, <2>1, <3>1, <3>2 DEF DriftIsNotified, Sent
  <2>2. CASE ~big
    <3>1. Sent' = Sent /\ stored'.notified = stored.notified
      BY <1>4, <1>7, <2>2
    <3>2. ASSUME NEW i \in Sent', \A j \in Sent' : j <= i
          PROVE  stored'.notified = events'[i].to
      BY <1>3, <2>0, <3>1, <3>2
    <3>3. stored'.notified # stored'.content =>
            stored'.notified = None \/ Distance(stored'.notified, stored'.content) < Threshold
      <4>1. CASE stored.notified # None
        <5>1. ~(Distance(stored.notified, c) >= Threshold)
          BY <2>2, <4>1 DEF EligibleFor, Reference
        <5>2. stored.notified \in Nat /\ c \in Nat
          BY <1>1, <4>1
        <5>3. Distance(stored.notified, c) \in Nat
          BY <5>2, DistanceIsNat
        <5>. QED BY <1>4, <3>1, <5>1, <5>3
      <4>. QED BY <3>1, <4>1
    <3>4. stored'.notified = None <=> Sent' = {}
      BY <2>0, <3>1
    <3>. QED BY <3>2, <3>3, <3>4 DEF DriftIsNotified
  <2>. QED BY <2>1, <2>2
<1>. QED BY <1>3, <1>6, <1>9, <1>10

\* The one write of a check whose detector knows the stored row.
LEMMA WriteKeepsHistory ==
  ASSUME MonitorInv, NEW d \in Detectors, Checking(d), d \in upToDate, Write(d)
  PROVE  /\ stored' \in Baseline /\ events' \in Seq(Event)
         /\ NothingBefore' /\ EventsFormChain' /\ DriftIsNotified'
<1>. DEFINE c == seen[d]
<1>1. /\ memory[d] = stored /\ stored \in Baseline /\ events \in Seq(Event)
      /\ c \in Contents /\ c # None
  BY MonitorConstants DEF MonitorInv, MonitorTypeOK, Known, Checking
<1>. HIDE DEF c
<1>2. /\ stored' = Checked(stored, c)
      /\ events' = IF Changed(stored, c)
                   THEN Append(events, [from |-> stored.content, to |-> c,
                                        eligible |-> EligibleFor(stored, c)])
                   ELSE events
  BY <1>1 DEF Write, c
<1>3. stored' \in Baseline
  BY <1>1, <1>2, CheckedIsBaseline
<1>4. CASE stored.content = None
  <2>1. stored' = [NoBaseline EXCEPT !.content = c] /\ events' = events
    BY <1>2, <1>4 DEF Checked, Changed
  <2>2. events = <<>> /\ stored.notified = None
    BY <1>4 DEF MonitorInv, NothingBefore
  <2>3. stored'.content = c /\ stored'.notified = None
    BY <2>1 DEF NoBaseline
  <2>. QED BY <1>1, <1>3, <2>1, <2>2, <2>3 DEF NothingBefore, EventsFormChain,
       DriftIsNotified
<1>5. CASE stored.content # None /\ (c = stored.content \/ ~Confirmed(stored, c))
  <2>1. events' = events
    BY <1>2, <1>5 DEF Changed
  <2>2. stored'.content = stored.content /\ stored'.notified = stored.notified
    BY <1>1, <1>2, <1>5 DEF Checked, Baseline
  <2>. QED BY <1>1, <1>3, <2>1, <2>2, HistoryFrame DEF MonitorInv
<1>6. CASE stored.content # None /\ c # stored.content /\ Confirmed(stored, c)
  <2>1. /\ stored' = [content |-> c, candidate |-> None, count |-> 0,
                      notified |-> IF EligibleFor(stored, c) THEN c ELSE stored.notified]
        /\ events' = Append(events, [from |-> stored.content, to |-> c,
                                     eligible |-> EligibleFor(stored, c)])
    BY <1>2, <1>6 DEF Checked, Changed
  <2>2. EligibleFor(stored, c) \in BOOLEAN
    BY DEF EligibleFor
  <2>. QED BY <1>1, <1>3, <1>6, <2>1, <2>2, EventExtendsHistory
<1>. QED BY <1>4, <1>5, <1>6

\* The invariant holds before the first check.
LEMMA MonitorInitInv == MonitorInit => MonitorInv
BY MonitorConstants DEF MonitorInit, MonitorInv, MonitorTypeOK, Known, NothingBefore,
     EventsFormChain,
   DriftIsNotified, NoBaseline, Baseline

\* Checks, conflicts, failed saves and restarts keep it.
LEMMA MonitorStep == MonitorInv /\ [MonitorNext]_monitorVars => MonitorInv'
<1>. SUFFICES ASSUME MonitorInv, [MonitorNext]_monitorVars PROVE MonitorInv'
  OBVIOUS
<1>. DEFINE History == NothingBefore /\ EventsFormChain /\ DriftIsNotified
<1>1. ASSUME UNCHANGED <<stored, events>> PROVE History'
  BY <1>1, HistoryFrame DEF MonitorInv
<1>. HIDE DEF History
<1>. USE DEF MonitorInv, MonitorTypeOK, Known
<1>2. ASSUME NEW c \in Contents, PageChanges(c) PROVE MonitorInv'
  BY <1>1, <1>2 DEF PageChanges, History
<1>3. ASSUME NEW d \in Detectors, Restart(d) PROVE MonitorInv'
  BY <1>1, <1>3 DEF Restart, History
<1>4. ASSUME NEW d \in Detectors, Fetch(d) PROVE MonitorInv'
  BY <1>1, <1>4 DEF Fetch, History
<1>5. ASSUME NEW d \in Detectors, Save(d) PROVE MonitorInv'
  <2>1. stored' \in Baseline /\ events' \in Seq(Event) /\ History'
    BY <1>5, WriteKeepsHistory DEF Save, History
  <2>. QED BY <1>5, <2>1 DEF Save, History
<1>6. ASSUME NEW d \in Detectors, Conflict(d) PROVE MonitorInv'
  BY <1>1, <1>6 DEF Conflict, History
<1>7. ASSUME NEW d \in Detectors, SaveRaises(d) PROVE MonitorInv'
  <2>1. CASE UNCHANGED <<stored, events, upToDate>>
    BY <1>1, <1>7, <2>1 DEF SaveRaises, History
  <2>2. CASE d \in upToDate /\ Write(d) /\ upToDate' = {}
    <3>1. stored' \in Baseline /\ events' \in Seq(Event) /\ History'
      BY <1>7, <2>2, WriteKeepsHistory DEF SaveRaises, History
    <3>. QED BY <1>7, <2>2, <3>1 DEF SaveRaises, History
  <2>. QED BY <1>7, <2>1, <2>2 DEF SaveRaises
<1>8. CASE UNCHANGED monitorVars
  BY <1>1, <1>8 DEF monitorVars, History
<1>. QED BY <1>2, <1>3, <1>4, <1>5, <1>6, <1>7, <1>8 DEF MonitorNext

\* However many detectors check with stale baselines, and whatever save raises before
\* or after its commit, the events are one history that ends at the stored baseline.
THEOREM MonitorIsSound == MonitorSpec => []EventsAreSound
<1>1. MonitorInv => EventsAreSound
  BY DEF MonitorInv, EventsAreSound
<1>. QED BY <1>1, MonitorInitInv, MonitorStep, PTL DEF MonitorSpec

-----------------------------------------------------------------------------
(* The outbox                                                              *)

\* submitted is written only behind an answer of the receiver.
AcceptanceIsReal ==
  /\ \A e \in EventIds : row[e].status = "submitted" => received[e] > 0
  /\ \A w \in Senders : place[w] = "ack" => received[sending[w].event] > 0

\* Events that met no crash, no lost answer and no overlong send.
Clean == EventIds \ blemished

\* A clean event is in the hands of one sender,
OneSender ==
  \A e \in Clean : \A w, v \in Senders : InFlight(w, e) /\ InFlight(v, e) => w = v

\* whose token is the current one, and whose lease lives until the row is revoked;
SenderHolds ==
  \A e \in Clean : \A w \in Senders :
    InFlight(w, e) =>
      /\ sending[w].token = row[e].attempts
      /\ \/ row[e].status = "sending" /\ row[e].lease = "live"
         \/ row[e].status = "cancelled"
      /\ received[e] = IF place[w] = "ack" THEN 1 ELSE 0

\* once it was accepted nobody may claim it again: its row is closed, or the sender
\* that has the answer still holds it.
AcceptedOnce ==
  \A e \in Clean :
    /\ received[e] <= 1
    /\ received[e] = 1 =>
         \/ row[e].status \in {"submitted", "cancelled"}
         \/ \E w \in Senders : InFlight(w, e) /\ place[w] = "ack"

\* The invariant of DeliveriesAreHonest.
DeliveryInv == DeliveryTypeOK /\ AcceptanceIsReal /\ OneSender /\ SenderHolds /\ AcceptedOnce

\* A batch that is not empty has a first row.
LEMMA FirstInBatch ==
  ASSUME DeliveryTypeOK, NEW w \in Senders, batch[w] # {}
  PROVE  First(w) \in batch[w] /\ First(w) \in EventIds
<1>1. batch[w] \in SUBSET Nat
  BY DeliveryConstants DEF DeliveryTypeOK, EventIds
<1>2. \E e \in batch[w] : \A f \in batch[w] : e <= f
  BY <1>1, LeastNatural
<1>. QED BY <1>2, DeliveryConstants DEF First, DeliveryTypeOK

\* The invariant holds with an empty table.
LEMMA DeliveryInitInv == DeliveryInit => DeliveryInv
BY DeliveryConstants DEF DeliveryInit, DeliveryInv, DeliveryTypeOK, AcceptanceIsReal,
     OneSender, SenderHolds, AcceptedOnce, InFlight, DeliveryRow, Statuses, NoClaim, Clean

\* A row with another status is a row.
LEMMA TypedRow ==
  ASSUME NEW R \in [EventIds -> DeliveryRow], NEW e \in EventIds, NEW s \in Statuses
  PROVE  [R EXCEPT ![e].status = s] \in [EventIds -> DeliveryRow]
<1>1. R[e] \in DeliveryRow
  OBVIOUS
<1>2. [R[e] EXCEPT !.status = s] \in DeliveryRow
  BY <1>1 DEF DeliveryRow
<1>. QED BY <1>2

\* Every transaction and request keeps the types.
LEMMA DeliveryStepTypes ==
  DeliveryTypeOK /\ [DeliveryNext]_deliveryVars => DeliveryTypeOK'
<1>. SUFFICES ASSUME DeliveryTypeOK, [DeliveryNext]_deliveryVars PROVE DeliveryTypeOK'
  OBVIOUS
<1>. USE DeliveryConstants DEF DeliveryTypeOK, DeliveryRow, Statuses
<1>1. ASSUME NEW e \in EventIds, Enqueue(e) PROVE DeliveryTypeOK'
  <2>1. row' = [row EXCEPT ![e].status = "pending"]
    BY <1>1 DEF Enqueue
  <2>2. row' \in [EventIds -> DeliveryRow]
    BY ONLY <2>1, TypedRow, DeliveryTypeOK DEF DeliveryTypeOK, Statuses
  <2>. QED BY <1>1, <2>2 DEF Enqueue
<1>2. ASSUME NEW e \in EventIds, ComesDueAgain(e) PROVE DeliveryTypeOK'
  BY <1>2 DEF ComesDueAgain
<1>3. ASSUME NEW e \in EventIds, ClaimLapses(e) PROVE DeliveryTypeOK'
  BY <1>3 DEF ClaimLapses
<1>4. CASE ToggleRule
  BY <1>4 DEF ToggleRule, Slip
<1>5. ASSUME NEW w \in Senders, Dispatch(w) \/ EndOfBatch(w) PROVE DeliveryTypeOK'
  BY <1>5 DEF Dispatch, EndOfBatch, Go
<1>6. ASSUME NEW w \in Senders, Revoke(w) PROVE DeliveryTypeOK'
  BY <1>6 DEF Revoke, Go
<1>7. ASSUME NEW w \in Senders, ReadPending(w) PROVE DeliveryTypeOK'
  BY <1>7 DEF ReadPending, Go, Slip
<1>8. ASSUME NEW w \in Senders, Claim(w) PROVE DeliveryTypeOK'
  <2>. DEFINE e == First(w)
  <2>1. e \in EventIds /\ e # 0
    BY <1>8, FirstInBatch DEF Claim, EventIds
  <2>2. CASE Claimable(e)
    <3>1. row' \in [EventIds -> DeliveryRow]
      BY <1>8, <2>1, <2>2 DEF Claim
    <3>. QED BY <1>8, <2>1, <2>2, <3>1 DEF Claim, Go
  <2>3. CASE ~Claimable(e)
    BY <1>8, <2>3 DEF Claim
  <2>. QED BY <2>2, <2>3
<1>9. ASSUME NEW w \in Senders, Accepted(w) PROVE DeliveryTypeOK'
  BY <1>9 DEF Accepted, Go
<1>10. ASSUME NEW w \in Senders, AnswerLost(w) PROVE DeliveryTypeOK'
  BY <1>10 DEF AnswerLost, Go, Slip
<1>11. ASSUME NEW w \in Senders, NotAccepted(w) PROVE DeliveryTypeOK'
  BY <1>11 DEF NotAccepted, Go
<1>12. ASSUME NEW w \in Senders, Acknowledge(w) PROVE DeliveryTypeOK'
  BY <1>12 DEF Acknowledge, Settle, Forget, Go, NoClaim
<1>13. ASSUME NEW w \in Senders, AcknowledgeRaises(w) PROVE DeliveryTypeOK'
  BY <1>13 DEF AcknowledgeRaises, Go, Slip
<1>14. ASSUME NEW w \in Senders, Fail(w) PROVE DeliveryTypeOK'
  BY <1>14 DEF Fail, Settle, Forget, Go, NoClaim
<1>15. ASSUME NEW w \in Senders, SenderDies(w) PROVE DeliveryTypeOK'
  BY <1>15 DEF SenderDies, Slip, Forget, Go, NoClaim
<1>16. ASSUME NEW w \in Senders, SendOutlasts(w) PROVE DeliveryTypeOK'
  <2>1. sending[w].event \in EventIds
    BY <1>16 DEF SendOutlasts
  <2>2. row' \in [EventIds -> DeliveryRow]
    BY <1>16, <2>1 DEF SendOutlasts
  <2>. QED BY <1>16, <2>1, <2>2 DEF SendOutlasts, Slip
<1>17. CASE UNCHANGED deliveryVars
  BY <1>17 DEF deliveryVars
<1>. QED
  BY <1>1, <1>2, <1>3, <1>4, <1>5, <1>6, <1>7, <1>8, <1>9, <1>10, <1>11, <1>12, <1>13,
     <1>14, <1>15, <1>16, <1>17 DEF DeliveryNext, SenderStep

\* Every transaction, request and fault keeps the invariant.
LEMMA DeliveryStep ==
  DeliveryInv /\ [DeliveryNext]_deliveryVars => DeliveryInv'
<1>. SUFFICES ASSUME DeliveryInv, [DeliveryNext]_deliveryVars PROVE DeliveryInv'
  OBVIOUS
<1>. DEFINE I == AcceptanceIsReal /\ OneSender /\ SenderHolds /\ AcceptedOnce
<1>0. DeliveryTypeOK'
  BY DeliveryStepTypes DEF DeliveryInv
<1>. USE DEF DeliveryInv, AcceptanceIsReal, OneSender, SenderHolds, AcceptedOnce, Clean,
     InFlight
<1>. USE DEF DeliveryTypeOK, DeliveryRow
<1>1. ASSUME NEW e \in EventIds, Enqueue(e) PROVE I'
  BY <1>0, <1>1 DEF Enqueue
<1>2. ASSUME NEW e \in EventIds, ComesDueAgain(e) PROVE I'
  BY <1>0, <1>2 DEF ComesDueAgain
<1>3. ASSUME NEW e \in EventIds, ClaimLapses(e) PROVE I'
  BY <1>0, <1>3 DEF ClaimLapses, Owns
<1>4. ASSUME ToggleRule PROVE I'
  BY <1>0, <1>4 DEF ToggleRule, Slip
<1>5. ASSUME NEW w \in Senders, Dispatch(w) PROVE I'
  BY <1>0, <1>5 DEF Dispatch, Go
<1>6. ASSUME NEW w \in Senders, Revoke(w) PROVE I'
  <2>0. /\ \A f \in EventIds :
             /\ row'[f].attempts = row[f].attempts
             /\ row[f].status \notin Open => row'[f] = row[f]
             /\ row[f].status \in Open => row'[f].status = "cancelled"
        /\ UNCHANGED <<received, blemished, sending>>
        /\ place' = [place EXCEPT ![w] = "idle"] /\ place[w] = "revoke"
    <3>1. ASSUME NEW f \in EventIds
          PROVE  /\ row'[f].attempts = row[f].attempts
                 /\ row[f].status \notin Open => row'[f] = row[f]
                 /\ row[f].status \in Open => row'[f].status = "cancelled"
      <4>1. row[f] \in DeliveryRow
        OBVIOUS
      <4>2. row'[f] = IF row[f].status \in Open
                      THEN [row[f] EXCEPT !.status = "cancelled", !.lease = "none"] ELSE row[f]
        BY <1>6 DEF Revoke
      <4>. QED BY <4>1, <4>2
    <3>. QED BY <1>6, <3>1 DEF Revoke, Go
  <2>1. AcceptanceIsReal'
    BY <1>0, <2>0 DEF Open
  <2>2. OneSender'
    BY <1>0, <2>0 DEF Open
  <2>3. SenderHolds'
    BY <1>0, <2>0 DEF Open
  <2>4. AcceptedOnce'
    BY <1>0, <2>0 DEF Open
  <2>. QED BY <2>1, <2>2, <2>3, <2>4
<1>7. ASSUME NEW w \in Senders, ReadPending(w) PROVE I'
  BY <1>0, <1>7 DEF ReadPending, Go, Slip
<1>8. ASSUME NEW w \in Senders, Claim(w) PROVE I'
  <2>. DEFINE e == First(w)
  <2>1. e \in EventIds
    BY <1>8, FirstInBatch DEF Claim
  <2>2. CASE Claimable(e)
    <3>1. /\ row' = [row EXCEPT ![e].status = "sending", ![e].lease = "live",
                               ![e].attempts = @ + 1]
          /\ sending' = [sending EXCEPT ![w] = [event |-> e, token |-> row[e].attempts + 1]]
          /\ place' = [place EXCEPT ![w] = "send"]
          /\ UNCHANGED <<received, blemished>>
      BY <1>8, <2>2 DEF Claim, Go
    <3>2. row[e].status \in Open /\ row[e].lease # "live"
      BY <2>2 DEF Claimable
    <3>. HIDE DEF e
    <3>3. e \in Clean => received[e] = 0 /\ \A v \in Senders : ~InFlight(v, e)
      <4>. SUFFICES ASSUME e \in Clean
                    PROVE  received[e] = 0 /\ \A v \in Senders : ~InFlight(v, e)
        OBVIOUS
      <4>1. ASSUME NEW v \in Senders, InFlight(v, e) PROVE FALSE
        BY <2>1, <3>2, <4>1 DEF Open
      <4>2. row[e].status \notin {"submitted", "cancelled"}
        BY <3>2 DEF Open
      <4>3. received[e] # 1
        BY <4>1, <4>2
      <4>4. received[e] \in Nat /\ received[e] <= 1
        BY <2>1
      <4>. QED BY <4>1, <4>3, <4>4, OneOrNone, Zenon
    <3>4. AcceptanceIsReal'
      BY <2>1, <3>1
    <3>5. OneSender'
      BY <2>1, <3>1, <3>3
    <3>6. SenderHolds'
      BY <2>1, <3>1, <3>3
    <3>7. AcceptedOnce'
      BY <2>1, <3>1, <3>2, <3>3 DEF Open
    <3>. QED BY <3>4, <3>5, <3>6, <3>7
  <2>3. CASE ~Claimable(e)
    BY <1>8, <2>3 DEF Claim
  <2>. QED BY <2>2, <2>3
<1>9. ASSUME NEW w \in Senders, EndOfBatch(w) PROVE I'
  BY <1>0, <1>9 DEF EndOfBatch, Go
<1>10. ASSUME NEW w \in Senders, Accepted(w) PROVE I'
  BY <1>0, <1>10 DEF Accepted, Go
<1>11. ASSUME NEW w \in Senders, AnswerLost(w) PROVE I'
  BY <1>0, <1>11 DEF AnswerLost, Go
<1>12. ASSUME NEW w \in Senders, NotAccepted(w) PROVE I'
  BY <1>0, <1>12 DEF NotAccepted, Go
<1>13. ASSUME NEW w \in Senders, Acknowledge(w) PROVE I'
  <2>1. AcceptanceIsReal'
    BY <1>0, <1>13 DEF Acknowledge, Settle, Forget, Go, NoClaim, Owns
  <2>2. OneSender'
    BY <1>0, <1>13 DEF Acknowledge, Settle, Forget, Go, NoClaim, Owns
  <2>3. SenderHolds'
    BY <1>0, <1>13 DEF Acknowledge, Settle, Forget, Go, NoClaim, Owns
  <2>4. AcceptedOnce'
    BY <1>0, <1>13 DEF Acknowledge, Settle, Forget, Go, NoClaim, Owns
  <2>. QED BY <2>1, <2>2, <2>3, <2>4
<1>14. ASSUME NEW w \in Senders, AcknowledgeRaises(w) PROVE I'
  BY <1>0, <1>14 DEF AcknowledgeRaises, Go
<1>15. ASSUME NEW w \in Senders, Fail(w) PROVE I'
  <2>. DEFINE e == sending[w].event
  <2>1. /\ place[w] \in {"fail", "refused"} /\ received' = received /\ blemished' = blemished
        /\ place' = [place EXCEPT ![w] = "next"]
        /\ sending' = [sending EXCEPT ![w] = NoClaim]
        /\ \/ row' = row
           \/ \E status \in {"failed", "retrying"} :
                row' = [row EXCEPT ![e].status = status, ![e].lease = "none", ![e].due = FALSE]
    BY Zenon, <1>15 DEF Fail, Settle, Forget, Go
  <2>. HIDE DEF e
  <2>2. \A f \in EventIds :
           f # e \/ row'[f].status \notin {"failed", "retrying"} => row'[f] = row[f]
    BY <2>1
  <2>3. \A v \in Senders : v # w => place'[v] = place[v] /\ sending'[v] = sending[v]
    BY <2>1
  <2>4. place'[w] = "next"
    BY <2>1
  <2>5. InFlight(w, e) /\ place[w] # "ack"
    BY <2>1 DEF e
  <2>6. AcceptanceIsReal'
    BY <1>0, <2>1, <2>2, <2>3, <2>4
  <2>7. OneSender'
    BY <1>0, <2>1, <2>3, <2>4
  <2>8. SenderHolds'
    <3>. SUFFICES ASSUME NEW f \in Clean, NEW v \in Senders, InFlight(v, f)'
                  PROVE  /\ sending'[v].token = row'[f].attempts
                         /\ \/ row'[f].status = "sending" /\ row'[f].lease = "live"
                            \/ row'[f].status = "cancelled"
                         /\ received'[f] = IF place'[v] = "ack" THEN 1 ELSE 0
      BY <2>1
    <3>1. v # w /\ InFlight(v, f)
      BY <2>3, <2>4
    <3>2. f # e
      BY <2>5, <3>1
    <3>3. row'[f] = row[f]
      BY <2>2, <3>2
    <3>. QED BY <2>1, <2>3, <3>1, <3>3
  <2>9. AcceptedOnce'
    <3>. SUFFICES ASSUME NEW f \in Clean
                  PROVE  /\ received[f] <= 1
                         /\ received[f] = 1 =>
                              \/ row'[f].status \in {"submitted", "cancelled"}
                              \/ \E v \in Senders : InFlight(v, f)' /\ place'[v] = "ack"
      BY <2>1
    <3>1. f = e => received[f] = 0
      BY <2>5
    <3>2. CASE f # e
      <4>1. row'[f] = row[f]
        BY <2>2, <3>2
      <4>2. \A v \in Senders :
               InFlight(v, f) /\ place[v] = "ack" => InFlight(v, f)' /\ place'[v] = "ack"
        BY <2>1, <2>3
      <4>. QED BY <4>1, <4>2
    <3>. QED BY <3>1, <3>2
  <2>. QED BY <2>6, <2>7, <2>8, <2>9
<1>16. ASSUME NEW w \in Senders, SenderDies(w) PROVE I'
  BY <1>0, <1>16 DEF SenderDies, Forget, Go, NoClaim
<1>17. ASSUME NEW w \in Senders, SendOutlasts(w) PROVE I'
  BY <1>0, <1>17 DEF SendOutlasts
<1>18. CASE UNCHANGED deliveryVars
  BY <1>18 DEF deliveryVars
<1>. QED BY <1>0, <1>1, <1>2, <1>3, <1>4, <1>5, <1>6, <1>7, <1>8, <1>9, <1>10, <1>11,
     <1>12, <1>13, <1>14, <1>15, <1>16, <1>17, <1>18 DEF DeliveryNext, SenderStep

\* An event is reported as submitted only when the receiver accepted it, and a second
\* acceptance needs a crash, a lost answer, a failed acknowledgement or an overlong send.
THEOREM DeliveriesAreHonest == DeliverySpec => []DeliveryIsHonest
<1>1. DeliveryInv => DeliveryIsHonest
  BY DEF DeliveryInv, DeliveryTypeOK, AcceptanceIsReal, AcceptedOnce, Clean,
       DeliveryIsHonest
<1>. QED BY <1>1, DeliveryInitInv, DeliveryStep, PTL DEF DeliverySpec

-----------------------------------------------------------------------------
(* The schedules                                                           *)

\* A claim nothing disturbed has a live lease and no second claimant.
LeaseHeld ==
  \A s \in Schedules \ disturbed : \A t \in Triggers :
    claims[t][s] # "none" =>
      /\ lease[s] = "live"
      /\ \A u \in Triggers \ {t} : claims[u][s] = "none"

\* The invariant of SchedulesAreShared.
ScheduleInv == ScheduleTypeOK /\ LeaseHeld

\* Leaving the line keeps it a line.
LEMMA WithoutIsLine ==
  ASSUME line \in Seq(Schedules), NEW s PROVE Without(s) \in Seq(Schedules)
<1>1. CASE Due(s)
  <2>1. PICK i \in DOMAIN line :
          Without(s) = SubSeq(line, 1, i - 1) \o SubSeq(line, i + 1, Len(line))
    BY <1>1, Zenon DEF Without, Due
  <2>2. i \in 1 .. Len(line)
    BY <2>1
  <2>3. /\ SubSeq(line, 1, i - 1) \in Seq(Schedules)
        /\ SubSeq(line, i + 1, Len(line)) \in Seq(Schedules)
    BY <2>2, SubSeqProperties
  <2>. QED BY <2>1, <2>3, ConcatProperties
<1>2. CASE ~Due(s)
  BY <1>2 DEF Without
<1>. QED BY <1>1, <1>2

\* A claim that ends, with its lease dropped or left: the row is undisturbed only when
\* no other trigger works on it.
LEMMA DropKeeps ==
  ASSUME ScheduleInv, NEW t \in Triggers,
         NEW s \in Schedules, claims[t][s] # "none", Drop(t, s),
         lease' \in {lease, [lease EXCEPT ![s] = "none"]}
  PROVE  /\ claims' \in [Triggers -> [Schedules -> ClaimStates]]
         /\ disturbed' \subseteq Schedules
         /\ lease' \in [Schedules -> {"none", "live", "past"}]
         /\ LeaseHeld'
<1>. USE DEF ScheduleInv, ScheduleTypeOK, ClaimStates
<1>1. claims' = [claims EXCEPT ![t][s] = "none"]
  BY DEF Drop
<1>2. \A x \in Schedules : x # s =>
        /\ \A u \in Triggers : claims'[u][x] = claims[u][x]
        /\ lease'[x] = lease[x]
        /\ x \in disturbed' <=> x \in disturbed
  BY <1>1 DEF Drop
<1>3. s \notin disturbed' => \A u \in Triggers : claims'[u][s] = "none"
  BY <1>1 DEF Drop, LeaseHeld
<1>4. LeaseHeld'
  BY <1>2, <1>3 DEF LeaseHeld
<1>. QED BY <1>1, <1>4 DEF Drop

\* Triggers, owners, time and crashes keep the leases.
LEMMA ScheduleStep == ScheduleInv /\ [ScheduleNext]_scheduleVars => ScheduleInv'
<1>. SUFFICES ASSUME ScheduleInv, [ScheduleNext]_scheduleVars PROVE ScheduleInv'
  OBVIOUS
<1>. USE DEF ScheduleInv, ScheduleTypeOK
<1>1. ASSUME NEW s \in Schedules, ComesDue(s) PROVE ScheduleInv'
  BY <1>1 DEF ComesDue, LeaseHeld
<1>2. ASSUME NEW s \in Schedules, LeasePasses(s) PROVE ScheduleInv'
  BY <1>2 DEF LeasePasses, LeaseHeld, Claimed
<1>3. ASSUME NEW s \in Schedules, Outlasts(s) PROVE ScheduleInv'
  BY <1>3 DEF Outlasts, LeaseHeld, Mishap
<1>4. ASSUME NEW s \in Schedules, SetEnabled(s) PROVE ScheduleInv'
  BY <1>4 DEF SetEnabled, LeaseHeld, Mishap, Claimed
<1>5. ASSUME NEW t \in Triggers, ClaimDue(t) PROVE ScheduleInv'
  <2>1. \A s \in Batch : s \in Schedules /\ lease[s] # "live"
    BY DEF Batch, Eligible
  <2>2. /\ lease' = [s \in Schedules |-> IF s \in Batch THEN "live" ELSE lease[s]]
        /\ claims' = [claims EXCEPT
             ![t] = [s \in Schedules |-> IF s \in Batch THEN "queued" ELSE "none"]]
        /\ \A s \in Schedules : claims[t][s] = "none"
        /\ UNCHANGED <<enabled, line, disturbed, mishaps>>
    BY <1>5 DEF ClaimDue, Idle
  <2>3. ScheduleTypeOK'
    BY <2>2 DEF ClaimStates
  <2>4. LeaseHeld'
    BY <2>1, <2>2 DEF LeaseHeld
  <2>. QED BY <2>3, <2>4
<1>6. ASSUME NEW t \in Triggers, NEW s \in Schedules, Begin(t, s) PROVE ScheduleInv'
  BY <1>6 DEF Begin, LeaseHeld, ClaimStates
<1>7. ASSUME NEW t \in Triggers, NEW s \in Schedules, Defer(t, s) \/ Finish(t, s)
      PROVE  ScheduleInv'
  <2>1. claims[t][s] # "none"
    BY <1>7 DEF Defer, Finish
  <2>. QED BY <1>7, <2>1, WithoutIsLine, DropKeeps DEF Defer, Finish
<1>8. ASSUME NEW t \in Triggers, NEW s \in Schedules, ConditionsRaise(t, s)
      PROVE ScheduleInv'
  BY <1>8, DropKeeps DEF ConditionsRaise, Mishap
<1>9. ASSUME NEW t \in Triggers, TriggerDies(t) PROVE ScheduleInv'
  BY <1>9 DEF TriggerDies, LeaseHeld, Mishap, ClaimStates
<1>10. CASE UNCHANGED scheduleVars
  BY <1>10 DEF scheduleVars, LeaseHeld
<1>. QED BY <1>1, <1>2, <1>3, <1>4, <1>5, <1>6, <1>7, <1>8, <1>9, <1>10 DEF ScheduleNext,
     Work

\* Two triggers work on one schedule only when its lease ran out, or was dropped by a
\* toggle, under the first of them: claim_due never gives away a live lease.
THEOREM SchedulesAreShared == ScheduleSpec => []SharedOnlyIfDisturbed
<1>1. ScheduleInit => ScheduleInv
  BY ScheduleConstants DEF ScheduleInit, ScheduleInv, ScheduleTypeOK, LeaseHeld, ClaimStates
<1>2. ScheduleInv => SharedOnlyIfDisturbed
  BY DEF ScheduleInv, LeaseHeld, SharedOnlyIfDisturbed
<1>. QED BY <1>1, <1>2, ScheduleStep, PTL DEF ScheduleSpec

-----------------------------------------------------------------------------
(* The semaphores of the async fetcher                                     *)

\* Sequences of members of S, each at most once.
Lines(S) == {q \in Seq(S) : \A i, j \in DOMAIN q : q[i] = q[j] => i = j}

\* Who has a slot of semaphore m, who waits for one, who is inside acquire for s,
\* who waits for one of all slots and who has passed both semaphores.
Holders(m) == {t \in Tasks : waits[t] \in {"granted", "global", "inside"} /\ semOf[t] = m}
WaitingAt(m) == {t \in Tasks : waits[t] = "domain" /\ semOf[t] = m}
Callers(s) == {t \in Tasks : waits[t] # "out" /\ scopeOf[t] = s}
WaitingAll == {t \in Tasks : waits[t] = "global"}
Admitted == {t \in Tasks : waits[t] = "inside"}

\* A domain somebody is inside acquire for keeps its semaphore.
SemaphoresKnown ==
  /\ \A s \in Scopes : sems[s] <= created
  /\ \A t \in Tasks : waits[t] # "out" => semOf[t] # 0 /\ semOf[t] = sems[scopeOf[t]]

\* references counts the tasks inside acquire.
CallersCounted == \A s \in Scopes : references[s] = Cardinality(Callers(s))

\* No slot is lost or made.
SlotsCounted == \A m \in Semaphores : slots[m] + Cardinality(Holders(m)) = PerDomainLimit
GlobalCounted == globalSlots + Cardinality(Admitted) = GlobalLimit

\* Whoever stands in a queue waits there, and stands there once.
QueuesAreWaiting == \A m \in Semaphores : queue[m] \in Lines(WaitingAt(m))
GlobalIsWaiting == globalQueue \in Lines(WaitingAll)

\* The invariant of LimitsAreHeld.
DomainInv ==
  /\ DomainTypeOK /\ SemaphoresKnown /\ CallersCounted
  /\ SlotsCounted /\ GlobalCounted /\ QueuesAreWaiting /\ GlobalIsWaiting

\* A line stays one among more tasks.
LEMMA LineGrows ==
  ASSUME NEW S, NEW T, S \subseteq T, NEW q \in Lines(S) PROVE q \in Lines(T)
  BY DEF Lines

\* A sequence is one over any set that has its elements.
LEMMA StaysSeq ==
  ASSUME NEW S, NEW T, NEW q \in Seq(S), \A i \in 1 .. Len(q) : q[i] \in T
  PROVE  q \in Seq(T)
<1>1. SubSeq(q, 1, Len(q)) = q /\ Len(q) \in Nat
  BY SubSeqFull, LenProperties
<1>2. SubSeq(q, 1, Len(q)) \in Seq(T)
  BY <1>1, SubSeqProperties
<1>. QED BY <1>1, <1>2

\* Who is not in a line joins it.
LEMMA AppendLine ==
  ASSUME NEW S, NEW q \in Lines(S), NEW x, x \notin S PROVE Append(q, x) \in Lines(S \cup {x})
<1>1. q \in Seq(S \cup {x}) /\ \A i, j \in DOMAIN q : q[i] = q[j] => i = j
  BY DEF Lines
<1>2. \A i \in DOMAIN q : q[i] # x
  BY ElementOfSeq DEF Lines
<1>3. /\ Append(q, x) \in Seq(S \cup {x}) /\ DOMAIN Append(q, x) = 1 .. Len(q) + 1
      /\ \A i \in DOMAIN q : Append(q, x)[i] = q[i]
      /\ Append(q, x)[Len(q) + 1] = x /\ DOMAIN q = 1 .. Len(q) /\ Len(q) \in Nat
  BY <1>1, AppendProperties
<1>4. \A i, j \in DOMAIN Append(q, x) : Append(q, x)[i] = Append(q, x)[j] => i = j
  <2>. SUFFICES ASSUME NEW i \in 1 .. Len(q) + 1, NEW j \in 1 .. Len(q) + 1,
                       Append(q, x)[i] = Append(q, x)[j]
                PROVE  i = j
    BY <1>3
  <2>1. CASE i \in DOMAIN q /\ j \in DOMAIN q
    BY <1>1, <1>3, <2>1
  <2>2. CASE i \notin DOMAIN q
    BY <1>2, <1>3, <2>2
  <2>3. CASE j \notin DOMAIN q
    BY <1>2, <1>3, <2>3
  <2>. QED BY <2>1, <2>2, <2>3
<1>. QED BY <1>3, <1>4 DEF Lines

\* The first leaves a line.
LEMMA TailLine ==
  ASSUME NEW S, NEW q \in Lines(S), q # <<>>
  PROVE  q[1] \in S /\ Tail(q) \in Lines(S \ {q[1]})
<1>1. q \in Seq(S) /\ \A i, j \in DOMAIN q : q[i] = q[j] => i = j
  BY DEF Lines
<1>2. Len(q) \in Nat /\ Len(q) > 0 /\ DOMAIN q = 1 .. Len(q)
  BY <1>1, EmptySeq
<1>3. /\ Tail(q) \in Seq(S) /\ Len(Tail(q)) = Len(q) - 1
      /\ \A i \in 1 .. Len(Tail(q)) : Tail(q)[i] = q[i + 1]
  BY <1>1, <1>2, HeadTailProperties
<1>4. \A i \in 1 .. Len(Tail(q)) : Tail(q)[i] \in S \ {q[1]}
  BY <1>1, <1>2, <1>3, ElementOfSeq
<1>5. Tail(q) \in Seq(S \ {q[1]})
  BY <1>2, <1>3, <1>4, StaysSeq
<1>6. \A i, j \in DOMAIN Tail(q) : Tail(q)[i] = Tail(q)[j] => i = j
  BY <1>1, <1>2, <1>3
<1>. QED BY <1>1, <1>2, <1>5, <1>6, ElementOfSeq DEF Lines

\* Anyone leaves a line, and a line without x has nothing to lose.
LEMMA RemoveLine ==
  ASSUME NEW S, NEW q \in Lines(S), NEW x
  PROVE  Remove(q, x) \in Lines(S \ {x}) /\ (x \notin S => Remove(q, x) = q)
<1>1. q \in Seq(S) /\ \A i, j \in DOMAIN q : q[i] = q[j] => i = j
  BY DEF Lines
<1>2. Len(q) \in Nat /\ DOMAIN q = 1 .. Len(q) /\ \A i \in 1 .. Len(q) : q[i] \in S
  BY <1>1, ElementOfSeq
<1>3. CASE \A i \in DOMAIN q : q[i] # x
  <2>1. Remove(q, x) = q
    BY <1>3 DEF Remove
  <2>2. q \in Seq(S \ {x})
    BY <1>1, <1>2, <1>3, StaysSeq
  <2>. QED BY <1>1, <2>1, <2>2 DEF Lines
<1>4. CASE \E i \in DOMAIN q : q[i] = x
  <2>1. PICK k \in DOMAIN q : q[k] = x /\ Remove(q, x) = SubSeq(q, 1, k - 1) \o SubSeq(q, k + 1, Len(q))
    BY <1>4, Zenon DEF Remove
  <2>. DEFINE a == SubSeq(q, 1, k - 1)
              b == SubSeq(q, k + 1, Len(q))
              r == a \o b
  <2>2. k \in 1 .. Len(q)
    BY <1>2, <2>1
  <2>3. a \in Seq(S) /\ Len(a) = k - 1 /\ \A i \in 1 .. k - 1 : a[i] = q[i]
    BY <1>1, <1>2, <2>2, SubSeqProperties
  <2>4. /\ b \in Seq(S) /\ Len(b) = Len(q) - k
        /\ \A i \in 1 .. Len(q) - k : b[i] = q[k + i]
    BY <1>1, <1>2, <2>2, SubSeqProperties
  <2>. HIDE DEF a, b
  <2>5. /\ r \in Seq(S) /\ Len(r) = Len(q) - 1
        /\ \A i \in 1 .. Len(q) - 1 : r[i] = IF i < k THEN q[i] ELSE q[i + 1]
    <3>1. /\ r \in Seq(S) /\ Len(r) = Len(q) - 1
          /\ \A i \in 1 .. Len(q) - 1 : r[i] = IF i <= k - 1 THEN a[i] ELSE b[i - (k - 1)]
      <4>1. Len(a) + Len(b) = Len(q) - 1
        BY <1>2, <2>2, <2>3, <2>4
      <4>2. r \in Seq(S) /\ Len(r) = Len(a) + Len(b)
        BY <2>3, <2>4, ConcatProperties
      <4>3. \A i \in 1 .. Len(a) + Len(b) : r[i] = IF i <= Len(a) THEN a[i] ELSE b[i - Len(a)]
        BY <2>3, <2>4, ConcatProperties
      <4>. HIDE DEF r
      <4>. QED BY <2>3, <4>1, <4>2, <4>3
    <3>. HIDE DEF r
    <3>2. ASSUME NEW i \in 1 .. Len(q) - 1 PROVE r[i] = IF i < k THEN q[i] ELSE q[i + 1]
      <4>1. CASE i < k
        BY <1>2, <2>2, <2>3, <3>1, <4>1
      <4>2. CASE ~(i < k)
        <5>1. i - (k - 1) \in 1 .. Len(q) - k /\ k + (i - (k - 1)) = i + 1 /\ ~(i <= k - 1)
          BY <1>2, <2>2, <4>2
        <5>. QED BY <2>4, <3>1, <4>2, <5>1
      <4>. QED BY <4>1, <4>2
    <3>. QED BY <3>1, <3>2
  <2>. HIDE DEF r
  <2>6. DOMAIN r = 1 .. Len(q) - 1
    BY <1>2, <2>5
  <2>7. ASSUME NEW i \in DOMAIN r, NEW j \in DOMAIN r, r[i] = r[j] PROVE i = j
    <3>1. PICK u, v : u = (IF i < k THEN i ELSE i + 1) /\ v = (IF j < k THEN j ELSE j + 1)
      OBVIOUS
    <3>2. u \in 1 .. Len(q) /\ v \in 1 .. Len(q) /\ i \in Nat /\ j \in Nat /\ k \in Nat
      BY <1>2, <2>2, <2>6, <2>7, <3>1
    <3>3. q[u] = r[i] /\ q[v] = r[j]
      BY <2>5, <2>6, <2>7, <3>1
    <3>4. u = v
      BY <1>1, <1>2, <2>7, <3>2, <3>3
    <3>. QED BY <3>1, <3>2, <3>4
  <2>8. \A i \in 1 .. Len(q) - 1 : r[i] \in S \ {x}
    <3>. SUFFICES ASSUME NEW i \in 1 .. Len(q) - 1 PROVE r[i] \in S \ {x}
      OBVIOUS
    <3>1. PICK o \in 1 .. Len(q) : o # k /\ r[i] = q[o]
      <4>1. CASE i < k
        BY <1>2, <2>2, <2>5, <4>1
      <4>2. CASE ~(i < k)
        <5>1. i + 1 \in 1 .. Len(q) /\ i + 1 # k
          BY <1>2, <2>2, <4>2
        <5>. QED BY <2>5, <4>2, <5>1
      <4>. QED BY <4>1, <4>2
    <3>. QED BY <1>1, <1>2, <2>1, <2>2, <3>1
  <2>9. r \in Seq(S \ {x})
    BY <1>2, <2>5, <2>6, <2>8, StaysSeq
  <2>10. x \in S
    BY <1>2, <2>1
  <2>. QED BY <2>1, <2>7, <2>9, <2>10 DEF r, a, b, Lines
<1>. QED BY <1>3, <1>4

\* Leaving the cache keeps it a sequence of domains.
LEMMA RemoveKeeps ==
  ASSUME NEW S, NEW q \in Seq(S), NEW x PROVE Remove(q, x) \in Seq(S)
<1>1. CASE \A i \in DOMAIN q : q[i] # x
  BY <1>1 DEF Remove
<1>2. CASE \E i \in DOMAIN q : q[i] = x
  <2>1. PICK k \in DOMAIN q : Remove(q, x) = SubSeq(q, 1, k - 1) \o SubSeq(q, k + 1, Len(q))
    BY <1>2, Zenon DEF Remove
  <2>2. k \in 1 .. Len(q)
    BY <2>1
  <2>3. SubSeq(q, 1, k - 1) \in Seq(S) /\ SubSeq(q, k + 1, Len(q)) \in Seq(S)
    BY <2>2, SubSeqProperties
  <2>. QED BY <2>1, <2>3, ConcatProperties
<1>. QED BY <1>1, <1>2

\* The members of a finite set are counted by steps of one.
LEMMA OneMore ==
  ASSUME NEW S \in SUBSET Tasks, NEW t \in Tasks
  PROVE  /\ Cardinality(S) \in Nat
         /\ t \notin S => Cardinality(S \cup {t}) = Cardinality(S) + 1
         /\ t \in S => Cardinality(S) > 0 /\ Cardinality(S \ {t}) = Cardinality(S) - 1
<1>1. IsFiniteSet(S) /\ Cardinality(S) \in Nat
  BY DomainConstants, FS_Subset, FS_CardinalityType
<1>2. t \in S => Cardinality(S) # 0
  BY <1>1, FS_EmptySet
<1>3. t \notin S => Cardinality(S \cup {t}) = Cardinality(S) + 1
  BY <1>1, FS_AddElement
<1>4. t \in S => Cardinality(S \ {t}) = Cardinality(S) - 1
  BY <1>1, FS_RemoveElement
<1>. QED BY <1>1, <1>2, <1>3, <1>4

\* A slot of all slots is taken, or t queues for one.
LEMMA TakesGlobal ==
  ASSUME DomainInv, NEW t \in Tasks, waits[t] \in {"out", "granted"}, TakeGlobal(t)
  PROVE  /\ \E w \in {"inside", "global"} : waits' = [waits EXCEPT ![t] = w]
         /\ globalSlots' \in 0 .. GlobalLimit /\ globalQueue' \in Seq(Tasks)
         /\ GlobalCounted' /\ GlobalIsWaiting'
<1>. /\ waits \in [Tasks -> {"out", "domain", "granted", "global", "inside"}]
     /\ globalSlots \in 0 .. GlobalLimit /\ globalQueue \in Seq(Tasks) /\ GlobalLimit \in Nat
  BY DomainConstants DEF DomainInv, DomainTypeOK
<1>. t \notin Admitted /\ t \notin WaitingAll /\ Admitted \in SUBSET Tasks
  BY DEF Admitted, WaitingAll
<1>1. CASE globalSlots > 0
  <2>1. /\ waits' = [waits EXCEPT ![t] = "inside"] /\ globalSlots' = globalSlots - 1
        /\ globalQueue' = globalQueue
    BY <1>1 DEF TakeGlobal
  <2>2. Admitted' = Admitted \cup {t}
    BY <2>1 DEF Admitted
  <2>3. Cardinality(Admitted') = Cardinality(Admitted) + 1 /\ Cardinality(Admitted) \in Nat
    BY <2>2, OneMore
  <2>4. GlobalCounted'
    BY <2>1, <2>3 DEF DomainInv, GlobalCounted
  <2>5. WaitingAll' = WaitingAll
    BY <2>1 DEF WaitingAll
  <2>6. GlobalIsWaiting'
    BY <2>1, <2>5 DEF DomainInv, GlobalIsWaiting
  <2>. QED BY <1>1, <2>1, <2>4, <2>6
<1>2. CASE ~(globalSlots > 0)
  <2>1. /\ waits' = [waits EXCEPT ![t] = "global"] /\ globalSlots' = globalSlots
        /\ globalQueue' = Append(globalQueue, t)
    BY <1>2 DEF TakeGlobal
  <2>2. Admitted' = Admitted
    BY <2>1 DEF Admitted
  <2>3. WaitingAll' = WaitingAll \cup {t}
    BY <2>1 DEF WaitingAll
  <2>4. GlobalIsWaiting'
    BY <2>1, <2>3, AppendLine DEF DomainInv, GlobalIsWaiting
  <2>5. GlobalCounted'
    BY <2>1, <2>2 DEF DomainInv, GlobalCounted
  <2>. QED BY <2>1, <2>4, <2>5, AppendProperties
<1>. QED BY <1>1, <1>2

\* Domains that lose their semaphore have nobody inside acquire.
LEMMA EvictedIsIdle ==
  ASSUME DomainInv, NEW d \in Evicted PROVE d \in Scopes /\ Callers(d) = {}
<1>1. d \in Scopes /\ references[d] = 0
  BY DEF Evicted, Evictable, Cached
<1>2. IsFiniteSet(Callers(d))
  BY DomainConstants, FS_Subset DEF Callers
<1>. QED BY <1>1, <1>2, FS_EmptySet DEF DomainInv, CallersCounted

\* acquire finds or makes the semaphore of its domain.
LEMMA AcquireKeeps ==
  ASSUME DomainInv, NEW t \in Tasks, NEW s \in Scopes, Acquire(t, s) PROVE DomainInv'
<1>. USE DomainConstants
<1>a. /\ sems \in [Scopes -> Semaphores \cup {0}]
      /\ created \in 0 .. MaxSemaphores /\ slots \in [Semaphores -> 0 .. PerDomainLimit]
      /\ queue \in [Semaphores -> Seq(Tasks)] /\ references \in [Scopes -> Nat]
      /\ waits \in [Tasks -> {"out", "domain", "granted", "global", "inside"}]
      /\ scopeOf \in [Tasks -> Scopes] /\ semOf \in [Tasks -> Semaphores \cup {0}]
      /\ globalSlots \in 0 .. GlobalLimit /\ globalQueue \in Seq(Tasks) /\ cancels \in Nat
  BY DEF DomainInv, DomainTypeOK
<1>0. PICK m \in Nat : m = IF sems[s] # 0 THEN sems[s] ELSE created + 1
  <2>1. sems[s] \in Nat /\ created + 1 \in Nat
    BY <1>a DEF Semaphores
  <2>. QED BY <2>1
<1>b. /\ waits[t] = "out" /\ (sems[s] = 0 => created < MaxSemaphores)
      /\ semOf' = [semOf EXCEPT ![t] = m] /\ scopeOf' = [scopeOf EXCEPT ![t] = s]
      /\ references' = [references EXCEPT ![s] = @ + 1] /\ cancels' = cancels
  BY <1>0, Zenon DEF Acquire
<1>c. /\ sems[s] # 0 => sems' = sems /\ created' = created
      /\ sems[s] = 0 =>
           /\ sems' = [d \in Scopes |-> IF d = s THEN m ELSE IF d \in Evicted THEN 0 ELSE sems[d]]
           /\ created' = m
  BY <1>0, Zenon DEF Acquire
<1>d. \/ slots[m] > 0 /\ slots' = [slots EXCEPT ![m] = @ - 1] /\ TakeGlobal(t) /\ queue' = queue
      \/ /\ ~(slots[m] > 0) /\ waits' = [waits EXCEPT ![t] = "domain"]
         /\ queue' = [queue EXCEPT ![m] = Append(@, t)]
         /\ slots' = slots /\ globalSlots' = globalSlots /\ globalQueue' = globalQueue
  BY <1>0, Zenon DEF Acquire
<1>e. m \in Semaphores /\ m # 0 /\ Semaphores = 1 .. MaxSemaphores /\ created \in Nat
  BY <1>a, <1>0, <1>b DEF Semaphores
<1>f. \E w \in {"domain", "inside", "global"} : waits' = [waits EXCEPT ![t] = w]
  BY <1>b, <1>d, TakesGlobal
<1>1. /\ sems' \in [Scopes -> Semaphores \cup {0}] /\ created' \in 0 .. MaxSemaphores
      /\ \A d \in Scopes : sems'[d] <= created'
      /\ sems'[s] = m
  <2>1. CASE sems[s] # 0
    BY <1>a, <1>0, <1>c, <2>1 DEF DomainInv, SemaphoresKnown
  <2>2. CASE sems[s] = 0
    <3>1. m = created + 1 /\ created' = m
      BY <1>0, <1>c, <2>2
    <3>2. \A d \in Scopes : sems'[d] = IF d = s THEN m ELSE IF d \in Evicted THEN 0 ELSE sems[d]
      BY <1>c, <2>2
    <3>3. \A d \in Scopes : sems[d] \in Nat /\ sems[d] <= created
      BY <1>a, <1>e DEF DomainInv, SemaphoresKnown
    <3>4. sems' \in [Scopes -> Semaphores \cup {0}]
      BY <1>a, <1>c, <1>e, <2>2
    <3>. QED BY <1>e, <3>1, <3>2, <3>3, <3>4
  <2>. QED BY <2>1, <2>2
<1>3. SemaphoresKnown'
  <2>1. ASSUME NEW u \in Tasks, waits'[u] # "out"
        PROVE semOf'[u] # 0 /\ semOf'[u] = sems'[scopeOf'[u]]
    <3>1. CASE u = t
      BY <1>a, <1>b, <1>e, <1>1, <3>1
    <3>2. CASE u # t
      <4>1. /\ waits[u] # "out" /\ semOf'[u] = semOf[u] /\ scopeOf'[u] = scopeOf[u]
        BY <1>a, <1>b, <1>f, <2>1, <3>2
      <4>2. semOf[u] # 0 /\ semOf[u] = sems[scopeOf[u]] /\ scopeOf[u] \in Scopes
        BY <1>a, <4>1 DEF DomainInv, SemaphoresKnown
      <4>3. scopeOf[u] \notin Evicted
        BY <4>1, EvictedIsIdle DEF Callers
      <4>4. sems'[scopeOf[u]] = sems[scopeOf[u]]
        BY <1>c, <4>2, <4>3
      <4>. QED BY <4>1, <4>2, <4>4
    <3>. QED BY <3>1, <3>2
  <2>. QED BY <1>1, <2>1 DEF SemaphoresKnown
<1>4. CallersCounted' /\ references' \in [Scopes -> Nat]
  <2>1. Callers(s)' = Callers(s) \cup {t} /\ t \notin Callers(s)
    BY <1>a, <1>b, <1>f DEF Callers
  <2>2. \A d \in Scopes \ {s} : Callers(d)' = Callers(d)
    BY <1>a, <1>b, <1>f DEF Callers
  <2>3. Cardinality(Callers(s)') = Cardinality(Callers(s)) + 1
    BY <2>1, OneMore DEF Callers
  <2>4. \A d \in Scopes : references[d] = Cardinality(Callers(d))
    BY DEF DomainInv, CallersCounted
  <2>5. \A d \in Scopes : references'[d] = IF d = s THEN references[d] + 1 ELSE references[d]
    BY <1>a, <1>b
  <2>6. CallersCounted'
    BY <2>2, <2>3, <2>4, <2>5 DEF CallersCounted
  <2>. QED BY <1>a, <1>b, <2>6
<1>5. t \notin Holders(m) /\ \A n : t \notin WaitingAt(n)
  BY <1>b DEF Holders, WaitingAt
<1>6. CASE slots[m] > 0 /\ slots' = [slots EXCEPT ![m] = @ - 1] /\ TakeGlobal(t)
           /\ queue' = queue
  <2>1. PICK w \in {"inside", "global"} : waits' = [waits EXCEPT ![t] = w]
    BY <1>b, <1>6, TakesGlobal
  <2>2. Holders(m)' = Holders(m) \cup {t} /\ \A n \in Semaphores \ {m} : Holders(n)' = Holders(n)
    BY <1>a, <1>b, <1>e, <2>1 DEF Holders
  <2>3. Cardinality(Holders(m)') = Cardinality(Holders(m)) + 1
    BY <1>5, <2>2, OneMore DEF Holders
  <2>4. \A n \in Semaphores : Cardinality(Holders(n)) \in Nat
    BY OneMore DEF Holders
  <2>5. SlotsCounted' /\ slots' \in [Semaphores -> 0 .. PerDomainLimit]
    <3>1. \A n \in Semaphores : slots'[n] = IF n = m THEN slots[n] - 1 ELSE slots[n]
      BY <1>a, <1>6
    <3>2. \A n \in Semaphores : slots[n] \in Nat /\ slots[n] <= PerDomainLimit
      BY <1>a
    <3>3. SlotsCounted'
      <4>1. ASSUME NEW n \in Semaphores
            PROVE  slots'[n] + Cardinality(Holders(n)') = PerDomainLimit
        <5>1. /\ slots[n] + Cardinality(Holders(n)) = PerDomainLimit
              /\ slots[n] \in Nat /\ Cardinality(Holders(n)) \in Nat
          BY <2>4, <3>2 DEF DomainInv, SlotsCounted
        <5>2. CASE n = m
          <6>1. slots'[n] = slots[n] - 1 /\ Cardinality(Holders(n)') = Cardinality(Holders(n)) + 1
            BY <2>3, <3>1, <5>2
          <6>. QED BY <5>1, <6>1
        <5>3. CASE n # m
          BY <2>2, <3>1, <5>1, <5>3
        <5>. QED BY <5>2, <5>3
      <4>. QED BY <4>1 DEF SlotsCounted
    <3>4. \A n \in Semaphores : slots'[n] \in 0 .. PerDomainLimit
      BY <1>6, <3>1, <3>2
    <3>5. slots' = [n \in Semaphores |-> slots'[n]]
      BY <1>a, <1>6
    <3>. QED BY <3>3, <3>4, <3>5
  <2>6. \A n \in Semaphores : WaitingAt(n) \subseteq WaitingAt(n)'
    BY <1>a, <1>b, <2>1 DEF WaitingAt
  <2>7. QueuesAreWaiting'
    BY <1>6, <2>6, LineGrows DEF DomainInv, QueuesAreWaiting
  <2>8. GlobalCounted' /\ GlobalIsWaiting' /\ globalSlots' \in 0 .. GlobalLimit
          /\ globalQueue' \in Seq(Tasks)
    BY <1>b, <1>6, TakesGlobal
  <2>9. DomainTypeOK'
    BY <1>a, <1>b, <1>e, <1>1, <1>4, <1>6, <2>1, <2>5, <2>8 DEF DomainTypeOK
  <2>. QED BY <1>3, <1>4, <2>5, <2>7, <2>8, <2>9 DEF DomainInv
<1>7. CASE /\ ~(slots[m] > 0) /\ waits' = [waits EXCEPT ![t] = "domain"]
           /\ queue' = [queue EXCEPT ![m] = Append(@, t)]
           /\ slots' = slots /\ globalSlots' = globalSlots /\ globalQueue' = globalQueue
  <2>1. \A n \in Semaphores : Holders(n)' = Holders(n)
    BY <1>a, <1>b, <1>7 DEF Holders
  <2>2. Admitted' = Admitted /\ WaitingAll' = WaitingAll
    BY <1>a, <1>b, <1>7 DEF Admitted, WaitingAll
  <2>3. /\ WaitingAt(m)' = WaitingAt(m) \cup {t}
        /\ \A n \in Semaphores \ {m} : WaitingAt(n)' = WaitingAt(n)
    BY <1>a, <1>b, <1>e, <1>7 DEF WaitingAt
  <2>4. queue'[m] \in Lines(WaitingAt(m)')
    BY <1>a, <1>e, <1>5, <1>7, <2>3, AppendLine DEF DomainInv, QueuesAreWaiting
  <2>5. \A n \in Semaphores \ {m} : queue'[n] = queue[n]
    BY <1>a, <1>7
  <2>6. QueuesAreWaiting'
    BY <2>3, <2>4, <2>5 DEF DomainInv, QueuesAreWaiting
  <2>7. SlotsCounted' /\ GlobalCounted' /\ GlobalIsWaiting'
    BY <1>7, <2>1, <2>2 DEF DomainInv, SlotsCounted, GlobalCounted, GlobalIsWaiting
  <2>8. queue' \in [Semaphores -> Seq(Tasks)]
    BY <1>a, <1>e, <1>7, AppendProperties
  <2>9. DomainTypeOK'
    BY <1>a, <1>b, <1>e, <1>1, <1>4, <1>7, <2>8 DEF DomainTypeOK
  <2>. QED BY <1>3, <1>4, <2>6, <2>7, <2>9 DEF DomainInv
<1>. QED BY <1>d, <1>6, <1>7

\* The next waiter that was handed a slot of its domain.
LEMMA ContinueKeeps ==
  ASSUME DomainInv, NEW t \in Tasks, Continue(t) PROVE DomainInv'
<1>a. waits \in [Tasks -> {"out", "domain", "granted", "global", "inside"}]
  BY DEF DomainInv, DomainTypeOK
<1>b. waits[t] = "granted" /\ TakeGlobal(t)
      /\ UNCHANGED <<sems, created, slots, queue, references, scopeOf, semOf, cancels>>
  BY DEF Continue
<1>1. PICK w \in {"inside", "global"} : waits' = [waits EXCEPT ![t] = w]
  BY <1>b, TakesGlobal
<1>2. /\ \A m \in Semaphores : Holders(m)' = Holders(m) /\ WaitingAt(m)' = WaitingAt(m)
      /\ \A s \in Scopes : Callers(s)' = Callers(s)
  BY <1>a, <1>b, <1>1 DEF Holders, WaitingAt, Callers
<1>3. SlotsCounted' /\ QueuesAreWaiting' /\ CallersCounted'
  BY <1>b, <1>2 DEF DomainInv, SlotsCounted, QueuesAreWaiting, CallersCounted
<1>4. SemaphoresKnown'
  BY <1>a, <1>b, <1>1 DEF DomainInv, SemaphoresKnown
<1>5. /\ GlobalCounted' /\ GlobalIsWaiting' /\ globalSlots' \in 0 .. GlobalLimit
      /\ globalQueue' \in Seq(Tasks)
  BY <1>b, TakesGlobal
<1>6. DomainTypeOK'
  BY <1>a, <1>b, <1>1, <1>5 DEF DomainInv, DomainTypeOK
<1>. QED BY <1>3, <1>4, <1>5, <1>6 DEF DomainInv

\* What t has goes to the tasks that waited longest for it, or back.
LEMMA GiveBackKeeps ==
  ASSUME DomainInv, NEW t \in Tasks, waits[t] # "out", GiveBack(t), cancels' \in Nat
  PROVE  DomainInv'
<1>. USE DomainConstants
<1>. DEFINE has == waits[t] \in {"granted", "global", "inside"}
            hasAll == waits[t] = "inside"
            line1 == IF waits[t] = "domain" THEN Remove(queue[semOf[t]], t) ELSE queue[semOf[t]]
            lineAll == Remove(globalQueue, t)
            next == IF has /\ line1 # <<>> THEN {line1[1]} ELSE {}
            nextAll == IF hasAll /\ lineAll # <<>> THEN {lineAll[1]} ELSE {}
<1>a. /\ sems \in [Scopes -> Semaphores \cup {0}]
      /\ created \in 0 .. MaxSemaphores /\ slots \in [Semaphores -> 0 .. PerDomainLimit]
      /\ queue \in [Semaphores -> Seq(Tasks)] /\ references \in [Scopes -> Nat]
      /\ waits \in [Tasks -> {"out", "domain", "granted", "global", "inside"}]
      /\ scopeOf \in [Tasks -> Scopes] /\ semOf \in [Tasks -> Semaphores \cup {0}]
      /\ globalSlots \in 0 .. GlobalLimit /\ globalQueue \in Seq(Tasks)
  BY DEF DomainInv, DomainTypeOK
<1>b. /\ queue' = [queue EXCEPT ![semOf[t]] = IF next = {} THEN line1 ELSE Tail(line1)]
      /\ slots' = IF has /\ next = {} THEN [slots EXCEPT ![semOf[t]] = @ + 1] ELSE slots
      /\ globalQueue' = IF nextAll = {} THEN lineAll ELSE Tail(lineAll)
      /\ globalSlots' = IF hasAll /\ nextAll = {} THEN globalSlots + 1 ELSE globalSlots
      /\ waits' = [u \in Tasks |-> IF u = t THEN "out" ELSE IF u \in next THEN "granted"
                                   ELSE IF u \in nextAll THEN "inside" ELSE waits[u]]
      /\ references' = [references EXCEPT ![scopeOf[t]] = @ - 1]
      /\ semOf' = [semOf EXCEPT ![t] = 0] /\ scopeOf' = [scopeOf EXCEPT ![t] = AnyScope]
      /\ UNCHANGED <<sems, created>>
  BY Zenon DEF GiveBack
<1>f. AnyScope \in Scopes
  BY Zenon DEF AnyScope
<1>c. PICK m \in Semaphores : m = semOf[t]
  BY <1>a DEF DomainInv, SemaphoresKnown
<1>d. PICK s \in Scopes : s = scopeOf[t]
  BY <1>a
<1>e. m # 0
  BY DEF Semaphores
<1>1. line1 \in Lines(WaitingAt(m) \ {t})
  <2>1. queue[m] \in Lines(WaitingAt(m))
    BY DEF DomainInv, QueuesAreWaiting
  <2>2. CASE waits[t] = "domain"
    BY <1>c, <2>1, <2>2, RemoveLine
  <2>3. CASE waits[t] # "domain"
    <3>1. WaitingAt(m) \ {t} = WaitingAt(m)
      BY <2>3 DEF WaitingAt
    <3>. QED BY <1>c, <2>1, <2>3, <3>1
  <2>. QED BY <2>2, <2>3
<1>2. lineAll \in Lines(WaitingAll \ {t})
  BY RemoveLine DEF DomainInv, GlobalIsWaiting
<1>. HIDE DEF line1, lineAll
<1>3. next # {} => Tail(line1) \in Lines((WaitingAt(m) \ {t}) \ next)
  BY <1>1, TailLine
<1>4. /\ nextAll \subseteq WaitingAll \ {t}
      /\ nextAll # {} => Tail(lineAll) \in Lines((WaitingAll \ {t}) \ nextAll)
  BY <1>2, TailLine
<1>5. next \subseteq WaitingAt(m) \ {t}
  <2>1. line1 # <<>> => line1[1] \in WaitingAt(m) \ {t}
    BY <1>1, TailLine
  <2>. QED BY <2>1
<1>6. /\ next = {} \/ (has /\ \E u : next = {u})
      /\ nextAll = {} \/ (hasAll /\ \E u : nextAll = {u})
  OBVIOUS
<1>. HIDE DEF next, nextAll
<1>7. /\ \A u \in next : u \in Tasks /\ u # t /\ waits[u] = "domain" /\ semOf[u] = m
      /\ \A u \in nextAll : u \in Tasks /\ u # t /\ waits[u] = "global"
  BY <1>4, <1>5 DEF WaitingAt, WaitingAll
<1>8. \A u \in Tasks : /\ semOf'[u] = IF u = t THEN 0 ELSE semOf[u]
                       /\ scopeOf'[u] = IF u = t THEN AnyScope ELSE scopeOf[u]
                       /\ waits'[u] = IF u = t THEN "out" ELSE IF u \in next THEN "granted"
                                      ELSE IF u \in nextAll THEN "inside" ELSE waits[u]
  BY <1>a, <1>b
<1>9. /\ WaitingAt(m)' = (WaitingAt(m) \ {t}) \ next
      /\ \A n \in Semaphores \ {m} : WaitingAt(n)' = WaitingAt(n)
      /\ WaitingAll' = (WaitingAll \ {t}) \ nextAll
  <2>1. WaitingAt(m)' = (WaitingAt(m) \ {t}) \ next
    BY <1>7, <1>8, <1>e DEF WaitingAt
  <2>2. \A n \in Semaphores \ {m} : WaitingAt(n)' = WaitingAt(n)
    BY <1>c, <1>7, <1>8, <1>e DEF WaitingAt, Semaphores
  <2>3. WaitingAll' = (WaitingAll \ {t}) \ nextAll
    BY <1>7, <1>8 DEF WaitingAll
  <2>. QED BY <2>1, <2>2, <2>3
<1>10. /\ Holders(m)' = (Holders(m) \ {t}) \cup next
       /\ \A n \in Semaphores \ {m} : Holders(n)' = Holders(n)
       /\ Admitted' = (Admitted \ {t}) \cup nextAll
  <2>1. Holders(m)' = (Holders(m) \ {t}) \cup next
    BY <1>7, <1>8, <1>e DEF Holders
  <2>2. \A n \in Semaphores \ {m} : Holders(n)' = Holders(n)
    BY <1>c, <1>7, <1>8, <1>e DEF Holders, Semaphores
  <2>3. Admitted' = (Admitted \ {t}) \cup nextAll
    BY <1>7, <1>8 DEF Admitted
  <2>. QED BY <2>1, <2>2, <2>3
<1>11. Callers(s)' = Callers(s) \ {t} /\ \A d \in Scopes \ {s} : Callers(d)' = Callers(d)
  BY <1>b, <1>d, <1>7, <1>8 DEF Callers
<1>12. QueuesAreWaiting' /\ queue' \in [Semaphores -> Seq(Tasks)]
  <2>1. \A n \in Semaphores : queue'[n] = IF n = m THEN IF next = {} THEN line1 ELSE Tail(line1)
                                          ELSE queue[n]
    BY <1>a, <1>b, <1>c
  <2>2. queue'[m] \in Lines(WaitingAt(m)')
    <3>1. CASE next = {}
      BY <1>1, <1>9, <2>1, <3>1
    <3>2. CASE next # {}
      BY <1>3, <1>9, <2>1, <3>2
    <3>. QED BY <3>1, <3>2
  <2>3. QueuesAreWaiting'
    BY <1>9, <2>1, <2>2 DEF DomainInv, QueuesAreWaiting
  <2>4. WaitingAt(m)' \subseteq Tasks
    BY DEF WaitingAt
  <2>5. queue'[m] \in Seq(Tasks)
    BY <2>2, <2>4, LineGrows DEF Lines
  <2>. QED BY <1>a, <1>b, <1>c, <2>1, <2>3, <2>5
<1>13. GlobalIsWaiting' /\ globalQueue' \in Seq(Tasks)
  <2>1. globalQueue' \in Lines(WaitingAll')
    BY <1>2, <1>4, <1>9, <1>b
  <2>2. WaitingAll' \subseteq Tasks
    BY DEF WaitingAll
  <2>. QED BY <2>1, <2>2, LineGrows DEF GlobalIsWaiting, Lines
<1>14. SlotsCounted' /\ slots' \in [Semaphores -> 0 .. PerDomainLimit]
  <2>1. slots'[m] + Cardinality(Holders(m)') = PerDomainLimit
    <3>1. /\ slots[m] + Cardinality(Holders(m)) = PerDomainLimit /\ slots[m] \in Nat
          /\ Holders(m) \in SUBSET Tasks
      BY <1>a DEF DomainInv, SlotsCounted, Holders
    <3>2. CASE ~has
      <4>1. t \notin Holders(m) /\ next = {} /\ slots' = slots
        BY <1>6, <1>b, <3>2 DEF Holders
      <4>. QED BY <1>10, <3>1, <4>1
    <3>3. CASE has /\ next = {}
      <4>1. t \in Holders(m) /\ slots'[m] = slots[m] + 1
        BY <1>a, <1>b, <1>c, <3>3 DEF Holders
      <4>2. /\ Cardinality(Holders(m)') = Cardinality(Holders(m)) - 1
            /\ Cardinality(Holders(m)) \in Nat
        BY <1>10, <3>1, <3>3, <4>1, OneMore
      <4>. QED BY <3>1, <4>1, <4>2
    <3>4. CASE has /\ next # {}
      <4>1. PICK u : next = {u}
        BY <1>6, <3>4
      <4>2. t \in Holders(m) /\ u \in Tasks /\ u # t /\ u \notin Holders(m) /\ slots' = slots
        BY <1>7, <1>b, <1>c, <3>4, <4>1 DEF Holders
      <4>3. /\ Cardinality(Holders(m) \ {t}) = Cardinality(Holders(m)) - 1
            /\ Cardinality(Holders(m)) \in Nat
        BY <3>1, <4>2, OneMore
      <4>4. Cardinality((Holders(m) \ {t}) \cup {u}) = Cardinality(Holders(m) \ {t}) + 1
        BY <3>1, <4>2, OneMore
      <4>. QED BY <1>10, <3>1, <4>1, <4>2, <4>3, <4>4
    <3>. QED BY <3>2, <3>3, <3>4
  <2>2. \A n \in Semaphores \ {m} : slots'[n] = slots[n]
    BY <1>a, <1>b, <1>c
  <2>3. SlotsCounted'
    BY <1>10, <2>1, <2>2 DEF DomainInv, SlotsCounted
  <2>4. slots'[m] \in 0 .. PerDomainLimit
    <3>. slots[m] \in Nat
      BY <1>a
    <3>0. slots'[m] \in {slots[m], slots[m] + 1}
      BY <1>a, <1>b, <1>c
    <3>1. Holders(m)' \in SUBSET Tasks /\ slots'[m] \in Nat
      BY <3>0 DEF Holders
    <3>2. Cardinality(Holders(m)') \in Nat
      BY <3>1, OneMore
    <3>. QED BY <2>1, <3>1, <3>2
  <2>. QED BY <1>a, <1>b, <1>c, <2>2, <2>3, <2>4
<1>15. GlobalCounted' /\ globalSlots' \in 0 .. GlobalLimit
  <2>1. globalSlots + Cardinality(Admitted) = GlobalLimit /\ Admitted \in SUBSET Tasks
    BY DEF DomainInv, GlobalCounted, Admitted
  <2>2. globalSlots' + Cardinality(Admitted') = GlobalLimit
    <3>2. CASE ~hasAll
      <4>1. t \notin Admitted /\ nextAll = {} /\ globalSlots' = globalSlots
        BY <1>6, <1>b, <3>2 DEF Admitted
      <4>. QED BY <1>10, <2>1, <4>1
    <3>3. CASE hasAll /\ nextAll = {}
      <4>1. t \in Admitted /\ globalSlots' = globalSlots + 1
        BY <1>b, <3>3 DEF Admitted
      <4>2. /\ Cardinality(Admitted') = Cardinality(Admitted) - 1
            /\ Cardinality(Admitted) \in Nat
        BY <1>10, <2>1, <3>3, <4>1, OneMore
      <4>. QED BY <1>a, <2>1, <4>1, <4>2
    <3>4. CASE hasAll /\ nextAll # {}
      <4>1. PICK u : nextAll = {u}
        BY <1>6, <3>4
      <4>2. t \in Admitted /\ u \in Tasks /\ u # t /\ u \notin Admitted /\ globalSlots' = globalSlots
        BY <1>7, <1>b, <3>4, <4>1 DEF Admitted
      <4>3. /\ Cardinality(Admitted \ {t}) = Cardinality(Admitted) - 1
            /\ Cardinality(Admitted) \in Nat
        BY <2>1, <4>2, OneMore
      <4>4. Cardinality((Admitted \ {t}) \cup {u}) = Cardinality(Admitted \ {t}) + 1
        BY <2>1, <4>2, OneMore
      <4>. QED BY <1>10, <1>a, <2>1, <4>1, <4>2, <4>3, <4>4
    <3>. QED BY <3>2, <3>3, <3>4
  <2>3. Admitted' \in SUBSET Tasks /\ globalSlots' \in Nat
    BY <1>a, <1>b DEF Admitted
  <2>4. Cardinality(Admitted') \in Nat
    BY <2>3, OneMore
  <2>. QED BY <2>2, <2>3, <2>4 DEF GlobalCounted
<1>16. CallersCounted' /\ references' \in [Scopes -> Nat]
  <2>1. t \in Callers(s) /\ Callers(s) \in SUBSET Tasks /\ references[s] = Cardinality(Callers(s))
    BY <1>d DEF Callers, DomainInv, CallersCounted
  <2>2. /\ Cardinality(Callers(s)') = Cardinality(Callers(s)) - 1
        /\ Cardinality(Callers(s)) > 0 /\ Cardinality(Callers(s)) \in Nat
    BY <1>11, <2>1, OneMore
  <2>3. \A d \in Scopes : references'[d] = IF d = s THEN references[d] - 1 ELSE references[d]
    BY <1>a, <1>b, <1>d
  <2>4. CallersCounted'
    BY <1>11, <2>1, <2>2, <2>3 DEF DomainInv, CallersCounted
  <2>5. references[s] - 1 \in Nat
    BY <2>1, <2>2
  <2>. QED BY <1>a, <1>b, <1>d, <2>4, <2>5
<1>17. SemaphoresKnown'
  <2>1. ASSUME NEW u \in Tasks, waits'[u] # "out"
        PROVE semOf'[u] # 0 /\ semOf'[u] = sems'[scopeOf'[u]]
    <3>1. u # t /\ waits[u] # "out" /\ semOf'[u] = semOf[u] /\ scopeOf'[u] = scopeOf[u]
      BY <1>7, <1>8, <2>1
    <3>. QED BY <1>b, <3>1 DEF DomainInv, SemaphoresKnown
  <2>. QED BY <1>b, <2>1 DEF DomainInv, SemaphoresKnown
<1>18. /\ waits' \in [Tasks -> {"out", "domain", "granted", "global", "inside"}]
       /\ semOf' \in [Tasks -> Semaphores \cup {0}] /\ scopeOf' \in [Tasks -> Scopes]
  BY <1>a, <1>b, <1>f
<1>19. DomainTypeOK'
  BY <1>a, <1>b, <1>12, <1>13, <1>14, <1>15, <1>16, <1>18 DEF DomainTypeOK
<1>. QED BY <1>12, <1>13, <1>14, <1>15, <1>16, <1>17, <1>19 DEF DomainInv

\* Neither the limit of a domain nor the global one is exceeded although semaphores are
\* evicted and created again while tasks wait, hold slots, hand them on or are cancelled:
\* a task inside acquire keeps its domain's semaphore in the cache, so that two tasks of
\* a domain never count on two semaphores.  The cache has any size the constructor
\* admits (two or more) and a full one drops up to a quarter of its entries.
THEOREM LimitsAreHeld == DomainSpec => []DomainLimitsHold
<1>. USE DomainConstants
<1>1. DomainInit => DomainInv
  <2>. SUFFICES ASSUME DomainInit PROVE DomainInv
    OBVIOUS
  <2>1. /\ \A m \in Semaphores : Holders(m) = {} /\ \A s \in Scopes : Callers(s) = {}
        /\ Admitted = {} /\ Cardinality({}) = 0
    BY FS_EmptySet DEF DomainInit, Holders, Callers, Admitted
  <2>2. \A S : <<>> \in Lines(S)
    BY EmptySeq DEF Lines
  <2>3. DomainTypeOK
    <3>1. AnyScope \in Scopes
      BY Zenon DEF AnyScope
    <3>. QED BY EmptySeq, <3>1 DEF DomainInit, DomainTypeOK
  <2>4. SemaphoresKnown /\ CallersCounted /\ SlotsCounted /\ GlobalCounted
    <3>1. SemaphoresKnown
      BY DEF DomainInit, SemaphoresKnown
    <3>2. ASSUME NEW s \in Scopes PROVE references[s] = Cardinality(Callers(s))
      <4>1. Callers(s) = {} /\ references[s] = 0
        BY DEF DomainInit, Callers
      <4>. QED BY <2>1, <4>1
    <3>3. ASSUME NEW m \in Semaphores
          PROVE slots[m] + Cardinality(Holders(m)) = PerDomainLimit
      <4>1. Holders(m) = {} /\ slots[m] = PerDomainLimit
        BY DEF DomainInit, Holders
      <4>2. PerDomainLimit + 0 = PerDomainLimit
        OBVIOUS
      <4>. QED BY <2>1, <4>1, <4>2
    <3>4. globalSlots + Cardinality(Admitted) = GlobalLimit
      <4>1. globalSlots = GlobalLimit /\ GlobalLimit + 0 = GlobalLimit
        BY DEF DomainInit
      <4>. QED BY <2>1, <4>1
    <3>. QED BY <3>1, <3>2, <3>3, <3>4 DEF CallersCounted, SlotsCounted, GlobalCounted
  <2>5. QueuesAreWaiting /\ GlobalIsWaiting
    BY <2>2 DEF DomainInit, QueuesAreWaiting, GlobalIsWaiting
  <2>. QED BY <2>3, <2>4, <2>5 DEF DomainInv
<1>2. DomainInv /\ [DomainNext]_domainVars => DomainInv'
  <2>. SUFFICES ASSUME DomainInv, [DomainNext]_domainVars PROVE DomainInv'
    OBVIOUS
  <2>1. ASSUME NEW t \in Tasks, NEW s \in Scopes, Acquire(t, s) PROVE DomainInv'
    BY <2>1, AcquireKeeps
  <2>2. ASSUME NEW t \in Tasks, Continue(t) PROVE DomainInv'
    BY <2>2, ContinueKeeps
  <2>3. ASSUME NEW t \in Tasks, Exit(t) \/ CancelWait(t) PROVE DomainInv'
    <3>1. waits[t] # "out" /\ GiveBack(t) /\ cancels' \in Nat
      BY <2>3 DEF Exit, CancelWait, DomainInv, DomainTypeOK
    <3>. QED BY <3>1, GiveBackKeeps
  <2>4. CASE UNCHANGED domainVars
    <3>1. /\ \A m : Holders(m)' = Holders(m) /\ WaitingAt(m)' = WaitingAt(m)
          /\ \A s : Callers(s)' = Callers(s)
          /\ Admitted' = Admitted /\ WaitingAll' = WaitingAll
      BY <2>4 DEF domainVars, Holders, Callers, Admitted, WaitingAt, WaitingAll
    <3>2. DomainTypeOK' /\ SemaphoresKnown'
      BY <2>4 DEF domainVars, DomainInv, DomainTypeOK, SemaphoresKnown
    <3>3. CallersCounted' /\ SlotsCounted' /\ GlobalCounted'
      BY <2>4, <3>1 DEF domainVars, DomainInv, CallersCounted, SlotsCounted, GlobalCounted
    <3>4. QueuesAreWaiting' /\ GlobalIsWaiting'
      BY <2>4, <3>1 DEF domainVars, DomainInv, QueuesAreWaiting, GlobalIsWaiting
    <3>. QED BY <3>2, <3>3, <3>4 DEF DomainInv
  <2>. QED BY <2>1, <2>2, <2>3, <2>4 DEF DomainNext
<1>3. DomainInv => DomainLimitsHold
  <2>. SUFFICES ASSUME DomainInv PROVE DomainLimitsHold
    OBVIOUS
  <2>1. ASSUME NEW s \in Scopes PROVE Cardinality(Inside(s)) <= PerDomainLimit
    <3>1. CASE Inside(s) = {}
      BY <3>1, FS_EmptySet
    <3>2. CASE Inside(s) # {}
      <4>1. PICK t \in Tasks : waits[t] = "inside" /\ scopeOf[t] = s
        BY <3>2 DEF Inside
      <4>2. sems[s] \in Semaphores
        BY <4>1 DEF DomainInv, DomainTypeOK, SemaphoresKnown
      <4>3. Inside(s) \subseteq Holders(sems[s])
        BY DEF Inside, Holders, DomainInv, SemaphoresKnown
      <4>4. /\ Holders(sems[s]) \in SUBSET Tasks
            /\ slots[sems[s]] + Cardinality(Holders(sems[s])) = PerDomainLimit
            /\ slots[sems[s]] \in Nat
        BY <4>2 DEF Holders, DomainInv, DomainTypeOK, SlotsCounted
      <4>5. IsFiniteSet(Holders(sems[s]))
        BY <4>4, FS_Subset
      <4>6. /\ Cardinality(Inside(s)) <= Cardinality(Holders(sems[s]))
            /\ Cardinality(Inside(s)) \in Nat /\ Cardinality(Holders(sems[s])) \in Nat
        BY <4>3, <4>5, FS_Subset, FS_CardinalityType
      <4>. QED BY <4>4, <4>6
    <3>. QED BY <3>1, <3>2
  <2>2. Cardinality(Admitted) <= GlobalLimit
    <3>0. Admitted \in SUBSET Tasks
      BY DEF Admitted
    <3>1. Cardinality(Admitted) \in Nat
      BY <3>0, FS_Subset, FS_CardinalityType
    <3>2. globalSlots \in Nat
      BY DEF DomainInv, DomainTypeOK
    <3>3. globalSlots + Cardinality(Admitted) = GlobalLimit
      BY DEF DomainInv, GlobalCounted
    <3>. QED BY <3>1, <3>2, <3>3
  <2>. QED BY <2>1, <2>2 DEF DomainLimitsHold, DomainInv, Admitted
<1>. QED BY <1>1, <1>2, <1>3, PTL DEF DomainSpec

-----------------------------------------------------------------------------
(* The folder watcher                                                      *)

\* A table of the watcher names each version at most once as a source and once as
\* an output, and each file at most once as a source.
Distinct(T) ==
  \A i, j \in 1 .. Len(T) : i # j =>
    /\ T[i].sign = T[j].sign => T[i].output # T[j].output
    /\ T[i].file = T[j].file => T[i].output \/ T[j].output

\* A table that names n versions at most is not longer than 2n.
LEMMA TableIsShort ==
  ASSUME NEW T \in Seq(Entry), NEW n \in Nat, Distinct(T),
         \A i \in 1 .. Len(T) : T[i].sign \in 1 .. n
  PROVE  Len(T) <= 2 * n
<1>. DEFINE key == [i \in 1 .. Len(T) |-> 2 * T[i].sign - (IF T[i].output THEN 1 ELSE 0)]
<1>1. Len(T) \in Nat /\ \A i \in 1 .. Len(T) : T[i] \in Entry
  BY LenProperties, ElementOfSeq
<1>2. ASSUME NEW i \in 1 .. Len(T) PROVE key[i] \in 1 .. 2 * n
  <2>1. T[i].sign \in 1 .. n /\ T[i].output \in BOOLEAN
    BY <1>1 DEF Entry
  <2>2. CASE T[i].output
    BY <2>1, <2>2
  <2>3. CASE ~T[i].output
    BY <2>1, <2>3
  <2>. QED BY <2>1, <2>2, <2>3
<1>3. ASSUME NEW i \in 1 .. Len(T), NEW j \in 1 .. Len(T), key[i] = key[j] PROVE i = j
  <2>1. T[i].sign \in Nat /\ T[j].sign \in Nat /\ T[i].output \in BOOLEAN /\ T[j].output \in BOOLEAN
    BY <1>1 DEF Entry
  <2>2. T[i].sign = T[j].sign /\ T[i].output = T[j].output
    <3>1. PICK a \in Nat, b \in Nat : a = T[i].sign /\ b = T[j].sign
      BY <2>1
    <3>2. /\ key[i] = IF T[i].output THEN 2 * a - 1 ELSE 2 * a
          /\ key[j] = IF T[j].output THEN 2 * b - 1 ELSE 2 * b
      BY <3>1
    <3>. HIDE DEF key
    <3>3. 2 * a - 1 # 2 * b /\ 2 * a # 2 * b - 1
      OBVIOUS
    <3>4. 2 * a - 1 = 2 * b - 1 \/ 2 * a = 2 * b => a = b
      OBVIOUS
    <3>5. T[i].output = T[j].output
      BY Zenon, <1>3, <2>1, <3>2, <3>3
    <3>6. a = b
      BY Zenon, <1>3, <2>1, <3>2, <3>4, <3>5
    <3>. QED BY <3>1, <3>5, <3>6
  <2>. QED BY <2>2 DEF Distinct
<1>4. key \in Injection(1 .. Len(T), 1 .. 2 * n)
  BY <1>2, <1>3 DEF Injection, IsInjective
<1>5. /\ IsFiniteSet(1 .. 2 * n) /\ Cardinality(1 .. 2 * n) = 2 * n
      /\ Cardinality(1 .. Len(T)) = Len(T)
  <2>1. 2 * n \in Int /\ Len(T) \in Int /\ 1 \in Int /\ 2 * n >= 0 /\ Len(T) >= 0
    BY <1>1
  <2>2. /\ IsFiniteSet(1 .. 2 * n)
        /\ Cardinality(1 .. 2 * n) = IF 1 > 2 * n THEN 0 ELSE 2 * n - 1 + 1
        /\ Cardinality(1 .. Len(T)) = IF 1 > Len(T) THEN 0 ELSE Len(T) - 1 + 1
    BY <2>1, FS_Interval
  <2>. QED BY <2>1, <2>2
<1>. HIDE DEF key
<1>6. Cardinality(1 .. Len(T)) <= Cardinality(1 .. 2 * n)
  BY <1>4, <1>5, FS_Injection
<1>. QED BY <1>5, <1>6

\* A table within its limit is not trimmed.
LEMMA ShortTableIsKept ==
  ASSUME NEW T \in Seq(Entry), Len(T) <= MaxProcessed PROVE Trim(T) = T
<1>1. Len(T) \in Nat /\ SubSeq(T, 1, Len(T)) = T
  BY LenProperties, SubSeqFull
<1>2. ~(Len(T) > MaxProcessed)
  BY <1>1, WatchConstants
<1>. QED BY <1>1, <1>2 DEF Trim

\* Where a source stands, if it stands anywhere.
LEMMA SourcePlace ==
  ASSUME NEW T \in Seq(Entry), NEW f
  PROVE  SourceOf(T, f) = {i \in 1 .. Len(T) : T[i].file = f /\ ~T[i].output}
  BY LenProperties DEF SourceOf

\* Entering a source changes its entry or adds one.
LEMMA PutEntries ==
  ASSUME NEW T \in Seq(Entry), Distinct(T), NEW f \in WatchedFiles, NEW s \in Nat,
         NEW e, e = [file |-> f, sign |-> s, output |-> FALSE]
  PROVE  /\ Put(T, f, s) \in Seq(Entry)
         /\ \E k \in 1 .. Len(Put(T, f, s)) :
              /\ Put(T, f, s)[k] = e
              /\ \A i \in 1 .. Len(Put(T, f, s)) :
                   i # k => /\ i \in 1 .. Len(T) /\ Put(T, f, s)[i] = T[i]
                            /\ T[i].file # f \/ T[i].output
         /\ \A i \in 1 .. Len(T) : T[i].file # f \/ T[i].output =>
              i \in 1 .. Len(Put(T, f, s)) /\ Put(T, f, s)[i] = T[i]
<1>1. e \in Entry /\ Len(T) \in Nat /\ DOMAIN T = 1 .. Len(T)
  BY LenProperties DEF Entry
<1>2. \A i \in 1 .. Len(T) : T[i] \in Entry
  BY ElementOfSeq
<1>3. CASE SourceOf(T, f) = {}
  <2>1. Put(T, f, s) = Append(T, e)
    BY <1>3 DEF Put
  <2>2. /\ Append(T, e) \in Seq(Entry) /\ Len(Append(T, e)) = Len(T) + 1
        /\ \A i \in 1 .. Len(T) : Append(T, e)[i] = T[i]
        /\ Append(T, e)[Len(T) + 1] = e
    BY <1>1, AppendProperties
  <2>3. \A i \in 1 .. Len(T) : T[i].file # f \/ T[i].output
    BY <1>3, SourcePlace
  <2>4. Len(T) + 1 \in 1 .. Len(Append(T, e))
    BY <1>1, <2>2
  <2>5. \A i \in 1 .. Len(Append(T, e)) : i # Len(T) + 1 => i \in 1 .. Len(T)
    BY <1>1, <2>2
  <2>6. \A i \in 1 .. Len(T) : i \in 1 .. Len(Append(T, e))
    BY <1>1, <2>2
  <2>. QED BY <2>1, <2>2, <2>3, <2>4, <2>5, <2>6
<1>4. CASE SourceOf(T, f) # {}
  <2>. DEFINE P == [i \in 1 .. Len(T) |-> IF i \in SourceOf(T, f) THEN e ELSE T[i]]
  <2>1. Put(T, f, s) = P
    BY <1>1, <1>4 DEF Put
  <2>2. P \in [1 .. Len(T) -> Entry]
    BY <1>1, <1>2
  <2>3. P \in Seq(Entry) /\ Len(P) = Len(T)
    BY <1>1, <2>2, SeqDef, LenProperties
  <2>4. PICK k \in 1 .. Len(T) : T[k].file = f /\ ~T[k].output
    BY <1>4, SourcePlace
  <2>5. P[k] = e
    BY <2>4, SourcePlace
  <2>6. ASSUME NEW i \in 1 .. Len(T), i # k
        PROVE P[i] = T[i] /\ (T[i].file # f \/ T[i].output)
    <3>1. T[i].file # f \/ T[i].output
      BY <2>4, <2>6 DEF Distinct
    <3>. QED BY <3>1, SourcePlace
  <2>7. \A i \in 1 .. Len(T) : T[i].file # f \/ T[i].output => P[i] = T[i]
    BY SourcePlace
  <2>. HIDE DEF P
  <2>. QED BY <2>1, <2>3, <2>5, <2>6, <2>7
<1>. QED BY <1>3, <1>4

\* A source that is dropped leaves the other entries, each at a place of its own.
LEMMA WithoutEntries ==
  ASSUME NEW T \in Seq(Entry), Distinct(T), NEW f \in WatchedFiles
  PROVE  /\ WithoutSource(T, f) \in Seq(Entry)
         /\ \E origin \in [1 .. Len(WithoutSource(T, f)) -> 1 .. Len(T)] :
              /\ \A i, j \in 1 .. Len(WithoutSource(T, f)) : origin[i] = origin[j] => i = j
              /\ \A i \in 1 .. Len(WithoutSource(T, f)) :
                   WithoutSource(T, f)[i] = T[origin[i]]
         /\ \A i \in 1 .. Len(T) : T[i].file # f \/ T[i].output =>
              \E j \in 1 .. Len(WithoutSource(T, f)) : WithoutSource(T, f)[j] = T[i]
<1>1. Len(T) \in Nat /\ DOMAIN T = 1 .. Len(T)
  BY LenProperties
<1>2. CASE SourceOf(T, f) = {}
  <2>1. WithoutSource(T, f) = T
    BY <1>2 DEF WithoutSource
  <2>. DEFINE origin == [i \in 1 .. Len(T) |-> i]
  <2>2. /\ origin \in [1 .. Len(T) -> 1 .. Len(T)]
        /\ \A i, j \in 1 .. Len(T) : origin[i] = origin[j] => i = j
        /\ \A i \in 1 .. Len(T) : T[i] = T[origin[i]]
    OBVIOUS
  <2>. HIDE DEF origin
  <2>. QED BY <2>1, <2>2
<1>3. CASE SourceOf(T, f) # {}
  <2>1. PICK k \in SourceOf(T, f) :
          WithoutSource(T, f) = SubSeq(T, 1, k - 1) \o SubSeq(T, k + 1, Len(T))
    BY <1>3, Zenon DEF WithoutSource
  <2>2. k \in 1 .. Len(T) /\ T[k].file = f /\ ~T[k].output
    BY SourcePlace
  <2>. DEFINE a == SubSeq(T, 1, k - 1)
              b == SubSeq(T, k + 1, Len(T))
              r == a \o b
  <2>3. a \in Seq(Entry) /\ Len(a) = k - 1 /\ \A i \in 1 .. k - 1 : a[i] = T[i]
    BY <1>1, <2>2, SubSeqProperties
  <2>4. b \in Seq(Entry) /\ Len(b) = Len(T) - k /\ \A i \in 1 .. Len(T) - k : b[i] = T[i + k]
    <3>. DEFINE m == k + 1
    <3>1. m \in Int /\ Len(T) \in Int /\ \A i \in m .. Len(T) : T[i] \in Entry
      BY <1>1, <2>2, ElementOfSeq
    <3>2. b = SubSeq(T, m, Len(T)) /\ m = k + 1
      OBVIOUS
    <3>. HIDE DEF m, b
    <3>3. /\ SubSeq(T, m, Len(T)) \in Seq(Entry)
          /\ Len(SubSeq(T, m, Len(T))) = IF m <= Len(T) THEN Len(T) - m + 1 ELSE 0
          /\ \A i \in 1 .. Len(T) - m + 1 : SubSeq(T, m, Len(T))[i] = T[m + i - 1]
      BY <3>1, SubSeqProperties
    <3>4. Len(b) = Len(T) - k
      BY <1>1, <2>2, <3>2, <3>3
    <3>5. ASSUME NEW i \in 1 .. Len(T) - k PROVE b[i] = T[i + k]
      <4>1. i \in 1 .. Len(T) - m + 1 /\ m + i - 1 = i + k
        BY <1>1, <2>2, <3>2
      <4>. QED BY <3>2, <3>3, <4>1
    <3>. QED BY <3>2, <3>3, <3>4, <3>5
  <2>. HIDE DEF a, b
  <2>5. r \in Seq(Entry) /\ Len(r) = Len(a) + Len(b)
        /\ \A i \in 1 .. Len(a) + Len(b) : r[i] = IF i <= Len(a) THEN a[i] ELSE b[i - Len(a)]
    BY <2>3, <2>4, ConcatProperties
  <2>6. WithoutSource(T, f) = r
    BY <2>1 DEF a, b
  <2>. HIDE DEF r
  <2>7. Len(r) = Len(T) - 1
    BY <1>1, <2>2, <2>3, <2>4, <2>5
  <2>8. \A i \in 1 .. Len(r) : r[i] = IF i < k THEN T[i] ELSE T[i + 1]
    BY <1>1, <2>2, <2>3, <2>4, <2>5, <2>7
  <2>. DEFINE origin == [i \in 1 .. Len(r) |-> IF i < k THEN i ELSE i + 1]
  <2>9. /\ origin \in [1 .. Len(r) -> 1 .. Len(T)]
        /\ \A i, j \in 1 .. Len(r) : origin[i] = origin[j] => i = j
        /\ \A i \in 1 .. Len(r) : r[i] = T[origin[i]]
    BY <1>1, <2>2, <2>7, <2>8
  <2>10. ASSUME NEW i \in 1 .. Len(T), T[i].file # f \/ T[i].output
         PROVE  \E j \in 1 .. Len(r) : r[j] = T[i]
    <3>1. CASE i < k
      BY <1>1, <2>2, <2>7, <2>8, <3>1
    <3>2. CASE i > k
      <4>1. i - 1 \in 1 .. Len(r) /\ r[i - 1] = T[i]
        BY <1>1, <2>2, <2>7, <2>8, <3>2
      <4>. QED BY <4>1
    <3>3. i # k
      BY <2>2, <2>10
    <3>. QED BY <1>1, <2>2, <3>1, <3>2, <3>3
  <2>. HIDE DEF origin
  <2>. QED BY <2>5, <2>6, <2>9, <2>10
<1>. QED BY <1>2, <1>3

\* Every version belongs to one file, wherever it is remembered.
Versions(owner) ==
  /\ \A f \in WatchedFiles : content[f] # 0 =>
       content[f] \in 1 .. newest /\ owner[content[f]] = f
  /\ \A i \in 1 .. Len(processed) :
       processed[i].sign \in 1 .. newest /\ owner[processed[i].sign] = processed[i].file
  /\ looking.stage # "none" =>
       looking.sign \in 1 .. newest /\ owner[looking.sign] = looking.file

VersionsHaveFiles ==
  /\ newest <= MaxFileVersion
  /\ \A f \in unseen : content[f] # 0
  /\ \E owner \in [1 .. newest -> WatchedFiles] : Versions(owner)

\* A file does not get back the version that was written out of it, unless the table
\* has it as a source.
OutputsAreOlder ==
  /\ \A i \in 1 .. Len(processed) : processed[i].output =>
       LET f == processed[i].file
       IN  /\ processed[i].sign <= content[f]
           /\ processed[i].sign = content[f] => IsProcessed(f, content[f])
  /\ looking.stage # "none" =>
       /\ looking.sign <= content[looking.file]
       /\ \A i \in 1 .. Len(processed) :
            processed[i].output /\ processed[i].file = looking.file =>
              processed[i].sign < looking.sign

At(f, stages) == looking.file = f /\ looking.stage \in stages

\* The stages from a look to a conversion, or to none.
Early == {"settle", "probe", "convert", "skipped"}

\* Between two looks at f: the conversion before the last one is older than what f
\* holds, or that was recorded.  From a look on, it is older than the signature taken.
HistoryOf(f) ==
  LET n == Len(done[f])
  IN  /\ \A i \in 1 .. n : done[f][i] <= content[f]
      /\ \A i \in 1 .. n - 2 : done[f][i] < done[f][i + 2]
      /\ n >= 2 /\ ~At(f, {"record"}) =>
           done[f][n - 1] < content[f] \/ IsProcessed(f, content[f])
      /\ n >= 2 /\ At(f, {"record"}) => done[f][n - 1] <= looking.sign
      /\ At(f, Early) =>
           /\ n >= 1 => done[f][n] <= looking.sign
           /\ n >= 2 => done[f][n - 1] < looking.sign

\* The invariant of ConversionsAdvance.
WatchInv ==
  /\ WatchTypeOK /\ VersionsHaveFiles /\ Distinct(processed) /\ OutputsAreOlder
  /\ \A f \in WatchedFiles : HistoryOf(f)

\* A step that leaves contents, table and conversions alone, and looks at nothing new.
LEMMA WatchFrame ==
  ASSUME WatchInv, WatchTypeOK', content' = content, newest' = newest,
         processed' = processed, done' = done, \A f \in unseen' : content[f] # 0,
         \/ looking' = looking
         \/ looking' = Nothing /\ looking.stage # "record"
         \/ /\ looking.stage \in {"settle", "probe", "convert"}
            /\ \E s \in {"probe", "convert", "skipped"} : looking' = [looking EXCEPT !.stage = s]
  PROVE  WatchInv'
<1>1. \A f, v : IsProcessed(f, v)' = IsProcessed(f, v)
  BY DEF IsProcessed
<1>2. looking'.stage # "none" =>
        /\ looking.stage # "none" /\ looking'.file = looking.file /\ looking'.sign = looking.sign
  BY DEF WatchInv, WatchTypeOK, Nothing
<1>3. \A f \in WatchedFiles : At(f, {"record"})' = At(f, {"record"})
  BY DEF At, WatchInv, WatchTypeOK, Nothing
<1>4. \A f \in WatchedFiles : At(f, Early)' =>
        At(f, Early)
  BY DEF At, Early, WatchInv, WatchTypeOK, Nothing
<1>5. VersionsHaveFiles'
  <2>1. PICK owner \in [1 .. newest -> WatchedFiles] : Versions(owner)
    BY DEF WatchInv, VersionsHaveFiles
  <2>2. Versions(owner)'
    BY <1>2, <2>1 DEF Versions
  <2>. QED BY <2>2 DEF WatchInv, VersionsHaveFiles
<1>6. OutputsAreOlder'
  BY <1>1, <1>2 DEF WatchInv, OutputsAreOlder
<1>7. ASSUME NEW f \in WatchedFiles PROVE HistoryOf(f)'
  <2>1. At(f, {"record"})' => looking'.sign = looking.sign
    BY <1>2 DEF At
  <2>2. At(f, Early)' => looking'.sign = looking.sign
    BY <1>2 DEF At, Early
  <2>. QED BY <1>1, <1>3, <1>4, <2>1, <2>2 DEF WatchInv, HistoryOf
<1>. QED BY <1>5, <1>6, <1>7 DEF WatchInv, Distinct

\* What the watcher knows of the file it is at.
LEMMA LookTypes ==
  ASSUME WatchTypeOK
  PROVE  \A x \in {looking, Nothing} \cup
                  {[looking EXCEPT !.stage = s] : s \in {"probe", "convert", "skipped", "record"}} :
           x \in [file : WatchedFiles \cup {NoPath}, sign : Nat,
                 stage : {"none", "settle", "probe", "convert", "skipped", "record"}]
<1>1. looking \in [file : WatchedFiles \cup {NoPath}, sign : Nat,
                  stage : {"none", "settle", "probe", "convert", "skipped", "record"}]
  BY DEF WatchTypeOK
<1>2. Nothing \in [file : WatchedFiles \cup {NoPath}, sign : Nat,
                  stage : {"none", "settle", "probe", "convert", "skipped", "record"}]
  BY DEF Nothing
<1>3. ASSUME NEW s \in {"probe", "convert", "skipped", "record"}
      PROVE  [looking EXCEPT !.stage = s] \in [file : WatchedFiles \cup {NoPath}, sign : Nat,
                stage : {"none", "settle", "probe", "convert", "skipped", "record"}]
  BY <1>1, <1>3
<1>. QED BY <1>1, <1>2, <1>3

\* Every step but those that change the table keeps the types.
LEMMA WatchTypes ==
  ASSUME WatchTypeOK
  PROVE  /\ (\E f \in WatchedFiles : WriteFile(f)) => WatchTypeOK'
         /\ (\E f \in WatchedFiles : ComesToRest(f)) => WatchTypeOK'
         /\ (\E f \in WatchedFiles : RetryWindowEnds(f)) => WatchTypeOK'
         /\ (\E f \in WatchedFiles : Look(f)) => WatchTypeOK'
         /\ Scan => WatchTypeOK'
         /\ CheckSettled => WatchTypeOK'
         /\ Probe => WatchTypeOK'
         /\ SkipFile => WatchTypeOK'
<1>1. ASSUME NEW f \in WatchedFiles, WriteFile(f) PROVE WatchTypeOK'
  BY <1>1 DEF WriteFile, WatchTypeOK
<1>2. ASSUME NEW f \in WatchedFiles, ComesToRest(f) PROVE WatchTypeOK'
  BY <1>2 DEF ComesToRest, WatchTypeOK
<1>3. ASSUME NEW f \in WatchedFiles, RetryWindowEnds(f) PROVE WatchTypeOK'
  BY <1>3 DEF RetryWindowEnds, WatchTypeOK
<1>4. ASSUME NEW f \in WatchedFiles, Look(f) PROVE WatchTypeOK'
  <2>1. looking' = looking \/ looking' = [file |-> f, sign |-> content[f], stage |-> "settle"]
    BY <1>4 DEF Look
  <2>2. content[f] \in Nat
    BY DEF WatchTypeOK
  <2>3. looking' \in [file : WatchedFiles \cup {NoPath}, sign : Nat,
                     stage : {"none", "settle", "probe", "convert", "skipped", "record"}]
    BY <2>1, <2>2, LookTypes
  <2>4. /\ failed' = failed \/ failed' = [failed EXCEPT ![f] = 0]
        /\ waiting' = waiting \/ waiting' = waiting \ {f}
    BY <1>4 DEF Look
  <2>5. failed' \in [WatchedFiles -> Nat] /\ waiting' \subseteq WatchedFiles
    <3>1. failed \in [WatchedFiles -> Nat] /\ waiting \subseteq WatchedFiles
      BY DEF WatchTypeOK
    <3>2. [failed EXCEPT ![f] = 0] \in [WatchedFiles -> Nat]
      BY <3>1
    <3>. QED BY <2>4, <3>1, <3>2
  <2>6. unseen' \subseteq WatchedFiles
    BY <1>4 DEF Look, WatchTypeOK
  <2>. QED BY <1>4, <2>3, <2>5, <2>6 DEF Look, WatchTypeOK
<1>5. CASE Scan
  BY <1>5 DEF Scan, Present, WatchTypeOK
<1>6. CASE CheckSettled
  <2>1. looking' \in {looking, Nothing} \cup
                  {[looking EXCEPT !.stage = s] : s \in {"probe", "convert", "skipped", "record"}}
    BY <1>6 DEF CheckSettled
  <2>. QED BY <1>6, <2>1, LookTypes DEF CheckSettled, WatchTypeOK
<1>7. CASE Probe
  <2>1. /\ looking' \in {looking, Nothing} \cup
                  {[looking EXCEPT !.stage = s] : s \in {"probe", "convert", "skipped", "record"}}
        /\ trouble' = trouble \/ trouble' = trouble + 1
    BY <1>7 DEF Probe, Trouble
  <2>2. /\ looking' \in [file : WatchedFiles \cup {NoPath}, sign : Nat,
                        stage : {"none", "settle", "probe", "convert", "skipped", "record"}]
        /\ trouble' \in Nat
    BY <2>1, LookTypes DEF WatchTypeOK
  <2>. QED BY <1>7, <2>2 DEF Probe, WatchTypeOK
<1>8. CASE SkipFile
  <2>1. looking' \in {looking, Nothing} \cup
                  {[looking EXCEPT !.stage = s] :
                     s \in {"probe", "convert", "skipped", "record"}}
    BY <1>8 DEF SkipFile
  <2>. QED BY <1>8, <2>1, LookTypes DEF SkipFile, WatchTypeOK
<1>. QED BY <1>1, <1>2, <1>3, <1>4, <1>5, <1>6, <1>7, <1>8

\* Versions are numbered by newest, and the file looked at is one of the folder.
LEMMA VersionBounds ==
  ASSUME WatchInv
  PROVE  /\ newest \in Nat
         /\ \A f \in WatchedFiles : content[f] \in Nat /\ content[f] <= newest
         /\ looking.stage # "none" => looking.file \in WatchedFiles /\ looking.sign \in 1 .. newest
         /\ Len(processed) \in Nat /\ DOMAIN processed = 1 .. Len(processed)
         /\ \A i \in 1 .. Len(processed) : processed[i] \in Entry /\ processed[i].sign \in 1 .. newest
         /\ \A f \in WatchedFiles : Len(done[f]) \in Nat /\ done[f] \in Seq(Nat)
<1>1. newest \in Nat /\ \A f \in WatchedFiles : content[f] \in Nat
  BY DEF WatchInv, WatchTypeOK
<1>2. PICK owner \in [1 .. newest -> WatchedFiles] : Versions(owner)
  BY DEF WatchInv, VersionsHaveFiles
<1>3. \A f \in WatchedFiles : content[f] <= newest
  BY <1>1, <1>2 DEF Versions
<1>4. looking.stage # "none" => looking.file \in WatchedFiles /\ looking.sign \in 1 .. newest
  BY <1>2 DEF Versions
<1>5. processed \in Seq(Entry) /\ \A f \in WatchedFiles : done[f] \in Seq(Nat)
  BY DEF WatchInv, WatchTypeOK
<1>6. /\ Len(processed) \in Nat /\ DOMAIN processed = 1 .. Len(processed)
      /\ \A i \in 1 .. Len(processed) : processed[i] \in Entry
      /\ \A f \in WatchedFiles : Len(done[f]) \in Nat
  BY <1>5, LenProperties, ElementOfSeq
<1>7. \A i \in 1 .. Len(processed) : processed[i].sign \in 1 .. newest
  BY <1>2 DEF Versions
<1>. QED BY <1>1, <1>3, <1>4, <1>5, <1>6, <1>7

\* The conversions of a file are versions.
LEMMA DoneAreVersions ==
  ASSUME WatchInv, NEW f \in WatchedFiles,
         NEW i \in 1 .. Len(done[f]) PROVE done[f][i] \in Nat
  BY VersionBounds, ElementOfSeq

\* The folder is new.
LEMMA WatchInitInv == WatchInit => WatchInv
<1>. SUFFICES ASSUME WatchInit PROVE WatchInv
  OBVIOUS
<1>1. Len(processed) = 0 /\ \A f \in WatchedFiles : Len(done[f]) = 0
  BY EmptySeq DEF WatchInit
<1>2. WatchTypeOK
  BY EmptySeq DEF WatchInit, WatchTypeOK, Nothing
<1>3. VersionsHaveFiles
  <2>. DEFINE owner == [v \in 1 .. newest |-> CHOOSE f \in WatchedFiles : TRUE]
  <2>1. newest = 0
    BY DEF WatchInit
  <2>2. owner \in [1 .. newest -> WatchedFiles]
    BY <2>1
  <2>. HIDE DEF owner
  <2>3. Versions(owner)
    BY <1>1 DEF WatchInit, Versions, Nothing
  <2>4. \E o \in [1 .. newest -> WatchedFiles] : Versions(o)
    BY <2>2, <2>3, Zenon
  <2>5. newest <= MaxFileVersion /\ unseen = {}
    BY <2>1, WatchConstants DEF WatchInit
  <2>. QED BY <2>4, <2>5 DEF VersionsHaveFiles
<1>4. Distinct(processed) /\ OutputsAreOlder
  BY <1>1 DEF WatchInit, Distinct, OutputsAreOlder, Nothing
<1>5. ASSUME NEW f \in WatchedFiles PROVE HistoryOf(f)
  BY <1>1 DEF WatchInit, HistoryOf, At, Nothing
<1>. QED BY <1>2, <1>3, <1>4, <1>5 DEF WatchInv

\* A version that is written is newer than all that is remembered of the file.
LEMMA WriteKeeps ==
  ASSUME WatchInv, NEW f \in WatchedFiles, WriteFile(f) PROVE WatchInv'
<1>1. /\ newest < MaxFileVersion /\ newest' = newest + 1
      /\ content' = [content EXCEPT ![f] = newest + 1]
      /\ processed' = processed /\ done' = done /\ looking' = looking /\ unseen' = unseen
  BY DEF WriteFile
<1>2. \A g, v : IsProcessed(g, v)' = IsProcessed(g, v)
  BY <1>1 DEF IsProcessed
<1>3. /\ content'[f] = newest + 1
      /\ \A g \in WatchedFiles : g # f => content'[g] = content[g]
  BY <1>1 DEF WatchInv, WatchTypeOK
<1>4. WatchTypeOK'
  BY WatchTypes DEF WatchInv
<1>5. VersionsHaveFiles'
  <2>1. PICK owner \in [1 .. newest -> WatchedFiles] : Versions(owner)
    BY DEF WatchInv, VersionsHaveFiles
  <2>2. PICK now \in [1 .. newest' -> WatchedFiles] :
          now = [v \in 1 .. newest' |-> IF v = newest' THEN f ELSE owner[v]]
    <3>. DEFINE w == [v \in 1 .. newest' |-> IF v = newest' THEN f ELSE owner[v]]
    <3>1. ASSUME NEW v \in 1 .. newest', v # newest' PROVE owner[v] \in WatchedFiles
      <4>1. v \in 1 .. newest
        BY <1>1, <3>1, VersionBounds
      <4>. QED BY <2>1, <4>1
    <3>2. w \in [1 .. newest' -> WatchedFiles]
      BY <3>1
    <3>. QED BY <3>2
  <2>3. \A v \in 1 .. newest : now[v] = owner[v] /\ v \in 1 .. newest'
    BY <1>1, <2>2, VersionBounds
  <2>4. now[newest + 1] = f /\ newest + 1 \in 1 .. newest'
    BY <1>1, <2>2, VersionBounds
  <2>5. Versions(now)'
    BY <1>1, <1>3, <2>1, <2>3, <2>4 DEF Versions
  <2>6. newest' <= MaxFileVersion
    BY <1>1, VersionBounds, WatchConstants
  <2>7. \A g \in unseen' : content'[g] # 0
    <3>1. newest + 1 # 0 /\ unseen \subseteq WatchedFiles
      BY VersionBounds DEF WatchInv, WatchTypeOK
    <3>. QED BY <1>1, <1>3, <3>1 DEF WatchInv, VersionsHaveFiles
  <2>. QED BY <2>2, <2>5, <2>6, <2>7 DEF VersionsHaveFiles
<1>6. OutputsAreOlder'
  <2>1. ASSUME NEW i \in 1 .. Len(processed), processed[i].output
        PROVE  LET g == processed[i].file
               IN  /\ processed[i].sign <= content'[g]
                   /\ processed[i].sign = content'[g] => IsProcessed(g, content'[g])
    <3>1. processed[i].sign <= newest /\ processed[i].sign \in Nat /\ processed[i].file \in WatchedFiles
      BY VersionBounds DEF Entry
    <3>2. CASE processed[i].file = f
      BY <1>3, <3>1, <3>2, VersionBounds
    <3>3. CASE processed[i].file # f
      BY <1>3, <2>1, <3>1, <3>3 DEF WatchInv, OutputsAreOlder
    <3>. QED BY <3>2, <3>3
  <2>2. looking.stage # "none" => looking.sign <= content'[looking.file]
    BY <1>3, VersionBounds DEF WatchInv, OutputsAreOlder
  <2>3. looking.stage # "none" =>
          \A i \in 1 .. Len(processed) :
            processed[i].output /\ processed[i].file = looking.file =>
              processed[i].sign < looking.sign
    BY DEF WatchInv, OutputsAreOlder
  <2>. QED BY <1>1, <1>2, <2>1, <2>2, <2>3 DEF OutputsAreOlder
<1>7. ASSUME NEW g \in WatchedFiles PROVE HistoryOf(g)'
  <2>1. \A stages : At(g, stages)' <=> At(g, stages)
    BY <1>1 DEF At
  <2>2. CASE g # f
    BY <1>1, <1>2, <1>3, <2>1, <2>2 DEF WatchInv, HistoryOf
  <2>3. CASE g = f
    <3>1. ASSUME NEW i \in 1 .. Len(done[f]) PROVE done[f][i] < content'[f]
      <4>1. done[f][i] \in Nat /\ done[f][i] <= content[f]
        BY DoneAreVersions DEF WatchInv, HistoryOf
      <4>2. content[f] \in Nat /\ content[f] <= newest /\ newest \in Nat
        BY VersionBounds
      <4>. QED BY <1>3, <4>1, <4>2
    <3>2. Len(done[f]) >= 2 => Len(done[f]) - 1 \in 1 .. Len(done[f])
      BY VersionBounds
    <3>3. \A i \in 1 .. Len(done[f]) : done[f][i] <= content'[f]
      <4>1. \A i \in 1 .. Len(done[f]) : done[f][i] \in Nat
        BY DoneAreVersions
      <4>2. content'[f] \in Nat
        BY <1>3, VersionBounds
      <4>. QED BY <3>1, <4>1, <4>2
    <3>. QED BY <1>1, <1>3, <2>1, <2>3, <3>1, <3>2, <3>3 DEF WatchInv, HistoryOf
  <2>. QED BY <2>2, <2>3
<1>. QED BY <1>1, <1>4, <1>5, <1>6, <1>7 DEF WatchInv, Distinct

\* A look takes a signature that is newer than everything recorded of the file.
LEMMA LookKeeps ==
  ASSUME WatchInv, NEW f \in WatchedFiles, Look(f) PROVE WatchInv'
<1>1. /\ looking = Nothing /\ f \in unseen /\ unseen' \subseteq unseen
      /\ content' = content /\ newest' = newest /\ processed' = processed /\ done' = done
  BY DEF Look
<1>2. WatchTypeOK'
  BY WatchTypes DEF WatchInv
<1>3. CASE looking' = looking
  BY <1>1, <1>2, <1>3, WatchFrame DEF WatchInv, VersionsHaveFiles
<1>4. CASE looking' # looking
  <2>1. /\ looking' = [file |-> f, sign |-> content[f], stage |-> "settle"]
        /\ ~IsProcessed(f, content[f])
    BY <1>4 DEF Look
  <2>2. \A g, v : IsProcessed(g, v)' = IsProcessed(g, v)
    BY <1>1 DEF IsProcessed
  <2>3. content[f] # 0 /\ looking.stage = "none"
    BY <1>1 DEF WatchInv, VersionsHaveFiles, Nothing
  <2>4. VersionsHaveFiles'
    <3>1. PICK owner \in [1 .. newest -> WatchedFiles] : Versions(owner)
      BY DEF WatchInv, VersionsHaveFiles
    <3>2. Versions(owner)'
      BY <1>1, <2>1, <2>3, <3>1 DEF Versions
    <3>. QED BY <1>1, <3>2 DEF WatchInv, VersionsHaveFiles
  <2>5. OutputsAreOlder'
    <3>1. ASSUME NEW i \in 1 .. Len(processed), processed[i].output, processed[i].file = f
          PROVE  processed[i].sign < content[f]
      <4>1. processed[i].sign <= content[f] /\ processed[i].sign # content[f]
        BY <2>1, <3>1 DEF WatchInv, OutputsAreOlder
      <4>. QED BY <4>1, VersionBounds
    <3>2. content[f] <= content[f]
      BY VersionBounds
    <3>. QED BY <1>1, <2>1, <2>2, <3>1, <3>2 DEF WatchInv, OutputsAreOlder
  <2>6. ASSUME NEW g \in WatchedFiles PROVE HistoryOf(g)'
    <3>1. ~At(g, {"record"})' /\ ~At(g, {"record"})
      BY <2>1, <2>3 DEF At
    <3>2. At(g, Early)' => g = f
      BY <2>1 DEF At, Early
    <3>3. Len(done[f]) >= 1 => done[f][Len(done[f])] <= content[f]
      <4>1. Len(done[f]) \in Nat
        BY VersionBounds
      <4>2. \A i \in 1 .. Len(done[f]) : done[f][i] <= content[f]
        BY DEF WatchInv, HistoryOf
      <4>. QED BY <4>1, <4>2
    <3>4. Len(done[f]) >= 2 => done[f][Len(done[f]) - 1] < content[f]
      BY <2>1, <2>3 DEF WatchInv, HistoryOf, At
    <3>. QED BY <1>1, <2>1, <2>2, <3>1, <3>2, <3>3, <3>4 DEF WatchInv, HistoryOf
  <2>. QED BY <1>1, <1>2, <2>4, <2>5, <2>6 DEF WatchInv, Distinct
<1>. QED BY <1>3, <1>4

\* A conversion reads a version that is no older than the signature.
LEMMA ConvertKeeps ==
  ASSUME WatchInv, ConvertFile PROVE WatchInv'
<1>. DEFINE f == looking.file
            n == Len(done[f])
<1>1. /\ looking.stage = "convert" /\ looking' = [looking EXCEPT !.stage = "record"]
      /\ done' = [done EXCEPT ![f] = Append(@, content[f])]
      /\ content' = content /\ newest' = newest /\ processed' = processed /\ unseen' = unseen
      /\ settled' = settled /\ failed' = failed /\ waiting' = waiting /\ trouble' = trouble
      /\ onConflict' = onConflict
  BY DEF ConvertFile
<1>2. f \in WatchedFiles /\ looking.sign \in 1 .. newest /\ content[f] \in Nat
      /\ done[f] \in Seq(Nat) /\ n \in Nat
  BY <1>1, VersionBounds
<1>3. /\ looking'.file = looking.file /\ looking'.sign = looking.sign /\ looking'.stage = "record"
  BY <1>1 DEF WatchInv, WatchTypeOK
<1>4. \A g, v : IsProcessed(g, v)' = IsProcessed(g, v)
  BY <1>1 DEF IsProcessed
<1>5. /\ Append(done[f], content[f]) \in Seq(Nat) /\ Len(Append(done[f], content[f])) = n + 1
      /\ \A i \in 1 .. n : Append(done[f], content[f])[i] = done[f][i]
      /\ Append(done[f], content[f])[n + 1] = content[f]
  BY <1>2, AppendProperties
<1>6. /\ done'[f] = Append(done[f], content[f])
      /\ \A g \in WatchedFiles : g # f => done'[g] = done[g]
  BY <1>1, <1>2 DEF WatchInv, WatchTypeOK
<1>7. WatchTypeOK'
  <2>1. done' \in [WatchedFiles -> Seq(Nat)]
    BY <1>1, <1>2, <1>5 DEF WatchInv, WatchTypeOK
  <2>2. WatchTypeOK
    BY DEF WatchInv
  <2>. QED BY <1>1, <2>1, <2>2, LookTypes DEF WatchTypeOK
<1>8. VersionsHaveFiles'
  <2>1. PICK owner \in [1 .. newest -> WatchedFiles] : Versions(owner)
    BY DEF WatchInv, VersionsHaveFiles
  <2>2. Versions(owner)'
    BY <1>1, <1>3, <2>1 DEF Versions
  <2>. QED BY <1>1, <2>2 DEF WatchInv, VersionsHaveFiles
<1>9. OutputsAreOlder'
  BY <1>1, <1>3, <1>4 DEF WatchInv, OutputsAreOlder
<1>10. ASSUME NEW g \in WatchedFiles PROVE HistoryOf(g)'
  <2>1. CASE g # f
    <3>1. \A stages : ~At(g, stages) /\ ~At(g, stages)'
      BY <1>3, <2>1 DEF At
    <3>. QED BY <1>1, <1>4, <1>6, <2>1, <3>1 DEF WatchInv, HistoryOf
  <2>2. CASE g = f
    <3>1. At(f, Early) /\ HistoryOf(f)
      BY <1>1, <1>2 DEF At, Early, WatchInv
    <3>2. /\ n >= 1 => done[f][n] <= looking.sign
          /\ n >= 2 => done[f][n - 1] < looking.sign
          /\ \A i \in 1 .. n : done[f][i] <= content[f]
          /\ \A i \in 1 .. n - 2 : done[f][i] < done[f][i + 2]
      BY <3>1 DEF HistoryOf
    <3>3. looking.sign <= content[f] /\ looking.sign \in Nat
      BY <1>1, <1>2 DEF WatchInv, OutputsAreOlder
    <3>4. \A i \in 1 .. n : done[f][i] \in Nat
      BY <1>2, DoneAreVersions
    <3>. HIDE DEF f, n
    <3>5. Len(done'[f]) = n + 1
      BY <1>5, <1>6
    <3>6. \A i \in 1 .. n + 1 : done'[f][i] <= content[f]
      BY <1>2, <1>5, <1>6, <3>2
    <3>7. ASSUME NEW i \in 1 .. n + 1 - 2 PROVE done'[f][i] < done'[f][i + 2]
      <4>1. i \in 1 .. n /\ done'[f][i] = done[f][i] /\ done[f][i] \in Nat
        BY <1>2, <1>5, <1>6, <3>4
      <4>2. CASE i + 2 \in 1 .. n
        <5>1. i \in 1 .. n - 2
          BY <1>2, <4>2
        <5>2. done'[f][i + 2] = done[f][i + 2]
          BY <1>5, <1>6, <4>2
        <5>. QED BY <3>2, <4>1, <5>1, <5>2
      <4>3. CASE i + 2 \notin 1 .. n
        <5>1. i = n - 1 /\ i + 2 = n + 1 /\ n >= 2
          BY <1>2, <4>3
        <5>2. done'[f][i + 2] = content[f] /\ done[f][i] < looking.sign
          BY <1>5, <1>6, <3>2, <5>1
        <5>. QED BY <1>2, <3>3, <4>1, <5>2
      <4>. QED BY <4>2, <4>3
    <3>8. n + 1 >= 2 => done'[f][n + 1 - 1] <= looking.sign
      <4>1. n + 1 >= 2 => n >= 1 /\ n \in 1 .. n /\ n + 1 - 1 = n
        BY <1>2
      <4>. QED BY <1>5, <1>6, <3>2, <4>1
    <3>9. At(g, {"record"})' /\ ~At(g, Early)'
      BY <1>3, <2>2 DEF At, Early, f
    <3>10. Len(done'[g]) = n + 1 /\ content'[g] = content[f]
      BY <1>1, <2>2, <3>5
    <3>. QED BY <1>2, <1>3, <2>2, <3>6, <3>7, <3>8, <3>9, <3>10 DEF HistoryOf
  <2>. QED BY <2>1, <2>2
<1>. QED BY <1>1, <1>7, <1>8, <1>9, <1>10 DEF WatchInv, Distinct

\* A failed conversion forgets the source; its file's history is older than the
\* signature that was looked at.
LEMMA FailKeeps ==
  ASSUME WatchInv, ConvertFails PROVE WatchInv'
<1>1. PICK f \in WatchedFiles, s \in 1 .. newest : f = looking.file /\ s = looking.sign
  BY VersionBounds DEF ConvertFails
<1>2. /\ looking.stage = "convert" /\ looking' = Nothing /\ trouble' = trouble + 1
      /\ processed' = WithoutSource(processed, f)
      /\ failed' = [failed EXCEPT ![f] = s] /\ waiting' = waiting \cup {f}
      /\ content' = content /\ settled' = settled /\ newest' = newest
      /\ unseen' = unseen /\ done' = done /\ onConflict' = onConflict
  BY <1>1 DEF ConvertFails, Trouble
<1>3. looking'.stage = "none"
  BY <1>2 DEF Nothing
<1>4. processed \in Seq(Entry) /\ Distinct(processed)
  BY DEF WatchInv, WatchTypeOK
<1>5. /\ processed' \in Seq(Entry)
      /\ \A i \in 1 .. Len(processed) : processed[i].file # f \/ processed[i].output =>
           \E j \in 1 .. Len(processed') : processed'[j] = processed[i]
  BY <1>2, <1>4, WithoutEntries
<1>6. PICK origin \in [1 .. Len(processed') -> 1 .. Len(processed)] :
        /\ \A i, j \in 1 .. Len(processed') : origin[i] = origin[j] => i = j
        /\ \A i \in 1 .. Len(processed') : processed'[i] = processed[origin[i]]
  BY <1>2, <1>4, WithoutEntries
<1>7. DOMAIN processed = 1 .. Len(processed) /\ DOMAIN processed' = 1 .. Len(processed')
  BY <1>4, <1>5, LenProperties
<1>8. ASSUME NEW g \in WatchedFiles, NEW v, g # f, IsProcessed(g, v)
      PROVE IsProcessed(g, v)'
  <2>1. PICK m \in 1 .. Len(processed) : processed[m] = [file |-> g, sign |-> v, output |-> FALSE]
    BY <1>7, <1>8 DEF IsProcessed
  <2>2. processed[m].file # f
    BY <1>8, <2>1
  <2>3. PICK j \in 1 .. Len(processed') : processed'[j] = processed[m]
    BY <1>5, <2>2
  <2>. QED BY <1>7, <2>1, <2>3 DEF IsProcessed
<1>9. s <= content[f] /\ s \in Nat /\ content[f] \in Nat
  BY <1>1, <1>2, VersionBounds DEF WatchInv, OutputsAreOlder
<1>10. WatchTypeOK'
  <2>1. failed' \in [WatchedFiles -> Nat] /\ waiting' \subseteq WatchedFiles /\ trouble' \in Nat
    BY <1>2, <1>9 DEF WatchInv, WatchTypeOK
  <2>2. WatchTypeOK
    BY DEF WatchInv
  <2>. QED BY <1>2, <1>5, <2>1, <2>2, LookTypes DEF WatchTypeOK
<1>11. VersionsHaveFiles'
  <2>1. PICK owner \in [1 .. newest -> WatchedFiles] : Versions(owner)
    BY DEF WatchInv, VersionsHaveFiles
  <2>2. Versions(owner)'
    BY <1>2, <1>3, <1>6, <2>1 DEF Versions
  <2>. QED BY <1>2, <2>2 DEF WatchInv, VersionsHaveFiles
<1>12. Distinct(processed')
  <2>1. ASSUME NEW i \in 1 .. Len(processed'), NEW j \in 1 .. Len(processed'), i # j
        PROVE  /\ processed'[i].sign = processed'[j].sign =>
                    processed'[i].output # processed'[j].output
               /\ processed'[i].file = processed'[j].file =>
                    processed'[i].output \/ processed'[j].output
    <3>1. /\ origin[i] \in 1 .. Len(processed) /\ origin[j] \in 1 .. Len(processed)
          /\ origin[i] # origin[j]
          /\ processed'[i] = processed[origin[i]] /\ processed'[j] = processed[origin[j]]
      BY <1>6, <2>1
    <3>. QED BY <1>4, <3>1 DEF Distinct
  <2>. QED BY <2>1 DEF Distinct
<1>13. OutputsAreOlder'
  <2>1. ASSUME NEW i \in 1 .. Len(processed'), processed'[i].output
        PROVE  \E g \in WatchedFiles, v \in Nat :
                 /\ g = processed'[i].file /\ v = content[g] /\ processed'[i].sign <= v
                 /\ processed'[i].sign = v => IsProcessed(g, v)'
    <3>1. PICK j \in 1 .. Len(processed) : processed'[i] = processed[j]
      BY <1>6
    <3>2. PICK g \in WatchedFiles : g = processed[j].file
      BY VersionBounds DEF Entry
    <3>3. PICK v \in Nat : v = content[g]
      BY VersionBounds
    <3>4. processed[j].sign <= v /\ (processed[j].sign = v => IsProcessed(g, v))
      BY <2>1, <3>1, <3>2, <3>3 DEF WatchInv, OutputsAreOlder
    <3>5. CASE g = f
      <4>1. processed[j].sign < s /\ processed[j].sign \in Nat
        BY <1>1, <1>2, <2>1, <3>1, <3>2, <3>5, VersionBounds DEF WatchInv,
             OutputsAreOlder, Entry
      <4>2. processed[j].sign # v
        BY <1>9, <3>3, <3>5, <4>1
      <4>. QED BY <3>1, <3>2, <3>3, <3>4, <4>2
    <3>6. CASE g # f
      <4>1. IsProcessed(g, v) => IsProcessed(g, v)'
        BY <1>8, <3>6
      <4>. QED BY <3>1, <3>2, <3>3, <3>4, <4>1
    <3>. QED BY <3>5, <3>6
  <2>. QED BY <1>2, <1>3, <2>1 DEF OutputsAreOlder
<1>14. ASSUME NEW g \in WatchedFiles PROVE HistoryOf(g)'
  <2>1. HistoryOf(g) /\ \A stages \in SUBSET (Early \cup {"record"}) :
          ~At(g, stages)'
    BY <1>3 DEF WatchInv, At, Early
  <2>2. ~At(g, {"record"})
    BY <1>2 DEF At
  <2>3. ASSUME NEW v, v = content[g]
        PROVE  Len(done[g]) >= 2 => done[g][Len(done[g]) - 1] < v \/ IsProcessed(g, v)'
    <3>1. CASE g = f
      <4>1. At(f, Early)
        BY <1>1, <1>2 DEF At, Early
      <4>2. Len(done[f]) >= 2 => done[f][Len(done[f]) - 1] < s /\ done[f][Len(done[f]) - 1] \in Nat
        <5>1. Len(done[f]) >= 2 => Len(done[f]) - 1 \in 1 .. Len(done[f])
          BY VersionBounds
        <5>. QED BY <1>1, <2>1, <3>1, <4>1, <5>1, DoneAreVersions DEF HistoryOf
      <4>. QED BY <1>9, <2>3, <3>1, <4>2
    <3>2. CASE g # f
      <4>1. IsProcessed(g, v) => IsProcessed(g, v)'
        BY <1>8, <3>2
      <4>. QED BY <2>1, <2>2, <2>3, <4>1 DEF HistoryOf
    <3>. QED BY <3>1, <3>2
  <2>. QED BY <1>2, <2>1, <2>3 DEF HistoryOf
<1>. QED BY <1>10, <1>11, <1>12, <1>13, <1>14 DEF WatchInv, Distinct

\* While the table can hold all signatures, a file that is recorded is known from then
\* on by its source, and a conversion by its output as well.
LEMMA RecordKeeps ==
  ASSUME WatchInv, Record, 2 * MaxFileVersion <= MaxProcessed PROVE WatchInv'
<1>1. PICK f \in WatchedFiles, s \in 1 .. newest : f = looking.file /\ s = looking.sign
  BY VersionBounds DEF Record
<1>c. PICK converted : converted = (looking.stage = "record")
  OBVIOUS
<1>2. PICK P, source, output :
        /\ P = Put(processed, f, s)
        /\ source = [file |-> f, sign |-> s, output |-> FALSE]
        /\ output = [file |-> f, sign |-> s, output |-> TRUE]
  OBVIOUS
<1>3. /\ looking.stage \in {"skipped", "record"} /\ looking' = Nothing
      /\ processed' = IF converted THEN Trim(Append(Trim(P), output)) ELSE Trim(P)
      /\ failed' = [failed EXCEPT ![f] = 0] /\ waiting' = waiting \ {f}
      /\ content' = content /\ settled' = settled /\ newest' = newest
      /\ unseen' = unseen /\ done' = done /\ trouble' = trouble /\ onConflict' = onConflict
  BY <1>1, <1>c, <1>2 DEF Record, Recorded
<1>4. looking'.stage = "none"
  BY <1>3 DEF Nothing
<1>5. /\ s \in Nat /\ newest \in Nat /\ s <= content[f] /\ content[f] \in Nat
      /\ processed \in Seq(Entry) /\ Distinct(processed)
      /\ output \in Entry
      /\ \A i \in 1 .. Len(processed) : processed[i] \in Entry /\ processed[i].sign \in 1 .. newest
  BY <1>1, <1>2, <1>3, VersionBounds DEF WatchInv, OutputsAreOlder, WatchTypeOK, Entry
<1>6. P \in Seq(Entry)
  BY <1>2, <1>5, PutEntries
<1>7. \A i \in 1 .. Len(processed) : processed[i].file # f \/ processed[i].output =>
        i \in 1 .. Len(P) /\ P[i] = processed[i]
  BY <1>2, <1>5, PutEntries
<1>8. PICK k \in 1 .. Len(P) :
        /\ P[k] = source
        /\ \A i \in 1 .. Len(P) :
             i # k => /\ i \in 1 .. Len(processed) /\ P[i] = processed[i]
                      /\ processed[i].file # f \/ processed[i].output
  BY <1>2, <1>5, PutEntries
<1>. DEFINE Q == IF converted THEN Append(P, output) ELSE P
<1>9. /\ Q \in Seq(Entry) /\ Len(P) \in Nat /\ Len(Q) \in Nat /\ Len(P) <= Len(Q)
      /\ \A i \in 1 .. Len(P) : Q[i] = P[i]
      /\ \A i \in 1 .. Len(Q) : i \in 1 .. Len(P) \/ (i = Len(P) + 1 /\ Q[i] = output)
  <2>1. Len(P) \in Nat
    BY <1>6, LenProperties
  <2>2. /\ Append(P, output) \in Seq(Entry) /\ Len(Append(P, output)) = Len(P) + 1
        /\ \A i \in 1 .. Len(P) : Append(P, output)[i] = P[i]
        /\ Append(P, output)[Len(P) + 1] = output
    BY <1>5, <1>6, AppendProperties
  <2>3. CASE converted
    BY <2>1, <2>2, <2>3
  <2>4. CASE ~converted
    BY <1>6, <2>1, <2>4
  <2>. QED BY <2>3, <2>4
<1>. HIDE DEF Q
<1>10. PICK owner \in [1 .. newest -> WatchedFiles] : Versions(owner)
  BY DEF WatchInv, VersionsHaveFiles
<1>11. \A i \in 1 .. Len(processed) : processed[i].file = f /\ processed[i].output =>
         processed[i].sign < s /\ processed[i].sign # s
  <2>1. \A i \in 1 .. Len(processed) : processed[i].file = f /\ processed[i].output =>
          processed[i].sign < s
    BY <1>1, <1>3 DEF WatchInv, OutputsAreOlder
  <2>. QED BY <1>5, <2>1
<1>12. \A i \in 1 .. Len(processed) :
         processed[i].sign = s => processed[i].file = f /\ owner[s] = f
  BY <1>1, <1>3, <1>10 DEF Versions
<1>13. Distinct(Q) /\ \A i \in 1 .. Len(Q) : Q[i].sign \in 1 .. newest /\ owner[Q[i].sign] = Q[i].file
  <2>1. owner[s] = f /\ \A i \in 1 .. Len(processed) : owner[processed[i].sign] = processed[i].file
    BY <1>1, <1>3, <1>10 DEF Versions
  <2>2. ASSUME NEW i \in 1 .. Len(Q)
        PROVE  \/ i = k /\ Q[i] = source
               \/ i = Len(P) + 1 /\ Q[i] = output
               \/ /\ i \in 1 .. Len(processed) /\ Q[i] = processed[i]
                  /\ processed[i].file # f \/ processed[i].output
    BY <1>8, <1>9
  <2>3. /\ source.file = f /\ source.sign = s /\ source.output = FALSE
        /\ output.file = f /\ output.sign = s /\ output.output = TRUE
    BY <1>2
  <2>4. ASSUME NEW i \in 1 .. Len(processed), processed[i].file # f \/ processed[i].output
        PROVE  processed[i].sign # s /\ (processed[i].file = f => processed[i].output)
    BY <1>11, <1>12, <2>4
  <2>5. ASSUME NEW i \in 1 .. Len(Q), NEW j \in 1 .. Len(Q), i # j
        PROVE  /\ Q[i].sign = Q[j].sign => Q[i].output # Q[j].output
               /\ Q[i].file = Q[j].file => Q[i].output \/ Q[j].output
    <3>1. CASE i \in 1 .. Len(processed) /\ j \in 1 .. Len(processed)
               /\ Q[i] = processed[i] /\ Q[j] = processed[j]
      BY <1>5, <2>5, <3>1 DEF Distinct
    <3>2. ASSUME NEW x \in {i, j}, NEW y \in {i, j}, x # y, Q[x] = source \/ Q[x] = output,
                 y \in 1 .. Len(processed), Q[y] = processed[y],
                 processed[y].file # f \/ processed[y].output
          PROVE  /\ Q[x].sign # Q[y].sign
                 /\ Q[x].file = Q[y].file => Q[x].output \/ Q[y].output
      BY <2>3, <2>4, <3>2
    <3>3. CASE {Q[i], Q[j]} = {source, output}
      BY <2>3, <3>3
    <3>. QED BY <2>2, <2>5, <3>1, <3>2, <3>3
  <2>. QED BY <1>1, <1>5, <2>1, <2>2, <2>3, <2>5 DEF Distinct
<1>14. processed' = Q
  <2>1. newest <= MaxFileVersion
    BY DEF WatchInv, VersionsHaveFiles
  <2>2. Len(Q) <= 2 * newest
    BY <1>5, <1>9, <1>13, TableIsShort
  <2>3. Len(Q) <= MaxProcessed /\ Len(P) <= MaxProcessed
    BY <1>5, <1>9, <2>1, <2>2, WatchConstants
  <2>4. Trim(P) = P /\ Trim(Q) = Q
    BY <1>6, <1>9, <2>3, ShortTableIsKept
  <2>5. Trim(Append(P, output)) = Q \/ ~converted
    BY <2>4 DEF Q
  <2>6. converted \/ P = Q
    BY DEF Q
  <2>. QED BY <1>3, <2>4, <2>5, <2>6
<1>15. DOMAIN processed = 1 .. Len(processed) /\ DOMAIN processed' = 1 .. Len(processed')
  BY <1>5, <1>9, <1>14, LenProperties
<1>16. ASSUME NEW g \in WatchedFiles, NEW v, g # f, IsProcessed(g, v)
       PROVE IsProcessed(g, v)'
  <2>1. PICK m \in 1 .. Len(processed) : processed[m] = [file |-> g, sign |-> v, output |-> FALSE]
    BY <1>15, <1>16 DEF IsProcessed
  <2>2. m \in 1 .. Len(P) /\ P[m] = processed[m]
    BY <1>7, <1>16, <2>1
  <2>3. m \in DOMAIN processed' /\ processed'[m] = processed[m]
    BY <1>9, <1>14, <1>15, <2>2
  <2>. QED BY <2>1, <2>3 DEF IsProcessed
<1>17. IsProcessed(f, s)'
  <2>1. k \in DOMAIN processed' /\ processed'[k] = source
    BY <1>8, <1>9, <1>14, <1>15
  <2>. QED BY <1>2, <2>1 DEF IsProcessed
<1>18. WatchTypeOK'
  <2>1. failed' \in [WatchedFiles -> Nat] /\ waiting' \subseteq WatchedFiles
    BY <1>3 DEF WatchInv, WatchTypeOK
  <2>2. WatchTypeOK
    BY DEF WatchInv
  <2>. QED BY <1>3, <1>9, <1>14, <2>1, <2>2, LookTypes DEF WatchTypeOK
<1>19. VersionsHaveFiles'
  <2>1. Versions(owner)'
    BY <1>3, <1>4, <1>10, <1>13, <1>14 DEF Versions
  <2>. QED BY <1>3, <2>1 DEF WatchInv, VersionsHaveFiles
<1>20. OutputsAreOlder'
  <2>1. ASSUME NEW i \in 1 .. Len(processed'), processed'[i].output
        PROVE  \E g \in WatchedFiles, v \in Nat :
                 /\ g = processed'[i].file /\ v = content[g] /\ processed'[i].sign <= v
                 /\ processed'[i].sign = v => IsProcessed(g, v)'
    <3>1. CASE i = Len(P) + 1
      <4>1. i \notin 1 .. Len(P)
        BY <1>9, <3>1
      <4>2. processed'[i].file = f /\ processed'[i].sign = s
        BY <1>2, <1>9, <1>14, <4>1
      <4>. QED BY <1>5, <1>17, <4>2
    <3>2. CASE i # Len(P) + 1
      <4>1. i \in 1 .. Len(P) /\ processed'[i] = P[i]
        BY <1>9, <1>14, <3>2
      <4>2. i # k
        BY <1>2, <1>8, <2>1, <4>1
      <4>3. /\ i \in 1 .. Len(processed) /\ processed'[i] = processed[i]
        BY <1>8, <4>1, <4>2
      <4>4. PICK g \in WatchedFiles : g = processed[i].file
        BY <1>5, <4>3 DEF Entry
      <4>5. PICK v \in Nat : v = content[g]
        BY VersionBounds
      <4>6. processed[i].sign <= v /\ (processed[i].sign = v => IsProcessed(g, v))
        BY <2>1, <4>3, <4>4, <4>5 DEF WatchInv, OutputsAreOlder
      <4>7. CASE g = f
        <5>1. processed[i].sign < s /\ processed[i].sign \in Nat
          <6>1. processed[i].output /\ processed[i].file = f
            BY <2>1, <4>3, <4>4, <4>7
          <6>. QED BY <1>5, <1>11, <4>3, <6>1
        <5>2. processed[i].sign # v
          BY <1>5, <4>5, <4>7, <5>1
        <5>. QED BY <4>3, <4>4, <4>5, <4>6, <5>2
      <4>8. CASE g # f
        <5>1. IsProcessed(g, v) => IsProcessed(g, v)'
          BY <1>16, <4>8
        <5>. QED BY <4>3, <4>4, <4>5, <4>6, <5>1
      <4>. QED BY <4>7, <4>8
    <3>. QED BY <3>1, <3>2
  <2>. QED BY <1>3, <1>4, <2>1 DEF OutputsAreOlder
<1>21. ASSUME NEW g \in WatchedFiles PROVE HistoryOf(g)'
  <2>1. HistoryOf(g) /\ \A stages \in SUBSET (Early \cup {"record"}) :
          ~At(g, stages)'
    BY <1>4 DEF WatchInv, At, Early
  <2>2. ASSUME NEW v, v = content[g]
        PROVE  Len(done[g]) >= 2 => done[g][Len(done[g]) - 1] < v \/ IsProcessed(g, v)'
    <3>1. CASE g = f
      <4>1. At(f, {"record"}) \/ (At(f, Early) /\ ~At(f, {"record"}))
        BY <1>1, <1>3 DEF At, Early
      <4>2. Len(done[f]) >= 2 => done[f][Len(done[f]) - 1] <= s /\ done[f][Len(done[f]) - 1] \in Nat
        <5>1. Len(done[f]) >= 2 => Len(done[f]) - 1 \in 1 .. Len(done[f])
          BY VersionBounds
        <5>2. \A i \in 1 .. Len(done[f]) : done[f][i] \in Nat
          BY DoneAreVersions
        <5>3. CASE At(f, {"record"})
          BY <1>1, <2>1, <3>1, <5>1, <5>2, <5>3 DEF HistoryOf
        <5>4. CASE At(f, Early)
          <6>1. Len(done[f]) >= 2 => done[f][Len(done[f]) - 1] < s
            BY <1>1, <2>1, <3>1, <5>4 DEF HistoryOf
          <6>. QED BY <1>5, <5>1, <5>2, <6>1
        <5>. QED BY <4>1, <5>3, <5>4
      <4>3. CASE s = v
        BY <1>17, <3>1, <4>3
      <4>4. CASE s # v
        BY <1>5, <2>2, <3>1, <4>2, <4>4
      <4>. QED BY <4>3, <4>4
    <3>2. CASE g # f
      <4>1. ~At(g, {"record"})
        BY <1>1, <3>2 DEF At
      <4>2. IsProcessed(g, v) => IsProcessed(g, v)'
        BY <1>16, <3>2
      <4>. QED BY <2>1, <2>2, <4>1, <4>2 DEF HistoryOf
    <3>. QED BY <3>1, <3>2
  <2>. QED BY <1>3, <2>1, <2>2 DEF HistoryOf
<1>. QED BY <1>13, <1>14, <1>18, <1>19, <1>20, <1>21 DEF WatchInv, Distinct

\* Every step keeps the invariant.
LEMMA WatchStep ==
  ASSUME WatchInv, [WatchNext]_watchVars, 2 * MaxFileVersion <= MaxProcessed PROVE WatchInv'
<1>1. ASSUME NEW f \in WatchedFiles, ComesToRest(f) PROVE WatchInv'
  BY <1>1, WatchFrame, WatchTypes DEF ComesToRest, WatchInv, VersionsHaveFiles
<1>2. ASSUME NEW f \in WatchedFiles, RetryWindowEnds(f) PROVE WatchInv'
  BY <1>2, WatchFrame, WatchTypes DEF RetryWindowEnds, WatchInv, VersionsHaveFiles
<1>3. CASE Scan
  <2>1. \A f \in unseen' : content[f] # 0
    BY <1>3 DEF Scan, Present
  <2>. QED BY <1>3, <2>1, WatchFrame, WatchTypes DEF Scan, WatchInv
<1>4. CASE CheckSettled
  BY <1>4, WatchFrame, WatchTypes DEF CheckSettled, WatchInv, VersionsHaveFiles
<1>5. CASE Probe
  BY <1>5, WatchFrame, WatchTypes DEF Probe, WatchInv, VersionsHaveFiles
<1>6. CASE SkipFile
  BY <1>6, WatchFrame, WatchTypes DEF SkipFile, WatchInv, VersionsHaveFiles
<1>7. CASE UNCHANGED watchVars
  <2>1. WatchTypeOK'
    BY <1>7 DEF WatchInv, WatchTypeOK, watchVars
  <2>. QED BY <1>7, <2>1, WatchFrame DEF watchVars, WatchInv, VersionsHaveFiles
<1>. QED BY <1>1, <1>2, <1>3, <1>4, <1>5, <1>6, <1>7, WriteKeeps, LookKeeps,
            ConvertKeeps, FailKeeps, RecordKeeps DEF WatchNext, ScanStep

\* The folder watcher converts a file only once for every time it is written, and once
\* more when it was written between the look at its signature and the conversion
\* (FolderWatcher.scan_once): while the table of signatures has room for a source and
\* an output of each version, a conversion is never older than the last but one.
THEOREM ConversionsAdvance ==
  2 * MaxFileVersion <= MaxProcessed => (WatchSpec => []ConvertedTwiceOnlyWhenWritten)
<1>. SUFFICES ASSUME 2 * MaxFileVersion <= MaxProcessed
              PROVE  WatchSpec => []ConvertedTwiceOnlyWhenWritten
  OBVIOUS
<1>1. WatchInv /\ [WatchNext]_watchVars => WatchInv'
  BY WatchStep
<1>2. WatchInv => ConvertedTwiceOnlyWhenWritten
  BY DEF WatchInv, HistoryOf, ConvertedTwiceOnlyWhenWritten
<1>. QED BY WatchInitInv, <1>1, <1>2, PTL DEF WatchSpec
=============================================================================

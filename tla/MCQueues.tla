------------------------------ MODULE MCQueues ------------------------------
(***************************************************************************)
(* Three queues that several processes work off under tokens: the local    *)
(* task queue, and on the way from a monitored page to its receiver the    *)
(* checks that enqueue events and the outbox that delivers them.  They     *)
(* share no state (a check only inserts rows and a delivery only moves     *)
(* them on), so one component runs in each behaviour, with its fairness,   *)
(* while the others keep their first state.                                *)
(***************************************************************************)
EXTENDS TaskLease, MonitorBaseline, Delivery

VARIABLE focus

allVars == <<focus, vars, monitorVars, deliveryVars>>

QueuesInit ==
  /\ focus \in {"tasks", "monitor", "delivery"}
  /\ Init /\ MonitorInit /\ DeliveryInit
  /\ focus # "monitor" => page = 0

QueuesNext ==
  \/ /\ focus = "tasks" /\ Next
     /\ UNCHANGED <<focus, monitorVars, deliveryVars>>
  \/ /\ focus = "monitor" /\ MonitorNext
     /\ UNCHANGED <<focus, vars, deliveryVars>>
  \/ /\ focus = "delivery" /\ DeliveryNext
     /\ UNCHANGED <<focus, vars, monitorVars>>

\* A live worker keeps polling, an executor returns or raises, and time passes.
LeaseFairness ==
  \A w \in Workers :
    /\ WF_vars(focus = "tasks" /\ Work(w))
    /\ WF_vars(focus = "tasks" /\ Lapse(w))

\* Every detector keeps checking.
MonitorFairness ==
  \A d \in Detectors :
    /\ WF_monitorVars(focus = "monitor" /\ Fetch(d))
    /\ WF_monitorVars(focus = "monitor" /\ (Save(d) \/ Conflict(d)))

\* The end of each crawl and the monitor page dispatch again and again, requests
\* return, retries come due and leases run out.
DeliveryFairness ==
  /\ \A w \in Senders : WF_deliveryVars(focus = "delivery" /\ SenderStep(w))
  /\ \A e \in EventIds :
       /\ WF_deliveryVars(focus = "delivery" /\ ComesDueAgain(e))
       /\ WF_deliveryVars(focus = "delivery" /\ ClaimLapses(e))

QueuesSpec ==
  /\ QueuesInit /\ [][QueuesNext]_allVars
  /\ LeaseFairness /\ MonitorFairness /\ DeliveryFairness
=============================================================================

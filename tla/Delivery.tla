------------------------------ MODULE Delivery ------------------------------
(***************************************************************************)
(* Delivery of change events to a webhook: the target_deliveries table of  *)
(* scheduling/monitor_store.py and the processes that run                  *)
(* dispatch_webhooks over it (scheduling/webhook.py), for one rule and its *)
(* receiver.                                                               *)
(*                                                                         *)
(* Every claim adds an attempt, so the number of attempts stands for the   *)
(* token of the claim.  Time is abstract: a retry comes due, a lease runs  *)
(* out.  Each database transaction and each request is a step.             *)
(***************************************************************************)
EXTENDS Naturals

CONSTANTS
  MaxEvents,          \* bound: events in a behaviour
  Senders,            \* processes that dispatch
  GiveUp,             \* attempts after which a failure is final
  MaxDeliveryFaults   \* bound: crashes, lost answers, toggles, ...

ASSUME DeliveryConstants ==
  MaxEvents \in Nat /\ GiveUp \in Nat \ {0} /\ MaxDeliveryFaults \in Nat

\* Rows are read in the order they were inserted.
EventIds == 1 .. MaxEvents

VARIABLES
  row,        \* the table
  active,     \* the rule is enabled and has this receiver
  received,   \* how often the receiver accepted each event
  blemished,  \* events with a crash, a lost answer or an overlong send
  place,      \* where each sender is
  batch,      \* rows a sender read and has not come to
  sending,    \* its claim: event and token
  slips       \* faults so far

deliveryVars == <<row, active, received, blemished, place, batch, sending, slips>>

NoClaim == [event |-> 0, token |-> 0]

Statuses == {"absent", "pending", "retrying", "sending", "failed", "submitted", "cancelled"}

DeliveryRow == [status : Statuses, attempts : Nat,
                lease : {"none", "live", "past"}, due : BOOLEAN]

DeliveryTypeOK ==
  /\ row \in [EventIds -> DeliveryRow]
  /\ active \in BOOLEAN
  /\ received \in [EventIds -> Nat]
  /\ blemished \subseteq EventIds
  /\ place \in [Senders -> {"idle", "revoke", "read", "next", "send", "ack", "fail", "refused"}]
  /\ batch \in [Senders -> SUBSET EventIds]
  /\ sending \in [Senders -> [event : EventIds \cup {0}, token : Nat]]
  /\ slips \in Nat
  /\ \A w \in Senders : place[w] \in {"send", "ack", "fail", "refused"} => sending[w].event # 0

DeliveryInit ==
  /\ row = [e \in EventIds |-> [status |-> "absent", attempts |-> 0, lease |-> "none", due |-> TRUE]]
  /\ active = TRUE
  /\ received = [e \in EventIds |-> 0]
  /\ blemished = {}
  /\ place = [w \in Senders |-> "idle"]
  /\ batch = [w \in Senders |-> {}]
  /\ sending = [w \in Senders |-> NoClaim]
  /\ slips = 0

-----------------------------------------------------------------------------
(* Helpers                                                                 *)

Open == {"pending", "retrying", "sending", "failed"}

Slip == slips < MaxDeliveryFaults /\ slips' = slips + 1

Go(w, p) == place' = [place EXCEPT ![w] = p]

\* The guard of acknowledge and fail: the row is in the state of this very claim.
Owns(w, e) == row[e].status = "sending" /\ row[e].attempts = sending[w].token

InFlight(w, e) == place[w] \in {"send", "ack", "fail", "refused"} /\ sending[w].event = e

Forget(w) == sending' = [sending EXCEPT ![w] = NoClaim]

\* The claim of w ends, with a new status if the row is still its own.
Settle(w, e, status) ==
  /\ row' = IF Owns(w, e)
            THEN [row EXCEPT ![e].status = status, ![e].lease = "none", ![e].due = FALSE]
            ELSE row
  /\ Forget(w)
  /\ Go(w, "next")

-----------------------------------------------------------------------------
(* The table                                                               *)

Enqueue(e) ==
  /\ row[e].status = "absent" /\ \A f \in 1 .. e - 1 : row[f].status # "absent"
  /\ row' = [row EXCEPT ![e].status = "pending"]
  /\ UNCHANGED <<active, received, blemished, place, batch, sending, slips>>

\* next_attempt is reached; a claim does not move it.
ComesDueAgain(e) ==
  /\ row[e].status \in {"retrying", "sending"} /\ ~row[e].due
  /\ row' = [row EXCEPT ![e].due = TRUE]
  /\ UNCHANGED <<active, received, blemished, place, batch, sending, slips>>

\* 120 seconds after a claim nobody answers for any more.
ClaimLapses(e) ==
  /\ row[e].lease = "live" /\ \A w \in Senders : ~(InFlight(w, e) /\ Owns(w, e))
  /\ row' = [row EXCEPT ![e].lease = "past"]
  /\ UNCHANGED <<active, received, blemished, place, batch, sending, slips>>

\* A request that takes longer than its lease.
SendOutlasts(w) ==
  /\ place[w] \in {"send", "ack", "fail", "refused"} /\ Slip
  /\ row[sending[w].event].lease = "live" /\ Owns(w, sending[w].event)
  /\ row' = [row EXCEPT ![sending[w].event].lease = "past"]
  /\ blemished' = blemished \cup {sending[w].event}
  /\ UNCHANGED <<active, received, place, batch, sending>>

\* The owner disables the rule, or enables it again.
ToggleRule ==
  /\ Slip
  /\ active' = ~active
  /\ UNCHANGED <<row, received, blemished, place, batch, sending>>

-----------------------------------------------------------------------------
(* A sender                                                                *)

\* The rule is looked up once; rows of receivers it no longer has are cancelled.
Dispatch(w) ==
  /\ place[w] = "idle"
  /\ Go(w, IF active THEN "read" ELSE "revoke")
  /\ UNCHANGED <<row, active, received, blemished, batch, sending, slips>>

Revoke(w) ==
  /\ place[w] = "revoke"
  /\ row' = [e \in EventIds |->
              IF row[e].status \in Open
              THEN [row[e] EXCEPT !.status = "cancelled", !.lease = "none"] ELSE row[e]]
  /\ Go(w, "idle")
  /\ UNCHANGED <<active, received, blemished, batch, sending, slips>>

\* Mutant of Claimable: a lease somebody holds is taken over.
ClaimableAlways(e) == row[e].status \in Open

\* Mutant of Claimable: a row that is being sent is left to its sender, lease or not.
ClaimableOnce(e) == row[e].status \in Open \ {"sending"} /\ row[e].lease # "live"

Claimable(e) == row[e].status \in Open /\ row[e].lease # "live"

Ready(e) == row[e].status # "failed" /\ row[e].due

\* The list is read once; by the time a row's turn comes it may have moved on.
\* A retry the user asks for also takes rows that failed or are not due.
ReadPending(w) ==
  /\ place[w] = "read"
  /\ \/ batch' = [batch EXCEPT ![w] = {e \in EventIds : Claimable(e) /\ Ready(e)}]
        /\ UNCHANGED slips
     \/ batch' = [batch EXCEPT ![w] = {e \in EventIds : Claimable(e)}] /\ Slip
  /\ Go(w, "next")
  /\ UNCHANGED <<row, active, received, blemished, sending>>

First(w) == CHOOSE e \in batch[w] : \A f \in batch[w] : e <= f

Claim(w) ==
  /\ place[w] = "next" /\ batch[w] # {}
  /\ LET e == First(w)
     IN  /\ batch' = [batch EXCEPT ![w] = @ \ {e}]
         /\ IF Claimable(e)
            THEN /\ row' = [row EXCEPT ![e].status = "sending", ![e].lease = "live",
                                       ![e].attempts = @ + 1]
                 /\ sending' = [sending EXCEPT ![w] = [event |-> e, token |-> row[e].attempts + 1]]
                 /\ Go(w, "send")
            ELSE UNCHANGED <<row, sending, place>>
  /\ UNCHANGED <<active, received, blemished, slips>>

EndOfBatch(w) ==
  /\ place[w] = "next" /\ batch[w] = {}
  /\ Go(w, "idle")
  /\ UNCHANGED <<row, active, received, blemished, batch, sending, slips>>

\* The receiver accepts, and its answer arrives.
Accepted(w) ==
  /\ place[w] = "send"
  /\ received' = [received EXCEPT ![sending[w].event] = @ + 1]
  /\ Go(w, "ack")
  /\ UNCHANGED <<row, active, blemished, batch, sending, slips>>

\* The receiver accepts, but the answer is lost.
AnswerLost(w) ==
  /\ place[w] = "send" /\ Slip
  /\ received' = [received EXCEPT ![sending[w].event] = @ + 1]
  /\ blemished' = blemished \cup {sending[w].event}
  /\ Go(w, "fail")
  /\ UNCHANGED <<row, active, batch, sending>>

\* The request fails for now, or the receiver refuses it for good (HTTP 4xx).
NotAccepted(w) ==
  /\ place[w] = "send"
  /\ \E p \in {"fail", "refused"} : Go(w, p)
  /\ UNCHANGED <<row, active, received, blemished, batch, sending, slips>>

Acknowledge(w) ==
  /\ place[w] = "ack"
  /\ Settle(w, sending[w].event, "submitted")
  /\ UNCHANGED <<active, received, blemished, batch, slips>>

\* acknowledge raises inside the handler that calls fail.
AcknowledgeRaises(w) ==
  /\ place[w] = "ack" /\ Slip
  /\ blemished' = blemished \cup {sending[w].event}
  /\ Go(w, "fail")
  /\ UNCHANGED <<row, active, received, batch, sending>>

Fail(w) ==
  /\ place[w] \in {"fail", "refused"}
  /\ LET e == sending[w].event
     IN  Settle(w, e, IF place[w] = "refused" \/ row[e].attempts >= GiveUp
                      THEN "failed" ELSE "retrying")
  /\ UNCHANGED <<active, received, blemished, batch, slips>>

\* A kill, or an exception of fail itself: the claim stays until its lease runs out.
SenderDies(w) ==
  /\ place[w] # "idle" /\ Slip
  /\ blemished' = IF place[w] \in {"send", "ack", "fail", "refused"}
                  THEN blemished \cup {sending[w].event} ELSE blemished
  /\ Go(w, "idle")
  /\ batch' = [batch EXCEPT ![w] = {}]
  /\ Forget(w)
  /\ UNCHANGED <<row, active, received>>

SenderStep(w) ==
  \/ Dispatch(w) \/ Revoke(w) \/ ReadPending(w) \/ Claim(w) \/ EndOfBatch(w)
  \/ Accepted(w) \/ NotAccepted(w) \/ Acknowledge(w) \/ Fail(w)

DeliveryNext ==
  \/ \E e \in EventIds : Enqueue(e) \/ ComesDueAgain(e) \/ ClaimLapses(e)
  \/ ToggleRule
  \/ \E w \in Senders :
       \/ SenderStep(w) \/ SendOutlasts(w) \/ AnswerLost(w)
       \/ AcknowledgeRaises(w) \/ SenderDies(w)

DeliverySpec == DeliveryInit /\ [][DeliveryNext]_deliveryVars

-----------------------------------------------------------------------------
(* Properties                                                              *)

\* An event is reported as submitted only when the receiver accepted it, and it is
\* accepted twice only after a crash, a lost answer, a failed acknowledgement or a
\* send that outlasted its lease.
DeliveryIsHonest ==
  /\ DeliveryTypeOK
  /\ \A e \in EventIds :
       /\ row[e].status = "submitted" => received[e] > 0
       /\ received[e] > 1 => e \in blemished

\* Every event is delivered, given up after GiveUp attempts or a refusal, or
\* cancelled, whatever crashed while it was sent.
EventIsSettled ==
  \A e \in EventIds :
    row[e].status # "absent" ~> row[e].status \in {"submitted", "failed", "cancelled"}
=============================================================================

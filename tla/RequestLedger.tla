--------------------------- MODULE RequestLedger ---------------------------
(***************************************************************************)
(* What the crawl promises about every request, without queues, threads or *)
(* tables.  While a crawl is live a request moves one way: it is admitted, *)
(* taken by one fetch, and then settled or handed back, once.  A settled   *)
(* request can be reopened, and a taken one released, only between crawls. *)
(***************************************************************************)
CONSTANT Requests

VARIABLES
  ledger,   \* what is known of each request
  live      \* a crawl is between the end of its setup and its exit

ledgerVars == <<ledger, live>>

Init == ledger = [u \in Requests |-> "unknown"] /\ live = FALSE

\* A table that equals the ledger but for the requests of S, which are now s.
With(S, s) == [u \in Requests |-> IF u \in S THEN s ELSE ledger[u]]

\* One fetch per request: only a request nobody holds is taken.
Take(S) ==
  /\ live
  /\ \A u \in S : ledger[u] = "todo"
  /\ ledger' = With(S, "taken")
  /\ UNCHANGED live

\* The holder is done with u and may have discovered new requests meanwhile.
Resolve(u, verdict, found) ==
  /\ ledger[u] = "taken"
  /\ \A v \in found : ledger[v] = "unknown"
  /\ ledger' = [With(found, "todo") EXCEPT ![u] = verdict]
  /\ UNCHANGED live

Admit(found) ==
  /\ \A v \in found : ledger[v] = "unknown"
  /\ ledger' = With(found, "todo")
  /\ UNCHANGED live

\* A redirect that was delivered under another request answers u as well.
Absorb(u) ==
  /\ ledger[u] \in {"unknown", "todo"}
  /\ ledger' = [ledger EXCEPT ![u] = "settled"]
  /\ UNCHANGED live

\* Between crawls claims are released, settled work may be reopened or
\* forgotten; nothing is taken or settled.
Reopen ==
  /\ ~live
  /\ \E next \in [Requests -> {"unknown", "todo", "taken", "settled"}] :
       /\ \A u \in Requests : next[u] \in {"taken", "settled"} => next[u] = ledger[u]
       /\ ledger' = next
  /\ UNCHANGED live

\* A crawl opens only once every abandoned claim has been released.
Open ==
  /\ ~live
  /\ \A u \in Requests : ledger[u] # "taken"
  /\ live' = TRUE
  /\ UNCHANGED ledger

\* Exit or crash.  What a crash interrupts may be settled already.
Close(S) ==
  /\ live /\ live' = FALSE
  /\ \A u \in S : ledger[u] = "taken"
  /\ ledger' = With(S, "settled")

Next ==
  \/ \E S \in SUBSET Requests : Take(S) \/ Admit(S) \/ Close(S)
  \/ \E u \in Requests, verdict \in {"todo", "settled"}, S \in SUBSET Requests :
       Resolve(u, verdict, S)
  \/ \E u \in Requests : Absorb(u)
  \/ Reopen \/ Open

Spec == Init /\ [][Next]_ledgerVars
=============================================================================

------------------------------ MODULE Frontier ------------------------------
(***************************************************************************)
(* The request queue table of state/state_store_queue.py (class            *)
(* QueueMixin), one operator per method.  A table maps every request       *)
(* fingerprint to its row; a fingerprint without a row is "absent".  Each  *)
(* operator is one committed SQLite transaction: it takes the table and    *)
(* returns the table the transaction leaves.  Claim order (bfs, dfs,       *)
(* priority, random) and row payloads are left out: the properties only    *)
(* need which rows are claimed, not in which order.                        *)
(***************************************************************************)
EXTENDS Naturals, FiniteSets

CONSTANTS
  Requests,      \* fingerprints the tasks can ever name
  CursorPages,   \* requests generated by API cursor pagination (meta flag)
  MaxAttempts    \* http.retries, passed to mark_failed

ASSUME RequestsFinite == IsFiniteSet(Requests)
ASSUME CursorPagesAreRequests == CursorPages \subseteq Requests
ASSUME MaxAttemptsNat == MaxAttempts \in Nat

Statuses == {"absent", "pending", "in_progress", "done", "failed", "blocked"}

\* last_error, reduced to the class of exception that wrote it.
Errors == {"none", "fetch", "extract", "policy", "stopped", "session"}

\* alias: meta_json._redirect_alias_of is set; auth: meta_json._auth_failure is set.
Row == [status : Statuses, attempts : Nat, error : Errors,
        alias : BOOLEAN, auth : BOOLEAN]

Tables == [Requests -> Row]

NoRow == [status |-> "absent", attempts |-> 0, error |-> "none",
          alias |-> FALSE, auth |-> FALSE]

Settled == {"done", "failed", "blocked"}

InStatus(t, S) == {u \in Requests : t[u].status \in S}

Pending(t) == InStatus(t, {"pending"})

\* A row sent back to the queue keeps attempts; "reset" also clears them.
Requeued(row) == [row EXCEPT !.status = "pending", !.error = "none"]
Reset(row) == [row EXCEPT !.status = "pending", !.error = "none", !.attempts = 0]

-----------------------------------------------------------------------------
(* Start of a cycle                                                        *)

\* Mutant of PrepareCycle: in-progress rows are left to their dead process.
PrepareCycleKeepsClaims(t, resetAll, resetCursor) ==
  [u \in Requests |->
     IF \/ resetCursor /\ u \in CursorPages
        \/ resetAll /\ t[u].alias
     THEN NoRow
     ELSE IF resetAll /\ t[u].status \in Settled THEN Reset(t[u]) ELSE t[u]]

\* In-progress rows of a dead process return to the queue; a full reset drops
\* the redirect aliases and reopens everything settled.
PrepareCycle(t, resetAll, resetCursor) ==
  [u \in Requests |->
     LET dropped == \/ resetCursor /\ u \in CursorPages
                    \/ resetAll /\ t[u].alias
         row == IF t[u].status = "in_progress"
                THEN [t[u] EXCEPT !.status = "pending"] ELSE t[u]
     IN  IF dropped THEN NoRow
         ELSE IF resetAll /\ row.status \in Settled THEN Reset(row) ELSE row]

\* The unselective retry: every failed row, whatever the cause of its failure.
RetryFailed(t) ==
  [u \in Requests |-> IF t[u].status = "failed" THEN Reset(t[u]) ELSE t[u]]

\* recover_incomplete_runs with stale_seconds = 0.
ReleaseClaims(t) ==
  [u \in Requests |-> IF t[u].status = "in_progress"
                      THEN [t[u] EXCEPT !.status = "pending"] ELSE t[u]]

\* Mutant of Discover: INSERT OR REPLACE, sparing what is being fetched.
DiscoverAgain(t, S) ==
  [u \in Requests |-> IF u \in S /\ t[u].status # "in_progress"
                      THEN [NoRow EXCEPT !.status = "pending"] ELSE t[u]]

\* INSERT OR IGNORE, one statement per request of S.
Discover(t, S) ==
  [u \in Requests |-> IF u \in S /\ t[u].status = "absent"
                      THEN [NoRow EXCEPT !.status = "pending"] ELSE t[u]]

\* enqueue(force=True): a known row is pulled back to pending, attempts kept.
EnqueueForced(t, u) ==
  [t EXCEPT ![u] = IF @.status = "absent"
                   THEN [NoRow EXCEPT !.status = "pending"] ELSE Requeued(@)]

-----------------------------------------------------------------------------
(* Claim and settlement                                                    *)

\* The conditional UPDATE: only rows that are still pending change.
Claim(t, S) ==
  [u \in Requests |-> IF u \in S /\ t[u].status = "pending"
                      THEN [t[u] EXCEPT !.status = "in_progress"] ELSE t[u]]

\* Unconditional UPDATE by fingerprint.
MarkDone(t, u, status, error) ==
  [t EXCEPT ![u].status = status, ![u].error = error]

\* Mutant of MarkRedirectTargetDone: a target that is being fetched is finished.
MarkRedirectTargetDoneAlways(t, target) ==
  CASE t[target].status = "absent" ->
         [t EXCEPT ![target] = [NoRow EXCEPT !.status = "done", !.alias = TRUE]]
    [] OTHER -> [t EXCEPT ![target].status = "done", ![target].error = "none"]

\* The redirect target becomes a finished alias, unless it is being fetched.
MarkRedirectTargetDone(t, target) ==
  CASE t[target].status = "absent" ->
         [t EXCEPT ![target] = [NoRow EXCEPT !.status = "done", !.alias = TRUE]]
    [] t[target].status \in {"pending", "failed", "blocked"} ->
         [t EXCEPT ![target].status = "done", ![target].error = "none"]
    [] OTHER -> t

\* Mutant of MayRetry: attempts are not counted against http.retries.
MayRetryForever(row, error, retryable) == retryable /\ error # "session"

\* A real failure: attempts + 1, and back to the queue while budget remains.
MayRetry(row, error, retryable) ==
  /\ retryable
  /\ error # "session"
  /\ row.attempts + 1 < MaxAttempts

MarkFailed(t, u, error, retryable) ==
  [t EXCEPT ![u].status = IF MayRetry(t[u], error, retryable) THEN "pending" ELSE "failed",
            ![u].attempts = @ + 1,
            ![u].error = error,
            ![u].auth = (error = "session")]
=============================================================================

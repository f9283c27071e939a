-------------------------- MODULE RestoreContract --------------------------
(***************************************************************************)
(* What the snapshots and rollbacks of a workspace promise its owner: the  *)
(* pair of configuration and database changes by an edit of one of them,   *)
(* or as a whole to a pair some snapshot holds, and by nothing else: no    *)
(* crash and no failed rollback leaves one half of each.  What the owner   *)
(* writes while a rollback is pending is not promised: it is lost, or the  *)
(* last of it is what the rollback leaves.                                 *)
(***************************************************************************)
EXTENDS Naturals, Sequences

VARIABLES
  visible,  \* [config, db]: the versions a recovered workspace shows
  taken,    \* the snapshots, in the order they were written
  version,  \* the last version written by an edit
  pending,  \* a rollback has begun and not ended
  late      \* an edit that came after it wrote the configuration; 0: none

contractVars == <<visible, taken, version, pending, late>>

ContractInit ==
  /\ visible = [config |-> 0, db |-> 0]
  /\ taken = <<>>
  /\ version = 0
  /\ pending = FALSE /\ late = 0

\* The configuration file is edited, or a store commits.
Change(part) ==
  /\ ~pending
  /\ version' = version + 1
  /\ visible' = [visible EXCEPT ![part] = version + 1]
  /\ UNCHANGED <<taken, pending, late>>

\* A snapshot holds versions that existed.
Take(pair) ==
  /\ taken' = Append(taken, pair)
  /\ UNCHANGED <<visible, version, pending, late>>

\* From here on the workspace is the pair that was kept, until the rollback ends.
Begin(s) ==
  /\ ~pending /\ pending' = TRUE
  /\ visible' = taken[s]
  /\ UNCHANGED <<taken, version, late>>

EditPending ==
  /\ pending
  /\ version' = version + 1
  /\ late' \in {late, version + 1}
  /\ UNCHANGED <<visible, taken, pending>>

\* The rollback is interrupted: whoever ends it writes the configuration again.
Drop ==
  /\ pending /\ late' = 0
  /\ UNCHANGED <<visible, taken, version, pending>>

End(s) ==
  /\ pending /\ pending' = FALSE
  /\ visible' = IF late = 0 THEN taken[s] ELSE [taken[s] EXCEPT !.config = late]
  /\ late' = 0
  /\ UNCHANGED <<taken, version>>

ContractNext ==
  \/ \E part \in {"config", "db"} : Change(part)
  \/ \E c, d \in 0 .. version : Take([config |-> c, db |-> d])
  \/ \E s \in DOMAIN taken : Begin(s) \/ End(s)
  \/ EditPending \/ Drop

ContractSpec == ContractInit /\ [][ContractNext]_contractVars
=============================================================================

--------------------------- MODULE RegistryContract ---------------------------
(***************************************************************************)
(* What the component registry promises: the set of installed components   *)
(* and the entry a rollback returns to change together, by one whole       *)
(* command at a time, whatever process dies in the middle of one.          *)
(***************************************************************************)
CONSTANTS Components, Packages, None

VARIABLES
  live,  \* the installed package of each component
  back   \* the package a rollback of the component would install

Entries == [Components -> Packages \cup {None}]

ContractInit ==
  /\ live = [c \in Components |-> None]
  /\ back = [c \in Components |-> None]

\* An installed package makes way for another one, or for none, and can be had back.
Replace(c, p) ==
  /\ live' = [live EXCEPT ![c] = p]
  /\ back' = IF live[c] = None THEN back ELSE [back EXCEPT ![c] = live[c]]

Import(c, p) == Replace(c, p)

Uninstall(c) == live[c] # None /\ Replace(c, None)

Rollback(c) == back[c] # None /\ Replace(c, back[c])

ContractNext ==
  \E c \in Components :
    \/ \E p \in Packages : Import(c, p)
    \/ Uninstall(c) \/ Rollback(c)

ContractSpec == ContractInit /\ [][ContractNext]_<<live, back>>
=============================================================================

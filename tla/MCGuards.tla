------------------------------- MODULE MCGuards -------------------------------
(***************************************************************************)
(* What must survive a crash, an exception or another process at any step: *)
(* the restore of a workspace, the update of the program, the egress       *)
(* broker, the component registry, the repair of a rule, and the delivery  *)
(* of a run.  They share no state, so one of them runs in each behaviour   *)
(* while the others keep their first state.                                *)
(***************************************************************************)
EXTENDS WorkspaceRestore, Updater, EgressBroker, ComponentRegistry, RepairLoop, ExportCommit

VARIABLE focus

allVars == <<focus, restoreVars, updateVars, egressVars, registryVars, repairVars, exportVars>>

-----------------------------------------------------------------------------
(* Data of the instances                                                   *)

\* configs/c is the user's; the second release drops a, and the third ships it again.
MCFiles == {"a", "b", "configs/c"}
MCUserOwned == {"configs/c"}
MCManifest == <<[f \in MCFiles |-> 1],
                [f \in MCFiles |-> IF f = "a" THEN 0 ELSE 2],
                [f \in MCFiles |-> IF f = "b" THEN 2 ELSE 3]>>

\* An engine and its language data: ocr2 needs lang2, lang1 works with either engine.
MCPackages == {"ocr1", "ocr2", "lang1", "lang2"}
MCNameOf == [p \in MCPackages |-> IF p \in {"ocr1", "ocr2"} THEN "ocr" ELSE "lang"]
MCNeeds == [p \in MCPackages |-> CASE p = "ocr2" -> {{"lang2"}}
                                   [] p = "lang1" -> {{"ocr1", "ocr2"}}
                                   [] OTHER -> {}]

\* Each piece of evidence gives a comparison of its own; the good ones improve.
MCGood == {"good1", "good2"}
MCEvidence == MCGood \cup {"bad1", "bad2"}
MCOutcome == [e \in MCEvidence |-> e]

-----------------------------------------------------------------------------
(* One component at a time                                                 *)

GuardsInit ==
  /\ focus \in {"restore", "update", "egress", "registry", "repair", "export"}
  /\ RestoreInit /\ UpdateInit /\ EgressInit /\ RegistryInit /\ RepairInit /\ ExportInit

GuardsNext ==
  \/ /\ focus = "restore" /\ RestoreNext
     /\ UNCHANGED <<focus, updateVars, egressVars, registryVars, repairVars, exportVars>>
  \/ /\ focus = "update" /\ UpdateNext
     /\ UNCHANGED <<focus, restoreVars, egressVars, registryVars, repairVars, exportVars>>
  \/ /\ focus = "egress" /\ EgressNext
     /\ UNCHANGED <<focus, restoreVars, updateVars, registryVars, repairVars, exportVars>>
  \/ /\ focus = "registry" /\ RegistryNext
     /\ UNCHANGED <<focus, restoreVars, updateVars, egressVars, repairVars, exportVars>>
  \/ /\ focus = "repair" /\ RepairNext
     /\ UNCHANGED <<focus, restoreVars, updateVars, egressVars, registryVars, exportVars>>
  \/ /\ focus = "export" /\ ExportNext
     /\ UNCHANGED <<focus, restoreVars, updateVars, egressVars, registryVars, repairVars>>

GuardsSpec == GuardsInit /\ [][GuardsNext]_allVars
=============================================================================

------------------------------ MODULE RepairLoop ------------------------------
(***************************************************************************)
(* Repair of an extraction rule (services/repair_workflow.py): apply,      *)
(* observe and rollback of one candidate, the record .repair-active.json   *)
(* and the counts of quality/observation_store.py, which a crash may leave *)
(* at any write, next to an owner who edits the configuration.             *)
(*                                                                         *)
(* The lease of the workspace admits one command at a time.  A digest is   *)
(* the content it stands for.  The comparison of a piece of evidence is a  *)
(* constant, and comments and layout of the file are left out.             *)
(***************************************************************************)
EXTENDS Naturals, FiniteSets

CONSTANTS
  Evidence,          \* evidence files that differ in text, labels or grouping
  Improving,         \* those on which the candidate improves safely
  Outcome,           \* Outcome[e]: the comparison, as last_compare_json keeps it
  NoResult,              \* no comparison yet, or no command
  RequiredRounds,    \* l3_required_observation_rounds
  RegressionLimit,   \* l2_regression_threshold
  MaxEdits,          \* bound: edits by the owner
  MaxObservations,   \* bound: counted rounds
  MaxRepairFaults    \* bound: crashes and exceptions

ASSUME RepairConstants ==
  /\ Improving \subseteq Evidence
  /\ NoResult \notin {Outcome[e] : e \in Evidence}
  /\ RequiredRounds \in Nat /\ RegressionLimit \in Nat \ {0}
  /\ MaxEdits \in Nat /\ MaxObservations \in Nat /\ MaxRepairFaults \in Nat

VARIABLES
  content,      \* the configuration file
  record,       \* .repair-active.json
  row,          \* the candidate's row of obs_candidates
  used,         \* its rows of obs_evidence
  repairStep,   \* where the command is
  loaded,       \* the configuration it loaded, or published
  raced,        \* the owner edited the file while a command ran
  repairFaults

repairVars == <<content, record, row, used, repairStep, loaded, raced, repairFaults>>

\* base: the owner's last edit; repaired: the new rule is in; audit: _repair.status.
Content == [base : Nat, repaired : BOOLEAN, audit : {"none", "observing", "stable"}]

\* kept: the history snapshot; active, prepared: the digests in the record.
Record == [phase : {"none", "prepared", "applied", "not_applied", "rolled_back"},
           kept : Content, active : Content, prepared : Content]

Row == [seen : BOOLEAN, applied : BOOLEAN, rounds : Nat, regressions : Nat,
        flagged : BOOLEAN, risky : BOOLEAN, last : {Outcome[e] : e \in Evidence} \cup {NoResult}]

RepairTypeOK ==
  /\ content \in Content /\ loaded \in Content
  /\ record \in Record
  /\ row \in Row
  /\ used \subseteq Evidence
  /\ repairStep \in {"idle", "compared", "recorded", "decided", "publish",
                     "republish", "published", "observe", "stable", "restore", "mark", "close"}
  /\ raced \in BOOLEAN /\ repairFaults \in Nat

Original == [base |-> 0, repaired |-> FALSE, audit |-> "none"]

RepairInit ==
  /\ content = Original /\ loaded = Original
  /\ record = [phase |-> "none", kept |-> Original, active |-> Original, prepared |-> Original]
  /\ row = [seen |-> FALSE, applied |-> FALSE, rounds |-> 0, regressions |-> 0,
            flagged |-> FALSE, risky |-> FALSE, last |-> NoResult]
  /\ used = {}
  /\ repairStep = "idle"
  /\ raced = FALSE /\ repairFaults = 0

-----------------------------------------------------------------------------
(* Helpers                                                                 *)

At(place) == repairStep = place

Then(place) == repairStep' = place

\* _publish: the file as it is by now gets the rule and an audit note.
Repaired(audit) == [content EXCEPT !.repaired = TRUE, !.audit = audit]

Unaudited(c) == [c EXCEPT !.audit = "none"]

\* A row that promote_for_candidate finds has lost the candidate's origin.
Tier(llm, confident) ==
  IF row.rounds >= RequiredRounds /\ ~row.risky THEN 3
  ELSE IF llm /\ confident THEN 2
  ELSE IF ~llm \/ row.seen THEN 1
  ELSE 0

-----------------------------------------------------------------------------
(* The owner                                                               *)

\* The file is edited by hand, and the rule perhaps taken back.
Edit ==
  /\ content.base < MaxEdits
  /\ \E kept \in {content.repaired, FALSE} :
       content' = [content EXCEPT !.base = @ + 1, !.repaired = kept]
  /\ raced' = (raced \/ ~At("idle"))
  /\ UNCHANGED <<record, row, used, repairStep, loaded, repairFaults>>

-----------------------------------------------------------------------------
(* apply                                                                   *)

\* The candidate is compared with what was loaded; evidence that does not improve
\* and an unfinished or active repair end the command.
BeginApply ==
  /\ At("idle") /\ record.phase \notin {"prepared", "applied"} /\ ~content.repaired
  /\ loaded' = content
  /\ Then("compared")
  /\ UNCHANGED <<content, record, row, used, raced, repairFaults>>

\* The history snapshot is the file as it is by now.
Prepare ==
  /\ At("compared")
  /\ record' = [record EXCEPT !.phase = "prepared", !.kept = content,
                              !.prepared = [Unaudited(loaded) EXCEPT !.repaired = TRUE]]
  /\ Then("recorded")
  /\ UNCHANGED <<content, row, used, loaded, raced, repairFaults>>

\* observed_auto_apply: a tier, and from L2 on the application is recorded.
Decide(e, llm, confident) ==
  /\ At("recorded") /\ e \in Improving
  /\ LET tier == Tier(llm, confident)
     IN  /\ row' = IF tier >= 2
                   THEN [row EXCEPT !.seen = TRUE, !.applied = TRUE,
                                    !.regressions = 0, !.flagged = FALSE]
                   ELSE [row EXCEPT !.seen = TRUE]
         /\ used' = IF tier >= 2 THEN used \cup {e} ELSE used
         /\ loaded' = [loaded EXCEPT !.audit = IF tier = 3 THEN "stable" ELSE "observing"]
         /\ Then(IF tier = 0 THEN "decided" ELSE "publish")
  /\ UNCHANGED <<content, record, raced, repairFaults>>

NotApplied ==
  /\ At("decided")
  /\ record' = [record EXCEPT !.phase = "not_applied"]
  /\ Then("idle")
  /\ UNCHANGED <<content, row, used, loaded, raced, repairFaults>>

\* Mutant of Publish: what was loaded is written, not what the file is by now.
PublishLoaded ==
  /\ At("publish")
  /\ content' = [loaded EXCEPT !.repaired = TRUE]
  /\ loaded' = content'
  /\ Then("published")
  /\ UNCHANGED <<record, row, used, raced, repairFaults>>

\* The file has to be the one in the snapshot.  An edit between its last read and
\* its replacement is left out.
Publish ==
  /\ At("publish")
  /\ \/ /\ content = record.kept
        /\ content' = Repaired(loaded.audit) /\ loaded' = content'
        /\ Then("published")
     \/ content # record.kept /\ Then("idle") /\ UNCHANGED <<content, loaded>>
  /\ UNCHANGED <<record, row, used, raced, repairFaults>>

Published ==
  /\ At("published")
  /\ record' = [record EXCEPT !.phase = "applied", !.active = loaded]
  /\ Then("idle")
  /\ UNCHANGED <<content, row, used, loaded, raced, repairFaults>>

-----------------------------------------------------------------------------
(* observe                                                                 *)

BeginObserve ==
  /\ At("idle") /\ record.phase = "applied" /\ content = record.active
  /\ loaded' = content
  /\ Then("observe")
  /\ UNCHANGED <<content, record, row, used, raced, repairFaults>>

\* Evidence seen before, which compares as the last one did.
Replayed(e) == e \in used /\ row.last \in {NoResult, Outcome[e]}

Stable(r) == r.rounds >= RequiredRounds /\ ~r.risky

\* record_observation of an improvement; enough of them, and L3 is reached.
ObserveGood(e) ==
  /\ At("observe") /\ e \in Improving /\ row.rounds < MaxObservations
  /\ \/ Replayed(e) /\ UNCHANGED row
     \/ /\ ~Replayed(e)
        /\ \E risk \in {row.risky, FALSE} :
             row' = [row EXCEPT !.seen = TRUE, !.last = Outcome[e], !.risky = risk,
                       !.rounds = IF row.applied THEN @ + 1 ELSE @,
                       !.regressions = IF row.applied THEN 0 ELSE @]
  /\ used' = used \cup {e}
  /\ Then(IF Stable(row') THEN "stable" ELSE "idle")
  /\ UNCHANGED <<content, record, loaded, raced, repairFaults>>

\* record_observation of a regression: at the limit it directs a rollback, once.
ObserveBad(e) ==
  LET regressions == row.regressions + 1
      directive == row.applied /\ regressions >= RegressionLimit /\ ~row.flagged
  IN  /\ At("observe") /\ e \in Evidence \ Improving /\ row.regressions < MaxObservations
      /\ \/ Replayed(e) /\ Then("idle") /\ UNCHANGED row
         \/ /\ ~Replayed(e)
            /\ \E risk \in {row.risky, TRUE} :
                 row' = [row EXCEPT !.seen = TRUE, !.last = Outcome[e], !.risky = risk,
                           !.regressions = IF row.applied THEN regressions ELSE @,
                           !.flagged = @ \/ directive]
            /\ Then(IF directive THEN "restore" ELSE "idle")
      /\ used' = used \cup {e}
      /\ UNCHANGED <<content, record, loaded, raced, repairFaults>>

\* The record goes back to prepared while the audit note is rewritten.
Promote ==
  /\ At("stable")
  /\ record' = [record EXCEPT !.phase = "prepared"]
  /\ Then("republish")
  /\ UNCHANGED <<content, row, used, loaded, raced, repairFaults>>

Republish ==
  /\ At("republish")
  /\ content' = Repaired("stable") /\ loaded' = content'
  /\ Then("published")
  /\ UNCHANGED <<record, row, used, raced, repairFaults>>

-----------------------------------------------------------------------------
(* rollback                                                                *)

\* Mutant of RollbackAllowed: the audit note counts as an edit.
RollbackAllowedExactly ==
  \/ record.phase = "applied" /\ content = record.active
  \/ record.phase = "prepared" /\ content \in {record.kept, record.prepared}

\* The configuration is what the record says, so that no edit is overwritten.
RollbackAllowed ==
  \/ record.phase = "applied" /\ content = record.active
  \/ record.phase = "prepared"
     /\ (content = record.kept \/ Unaudited(content) = record.prepared)

BeginRollback ==
  /\ At("idle") /\ RollbackAllowed
  /\ Then("restore")
  /\ UNCHANGED <<content, record, row, used, loaded, raced, repairFaults>>

\* Of a rollback, or of an observation that directed one.
Restore ==
  /\ At("restore")
  /\ content' = record.kept
  /\ Then("mark")
  /\ UNCHANGED <<record, row, used, loaded, raced, repairFaults>>

MarkRolledBack ==
  /\ At("mark")
  /\ row' = [row EXCEPT !.flagged = FALSE, !.regressions = 0]
  /\ Then("close")
  /\ UNCHANGED <<content, record, used, loaded, raced, repairFaults>>

CloseRepair ==
  /\ At("close")
  /\ record' = [record EXCEPT !.phase = "rolled_back"]
  /\ Then("idle")
  /\ UNCHANGED <<content, row, used, loaded, raced, repairFaults>>

\* A kill or an exception: the next command finds what was written.
Interrupted ==
  /\ ~At("idle") /\ repairFaults < MaxRepairFaults
  /\ Then("idle")
  /\ repairFaults' = repairFaults + 1
  /\ UNCHANGED <<content, record, row, used, loaded, raced>>

RepairNext ==
  \/ Edit
  \/ BeginApply \/ Prepare \/ NotApplied \/ Publish \/ Published
  \/ \E e \in Evidence, llm, confident \in BOOLEAN : Decide(e, llm, confident)
  \/ BeginObserve
  \/ \E e \in Evidence : ObserveGood(e) \/ ObserveBad(e)
  \/ Promote \/ Republish
  \/ BeginRollback \/ Restore \/ MarkRolledBack \/ CloseRepair
  \/ Interrupted

RepairSpec == RepairInit /\ [][RepairNext]_repairVars

-----------------------------------------------------------------------------
(* Properties                                                              *)

\* No command takes back an edit of the owner, whatever was interrupted before it,
\* except a rollback that the edit overtook (REPAIR_WORKFLOW.md: an active
\* configuration that was edited by hand is not overwritten).
EditsKept ==
  [][content'.base < content.base => At("restore") /\ raced]_repairVars

\* A rule is never in the configuration without the record that undoes it, and as long
\* as nobody edited the file a rollback accepts it, wherever apply or observe died.
RepairIsTracked ==
  /\ RepairTypeOK
  /\ content.repaired /\ ~raced =>
       /\ record.phase \in {"prepared", "applied"} /\ ~record.kept.repaired
       /\ At("idle") /\ content.base = record.kept.base => RollbackAllowed
=============================================================================

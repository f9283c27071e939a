----------------------------- MODULE ExportCommit -----------------------------
(***************************************************************************)
(* Delivery of a run (pipeline/_exports.py over state_store_runs.py): the  *)
(* default export into the output directory, which is reused while its     *)
(* input and its files are unchanged, and a plugin that submits records    *)
(* elsewhere.  Beside the one pipeline that holds the session lease, other *)
(* connections edit records, the recovery center marks runs, and files of  *)
(* the output directory change.                                            *)
(*                                                                         *)
(* The input of a run is a version: records, errors, the row of the run    *)
(* itself.  What a crawl or a reprocessing does before it exports is one   *)
(* change of it.  Downloaded source files are left out.                    *)
(***************************************************************************)
EXTENDS Naturals

CONSTANTS
  Runs,
  Nothing,             \* no run, file or checkpoint
  Altered,          \* a file somebody else wrote
  MaxInput,         \* bound: changes of the runs' inputs
  MaxExportFaults   \* bound: crashes, interrupts, exceptions and altered files

ASSUME ExportConstants ==
  /\ Nothing \notin Runs /\ Altered # Nothing
  /\ MaxInput \in Nat /\ MaxExportFaults \in Nat

VARIABLES
  status,       \* the row of each run
  input,        \* version of its input
  lastInput,    \* the last version given
  commits,      \* export_commits of each run
  receipt,      \* its export_input checkpoint
  output,       \* the files of the output directory
  submitted,    \* submissions by the plugin
  repeats,      \* attempts that asked for, or left open, another submission
  stranded,     \* a finished run was left with a commit nobody will settle
  task,         \* the job of the pipeline
  point,        \* where it is
  digest,       \* the input it exports
  exportFaults

exportVars == <<status, input, lastInput, commits, receipt, output, submitted, repeats,
                stranded, task, point, digest, exportFaults>>

Exporters == {"default", "plugin"}

File == [run : Runs, version : Nat]

ExportTypeOK ==
  /\ status \in [Runs -> {"none", "running", "retrying", "finished"}]
  /\ input \in [Runs -> Nat] /\ lastInput \in Nat
  /\ commits \in [Runs -> [Exporters -> {"none", "running", "failed", "retrying", "succeeded"}]]
  /\ \A r \in Runs :
       receipt[r] = Nothing \/ (receipt[r].version \in Nat
                             /\ receipt[r].files \in File \cup {Nothing, Altered})
  /\ output \in File \cup {Nothing, Altered}
  /\ submitted \in [Runs -> Nat] /\ repeats \in [Runs -> Nat]
  /\ stranded \in [Runs -> BOOLEAN]
  /\ task \in [kind : {"none", "run", "reprocess", "again"}, run : Runs \cup {Nothing}]
  /\ point \in {"idle", "digest", "fresh", "stale", "write", "finish", "submit", "record",
                "plugin", "end"}
  /\ digest \in Nat /\ exportFaults \in Nat

NoTask == [kind |-> "none", run |-> Nothing]

ExportInit ==
  /\ status = [r \in Runs |-> "none"]
  /\ input = [r \in Runs |-> 0] /\ lastInput = 0
  /\ commits = [r \in Runs |-> [x \in Exporters |-> "none"]]
  /\ receipt = [r \in Runs |-> Nothing]
  /\ output = Nothing
  /\ submitted = [r \in Runs |-> 0] /\ repeats = [r \in Runs |-> 0]
  /\ stranded = [r \in Runs |-> FALSE]
  /\ task = NoTask
  /\ point = "idle"
  /\ digest = 0 /\ exportFaults = 0

-----------------------------------------------------------------------------
(* Helpers                                                                 *)

Forcing == task.kind = "reprocess"

CommitOf(x) == commits[task.run][x]

SetCommit(x, value) == commits' = [commits EXCEPT ![task.run][x] = value]

ChangeInput(r) ==
  /\ lastInput < MaxInput
  /\ lastInput' = lastInput + 1
  /\ input' = [input EXCEPT ![r] = lastInput + 1]

inputVars == <<input, lastInput>>
outsideVars == <<submitted, repeats, stranded>>

\* However a crawl ends, finish_run writes the row of its run, which is part of the
\* run's input; another job leaves the row alone.
EndTask ==
  /\ IF task.kind = "run" THEN ChangeInput(task.run) ELSE UNCHANGED inputVars
  /\ status' = IF task.kind = "run" THEN [status EXCEPT ![task.run] = "finished"] ELSE status
  /\ task' = NoTask
  /\ point' = "idle"
  /\ digest' = 0

-----------------------------------------------------------------------------
(* The pipeline                                                            *)

\* A crawl of a new run, a reprocessing of an old one, which resets its records, or
\* an export of one.
StartTask(kind, r) ==
  /\ point = "idle"
  /\ kind = "run" <=> status[r] = "none"
  /\ status' = IF kind = "run" THEN [status EXCEPT ![r] = "running"] ELSE status
  /\ IF kind = "again" THEN UNCHANGED inputVars ELSE ChangeInput(r)
  /\ task' = [kind |-> kind, run |-> r]
  /\ point' = "digest"
  /\ UNCHANGED <<commits, receipt, output, outsideVars, digest, exportFaults>>

\* Input and files are those of the checkpoint.
Reusable(r) ==
  receipt[r] # Nothing /\ receipt[r].version = input[r] /\ receipt[r].files = output

TakeDigest ==
  /\ point = "digest"
  /\ digest' = input[task.run]
  /\ point' = IF ~Forcing /\ Reusable(task.run) THEN "fresh" ELSE "stale"
  /\ UNCHANGED <<status, inputVars, commits, receipt, output, outsideVars, task, exportFaults>>

Reuse ==
  /\ point = "fresh" /\ CommitOf("default") = "succeeded"
  /\ point' = "plugin"
  /\ UNCHANGED <<status, inputVars, commits, receipt, output, outsideVars, task, digest,
                 exportFaults>>

\* begin_export, of a stale delivery with force.
BeginDefault ==
  /\ point \in {"fresh", "stale"}
  /\ CommitOf("default") \in {"none", "failed", "retrying"}
     \/ (point = "stale" /\ CommitOf("default") = "succeeded")
  /\ SetCommit("default", "running")
  /\ point' = "write"
  /\ UNCHANGED <<status, inputVars, receipt, output, outsideVars, task, digest, exportFaults>>

\* export_all reads the state as it is by now.
Write ==
  /\ point = "write"
  /\ output' = [run |-> task.run, version |-> input[task.run]]
  /\ point' = "finish"
  /\ UNCHANGED <<status, inputVars, commits, receipt, outsideVars, task, digest, exportFaults>>

\* Mutant of FinishDefault: the input is not compared with the digest again.
FinishUnchecked ==
  /\ point = "finish" /\ CommitOf("default") = "running"
  /\ SetCommit("default", "succeeded")
  /\ receipt' = [receipt EXCEPT ![task.run] = [version |-> digest, files |-> output]]
  /\ point' = "plugin"
  /\ UNCHANGED <<status, inputVars, output, outsideVars, task, digest, exportFaults>>

\* finish_export compares the input again, in the transaction that commits.
FinishDefault ==
  /\ point = "finish" /\ CommitOf("default") = "running" /\ input[task.run] = digest
  /\ SetCommit("default", "succeeded")
  /\ receipt' = [receipt EXCEPT ![task.run] = [version |-> digest, files |-> output]]
  /\ point' = "plugin"
  /\ UNCHANGED <<status, inputVars, output, outsideVars, task, digest, exportFaults>>

ReusePlugin ==
  /\ point = "plugin" /\ CommitOf("plugin") = "succeeded" /\ ~Forcing
  /\ point' = "end"
  /\ UNCHANGED <<status, inputVars, commits, receipt, output, outsideVars, task, digest,
                 exportFaults>>

\* Mutant of BeginPlugin: what was submitted is submitted again.
BeginPluginAgain ==
  /\ point = "plugin" /\ CommitOf("plugin") # "running"
  /\ SetCommit("plugin", "running")
  /\ point' = "submit"
  /\ UNCHANGED <<status, inputVars, receipt, output, outsideVars, task, digest, exportFaults>>

BeginPlugin ==
  /\ point = "plugin"
  /\ CommitOf("plugin") \in {"none", "failed", "retrying"} \/ (Forcing /\ CommitOf("plugin") = "succeeded")
  /\ SetCommit("plugin", "running")
  /\ repeats' = IF CommitOf("plugin") = "succeeded"
                THEN [repeats EXCEPT ![task.run] = @ + 1] ELSE repeats
  /\ point' = "submit"
  /\ UNCHANGED <<status, inputVars, receipt, output, submitted, stranded, task, digest,
                 exportFaults>>

Submit ==
  /\ point = "submit"
  /\ submitted' = [submitted EXCEPT ![task.run] = @ + 1]
  /\ point' = "record"
  /\ UNCHANGED <<status, inputVars, commits, receipt, output, repeats, stranded, task, digest,
                 exportFaults>>

FinishPlugin ==
  /\ point = "record" /\ CommitOf("plugin") = "running"
  /\ SetCommit("plugin", "succeeded")
  /\ point' = "end"
  /\ UNCHANGED <<status, inputVars, receipt, output, outsideVars, task, digest, exportFaults>>

EndExports ==
  /\ point = "end"
  /\ EndTask
  /\ UNCHANGED <<commits, receipt, output, outsideVars, exportFaults>>

-----------------------------------------------------------------------------
(* Failure                                                                 *)

\* The commit whose exporter is under way.
Open == IF point \in {"write", "finish"} THEN "default" ELSE "plugin"

UnderWay == point \in {"write", "finish", "submit", "record"}

\* fail_export, unless the recovery center took the commit; the job ends.
FailExport ==
  /\ commits' = IF CommitOf(Open) = "running"
                THEN [commits EXCEPT ![task.run][Open] = "failed"] ELSE commits
  /\ repeats' = IF Open = "plugin" THEN [repeats EXCEPT ![task.run] = @ + 1] ELSE repeats
  /\ EndTask
  /\ UNCHANGED <<receipt, output, submitted, stranded>>

\* The input changed while it was exported, or the commit is not running any more.
Refused ==
  /\ \/ point = "finish" /\ (input[task.run] # digest \/ CommitOf("default") # "running")
     \/ point = "record" /\ CommitOf("plugin") # "running"
  /\ FailExport
  /\ UNCHANGED exportFaults

ExporterRaises ==
  /\ UnderWay /\ exportFaults < MaxExportFaults
  /\ exportFaults' = exportFaults + 1
  /\ FailExport

\* A commit that is running already is not taken over.
Blocked ==
  /\ \/ point \in {"fresh", "stale"} /\ CommitOf("default") = "running"
     \/ point = "plugin" /\ CommitOf("plugin") = "running"
  /\ EndTask
  /\ UNCHANGED <<commits, receipt, output, outsideVars, exportFaults>>

\* The exporter under way is left without fail_export: its commit stays as it is.
LeaveCommit ==
  /\ stranded' = IF UnderWay /\ status'[task.run] = "finished" /\ CommitOf(Open) = "running"
                 THEN [stranded EXCEPT ![task.run] = TRUE] ELSE stranded
  /\ repeats' = IF UnderWay /\ Open = "plugin"
                THEN [repeats EXCEPT ![task.run] = @ + 1] ELSE repeats
  /\ UNCHANGED <<commits, receipt, output, submitted>>

\* Ctrl-C, which the exporters' handler does not catch, or an exception of fail_export
\* or between two exporters: a crawl still finishes its run.
ExportInterrupted ==
  /\ point # "idle" /\ exportFaults < MaxExportFaults
  /\ exportFaults' = exportFaults + 1
  /\ EndTask
  /\ LeaveCommit

Killed ==
  /\ point # "idle" /\ exportFaults < MaxExportFaults
  /\ exportFaults' = exportFaults + 1
  /\ task' = NoTask /\ point' = "idle" /\ digest' = 0
  /\ UNCHANGED <<status, inputVars>>
  /\ LeaveCommit

-----------------------------------------------------------------------------
(* Others                                                                  *)

EditRecord(r) ==
  /\ status[r] # "none"
  /\ ChangeInput(r)
  /\ UNCHANGED <<status, commits, receipt, output, outsideVars, task, point, digest,
                 exportFaults>>

\* A file changes, except between a comparison of the files and what relies on it.
AlterFile ==
  /\ output \notin {Nothing, Altered} /\ point \notin {"fresh", "finish"}
  /\ exportFaults < MaxExportFaults
  /\ exportFaults' = exportFaults + 1
  /\ output' = Altered
  /\ UNCHANGED <<status, inputVars, commits, receipt, outsideVars, task, point, digest>>

\* recover_incomplete_runs, which takes no session lease.
RecoverRuns ==
  LET incomplete == {r \in Runs : status[r] \in {"running", "retrying"}}
  IN  /\ \E r \in incomplete : status[r] = "running" \/ \E x \in Exporters : commits[r][x] = "running"
      /\ lastInput < MaxInput
      /\ lastInput' = lastInput + 1
      /\ input' = [r \in Runs |-> IF status[r] = "running" THEN lastInput + 1 ELSE input[r]]
      /\ status' = [r \in Runs |-> IF r \in incomplete THEN "retrying" ELSE status[r]]
      /\ commits' = [r \in Runs |-> [x \in Exporters |->
           IF r \in incomplete /\ commits[r][x] = "running" THEN "retrying" ELSE commits[r][x]]]
      /\ UNCHANGED <<receipt, output, outsideVars, task, point, digest, exportFaults>>

ExportNext ==
  \/ \E kind \in {"run", "reprocess", "again"}, r \in Runs : StartTask(kind, r)
  \/ TakeDigest \/ Reuse \/ BeginDefault \/ Write \/ FinishDefault
  \/ ReusePlugin \/ BeginPlugin \/ Submit \/ FinishPlugin \/ EndExports
  \/ Refused \/ ExporterRaises \/ Blocked \/ ExportInterrupted \/ Killed
  \/ AlterFile \/ RecoverRuns \/ \E r \in Runs : EditRecord(r)

ExportSpec == ExportInit /\ [][ExportNext]_exportVars

-----------------------------------------------------------------------------
(* Properties                                                              *)

\* A default delivery that succeeds, made or reused, has its files in the output
\* directory, and they are the export of the input the job looked at, although records
\* are edited, runs are recovered and another run is exported to the same files.
DeliveryIsCurrent ==
  [][point' = "plugin" /\ point \in {"fresh", "finish"} =>
       output = [run |-> task.run, version |-> digest]]_exportVars

\* The plugin submits a run once, unless it was forced to or an attempt was cut short
\* (INV-007), and a commit that is nobody's can be taken up again by a recovery, unless
\* its run was finished by an interrupt of the crawl's exporter, or had been when a job
\* on it was interrupted or killed.  No refusal, failure, edit or recovery strands one.
CommitsAreSettled ==
  /\ ExportTypeOK
  /\ \A r \in Runs :
       /\ submitted[r] <= 1 + repeats[r]
       /\ \A x \in Exporters : commits[r][x] = "running" /\ task.run # r =>
            status[r] \in {"running", "retrying"} \/ stranded[r]
=============================================================================

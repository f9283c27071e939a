-------------------------- MODULE WorkspaceRestore --------------------------
(***************************************************************************)
(* Snapshots and rollbacks of a workspace (services/workspace.py) next to  *)
(* the stores other processes open (state/state_store.py), kept apart by   *)
(* the operating-system locks of core/database_lease.py.                   *)
(*                                                                         *)
(* Files are versions: an edit of config.yaml or a committed transaction   *)
(* of the database writes the next one; database 0 is an absent file.  A   *)
(* process is one thread of control, and its locks vanish with it.  The    *)
(* checks of a snapshot's hashes and of its database are left out: a       *)
(* snapshot is never changed after it is written.                          *)
(***************************************************************************)
EXTENDS Naturals, Sequences

CONSTANTS
  Procs,         \* processes that open stores or run workspace commands
  NoProc,        \* nobody holds .maintenance.lock
  MaxVersion,    \* bound: edits and transactions in a behaviour
  MaxSnapshots,  \* bound: snapshots in a behaviour
  MaxFaults      \* bound: crashes and exceptions in a behaviour

ASSUME RestoreConstants ==
  /\ NoProc \notin Procs
  /\ MaxVersion \in Nat /\ MaxSnapshots \in Nat /\ MaxFaults \in Nat

VARIABLES
  config,     \* version of config.yaml
  db,         \* version of state.sqlite3
  version,    \* the last version written
  snapshots,  \* the files in snapshots/
  journal,    \* the snapshot named by .restore.pending.json; 0: no such file
  gate,       \* holder of .maintenance.lock
  leases,     \* processes that hold a file lock in the .leases directory
  at,         \* where each process is
  job,        \* its command, and what the command works on
  faults

restoreVars == <<config, db, version, snapshots, journal, gate, leases, at, job, faults>>

files == <<config, db, version>>

Pair == [config : Nat, db : Nat]

\* target: the snapshot to roll back to; kept: the one to restore on failure.
Job == [kind : {"none", "store", "health", "snapshot", "rollback"},
        phase : {"none", "recover", "forward", "undo"},
        target : Nat, kept : Nat, copied : Nat]

NoJob == [kind |-> "none", phase |-> "none", target |-> 0, kept |-> 0, copied |-> 0]

\* Places of a process that holds the gate and has found no lease.
Exclusive == {"readJournal", "nested", "journal", "applyDb", "applyConfig", "unlink"}

Places == Exclusive \cup
  {"idle", "check", "waitGate", "scan", "copyConfig", "copyDb",
   "waitOpen", "openGate", "connect", "open"}

RestoreTypeOK ==
  /\ config \in Nat /\ db \in Nat /\ version \in Nat /\ faults \in Nat
  /\ snapshots \in Seq(Pair)
  /\ journal \in 0 .. Len(snapshots)
  /\ gate \in Procs \cup {NoProc}
  /\ leases \subseteq Procs
  /\ at \in [Procs -> Places]
  /\ job \in [Procs -> Job]
  /\ \A p \in Procs :
       /\ job[p].kind = "rollback" => job[p].target \in DOMAIN snapshots
       /\ at[p] \in {"journal", "applyDb", "applyConfig", "unlink"} =>
            job[p].kept \in DOMAIN snapshots /\ job[p].phase # "none"
       /\ job[p].phase \in {"forward", "undo"} => job[p].kind = "rollback"

RestoreInit ==
  /\ config = 0 /\ db = 0 /\ version = 0
  /\ snapshots = <<>>
  /\ journal = 0
  /\ gate = NoProc
  /\ leases = {}
  /\ at = [p \in Procs |-> "idle"]
  /\ job = [p \in Procs |-> NoJob]
  /\ faults = 0

-----------------------------------------------------------------------------
(* Helpers                                                                 *)

Goto(p, place) == at' = [at EXCEPT ![p] = place]

Released(p) == IF gate = p THEN NoProc ELSE gate

\* The command ends, or raises to its caller: the locks of p are released.
Leave(p) ==
  /\ Goto(p, "idle")
  /\ job' = [job EXCEPT ![p] = NoJob]
  /\ gate' = Released(p)
  /\ leases' = leases \ {p}

\* Where a command goes once no rollback is pending: health opens the store if
\* there is one, snapshot starts to copy, rollback asks for the gate.
Resume(p) ==
  CASE job[p].kind = "health" -> IF db = 0 THEN "idle" ELSE "waitOpen"
    [] job[p].kind = "snapshot" -> "copyConfig"
    [] OTHER -> "waitGate"

\* The snapshot _apply_staged writes back.
Restored(p) == snapshots[IF job[p].phase = "forward" THEN job[p].target ELSE job[p].kept]

-----------------------------------------------------------------------------
(* Stores                                                                  *)

OpenStore(p) ==
  /\ at[p] = "idle"
  /\ Goto(p, "waitOpen")
  /\ job' = [job EXCEPT ![p].kind = "store"]
  /\ UNCHANGED <<files, snapshots, journal, gate, leases, faults>>

EnterOpenGate(p) ==
  /\ at[p] = "waitOpen" /\ gate = NoProc
  /\ gate' = p
  /\ Goto(p, "openGate")
  /\ UNCHANGED <<files, snapshots, journal, leases, job, faults>>

\* Mutant of TakeLease: the pending rollback is not looked for.
TakeLeaseAlways(p) ==
  /\ at[p] = "openGate"
  /\ gate' = NoProc /\ leases' = leases \cup {p} /\ Goto(p, "connect")
  /\ UNCHANGED <<files, snapshots, journal, job, faults>>

\* database_lease: refused while a rollback is pending.
TakeLease(p) ==
  /\ at[p] = "openGate"
  /\ \/ journal # 0 /\ Leave(p)
     \/ /\ journal = 0
        /\ gate' = NoProc
        /\ leases' = leases \cup {p}
        /\ Goto(p, "connect")
        /\ UNCHANGED job
  /\ UNCHANGED <<files, snapshots, journal, faults>>

\* initialize_schema creates the tables of a new database in one transaction.
Connect(p) ==
  /\ at[p] = "connect" /\ version < MaxVersion
  /\ db' = IF db = 0 THEN version + 1 ELSE db
  /\ version' = IF db = 0 THEN version + 1 ELSE version
  /\ Goto(p, "open")
  /\ UNCHANGED <<config, snapshots, journal, gate, leases, job, faults>>

Commit(p) ==
  /\ at[p] = "open" /\ job[p].kind = "store" /\ version < MaxVersion
  /\ db' = version + 1
  /\ version' = version + 1
  /\ UNCHANGED <<config, snapshots, journal, gate, leases, at, job, faults>>

CloseStore(p) ==
  /\ at[p] = "open"
  /\ Leave(p)
  /\ UNCHANGED <<files, snapshots, journal, faults>>

\* No lock guards config.yaml: the owner edits it at any time.
EditConfig ==
  /\ version < MaxVersion
  /\ config' = version + 1
  /\ version' = version + 1
  /\ UNCHANGED <<db, snapshots, journal, gate, leases, at, job, faults>>

-----------------------------------------------------------------------------
(* Workspace commands                                                      *)

\* health and snapshot run initialize, which recovers first; rollback does so too.
StartCommand(p, kind, s) ==
  /\ at[p] = "idle"
  /\ kind = "rollback" <=> s # 0
  /\ Goto(p, "check")
  /\ job' = [job EXCEPT ![p] = [NoJob EXCEPT !.kind = kind, !.target = s]]
  /\ UNCHANGED <<files, snapshots, journal, gate, leases, faults>>

CheckPending(p) ==
  /\ at[p] = "check"
  /\ Goto(p, IF journal # 0 THEN "waitGate" ELSE Resume(p))
  /\ job' = [job EXCEPT ![p].phase =
               IF journal # 0 THEN "recover"
               ELSE IF job[p].kind = "rollback" THEN "forward" ELSE "none"]
  /\ UNCHANGED <<files, snapshots, journal, gate, leases, faults>>

EnterGate(p) ==
  /\ at[p] = "waitGate" /\ gate = NoProc
  /\ gate' = p
  /\ Goto(p, "scan")
  /\ UNCHANGED <<files, snapshots, journal, leases, job, faults>>

\* Ten seconds at a held lock.
GateTimeout(p) ==
  /\ at[p] \in {"waitGate", "waitOpen"} /\ gate # NoProc
  /\ Leave(p)
  /\ UNCHANGED <<files, snapshots, journal, faults>>

\* database_maintenance: refused while a lease is held.
Scan(p) ==
  /\ at[p] = "scan"
  /\ \/ leases # {} /\ Leave(p)
     \/ /\ leases = {}
        /\ Goto(p, IF job[p].phase = "recover" THEN "readJournal" ELSE "nested")
        /\ UNCHANGED <<gate, leases, job>>
  /\ UNCHANGED <<files, snapshots, journal, faults>>

\* The file may be gone: somebody else recovered while p waited.
ReadJournal(p) ==
  /\ at[p] = "readJournal"
  /\ \/ journal = 0 /\ Leave(p)
     \/ /\ journal # 0
        /\ job' = [job EXCEPT ![p].kept = journal]
        /\ Goto(p, "applyDb")
        /\ UNCHANGED <<gate, leases>>
  /\ UNCHANGED <<files, snapshots, journal, faults>>

\* rollback's own snapshot runs initialize again; a journal that appeared while p
\* waited makes it wait for the gate p holds itself, until the timeout.
Nested(p) ==
  /\ at[p] = "nested"
  /\ \/ journal # 0 /\ Leave(p)
     \/ journal = 0 /\ Goto(p, "copyConfig") /\ UNCHANGED <<gate, leases, job>>
  /\ UNCHANGED <<files, snapshots, journal, faults>>

CopyConfig(p) ==
  /\ at[p] = "copyConfig"
  /\ job' = [job EXCEPT ![p].copied = config]
  /\ Goto(p, "copyDb")
  /\ UNCHANGED <<files, snapshots, journal, gate, leases, faults>>

\* The backup is one consistent read of the database; the archive is written last.
CopyDb(p) ==
  /\ at[p] = "copyDb" /\ Len(snapshots) < MaxSnapshots
  /\ snapshots' = Append(snapshots, [config |-> job[p].copied, db |-> db])
  /\ \/ job[p].kind = "snapshot" /\ Leave(p)
     \/ /\ job[p].kind = "rollback"
        /\ job' = [job EXCEPT ![p].kept = Len(snapshots) + 1]
        /\ Goto(p, "journal")
        /\ UNCHANGED <<gate, leases>>
  /\ UNCHANGED <<files, journal, faults>>

WriteJournal(p) ==
  /\ at[p] = "journal"
  /\ journal' = job[p].kept
  /\ Goto(p, "applyDb")
  /\ UNCHANGED <<files, snapshots, gate, leases, job, faults>>

ApplyDb(p) ==
  /\ at[p] = "applyDb"
  /\ db' = Restored(p).db
  /\ Goto(p, "applyConfig")
  /\ UNCHANGED <<config, version, snapshots, journal, gate, leases, job, faults>>

ApplyConfig(p) ==
  /\ at[p] = "applyConfig"
  /\ config' = Restored(p).config
  /\ Goto(p, "unlink")
  /\ UNCHANGED <<db, version, snapshots, journal, gate, leases, job, faults>>

\* A recovery goes on to the command it was started for.
Unlink(p) ==
  /\ at[p] = "unlink"
  /\ journal' = 0
  /\ \/ job[p].phase # "recover" /\ Leave(p)
     \/ /\ job[p].phase = "recover"
        /\ gate' = NoProc
        /\ Goto(p, Resume(p))
        /\ job' = [job EXCEPT ![p].phase = IF job[p].kind = "rollback" THEN "forward" ELSE "none"]
        /\ UNCHANGED leases
  /\ UNCHANGED <<files, snapshots, faults>>

-----------------------------------------------------------------------------
(* Faults                                                                  *)

Applying(p) == at[p] \in {"applyDb", "applyConfig"} /\ job[p].phase = "forward"

\* Mutant of Undo: an exception of _apply_staged only removes the journal.
UndoForgets(p) ==
  /\ Applying(p) /\ faults < MaxFaults
  /\ Goto(p, "unlink")
  /\ job' = [job EXCEPT ![p].phase = "undo"]
  /\ faults' = faults + 1
  /\ UNCHANGED <<files, snapshots, journal, gate, leases>>

\* _apply_staged raises: rollback applies the snapshot it took.
Undo(p) ==
  /\ Applying(p) /\ faults < MaxFaults
  /\ Goto(p, "applyDb")
  /\ job' = [job EXCEPT ![p].phase = "undo"]
  /\ faults' = faults + 1
  /\ UNCHANGED <<files, snapshots, journal, gate, leases>>

\* An exception anywhere else reaches the caller; a journal that was written stays.
Raise(p) ==
  /\ at[p] # "idle" /\ ~Applying(p) /\ faults < MaxFaults
  /\ Leave(p)
  /\ faults' = faults + 1
  /\ UNCHANGED <<files, snapshots, journal>>

\* A process killed while it applies a snapshot; anywhere else a kill is like Raise.
Kill(p) ==
  /\ Applying(p) /\ faults < MaxFaults
  /\ Leave(p)
  /\ faults' = faults + 1
  /\ UNCHANGED <<files, snapshots, journal>>

RestoreStep(p) ==
  \/ OpenStore(p) \/ EnterOpenGate(p) \/ TakeLease(p) \/ Connect(p)
  \/ Commit(p) \/ CloseStore(p)
  \/ StartCommand(p, "health", 0) \/ StartCommand(p, "snapshot", 0)
  \/ \E s \in DOMAIN snapshots : StartCommand(p, "rollback", s)
  \/ CheckPending(p) \/ EnterGate(p) \/ GateTimeout(p) \/ Scan(p)
  \/ ReadJournal(p) \/ Nested(p) \/ CopyConfig(p) \/ CopyDb(p)
  \/ WriteJournal(p) \/ ApplyDb(p) \/ ApplyConfig(p) \/ Unlink(p)
  \/ Undo(p) \/ Raise(p) \/ Kill(p)

RestoreNext == EditConfig \/ \E p \in Procs : RestoreStep(p)

RestoreSpec == RestoreInit /\ [][RestoreNext]_restoreVars

-----------------------------------------------------------------------------
(* Properties                                                              *)

\* No store is open while a restore is pending or under way, whatever process
\* crashed in between: maintenance finds no lease and a pending one refuses them.
NoStoreDuringRestore ==
  /\ RestoreTypeOK
  /\ journal # 0 => leases = {}
  /\ \A p \in Procs : at[p] \in Exclusive => leases = {}

\* While a journal exists the workspace is what a recovery will make of it.
Visible == IF journal = 0 THEN [config |-> config, db |-> db] ELSE snapshots[journal]

\* An edit that came after a restore wrote config.yaml, and before it ended.
Late ==
  IF \E p \in Procs : at[p] = "unlink" /\ config # Restored(p).config THEN config ELSE 0

Contract == INSTANCE RestoreContract WITH
  visible <- Visible, taken <- snapshots, pending <- journal # 0, late <- Late

\* The pair of files changes by an edit or as a whole: no crash, exception or
\* interleaving with another process leaves half of a rollback behind.  The owner's
\* edits of config.yaml fall anywhere: one made while a rollback is pending is lost,
\* unless it comes after the rollback's last write and nothing interrupts it.
ImplementsRestoreContract == Contract!ContractSpec
=============================================================================

---------------------------- MODULE RestoreProofs ----------------------------
(***************************************************************************)
(* Snapshots and rollbacks of a workspace, for any number of processes,    *)
(* versions, snapshots and faults: their types, that no store is open      *)
(* while a restore is pending, and that RestoreContract is implemented.    *)
(*                                                                         *)
(* The gate orders everything but the owner's editor: who scanned the      *)
(* leases holds it, and who found none is alone with the database until it *)
(* leaves.  So one process at most writes back, its journal stands for the *)
(* snapshot it took, and what it leaves is the snapshot the command works  *)
(* for, or the owner's last edit beside that snapshot's database; whoever  *)
(* dies in between leaves a journal that a recovery turns into the pair it *)
(* stands for.                                                             *)
(***************************************************************************)
EXTENDS WorkspaceRestore, TLAPS

-----------------------------------------------------------------------------
(* The inductive invariant                                                 *)

Copying(p) == at[p] \in {"copyConfig", "copyDb"} /\ job[p].kind = "rollback"

\* p holds the gate, and it found no lease.
Cleared(p) == at[p] \in Exclusive \/ Copying(p)

Held(p) == at[p] \in {"scan", "openGate"} \/ Cleared(p)

Writing(p) == at[p] \in {"applyDb", "applyConfig", "unlink"}

LocksInv(p) ==
  /\ Held(p) => gate = p
  /\ Cleared(p) => leases = {}
  /\ at[p] \in {"connect", "open"} => p \in leases

JobInv(p) ==
  /\ job[p].kind = "rollback" => job[p].target \in DOMAIN snapshots
  /\ job[p].phase \in {"forward", "undo"} => job[p].kind = "rollback"
  /\ at[p] = "idle" => job[p].phase = "none"
  /\ at[p] = "readJournal" \/ (job[p].kind = "rollback" /\ at[p] \notin {"idle", "check"}) =>
       job[p].phase # "none"
  /\ at[p] = "journal" \/ Writing(p) =>
       job[p].kept \in DOMAIN snapshots /\ job[p].phase # "none"

FilesInv(p) ==
  /\ Copying(p) => journal = 0
  /\ at[p] = "copyDb" => job[p].copied <= version
  /\ at[p] = "journal" => journal = 0
  /\ Writing(p) => journal = job[p].kept
  /\ at[p] \in {"applyConfig", "unlink"} => db = Restored(p).db
  /\ at[p] = "unlink" => config = Restored(p).config \/ config > 0

Types ==
  /\ config \in Nat /\ db \in Nat /\ version \in Nat /\ faults \in Nat
  /\ snapshots \in Seq(Pair)
  /\ journal \in 0 .. Len(snapshots)
  /\ gate \in Procs \cup {NoProc}
  /\ leases \subseteq Procs
  /\ at \in [Procs -> Places]
  /\ job \in [Procs -> Job]

VersionsInv ==
  /\ journal # 0 => leases = {}
  /\ config <= version /\ db <= version
  /\ \A i \in DOMAIN snapshots : snapshots[i].config <= version /\ snapshots[i].db <= version

ProcInv(p) == LocksInv(p) /\ JobInv(p) /\ FilesInv(p)

RestoreInv == Types /\ VersionsInv /\ \A p \in Procs : ProcInv(p)

-----------------------------------------------------------------------------
(* Lemmas                                                                  *)

USE RestoreConstants DEF restoreVars, files

LEMMA InitInv == RestoreInit => RestoreInv
<1> SUFFICES ASSUME RestoreInit PROVE RestoreInv
  OBVIOUS
<1>1. NoJob \in Job
  BY DEF NoJob, Job
<1>2. Types
  BY <1>1 DEF RestoreInit, Types, Places, Pair
<1>3. VersionsInv
  BY DEF RestoreInit, VersionsInv
<1>4. ASSUME NEW p \in Procs PROVE ProcInv(p)
  BY DEF RestoreInit, ProcInv, LocksInv, JobInv, FilesInv, Held, Cleared, Copying,
         Writing, Exclusive, NoJob
<1> QED
  BY <1>2, <1>3, <1>4 DEF RestoreInv

\* What a step of p leaves alone: the places, commands and locks of the others,
\* and the files, unless p is the one who holds the gate or a lease.
Alone(p) ==
  /\ \A q \in Procs \ {p} :
       /\ at'[q] = at[q] /\ job'[q] = job[q]
       /\ gate = q => gate' = q
       /\ q \in leases => q \in leases'
  /\ gate = p \/ (leases' \subseteq leases /\ journal' = journal)
  /\ gate = p \/ leases # {} \/ (config' = config /\ db' = db)
  /\ version <= version'
  /\ \A i \in DOMAIN snapshots : i \in DOMAIN snapshots' /\ snapshots'[i] = snapshots[i]

\* A process at rest keeps its part of the invariant while another one moves.
LEMMA OthersKeep ==
  ASSUME RestoreInv, NEW p \in Procs, Alone(p), Types',
         NEW q \in Procs \ {p}
  PROVE  ProcInv(q)'
<1>1. ProcInv(q) /\ at'[q] = at[q] /\ job'[q] = job[q] /\ job[q] \in Job
  BY DEF RestoreInv, Alone, Types
<1>2. Held(q) => gate = q /\ gate # p
  BY <1>1 DEF ProcInv, LocksInv
<1>3. Cleared(q)' = Cleared(q) /\ Held(q)' = Held(q) /\ Copying(q)' = Copying(q)
      /\ Writing(q)' = Writing(q)
  BY <1>1 DEF Cleared, Held, Copying, Writing
<1>4. LocksInv(q)'
  <2>1. Cleared(q) => Held(q) /\ leases' = {}
    BY <1>1, <1>2 DEF ProcInv, LocksInv, Alone, Held
  <2> QED
    BY <1>1, <1>2, <1>3, <2>1 DEF ProcInv, LocksInv, Alone
<1>5. JobInv(q)'
  BY <1>1, <1>3 DEF ProcInv, JobInv, Alone
<1>6. FilesInv(q)'
  <2>1. Cleared(q) => journal' = journal /\ config' = config /\ db' = db
    BY <1>1, <1>2 DEF ProcInv, LocksInv, Alone, Held
  <2>2. Writing(q) \/ at[q] = "journal" \/ Copying(q) => Cleared(q)
    BY DEF Writing, Cleared, Exclusive
  <2>3. at[q] = "copyDb" => job[q].copied <= version'
    BY <1>1 DEF ProcInv, FilesInv, Alone, RestoreInv, Types, Job
  <2>4. at[q] = "journal" \/ Writing(q) =>
          snapshots'[job[q].kept] = snapshots[job[q].kept]
    BY <1>1 DEF ProcInv, JobInv, Alone
  <2>5. Writing(q) => Restored(q)' = Restored(q)
    <3>1. Writing(q) /\ job[q].phase = "forward" => job[q].target \in DOMAIN snapshots
      BY <1>1 DEF ProcInv, JobInv
    <3> QED
      BY <1>1, <2>4, <3>1 DEF Restored, Alone
  <2> QED
    BY <1>1, <1>3, <2>1, <2>2, <2>3, <2>4, <2>5 DEF ProcInv, FilesInv, Writing
<1> QED
  BY <1>4, <1>5, <1>6 DEF ProcInv

\* So a step of p is settled by the types, the versions and its own part.
LEMMA StepKeeps ==
  ASSUME RestoreInv, NEW p \in Procs, Alone(p), Types', VersionsInv', ProcInv(p)'
  PROVE  RestoreInv'
BY OthersKeep DEF RestoreInv

\* Leaving gives up locks and touches no file.
LEMMA LeaveKeeps ==
  ASSUME RestoreInv, NEW p \in Procs, Leave(p),
         UNCHANGED <<files, snapshots, journal>>, faults' \in Nat
  PROVE  RestoreInv'
<1>1. Types /\ VersionsInv
  BY DEF RestoreInv
<1>2. NoJob \in Job /\ NoJob.kind = "none" /\ NoJob.phase = "none"
  BY DEF NoJob, Job
<1>3. at'[p] = "idle" /\ job'[p] = NoJob
  BY <1>1 DEF Leave, Goto, Types
<1>4. Types'
  BY <1>1, <1>2 DEF Leave, Goto, Types, Released, Places
<1>5. VersionsInv'
  BY <1>1 DEF VersionsInv, Leave
<1>6. ProcInv(p)'
  BY <1>2, <1>3 DEF ProcInv, LocksInv, JobInv, FilesInv, Held, Cleared, Copying, Writing,
                    Exclusive
<1>7. Alone(p)
  BY <1>1 DEF Alone, Leave, Goto, Released, Types
<1> QED
  BY <1>4, <1>5, <1>6, <1>7, StepKeeps

USE DEF RestoreInv

-----------------------------------------------------------------------------
(* Edits and stores                                                        *)

\* The next version is later than any version of a snapshot.
LEMMA NextVersion ==
  ASSUME RestoreInv, version' = version + 1,
         \/ config' = config /\ db' = version + 1
         \/ config' = version + 1 /\ db' = db,
         UNCHANGED <<snapshots, journal, leases>>
  PROVE  VersionsInv'
<1>1. Types /\ VersionsInv
  OBVIOUS
<1>2. config' <= version' /\ db' <= version'
  BY <1>1 DEF Types, VersionsInv
<1>3. ASSUME NEW i \in DOMAIN snapshots
      PROVE  snapshots[i].config <= version' /\ snapshots[i].db <= version'
  <2>1. snapshots[i] \in Pair
    BY <1>1 DEF Types
  <2>2. snapshots[i].config <= version /\ snapshots[i].db <= version
    BY <1>1 DEF VersionsInv
  <2> QED
    BY <1>1, <2>1, <2>2 DEF Types, Pair
<1> QED
  BY <1>1, <1>2, <1>3 DEF VersionsInv

\* Nobody relies on the configuration file between two writes of its own.
LEMMA EditConfigKeeps == RestoreInv /\ EditConfig => RestoreInv'
<1> SUFFICES ASSUME RestoreInv, EditConfig PROVE RestoreInv'
  OBVIOUS
<1>1. Types'
  BY DEF EditConfig, Types
<1>2. VersionsInv'
  BY NextVersion DEF EditConfig
<1>3. ASSUME NEW p \in Procs PROVE ProcInv(p)'
  <2>1. ProcInv(p) /\ Types
    OBVIOUS
  <2>2. job[p].copied <= version => job[p].copied <= version'
    BY <2>1 DEF EditConfig, Types, Job
  <2>3. Restored(p)' = Restored(p)
    BY DEF EditConfig, Restored
  <2>4. config' > 0
    BY <2>1 DEF EditConfig, Types
  <2>5. LocksInv(p)' /\ JobInv(p)'
    BY <2>1 DEF EditConfig, ProcInv, LocksInv, JobInv, Held, Cleared, Copying, Writing
  <2>6. FilesInv(p)'
    BY <2>1, <2>2, <2>3, <2>4 DEF EditConfig, ProcInv, FilesInv, Copying, Writing
  <2> QED
    BY <2>5, <2>6 DEF ProcInv
<1> QED
  BY <1>1, <1>2, <1>3

LEMMA OpenStoreKeeps ==
  ASSUME RestoreInv, NEW p \in Procs, OpenStore(p) PROVE RestoreInv'
<1>1. at' = [at EXCEPT ![p] = "waitOpen"] /\ at'[p] = "waitOpen"
  BY DEF OpenStore, Goto, Types
<1>2. job'[p].kind = "store" /\ job'[p].phase = "none" /\ job' \in [Procs -> Job]
  BY DEF OpenStore, Types, Job, ProcInv, JobInv
<1>3. Types'
  BY <1>1, <1>2 DEF OpenStore, Types, Places
<1>4. VersionsInv'
  BY DEF OpenStore, VersionsInv
<1>5. ProcInv(p)'
  BY <1>1, <1>2 DEF ProcInv, LocksInv, JobInv, FilesInv, Held, Cleared, Copying, Writing,
                    Exclusive
<1>6. Alone(p)
  BY <1>1 DEF Alone, OpenStore, Types
<1> QED
  BY <1>3, <1>4, <1>5, <1>6, StepKeeps

LEMMA EnterOpenGateKeeps ==
  ASSUME RestoreInv, NEW p \in Procs, EnterOpenGate(p) PROVE RestoreInv'
<1>1. at' = [at EXCEPT ![p] = "openGate"] /\ at'[p] = "openGate"
  BY DEF EnterOpenGate, Goto, Types
<1>2. Types'
  BY <1>1 DEF EnterOpenGate, Types, Places
<1>3. VersionsInv'
  BY DEF EnterOpenGate, VersionsInv
<1>4. ProcInv(p)'
  BY <1>1 DEF EnterOpenGate, ProcInv, LocksInv, JobInv, FilesInv, Held, Cleared, Copying,
              Writing, Exclusive
<1>5. Alone(p)
  BY <1>1 DEF Alone, EnterOpenGate, Types
<1> QED
  BY <1>2, <1>3, <1>4, <1>5, StepKeeps

LEMMA TakeLeaseKeeps ==
  ASSUME RestoreInv, NEW p \in Procs, TakeLease(p) PROVE RestoreInv'
<1>1. CASE journal # 0
  BY <1>1, LeaveKeeps DEF TakeLease, Types
<1>2. CASE journal = 0
  <2>1. gate = p
    BY DEF TakeLease, ProcInv, LocksInv, Held
  <2>2. at' = [at EXCEPT ![p] = "connect"] /\ at'[p] = "connect"
    BY <1>2 DEF TakeLease, Goto, Types
  <2>3. Types'
    BY <1>2, <2>2 DEF TakeLease, Types, Places
  <2>4. VersionsInv'
    BY <1>2 DEF TakeLease, VersionsInv
  <2>5. ProcInv(p)'
    BY <1>2, <2>2 DEF TakeLease, ProcInv, LocksInv, JobInv, FilesInv, Held, Cleared, Copying,
                      Writing, Exclusive
  <2>6. Alone(p)
    BY <1>2, <2>1, <2>2 DEF Alone, TakeLease, Types
  <2> QED
    BY <2>3, <2>4, <2>5, <2>6, StepKeeps
<1> QED
  BY <1>1, <1>2

\* What an open store writes: p holds a lease, so nobody has cleared the files.
LEMMA StoreWrites ==
  ASSUME RestoreInv, NEW p \in Procs, at[p] \in {"connect", "open"}, at'[p] = "open",
         at' = [at EXCEPT ![p] = "open"],
         \/ UNCHANGED <<db, version>>
         \/ db' = version + 1 /\ version' = version + 1,
         UNCHANGED <<config, snapshots, journal, gate, leases, job, faults>>
  PROVE  RestoreInv'
<1>1. p \in leases
  BY DEF ProcInv, LocksInv
<1>2. Types'
  BY DEF Types, Places
<1>3. VersionsInv'
  <2>1. CASE UNCHANGED <<db, version>>
    BY <2>1 DEF VersionsInv
  <2> QED
    BY <2>1, NextVersion
<1>4. ProcInv(p)'
  BY <1>1 DEF ProcInv, LocksInv, JobInv, FilesInv, Held, Cleared, Copying, Writing, Exclusive
<1>5. Alone(p)
  BY <1>1 DEF Alone, Types
<1> QED
  BY <1>2, <1>3, <1>4, <1>5, StepKeeps

LEMMA ConnectKeeps ==
  ASSUME RestoreInv, NEW p \in Procs, Connect(p) PROVE RestoreInv'
<1>1. at' = [at EXCEPT ![p] = "open"] /\ at'[p] = "open"
  BY DEF Connect, Goto, Types
<1> QED
  BY <1>1, StoreWrites DEF Connect

LEMMA CommitKeeps ==
  ASSUME RestoreInv, NEW p \in Procs, Commit(p) PROVE RestoreInv'
<1>1. at' = [at EXCEPT ![p] = "open"] /\ at'[p] = "open"
  BY DEF Commit, Types
<1> QED
  BY <1>1, StoreWrites DEF Commit

-----------------------------------------------------------------------------
(* Workspace commands                                                      *)

LEMMA StartCommandKeeps ==
  ASSUME RestoreInv, NEW p \in Procs, NEW kind \in {"health", "snapshot", "rollback"},
         NEW s \in {0} \cup DOMAIN snapshots, StartCommand(p, kind, s)
  PROVE  RestoreInv'
<1> DEFINE new == [NoJob EXCEPT !.kind = kind, !.target = s]
<1>1. at' = [at EXCEPT ![p] = "check"] /\ at'[p] = "check"
  BY DEF StartCommand, Goto, Types
<1>2. s \in Nat /\ (kind = "rollback" => s \in DOMAIN snapshots)
  BY DEF StartCommand, Types
<1>3. new \in Job /\ new.kind = kind /\ new.phase = "none" /\ new.target = s
  BY <1>2 DEF NoJob, Job
<1>4. job' = [job EXCEPT ![p] = new] /\ job'[p] = new
  BY DEF StartCommand, Types
<1> HIDE DEF new
<1>5. Types'
  BY <1>1, <1>3, <1>4 DEF StartCommand, Types, Places
<1>6. VersionsInv'
  BY DEF StartCommand, VersionsInv
<1>7. ProcInv(p)'
  BY <1>1, <1>2, <1>3, <1>4 DEF StartCommand, ProcInv, LocksInv, JobInv, FilesInv, Held,
     Cleared, Copying, Writing, Exclusive
<1>8. Alone(p)
  BY <1>1, <1>4 DEF Alone, StartCommand, Types
<1> QED
  BY <1>5, <1>6, <1>7, <1>8, StepKeeps

\* Where Resume leads: no place of a holder, save for a snapshot's own reading.
LEMMA ResumeIsFree ==
  ASSUME NEW p \in Procs
  PROVE  /\ Resume(p) \in {"idle", "waitOpen", "copyConfig", "waitGate"}
         /\ Resume(p) = "copyConfig" <=> job[p].kind = "snapshot"
         /\ job[p].kind = "rollback" => Resume(p) = "waitGate"
         /\ Resume(p) = "idle" => job[p].kind = "health"
BY DEF Resume

LEMMA CheckPendingKeeps ==
  ASSUME RestoreInv, NEW p \in Procs, CheckPending(p) PROVE RestoreInv'
<1> DEFINE place == IF journal # 0 THEN "waitGate" ELSE Resume(p)
           phase == IF journal # 0 THEN "recover"
                    ELSE IF job[p].kind = "rollback" THEN "forward" ELSE "none"
<1>1. at' = [at EXCEPT ![p] = place] /\ at'[p] = place
  BY DEF CheckPending, Goto, Types
<1>2. /\ place \in {"idle", "waitOpen", "copyConfig", "waitGate"}
      /\ place = "copyConfig" => job[p].kind = "snapshot"
      /\ place = "idle" => job[p].kind = "health" /\ journal = 0
  BY ResumeIsFree
<1>3. /\ job' = [job EXCEPT ![p].phase = phase]
      /\ job' \in [Procs -> Job]
      /\ job'[p].kind = job[p].kind /\ job'[p].target = job[p].target
      /\ job'[p].phase = phase
  BY DEF CheckPending, Types, Job
<1>4. /\ phase \in {"forward", "undo"} => job[p].kind = "rollback"
      /\ job[p].kind = "rollback" => phase # "none"
      /\ journal = 0 /\ job[p].kind = "health" => phase = "none"
  OBVIOUS
<1> HIDE DEF place, phase
<1>5. Types'
  BY <1>1, <1>2, <1>3 DEF CheckPending, Types, Places
<1>6. VersionsInv'
  BY DEF CheckPending, VersionsInv
<1>7. ProcInv(p)'
  BY <1>1, <1>2, <1>3, <1>4 DEF CheckPending, ProcInv, LocksInv, JobInv, FilesInv, Held,
     Cleared, Copying, Writing, Exclusive
<1>8. Alone(p)
  BY <1>1, <1>3 DEF Alone, CheckPending, Types
<1> QED
  BY <1>5, <1>6, <1>7, <1>8, StepKeeps

LEMMA EnterGateKeeps ==
  ASSUME RestoreInv, NEW p \in Procs, EnterGate(p) PROVE RestoreInv'
<1>1. at' = [at EXCEPT ![p] = "scan"] /\ at'[p] = "scan"
  BY DEF EnterGate, Goto, Types
<1>2. Types'
  BY <1>1 DEF EnterGate, Types, Places
<1>3. VersionsInv'
  BY DEF EnterGate, VersionsInv
<1>4. ProcInv(p)'
  BY <1>1 DEF EnterGate, ProcInv, LocksInv, JobInv, FilesInv, Held, Cleared, Copying,
              Writing, Exclusive
<1>5. Alone(p)
  BY <1>1 DEF Alone, EnterGate, Types
<1> QED
  BY <1>2, <1>3, <1>4, <1>5, StepKeeps

LEMMA ScanKeeps ==
  ASSUME RestoreInv, NEW p \in Procs, Scan(p) PROVE RestoreInv'
<1> DEFINE place == IF job[p].phase = "recover" THEN "readJournal" ELSE "nested"
<1>1. CASE leases # {}
  BY <1>1, LeaveKeeps DEF Scan, Types
<1>2. CASE leases = {}
  <2>1. at' = [at EXCEPT ![p] = place] /\ at'[p] = place
    BY <1>2 DEF Scan, Goto, Types
  <2>2. gate = p
    BY DEF Scan, ProcInv, LocksInv, Held
  <2>3. place \in {"readJournal", "nested"} /\ (place = "readJournal" => job[p].phase # "none")
    OBVIOUS
  <2> HIDE DEF place
  <2>4. Types'
    BY <1>2, <2>1, <2>3 DEF Scan, Types, Places, Exclusive
  <2>5. VersionsInv'
    BY DEF Scan, VersionsInv
  <2>6. ProcInv(p)'
    BY <1>2, <2>1, <2>2, <2>3 DEF Scan, ProcInv, LocksInv, JobInv, FilesInv, Held, Cleared,
       Copying, Writing, Exclusive
  <2>7. Alone(p)
    BY <1>2, <2>1 DEF Alone, Scan, Types
  <2> QED
    BY <2>4, <2>5, <2>6, <2>7, StepKeeps
<1> QED
  BY <1>1, <1>2

\* The command keeps what it is, and remembers a snapshot.
LEMMA KeepSnapshot ==
  ASSUME Types, NEW p \in Procs, NEW n \in Nat, job' = [job EXCEPT ![p].kept = n]
  PROVE  /\ job' \in [Procs -> Job]
         /\ job'[p].kind = job[p].kind /\ job'[p].target = job[p].target
         /\ job'[p].phase = job[p].phase /\ job'[p].kept = n
         /\ \A q \in Procs \ {p} : job'[q] = job[q]
<1>1. job[p] \in Job
  BY DEF Types
<1>2. [job[p] EXCEPT !.kept = n] \in Job
  BY <1>1 DEF Job
<1>3. job' = [job EXCEPT ![p] = [job[p] EXCEPT !.kept = n]]
  BY DEF Types
<1> QED
  BY <1>1, <1>2, <1>3 DEF Types, Job

LEMMA ReadJournalKeeps ==
  ASSUME RestoreInv, NEW p \in Procs, ReadJournal(p) PROVE RestoreInv'
<1>1. CASE journal = 0
  BY <1>1, LeaveKeeps DEF ReadJournal, Types
<1>2. CASE journal # 0
  <2>1. at' = [at EXCEPT ![p] = "applyDb"] /\ at'[p] = "applyDb"
    BY <1>2 DEF ReadJournal, Goto, Types
  <2>2. gate = p /\ leases = {} /\ job[p].phase # "none"
    BY DEF ReadJournal, ProcInv, LocksInv, JobInv, Held, Cleared, Exclusive
  <2>3. journal \in DOMAIN snapshots /\ journal \in Nat
    BY <1>2 DEF Types
  <2>4. /\ job' \in [Procs -> Job]
        /\ job'[p].kind = job[p].kind /\ job'[p].target = job[p].target
        /\ job'[p].phase = job[p].phase /\ job'[p].kept = journal
    BY <1>2, <2>3, KeepSnapshot DEF ReadJournal
  <2>5. Types'
    BY <1>2, <2>1, <2>4 DEF ReadJournal, Types, Places, Exclusive
  <2>6. VersionsInv'
    BY DEF ReadJournal, VersionsInv
  <2>7. ProcInv(p)'
    BY <1>2, <2>1, <2>2, <2>3, <2>4 DEF ReadJournal, ProcInv, LocksInv, JobInv, FilesInv, Held,
       Cleared, Copying, Writing, Exclusive
  <2>8. Alone(p)
    BY <1>2, <2>1 DEF Alone, ReadJournal, Types
  <2> QED
    BY <2>5, <2>6, <2>7, <2>8, StepKeeps
<1> QED
  BY <1>1, <1>2

LEMMA NestedKeeps ==
  ASSUME RestoreInv, NEW p \in Procs, Nested(p) PROVE RestoreInv'
<1>1. CASE journal # 0
  BY <1>1, LeaveKeeps DEF Nested, Types
<1>2. CASE journal = 0
  <2>1. at' = [at EXCEPT ![p] = "copyConfig"] /\ at'[p] = "copyConfig"
    BY <1>2 DEF Nested, Goto, Types
  <2>2. gate = p /\ leases = {}
    BY DEF Nested, ProcInv, LocksInv, Held, Cleared, Exclusive
  <2>3. Types'
    BY <1>2, <2>1 DEF Nested, Types, Places
  <2>4. VersionsInv'
    BY <1>2 DEF Nested, VersionsInv
  <2>5. ProcInv(p)'
    BY <1>2, <2>1, <2>2 DEF Nested, ProcInv, LocksInv, JobInv, FilesInv, Held, Cleared,
       Copying, Writing, Exclusive
  <2>6. Alone(p)
    BY <1>2, <2>1 DEF Alone, Nested, Types
  <2> QED
    BY <2>3, <2>4, <2>5, <2>6, StepKeeps
<1> QED
  BY <1>1, <1>2

LEMMA CopyConfigKeeps ==
  ASSUME RestoreInv, NEW p \in Procs, CopyConfig(p) PROVE RestoreInv'
<1>1. at' = [at EXCEPT ![p] = "copyDb"] /\ at'[p] = "copyDb"
  BY DEF CopyConfig, Goto, Types
<1>2. /\ job' = [job EXCEPT ![p].copied = config]
      /\ job' \in [Procs -> Job]
      /\ job'[p].kind = job[p].kind /\ job'[p].target = job[p].target
      /\ job'[p].phase = job[p].phase /\ job'[p].copied = config
  BY DEF CopyConfig, Types, Job
<1>3. Types'
  BY <1>1, <1>2 DEF CopyConfig, Types, Places
<1>4. VersionsInv'
  BY DEF CopyConfig, VersionsInv
<1>5. ProcInv(p)'
  BY <1>1, <1>2 DEF CopyConfig, ProcInv, LocksInv, JobInv, FilesInv, VersionsInv, Held, Cleared,
     Copying, Writing, Exclusive
<1>6. Alone(p)
  BY <1>1, <1>2 DEF Alone, CopyConfig, Types
<1> QED
  BY <1>3, <1>4, <1>5, <1>6, StepKeeps

\* What CopyDb appends.
LEMMA CopyDbAppends ==
  ASSUME RestoreInv, NEW p \in Procs, CopyDb(p)
  PROVE  /\ job[p].copied \in 0 .. version /\ db \in 0 .. version
         /\ snapshots' \in Seq(Pair)
         /\ Len(snapshots') = Len(snapshots) + 1
         /\ snapshots'[Len(snapshots')] = [config |-> job[p].copied, db |-> db]
         /\ \A i \in DOMAIN snapshots : i \in DOMAIN snapshots' /\ snapshots'[i] = snapshots[i]
<1> DEFINE pair == [config |-> job[p].copied, db |-> db]
<1>1. job[p].copied \in 0 .. version /\ db \in 0 .. version
  BY DEF CopyDb, ProcInv, FilesInv, Types, Job, VersionsInv
<1>2. pair \in Pair
  BY <1>1 DEF Pair, Types
<1>3. snapshots' = Append(snapshots, pair) /\ snapshots \in Seq(Pair)
  BY DEF CopyDb, Types
<1> HIDE DEF pair
<1>4. /\ snapshots' \in Seq(Pair)
      /\ Len(snapshots') = Len(snapshots) + 1
      /\ snapshots'[Len(snapshots')] = pair
      /\ \A i \in DOMAIN snapshots : i \in DOMAIN snapshots' /\ snapshots'[i] = snapshots[i]
  BY <1>2, <1>3
<1> QED
  BY <1>1, <1>4 DEF pair

LEMMA CopyDbKeeps ==
  ASSUME RestoreInv, NEW p \in Procs, CopyDb(p) PROVE RestoreInv'
<1> DEFINE pair == [config |-> job[p].copied, db |-> db]
           n == Len(snapshots)
<1>0. version \in Nat /\ job[p].copied \in 0 .. version /\ db \in 0 .. version
  BY CopyDbAppends DEF Types
<1>1. /\ snapshots' \in Seq(Pair) /\ n \in Nat /\ Len(snapshots') = n + 1
      /\ snapshots'[n + 1] = pair
      /\ \A i \in DOMAIN snapshots : i \in DOMAIN snapshots' /\ snapshots'[i] = snapshots[i]
      /\ DOMAIN snapshots' = 1 .. n + 1 /\ DOMAIN snapshots = 1 .. n
  BY CopyDbAppends DEF Types
<1>2. VersionsInv'
  <2>1. ASSUME NEW i \in 1 .. n + 1
        PROVE  snapshots'[i].config <= version /\ snapshots'[i].db <= version
    <3>1. CASE i = n + 1
      <4>1. version \in Nat /\ job[p].copied \in 0 .. version /\ db \in 0 .. version
        BY <1>0
      <4> QED
        BY <1>1, <3>1, <4>1
    <3>2. CASE i \in DOMAIN snapshots
      BY <1>1, <3>2 DEF VersionsInv
    <3> QED
      BY <1>1, <3>1, <3>2
  <2>2. config <= version /\ db <= version /\ UNCHANGED <<config, db, version, journal>>
    BY DEF VersionsInv, CopyDb
  <2>3. leases' \subseteq leases
    BY DEF CopyDb, Leave
  <2> QED
    BY <1>1, <2>1, <2>2, <2>3 DEF VersionsInv
<1>3. CASE job[p].kind = "snapshot"
  <2>1. NoJob \in Job /\ NoJob.kind = "none" /\ NoJob.phase = "none"
    BY DEF NoJob, Job
  <2>2. Leave(p)
    BY <1>3 DEF CopyDb
  <2>3. at'[p] = "idle" /\ job'[p] = NoJob
    BY <2>2 DEF Leave, Goto, Types
  <2>4. Types'
    BY <1>1, <2>1, <2>2 DEF CopyDb, Leave, Goto, Types, Released, Places
  <2>5. ProcInv(p)'
    BY <2>1, <2>3 DEF ProcInv, LocksInv, JobInv, FilesInv, Held, Cleared, Copying, Writing,
                      Exclusive
  <2>6. Alone(p)
    BY <1>1, <2>2 DEF Alone, CopyDb, Leave, Goto, Released, Types
  <2> QED
    BY <1>2, <2>4, <2>5, <2>6, StepKeeps
<1>4. CASE job[p].kind = "rollback"
  <2>1. at' = [at EXCEPT ![p] = "journal"] /\ at'[p] = "journal"
    BY <1>4 DEF CopyDb, Goto, Types
  <2>2. gate = p /\ leases = {} /\ journal = 0 /\ job[p].phase # "none"
    BY <1>4 DEF CopyDb, ProcInv, LocksInv, JobInv, FilesInv, Held, Cleared, Copying
  <2>3. /\ job' \in [Procs -> Job]
        /\ job'[p].kind = job[p].kind /\ job'[p].target = job[p].target
        /\ job'[p].phase = job[p].phase /\ job'[p].kept = n + 1
        /\ \A q \in Procs \ {p} : job'[q] = job[q]
    <3>1. job' = [job EXCEPT ![p].kept = n + 1]
      BY <1>4 DEF CopyDb
    <3>2. Types /\ n + 1 \in Nat
      BY <1>1
    <3> HIDE DEF n
    <3> QED
      BY <3>1, <3>2, KeepSnapshot
  <2>4. UNCHANGED <<files, journal, gate, leases, faults>>
    BY <1>4 DEF CopyDb
  <2>5. Types'
    <3>1. journal \in 0 .. n /\ n \in Nat
      BY <1>1 DEF Types
    <3>2. Types
      OBVIOUS
    <3> HIDE DEF n, RestoreInv
    <3>3. journal' \in 0 .. Len(snapshots')
      BY <1>1, <2>4, <3>1
    <3>4. at' \in [Procs -> Places]
      BY <2>1, <3>2 DEF Types, Places, Exclusive
    <3> QED
      BY <1>1, <2>3, <2>4, <3>2, <3>3, <3>4 DEF Types
  <2>7. JobInv(p)'
    BY <1>1, <1>4, <2>1, <2>2, <2>3 DEF ProcInv, JobInv, Writing
  <2>8. LocksInv(p)'
    BY <2>1, <2>2, <2>4 DEF LocksInv, Held, Cleared
  <2>9. FilesInv(p)'
    BY <2>1, <2>2, <2>3, <2>4 DEF FilesInv, Copying, Writing
  <2>10. Alone(p)
    BY <1>1, <2>1, <2>3, <2>4 DEF Alone, Types
  <2> QED
    BY <1>2, <2>5, <2>7, <2>8, <2>9, <2>10, StepKeeps DEF ProcInv
<1> QED
  BY <1>3, <1>4 DEF CopyDb

\* Writing back: who holds the gate moves on to the next file.
LEMMA WriteJournalKeeps ==
  ASSUME RestoreInv, NEW p \in Procs, WriteJournal(p) PROVE RestoreInv'
<1>1. at' = [at EXCEPT ![p] = "applyDb"] /\ at'[p] = "applyDb"
  BY DEF WriteJournal, Goto, Types
<1>2. /\ gate = p /\ leases = {}
      /\ job[p].kept \in DOMAIN snapshots /\ job[p].phase # "none"
  BY DEF WriteJournal, ProcInv, LocksInv, JobInv, Held, Cleared, Exclusive
<1>3. Types'
  BY <1>1, <1>2 DEF WriteJournal, Types, Places, Exclusive
<1>4. VersionsInv'
  BY <1>2 DEF WriteJournal, VersionsInv
<1>5. ProcInv(p)'
  BY <1>1, <1>2 DEF WriteJournal, ProcInv, LocksInv, JobInv, FilesInv, Held, Cleared, Copying,
     Writing
<1>6. Alone(p)
  BY <1>1, <1>2 DEF Alone, WriteJournal, Types
<1> QED
  BY <1>3, <1>4, <1>5, <1>6, StepKeeps

\* While p writes, what it writes back is a snapshot of versions that exist.
LEMMA RestoredIsSnapshot ==
  ASSUME RestoreInv, NEW p \in Procs, Writing(p)
  PROVE  /\ Restored(p).config \in Nat /\ Restored(p).config <= version
         /\ Restored(p).db \in Nat /\ Restored(p).db <= version
         /\ gate = p /\ leases = {} /\ journal = job[p].kept
<1> DEFINE s == IF job[p].phase = "forward" THEN job[p].target ELSE job[p].kept
<1>1. s \in DOMAIN snapshots
  BY DEF ProcInv, JobInv
<1>2. Restored(p) = snapshots[s]
  BY DEF Restored
<1> HIDE DEF s
<1>3. snapshots[s] \in Pair /\ snapshots[s].config <= version /\ snapshots[s].db <= version
  BY <1>1 DEF Types, VersionsInv
<1>4. gate = p /\ leases = {} /\ journal = job[p].kept
  BY DEF ProcInv, LocksInv, FilesInv, Held, Cleared, Writing, Exclusive
<1> QED
  BY <1>2, <1>3, <1>4 DEF Pair

LEMMA ApplyDbKeeps ==
  ASSUME RestoreInv, NEW p \in Procs, ApplyDb(p) PROVE RestoreInv'
<1>1. at' = [at EXCEPT ![p] = "applyConfig"] /\ at'[p] = "applyConfig"
  BY DEF ApplyDb, Goto, Types
<1>2. /\ db' = Restored(p).db /\ db' \in Nat /\ db' <= version
      /\ gate = p /\ leases = {}
  BY RestoredIsSnapshot DEF ApplyDb, Writing
<1>3. Restored(p)' = Restored(p)
  BY DEF ApplyDb, Restored
<1>4. Types'
  BY <1>1, <1>2 DEF ApplyDb, Types, Places, Exclusive
<1>5. VersionsInv'
  BY <1>2 DEF ApplyDb, VersionsInv
<1>6. ProcInv(p)'
  BY <1>1, <1>2, <1>3 DEF ApplyDb, ProcInv, LocksInv, JobInv, FilesInv, Held, Cleared, Copying,
     Writing, Exclusive
<1>7. Alone(p)
  BY <1>1, <1>2 DEF Alone, ApplyDb, Types
<1> QED
  BY <1>4, <1>5, <1>6, <1>7, StepKeeps

LEMMA ApplyConfigKeeps ==
  ASSUME RestoreInv, NEW p \in Procs, ApplyConfig(p) PROVE RestoreInv'
<1>1. at' = [at EXCEPT ![p] = "unlink"] /\ at'[p] = "unlink"
  BY DEF ApplyConfig, Goto, Types
<1>2. /\ config' = Restored(p).config /\ config' \in Nat /\ config' <= version
      /\ gate = p /\ leases = {}
  BY RestoredIsSnapshot DEF ApplyConfig, Writing
<1>3. Restored(p)' = Restored(p)
  BY DEF ApplyConfig, Restored
<1>4. Types'
  BY <1>1, <1>2 DEF ApplyConfig, Types, Places, Exclusive
<1>5. VersionsInv'
  BY <1>2 DEF ApplyConfig, VersionsInv
<1>6. ProcInv(p)'
  BY <1>1, <1>2, <1>3 DEF ApplyConfig, ProcInv, LocksInv, JobInv, FilesInv, Held, Cleared,
     Copying, Writing, Exclusive
<1>7. Alone(p)
  BY <1>1, <1>2 DEF Alone, ApplyConfig, Types
<1> QED
  BY <1>4, <1>5, <1>6, <1>7, StepKeeps

LEMMA UnlinkKeeps ==
  ASSUME RestoreInv, NEW p \in Procs, Unlink(p) PROVE RestoreInv'
<1> DEFINE next == IF job[p].phase # "recover" THEN "idle" ELSE Resume(p)
           phase == IF job[p].kind = "rollback" THEN "forward" ELSE "none"
<1>1. gate = p /\ leases = {}
  BY RestoredIsSnapshot DEF Unlink, Writing
<1>2. /\ at' = [at EXCEPT ![p] = next] /\ at'[p] = next
      /\ gate' = NoProc /\ leases' = {}
  BY <1>1 DEF Unlink, Leave, Goto, Released, Types
<1>3. /\ next \in {"idle", "waitOpen", "copyConfig", "waitGate"}
      /\ next = "copyConfig" => job[p].kind = "snapshot" /\ job[p].phase = "recover"
      /\ next # "idle" => job[p].phase = "recover"
      /\ next = "idle" /\ job[p].phase = "recover" => job[p].kind = "health"
  BY ResumeIsFree
<1>4. /\ phase \in {"forward", "none"}
      /\ phase = "forward" <=> job[p].kind = "rollback"
  OBVIOUS
<1>5. CASE job[p].phase # "recover"
  <2>1. NoJob \in Job /\ NoJob.kind = "none" /\ NoJob.phase = "none"
    BY DEF NoJob, Job
  <2>2. job' = [job EXCEPT ![p] = NoJob] /\ job'[p] = NoJob /\ at'[p] = "idle"
    BY <1>2, <1>5 DEF Unlink, Leave, Types
  <2> HIDE DEF next, phase
  <2>3. Types'
    BY <1>2, <1>3, <2>1, <2>2 DEF Unlink, Types, Places
  <2>4. VersionsInv'
    BY <1>2 DEF Unlink, VersionsInv
  <2>5. ProcInv(p)'
    BY <2>1, <2>2 DEF ProcInv, LocksInv, JobInv, FilesInv, Held, Cleared, Copying, Writing,
                      Exclusive
  <2>6. Alone(p)
    BY <1>1, <1>2, <2>2 DEF Alone, Unlink, Types
  <2> QED
    BY <2>3, <2>4, <2>5, <2>6, StepKeeps
<1>6. CASE job[p].phase = "recover"
  <2>0. job' = [job EXCEPT ![p].phase = phase]
    BY <1>6 DEF Unlink
  <2> HIDE DEF next, phase
  <2>1. /\ job' = [job EXCEPT ![p].phase = phase]
        /\ job' \in [Procs -> Job]
        /\ job'[p].kind = job[p].kind /\ job'[p].target = job[p].target
        /\ job'[p].phase = phase
    BY <1>4, <2>0 DEF Types, Job
  <2>2. Types'
    BY <1>2, <1>3, <2>1 DEF Unlink, Types, Places
  <2>3. VersionsInv'
    BY <1>2 DEF Unlink, VersionsInv
  <2>4. ProcInv(p)'
    BY <1>2, <1>3, <1>4, <1>6, <2>1 DEF Unlink, ProcInv, LocksInv, JobInv, FilesInv, Held,
       Cleared, Copying, Writing, Exclusive
  <2>5. Alone(p)
    BY <1>1, <1>2, <2>1 DEF Alone, Unlink, Types
  <2> QED
    BY <2>2, <2>3, <2>4, <2>5, StepKeeps
<1> QED
  BY <1>5, <1>6

\* A failed rollback turns to the snapshot its journal names.
LEMMA UndoKeeps ==
  ASSUME RestoreInv, NEW p \in Procs, Undo(p) PROVE RestoreInv'
<1>1. at' = [at EXCEPT ![p] = "applyDb"] /\ at'[p] = "applyDb"
  BY DEF Undo, Goto, Types
<1>2. gate = p /\ leases = {} /\ journal = job[p].kept
  BY RestoredIsSnapshot DEF Undo, Applying, Writing
<1>3. job[p].kind = "rollback" /\ job[p].kept \in DOMAIN snapshots
  BY DEF Undo, Applying, ProcInv, JobInv, Writing
<1>4. /\ job' = [job EXCEPT ![p].phase = "undo"]
      /\ job' \in [Procs -> Job]
      /\ job'[p].kind = job[p].kind /\ job'[p].target = job[p].target
      /\ job'[p].kept = job[p].kept /\ job'[p].phase = "undo"
  BY DEF Undo, Types, Job
<1>5. Types'
  BY <1>1, <1>4 DEF Undo, Types, Places, Exclusive
<1>6. VersionsInv'
  BY DEF Undo, VersionsInv
<1>7. ProcInv(p)'
  BY <1>1, <1>2, <1>3, <1>4 DEF Undo, ProcInv, LocksInv, JobInv, FilesInv, Held, Cleared,
     Copying, Writing, Exclusive
<1>8. Alone(p)
  BY <1>1, <1>2, <1>4 DEF Alone, Undo, Types
<1> QED
  BY <1>5, <1>6, <1>7, <1>8, StepKeeps

LEMMA NextKeepsInv == RestoreInv /\ [RestoreNext]_restoreVars => RestoreInv'
<1> SUFFICES ASSUME RestoreInv, [RestoreNext]_restoreVars PROVE RestoreInv'
  OBVIOUS
<1>1. CASE EditConfig
  BY <1>1, EditConfigKeeps
<1>2. ASSUME NEW p \in Procs, CloseStore(p) \/ GateTimeout(p) \/ Raise(p) \/ Kill(p)
      PROVE  RestoreInv'
  BY <1>2, LeaveKeeps DEF CloseStore, GateTimeout, Raise, Kill, Types
<1>3. ASSUME NEW p \in Procs,
             \/ StartCommand(p, "health", 0) \/ StartCommand(p, "snapshot", 0)
             \/ \E s \in DOMAIN snapshots : StartCommand(p, "rollback", s)
      PROVE  RestoreInv'
  BY <1>3, StartCommandKeeps
<1>4. ASSUME NEW p \in Procs, RestoreStep(p) PROVE RestoreInv'
  BY <1>2, <1>3, <1>4, OpenStoreKeeps, EnterOpenGateKeeps, TakeLeaseKeeps, ConnectKeeps,
     CommitKeeps, CheckPendingKeeps, EnterGateKeeps, ScanKeeps, ReadJournalKeeps, NestedKeeps,
     CopyConfigKeeps, CopyDbKeeps, WriteJournalKeeps, ApplyDbKeeps, ApplyConfigKeeps,
     UnlinkKeeps, UndoKeeps
     DEF RestoreStep
<1>5. CASE UNCHANGED restoreVars
  BY <1>5 DEF Types, VersionsInv, ProcInv, LocksInv, JobInv, FilesInv, Held, Cleared, Copying,
              Writing, Restored
<1> QED
  BY <1>1, <1>4, <1>5 DEF RestoreNext

-----------------------------------------------------------------------------
(* The edit that comes after a restore                                     *)

\* Who is about to unlink the journal is alone at that.
LEMMA OneUnlinks ==
  ASSUME RestoreInv, NEW p \in Procs, Held(p), NEW q \in Procs, at[q] = "unlink"
  PROVE  q = p
BY DEF ProcInv, LocksInv, Held, Cleared, Exclusive

LEMMA UnlinkHasJournal ==
  ASSUME RestoreInv, NEW q \in Procs, at[q] = "unlink"
  PROVE  journal # 0
BY DEF Types, ProcInv, JobInv, FilesInv, Writing

\* No late edit counts before somebody has written everything back.
LEMMA NoLate ==
  ASSUME \A q \in Procs : at[q] # "unlink"
  PROVE  Late = 0
BY DEF Late

LEMMA NoLateNext ==
  ASSUME \A q \in Procs : at'[q] # "unlink"
  PROVE  Late' = 0
BY DEF Late

\* A step that neither comes to the unlinking nor leaves it does not touch a late edit.
LEMMA LateFrame ==
  ASSUME RestoreInv, NEW p \in Procs, at[p] # "unlink", at'[p] # "unlink",
         \A q \in Procs \ {p} : at'[q] = at[q] /\ job'[q] = job[q],
         gate = p \/ leases # {} \/ config' = config,
         \A i \in DOMAIN snapshots : snapshots'[i] = snapshots[i]
  PROVE  Late' = Late
<1>1. CASE \A q \in Procs : at[q] # "unlink"
  BY <1>1, NoLate, NoLateNext
<1>2. CASE \E q \in Procs : at[q] = "unlink"
  <2>1. PICK u \in Procs : at[u] = "unlink" /\ u # p
    BY <1>2
  <2>2. gate = u /\ leases = {}
    BY <2>1 DEF ProcInv, LocksInv, Held, Cleared, Exclusive
  <2>3. config' = config
    BY <2>1, <2>2
  <2>4. \A q \in Procs : (at'[q] = "unlink" <=> at[q] = "unlink")
    OBVIOUS
  <2>5. ASSUME NEW q \in Procs, at[q] = "unlink" PROVE Restored(q)' = Restored(q)
    <3>1. /\ job[q].kept \in DOMAIN snapshots
          /\ job[q].phase = "forward" => job[q].target \in DOMAIN snapshots
      BY <2>5 DEF ProcInv, JobInv, Writing
    <3>2. job'[q] = job[q]
      BY <2>5
    <3> QED
      BY <3>1, <3>2 DEF Restored
  <2> QED
    BY <2>3, <2>4, <2>5 DEF Late
<1> QED
  BY <1>1, <1>2

LEMMA InvHolds == RestoreSpec => []RestoreInv
BY InitInv, NextKeepsInv, PTL DEF RestoreSpec

-----------------------------------------------------------------------------
(* Theorems                                                                *)

\* For any number of processes, snapshots and faults: no store is open while a restore
\* is pending or under way, whatever process died in between.
THEOREM RestoreIsAlone == RestoreSpec => []NoStoreDuringRestore
<1>1. RestoreInv => NoStoreDuringRestore
  <2> SUFFICES ASSUME RestoreInv PROVE NoStoreDuringRestore
    OBVIOUS
  <2>1. RestoreTypeOK
    BY DEF RestoreTypeOK, Types, ProcInv, JobInv, Writing
  <2>2. ASSUME NEW p \in Procs, at[p] \in Exclusive PROVE leases = {}
    BY <2>2 DEF ProcInv, LocksInv, Cleared
  <2> QED
    BY <2>1, <2>2 DEF NoStoreDuringRestore, VersionsInv
<1> QED
  BY <1>1, InvHolds, PTL

\* Every step of the detailed specification is a step of the contract on the files a
\* recovery would show, or leaves them alone: whatever process dies, and wherever the
\* owner's edits of config.yaml fall, the configuration and the database a rollback
\* leaves are a snapshot's, but for an edit that came after its last write.
THEOREM RestoreKeepsContract == RestoreSpec => ImplementsRestoreContract
<1> DEFINE seen == <<Visible, snapshots, version, journal # 0, Late>>
<1>1. RestoreInit => Contract!ContractInit
  BY DEF RestoreInit, Contract!ContractInit, Visible, Late
<1>2. ASSUME RestoreInv, RestoreInv', [RestoreNext]_restoreVars
      PROVE  Contract!ContractNext \/ UNCHANGED seen
  <2>a. Types /\ Types' /\ VersionsInv
    BY <1>2
  <2>b. ASSUME journal = 0 PROVE Late = 0
    BY <1>2, <2>b, UnlinkHasJournal, NoLate
  <2>c. ASSUME journal' = 0 PROVE Late' = 0
    <3>1. ASSUME NEW q \in Procs PROVE at'[q] # "unlink"
      BY <1>2, <2>c DEF Types, ProcInv, JobInv, FilesInv, Writing
    <3> QED
      BY <3>1, NoLateNext
  <2>1. CASE EditConfig
    <3>1. /\ config' = version + 1 /\ version' = version + 1
          /\ UNCHANGED <<db, snapshots, journal, at, job>>
      BY <2>1 DEF EditConfig
    <3>2. CASE journal = 0
      <4>1. Visible' = [Visible EXCEPT !.config = version + 1]
        BY <3>1, <3>2 DEF Visible
      <4>2. Contract!Change("config")
        BY <2>b, <2>c, <3>1, <3>2, <4>1 DEF Contract!Change
      <4> QED
        BY <4>2 DEF Contract!ContractNext
    <3>3. CASE journal # 0
      <4>1. Visible' = Visible
        BY <3>1, <3>3 DEF Visible
      <4>2. Late' \in {Late, version + 1}
        <5>1. CASE \A q \in Procs : at[q] # "unlink"
          BY <3>1, <5>1, NoLate, NoLateNext
        <5>2. ASSUME NEW q \in Procs, at[q] = "unlink" PROVE Late' = version + 1
          <6>1. Restored(q)' = Restored(q)
            BY <3>1 DEF Restored
          <6>2. Restored(q).config <= version /\ Restored(q).config \in Nat
            BY <1>2, <5>2, RestoredIsSnapshot DEF Writing
          <6>3. config' # Restored(q)'.config /\ at'[q] = "unlink"
            BY <2>a, <3>1, <5>2, <6>1, <6>2 DEF Types
          <6> QED
            BY <3>1, <6>3 DEF Late
        <5> QED
          BY <5>1, <5>2
      <4>3. Contract!EditPending
        BY <3>1, <3>3, <4>1, <4>2 DEF Contract!EditPending
      <4> QED
        BY <4>3 DEF Contract!ContractNext
    <3> QED
      BY <3>2, <3>3
  <2>2. ASSUME NEW p \in Procs, Connect(p) \/ Commit(p)
        PROVE  Contract!ContractNext \/ UNCHANGED seen
    <3>1. journal = 0 /\ UNCHANGED <<config, journal, snapshots>>
      BY <1>2, <2>2 DEF Connect, Commit, ProcInv, LocksInv, VersionsInv
    <3>2. UNCHANGED <<db, version>> \/ (db' = version + 1 /\ version' = version + 1)
      BY <2>2 DEF Connect, Commit
    <3>3. Late = 0 /\ Late' = 0
      BY <2>b, <2>c, <3>1
    <3>4. CASE UNCHANGED <<db, version>>
      BY <3>1, <3>3, <3>4 DEF Visible
    <3>5. CASE db' = version + 1 /\ version' = version + 1
      <4>1. Contract!Change("db")
        BY <3>1, <3>3, <3>5 DEF Contract!Change, Visible
      <4> QED
        BY <4>1 DEF Contract!ContractNext
    <3> QED
      BY <3>2, <3>4, <3>5
  <2>3. ASSUME NEW p \in Procs, CopyDb(p) PROVE Contract!ContractNext
    <3>1. job[p].copied \in 0 .. version /\ db \in 0 .. version
      BY <1>2, <2>3, CopyDbAppends
    <3>2. \A i \in DOMAIN snapshots : snapshots'[i] = snapshots[i]
      BY <1>2, <2>3, CopyDbAppends
    <3>3. Visible' = Visible
      <4>1. journal # 0 => snapshots'[journal] = snapshots[journal]
        BY <2>a, <3>2 DEF Types
      <4> QED
        BY <2>3, <4>1 DEF CopyDb, Visible
    <3>4. Late' = Late
      <4>1. /\ at[p] = "copyDb" /\ at'[p] \in {"idle", "journal"} /\ config' = config
            /\ \A q \in Procs \ {p} : at'[q] = at[q] /\ job'[q] = job[q]
        BY <2>a, <2>3 DEF CopyDb, Leave, Goto, Types
      <4> QED
        BY <1>2, <3>2, <4>1, LateFrame
    <3>5. Contract!Take([config |-> job[p].copied, db |-> db])
      BY <2>3, <3>3, <3>4 DEF CopyDb, Contract!Take
    <3> QED
      BY <3>1, <3>5 DEF Contract!ContractNext
  <2>4. ASSUME NEW p \in Procs, WriteJournal(p) PROVE Contract!ContractNext
    <3>1. /\ journal = 0 /\ job[p].kept # 0 /\ job[p].kept \in DOMAIN snapshots
          /\ journal' = job[p].kept /\ at' = [at EXCEPT ![p] = "applyDb"]
          /\ UNCHANGED <<version, snapshots>>
      BY <1>2, <2>4 DEF WriteJournal, Goto, ProcInv, JobInv, FilesInv, Types
    <3>2. Late = 0
      BY <2>b, <3>1
    <3>3. Late' = 0
      <4>1. ASSUME NEW q \in Procs PROVE at'[q] # "unlink"
        <5>1. at[q] # "unlink"
          BY <1>2, <3>1, UnlinkHasJournal
        <5> QED
          BY <2>a, <3>1, <5>1 DEF Types
      <4> QED
        BY <4>1, NoLateNext
    <3>4. Contract!Begin(job[p].kept)
      BY <3>1, <3>2, <3>3 DEF Contract!Begin, Visible
    <3> QED
      BY <3>1, <3>4 DEF Contract!ContractNext
  <2>5. ASSUME NEW p \in Procs, ApplyDb(p) \/ ApplyConfig(p) PROVE UNCHANGED seen
    <3>1. /\ journal # 0 /\ UNCHANGED <<version, snapshots, journal, job>>
          /\ at[p] # "unlink" /\ Held(p)
      BY <1>2, <2>5 DEF ApplyDb, ApplyConfig, ProcInv, JobInv, FilesInv, Writing, Types, Held,
         Cleared, Exclusive
    <3>2. \A q \in Procs : at[q] # "unlink"
      BY <1>2, <3>1, OneUnlinks
    <3>3. ASSUME NEW q \in Procs, at'[q] = "unlink" PROVE config' = Restored(q)'.config
      <4>1. q = p /\ ApplyConfig(p)
        BY <2>a, <2>5, <3>2, <3>3 DEF ApplyDb, ApplyConfig, Goto, Types
      <4>2. Restored(p)' = Restored(p)
        BY <3>1 DEF Restored
      <4> QED
        BY <4>1, <4>2 DEF ApplyConfig
    <3>4. Late = 0 /\ Late' = 0
      BY <3>2, <3>3, NoLate DEF Late
    <3> QED
      BY <3>1, <3>4 DEF Visible
  <2>6. ASSUME NEW p \in Procs, Unlink(p) PROVE Contract!ContractNext
    <3>1. PICK s : s = IF job[p].phase = "forward" THEN job[p].target ELSE job[p].kept
      OBVIOUS
    <3>2. /\ s \in DOMAIN snapshots /\ Restored(p) = snapshots[s]
          /\ journal # 0 /\ db = snapshots[s].db
          /\ config = snapshots[s].config \/ config > 0
      BY <1>2, <2>6, <3>1 DEF Unlink, Restored, ProcInv, JobInv, FilesInv, Writing, Types
    <3>3. /\ journal' = 0 /\ UNCHANGED <<config, db, version, snapshots>> /\ Held(p)
          /\ at[p] = "unlink"
      BY <2>6 DEF Unlink, Held, Cleared, Exclusive
    <3>4. Late = IF config # snapshots[s].config THEN config ELSE 0
      <4>1. \A q \in Procs : at[q] = "unlink" => q = p
        BY <1>2, <3>3, OneUnlinks
      <4> QED
        BY <3>2, <3>3, <4>1 DEF Late
    <3>5. Visible' = [config |-> config, db |-> db] /\ Late' = 0
      BY <2>c, <3>3 DEF Visible
    <3>6. snapshots[s] \in Pair /\ config \in Nat
      BY <2>a, <3>2 DEF Types
    <3>7. Visible' = IF Late = 0 THEN snapshots[s] ELSE [snapshots[s] EXCEPT !.config = Late]
      <4>1. CASE config = snapshots[s].config
        BY <3>2, <3>4, <3>5, <3>6, <4>1 DEF Pair
      <4>2. CASE config # snapshots[s].config
        <5>1. Late = config /\ config # 0
          BY <3>2, <3>4, <3>6, <4>2
        <5>2. [snapshots[s] EXCEPT !.config = config] = [config |-> config, db |-> db]
          BY <3>2, <3>6 DEF Pair
        <5> QED
          BY <3>5, <5>1, <5>2
      <4> QED
        BY <4>1, <4>2
    <3>8. Contract!End(s)
      BY <3>2, <3>3, <3>5, <3>7 DEF Contract!End
    <3> QED
      BY <3>2, <3>8 DEF Contract!ContractNext
  <2>7. ASSUME NEW p \in Procs, Raise(p), at[p] = "unlink" PROVE Contract!ContractNext
    <3>1. Held(p) /\ at' = [at EXCEPT ![p] = "idle"] /\ UNCHANGED <<files, snapshots, journal>>
      BY <2>7 DEF Raise, Leave, Goto, Held, Cleared, Exclusive
    <3>2. \A q \in Procs : at'[q] # "unlink"
      BY <1>2, <2>a, <3>1, OneUnlinks DEF Types
    <3>3. journal # 0
      BY <1>2, <2>7, UnlinkHasJournal
    <3>4. Contract!Drop
      BY <3>1, <3>2, <3>3, NoLateNext DEF Contract!Drop, Visible
    <3> QED
      BY <3>4 DEF Contract!ContractNext
  <2>8. ASSUME NEW p \in Procs, RestoreStep(p)
        PROVE  Contract!ContractNext \/ UNCHANGED seen
    <3>1. ASSUME UNCHANGED <<files, snapshots, journal>>, at[p] # "unlink",
                 at'[p] # "unlink", \A q \in Procs \ {p} : at'[q] = at[q] /\ job'[q] = job[q]
          PROVE  UNCHANGED seen
      BY <1>2, <3>1, LateFrame DEF Visible
    <3>2. ASSUME \/ OpenStore(p) \/ EnterOpenGate(p) \/ TakeLease(p) \/ CloseStore(p)
                 \/ StartCommand(p, "health", 0) \/ StartCommand(p, "snapshot", 0)
                 \/ \E s \in DOMAIN snapshots : StartCommand(p, "rollback", s)
                 \/ EnterGate(p) \/ GateTimeout(p) \/ Scan(p)
          PROVE  UNCHANGED seen
      BY <2>a, <3>1, <3>2
         DEF OpenStore, EnterOpenGate, TakeLease, CloseStore, StartCommand, EnterGate,
             GateTimeout, Scan, Leave, Goto, Types
    <3>3. ASSUME \/ CheckPending(p) \/ ReadJournal(p) \/ Nested(p) \/ CopyConfig(p)
                 \/ Undo(p) \/ Kill(p) \/ (Raise(p) /\ at[p] # "unlink")
          PROVE  UNCHANGED seen
      BY <2>a, <3>1, <3>3
         DEF CheckPending, Resume, ReadJournal, Nested, CopyConfig, Undo, Kill, Raise, Applying,
             Leave, Goto, Types
    <3> QED
      BY <2>2, <2>3, <2>4, <2>5, <2>6, <2>7, <2>8, <3>2, <3>3 DEF RestoreStep
  <2>9. CASE UNCHANGED restoreVars
    BY <2>9 DEF Visible, Late, Restored
  <2> QED
    BY <1>2, <2>1, <2>8, <2>9 DEF RestoreNext
<1> QED
  BY <1>1, <1>2, InvHolds, PTL DEF ImplementsRestoreContract, Contract!ContractSpec,
     Contract!contractVars, RestoreSpec
=============================================================================

---------------------------- MODULE RegistryProofs ----------------------------
(***************************************************************************)
(* The component registry, for any managers, packages and requirements:    *)
(* its types, its soundness, and that it keeps the promise of              *)
(* RegistryContract.                                                       *)
(*                                                                         *)
(* Whoever is past "idle" holds the lock, so one process at a time writes. *)
(* A replay keeps what the journal stands for: after the rollback entries  *)
(* are written they are those the registry promises, and after the         *)
(* registry is written it is the journal's.  So each part of the replay is *)
(* a stutter of the contract, and may be repeated after a crash.           *)
(***************************************************************************)
EXTENDS ComponentRegistry, TLAPS

-----------------------------------------------------------------------------
(* The inductive invariant                                                 *)

LockInv == \A m \in Managers : stage[m] # "idle" <=> owner = m

JournalInv ==
  \A m \in Managers :
    /\ stage[m] \in {"replay", "install", "unlink"} => pending # None
    /\ stage[m] \in {"act", "activate", "run"} => pending = None
    /\ stage[m] \in {"install", "unlink"} => undo = Back
    /\ stage[m] = "unlink" => installed = pending.installed

CommandInv ==
  \A m \in Managers :
    /\ command[m].kind # "none" => command[m].name \in Components
    /\ command[m].kind = "import" => command[m].package \in Packages
    /\ stage[m] = "activate" =>
         /\ command[m].kind = "import"
         /\ command[m].package \in directories
         /\ Compatible([installed EXCEPT ![command[m].name] = command[m].package])
    /\ stage[m] = "run" =>
         /\ command[m].kind = "run"
         /\ installed[command[m].name] = command[m].package

HasFiles(entries) == \A c \in Components : entries[c] \in directories \cup {None}

FilesInv ==
  /\ Compatible(installed) /\ HasFiles(installed) /\ HasFiles(undo)
  /\ pending # None =>
       /\ Compatible(pending.installed)
       /\ HasFiles(pending.installed) /\ HasFiles(pending.previous)

RegistryInv == RegistryTypeOK /\ LockInv /\ JournalInv /\ CommandInv /\ FilesInv

-----------------------------------------------------------------------------
(* Lemmas                                                                  *)

USE RegistryConstants, JournalIsSomething DEF registryVars

\* An empty registry lacks nothing: the first start of component_manager.py.
LEMMA EmptyIsCompatible == Compatible(Empty)
BY DEF Compatible, Cyclic, Dependents, Empty

\* Uninstalling what nobody needs leaves the others their dependencies.
LEMMA UninstallKeepsCompatible ==
  ASSUME NEW entries \in Entries, NEW c \in Components, Compatible(entries),
         Dependents(entries, c) = {}
  PROVE  Compatible([entries EXCEPT ![c] = None])
<1> DEFINE rest == [entries EXCEPT ![c] = None]
<1>1. ASSUME NEW d \in Components, rest[d] # None
      PROVE  Satisfied(rest, rest[d])
  <2>1. d # c /\ rest[d] = entries[d] /\ entries[d] \in Packages
    BY <1>1 DEF Entries
  <2>2. Satisfied(entries, entries[d])
    BY <1>1, <2>1 DEF Compatible
  <2>3. ASSUME NEW need \in Needs[entries[d]]
        PROVE  \E q \in need : rest[NameOf[q]] = q
    <3>1. PICK q \in need : entries[NameOf[q]] = q
      BY <2>2, <2>3 DEF Satisfied
    <3>2. q \in Packages /\ NameOf[q] \in Components
      BY <2>1, <2>3, <3>1
    <3>3. NameOf[q] # c
      BY <2>1, <2>3, <3>1 DEF Dependents
    <3> QED
      BY <3>1, <3>2, <3>3 DEF Entries
  <2> QED
    BY <2>1, <2>3 DEF Satisfied
<1>2. ASSUME NEW d \in Components
      PROVE  Dependents(rest, d) \subseteq Dependents(entries, d)
  BY DEF Dependents, Entries
<1>3. ASSUME NEW cycle \in SUBSET Components, Cyclic(rest, cycle)
      PROVE  FALSE
  <2>1. Cyclic(entries, cycle)
    BY <1>2, <1>3 DEF Cyclic
  <2> QED
    BY <1>3, <2>1 DEF Compatible
<1> QED
  BY <1>1, <1>3 DEF Compatible

LEMMA InitInv == RegistryInit => RegistryInv
<1> SUFFICES ASSUME RegistryInit PROVE RegistryInv
  OBVIOUS
<1>1. RegistryTypeOK
  BY DEF RegistryInit, RegistryTypeOK, Entries, Empty, Command, NoCommand
<1>2. LockInv /\ JournalInv /\ CommandInv
  BY DEF RegistryInit, LockInv, JournalInv, CommandInv, NoCommand
<1>3. FilesInv
  BY EmptyIsCompatible DEF RegistryInit, FilesInv, HasFiles, Empty
<1> QED
  BY <1>1, <1>2, <1>3 DEF RegistryInv

\* Exactly one process is past "idle" when one is.
LEMMA OthersAreIdle ==
  ASSUME LockInv, NEW m \in Managers, stage[m] # "idle"
  PROVE  owner = m /\ \A k \in Managers : k # m => stage[k] = "idle"
BY DEF LockInv

\* What a step of the holder m to another place has to show: the rest follows from the
\* others being idle.
LEMMA HolderMoves ==
  ASSUME RegistryInv, RegistryTypeOK', FilesInv', NEW m \in Managers, stage[m] # "idle",
         NEW place, MoveTo(m, place), place # "idle", UNCHANGED owner,
         \A k \in Managers : k # m => command'[k] = command[k],
         place \in {"replay", "install", "unlink"} => pending' # None,
         place \in {"act", "activate", "run"} => pending' = None,
         place \in {"install", "unlink"} => undo' = Back',
         place = "unlink" => installed' = pending'.installed,
         command'[m].kind # "none" => command'[m].name \in Components,
         command'[m].kind = "import" => command'[m].package \in Packages,
         place = "activate" =>
           /\ command'[m].kind = "import"
           /\ command'[m].package \in directories'
           /\ Compatible([installed' EXCEPT ![command'[m].name] = command'[m].package]),
         place = "run" =>
           /\ command'[m].kind = "run"
           /\ installed'[command'[m].name] = command'[m].package
  PROVE  RegistryInv'
<1>1. owner = m /\ \A k \in Managers : k # m => stage[k] = "idle"
  BY OthersAreIdle DEF RegistryInv
<1>2. stage'[m] = place /\ \A k \in Managers : k # m => stage'[k] = "idle"
  BY <1>1 DEF MoveTo, RegistryInv, RegistryTypeOK
<1>3. LockInv'
  BY <1>1, <1>2 DEF LockInv
<1>4. JournalInv'
  <2> SUFFICES ASSUME NEW k \in Managers
               PROVE  /\ stage'[k] \in {"replay", "install", "unlink"} => pending' # None
                      /\ stage'[k] \in {"act", "activate", "run"} => pending' = None
                      /\ stage'[k] \in {"install", "unlink"} => undo' = Back'
                      /\ stage'[k] = "unlink" => installed' = pending'.installed
    BY DEF JournalInv
  <2>1. CASE k = m
    BY <1>2, <2>1
  <2>2. CASE k # m
    BY <1>2, <2>2
  <2> QED
    BY <2>1, <2>2
<1>5. CommandInv'
  BY <1>2 DEF CommandInv, RegistryInv
<1> QED
  BY <1>3, <1>4, <1>5 DEF RegistryInv

\* The end of a command, with the journal written or not.
LEMMA HolderLeaves ==
  ASSUME RegistryInv, RegistryTypeOK', FilesInv', NEW m \in Managers, stage[m] # "idle",
         Release(m)
  PROVE  RegistryInv'
<1>1. owner = m /\ \A k \in Managers : k # m => stage[k] = "idle"
  BY OthersAreIdle DEF RegistryInv
<1>2. \A k \in Managers : stage'[k] = "idle"
  BY <1>1 DEF Release, MoveTo, RegistryInv, RegistryTypeOK
<1>3. LockInv'
  BY <1>2 DEF LockInv, Release
<1>4. JournalInv'
  BY <1>2 DEF JournalInv
<1>5. CommandInv'
  BY <1>2 DEF CommandInv, RegistryInv, Release, NoCommand, RegistryTypeOK
<1> QED
  BY <1>3, <1>4, <1>5 DEF RegistryInv

\* A command that passed its checks writes a journal that is as sound as they are.
LEMMA JournalKeeps ==
  ASSUME RegistryInv, NEW m \in Managers, stage[m] \in {"act", "activate"},
         NEW c \in Components, NEW p \in Packages \cup {None},
         Compatible([installed EXCEPT ![c] = p]), p \in directories \cup {None},
         Journal(m, c, p), UNCHANGED <<installed, undo, directories, owner>>
  PROVE  RegistryInv'
<1> DEFINE journal == [installed |-> [installed EXCEPT ![c] = p],
                       previous |-> [Empty EXCEPT ![c] = installed[c]]]
<1>1. /\ installed \in Entries /\ undo \in Entries /\ directories \subseteq Packages
      /\ stage \in [Managers -> {"idle", "recover", "replay", "install", "unlink", "act",
                                 "activate", "run"}]
      /\ command \in [Managers -> Command]
  BY DEF RegistryInv, RegistryTypeOK
<1>2. journal.installed \in Entries /\ journal.previous \in Entries
  BY <1>1 DEF Entries, Empty
<1>3. pending' = journal /\ journal \in [installed : Entries, previous : Entries]
      /\ pending' # None
  <2>1. pending' = journal
    BY DEF Journal
  <2>2. journal \in [installed : Entries, previous : Entries]
    BY <1>2
  <2> HIDE DEF journal
  <2> QED
    BY <2>1, <2>2
<1>4. stage' = [stage EXCEPT ![m] = "replay"] /\ command' = [command EXCEPT ![m] = NoCommand]
  BY DEF Journal, MoveTo
<1>5. NoCommand \in Command
  BY DEF NoCommand, Command
<1>6. RegistryTypeOK'
  <2>1. stage' \in [Managers -> {"idle", "recover", "replay", "install", "unlink", "act",
                                "activate", "run"}]
    BY <1>1, <1>4
  <2>2. command' \in [Managers -> Command]
    BY <1>1, <1>4, <1>5
  <2> QED
    BY <1>1, <1>3, <2>1, <2>2 DEF RegistryInv, RegistryTypeOK
<1>7. FilesInv'
  <2>1. HasFiles(journal.installed)' /\ HasFiles(journal.previous)'
    BY <1>1 DEF RegistryInv, FilesInv, HasFiles, Entries, Empty
  <2>2. (Compatible(installed) /\ HasFiles(installed) /\ HasFiles(undo))'
    BY DEF RegistryInv, FilesInv, HasFiles, Compatible
  <2>3. Compatible(pending'.installed)
    BY <1>3
  <2> QED
    BY <1>3, <2>1, <2>2, <2>3 DEF FilesInv, HasFiles, Compatible
<1>8. /\ MoveTo(m, "replay") /\ owner' = owner /\ stage[m] # "idle"
      /\ \A k \in Managers : k # m => command'[k] = command[k]
      /\ command'[m].kind = "none"
  BY <1>1, <1>4 DEF Journal, NoCommand
<1> HIDE DEF journal
<1> QED
  BY <1>3, <1>6, <1>7, <1>8, HolderMoves

LEMMA BeginKeeps ==
  ASSUME RegistryInv, NEW m \in Managers, NEW cmd \in Requests, Begin(m, cmd)
  PROVE  RegistryInv'
<1>1. cmd \in Command /\ cmd.name \in Components
      /\ (cmd.kind = "import" => cmd.package \in Packages)
  BY DEF Requests, Command
<1>2. \A k \in Managers : stage[k] = "idle"
  BY DEF Begin, RegistryInv, LockInv
<1>3. /\ \A k \in Managers : stage'[k] = IF k = m THEN "recover" ELSE "idle"
      /\ \A k \in Managers : command'[k] = IF k = m THEN cmd ELSE command[k]
  BY <1>2 DEF Begin, MoveTo, RegistryInv, RegistryTypeOK
<1>4. RegistryTypeOK'
  BY <1>1 DEF RegistryInv, RegistryTypeOK, Begin, MoveTo
<1>5. LockInv'
  BY <1>3 DEF LockInv, Begin
<1>6. JournalInv'
  BY <1>3 DEF JournalInv
<1>7. CommandInv'
  BY <1>1, <1>3 DEF CommandInv, RegistryInv
<1>8. FilesInv'
  BY DEF RegistryInv, FilesInv, HasFiles, Begin, Compatible
<1> QED
  BY <1>4, <1>5, <1>6, <1>7, <1>8 DEF RegistryInv

LEMMA RecoverKeeps ==
  ASSUME RegistryInv, NEW m \in Managers, Recover(m)
  PROVE  RegistryInv'
<1>1. RegistryTypeOK'
  BY DEF RegistryInv, RegistryTypeOK, Recover, MoveTo
<1>2. FilesInv'
  BY DEF RegistryInv, FilesInv, HasFiles, Recover, Compatible
<1>3. command[m].kind # "none" => command[m].name \in Components
  BY DEF RegistryInv, CommandInv
<1>4. command[m].kind = "import" => command[m].package \in Packages
  BY DEF RegistryInv, CommandInv
<1>5. CASE pending = None
  BY <1>1, <1>2, <1>3, <1>4, <1>5, HolderMoves DEF Recover
<1>6. CASE pending # None
  BY <1>1, <1>2, <1>3, <1>4, <1>6, HolderMoves DEF Recover
<1> QED
  BY <1>5, <1>6

LEMMA AbandonKeeps ==
  ASSUME RegistryInv, NEW m \in Managers, Abandon(m)
  PROVE  RegistryInv'
<1>1. RegistryTypeOK'
  BY DEF RegistryInv, RegistryTypeOK, Abandon, Release, MoveTo, NoCommand, Command
<1>2. FilesInv'
  BY DEF RegistryInv, FilesInv, HasFiles, Abandon, Compatible
<1> QED
  BY <1>1, <1>2, HolderLeaves DEF Abandon

LEMMA ReplayUndoKeeps ==
  ASSUME RegistryInv, NEW m \in Managers, ReplayUndo(m)
  PROVE  RegistryInv'
<1>1. pending # None /\ pending \in [installed : Entries, previous : Entries]
  BY DEF RegistryInv, RegistryTypeOK, JournalInv, ReplayUndo
<1>2. undo' \in Entries
  BY <1>1 DEF RegistryInv, RegistryTypeOK, ReplayUndo, Entries
<1>3. RegistryTypeOK'
  BY <1>2 DEF RegistryInv, RegistryTypeOK, ReplayUndo, MoveTo
<1>4. FilesInv'
  <2>1. HasFiles(undo)'
    BY <1>1 DEF RegistryInv, FilesInv, HasFiles, ReplayUndo
  <2> QED
    BY <2>1 DEF RegistryInv, FilesInv, HasFiles, ReplayUndo, Compatible
<1>5. undo' = Back'
  BY <1>1 DEF ReplayUndo, Back
<1>6. command[m].kind # "none" => command[m].name \in Components
  BY DEF RegistryInv, CommandInv
<1>7. command[m].kind = "import" => command[m].package \in Packages
  BY DEF RegistryInv, CommandInv
<1> QED
  BY <1>1, <1>3, <1>4, <1>5, <1>6, <1>7, HolderMoves DEF ReplayUndo

LEMMA ReplayInstalledKeeps ==
  ASSUME RegistryInv, NEW m \in Managers, ReplayInstalled(m)
  PROVE  RegistryInv'
<1>1. pending # None /\ pending \in [installed : Entries, previous : Entries] /\ undo = Back
  BY DEF RegistryInv, RegistryTypeOK, JournalInv, ReplayInstalled
<1>2. RegistryTypeOK'
  BY <1>1 DEF RegistryInv, RegistryTypeOK, ReplayInstalled, MoveTo
<1>3. FilesInv'
  BY <1>1 DEF RegistryInv, FilesInv, HasFiles, ReplayInstalled, Compatible
<1>4. undo' = Back' /\ installed' = pending'.installed
  BY <1>1 DEF ReplayInstalled, Back
<1>5. command[m].kind # "none" => command[m].name \in Components
  BY DEF RegistryInv, CommandInv
<1>6. command[m].kind = "import" => command[m].package \in Packages
  BY DEF RegistryInv, CommandInv
<1> QED
  BY <1>1, <1>2, <1>3, <1>4, <1>5, <1>6, HolderMoves DEF ReplayInstalled

LEMMA ReplayEndsKeeps ==
  ASSUME RegistryInv, NEW m \in Managers, ReplayEnds(m)
  PROVE  RegistryInv'
<1>1. RegistryTypeOK'
  BY DEF RegistryInv, RegistryTypeOK, ReplayEnds, Release, MoveTo, NoCommand, Command
<1>2. FilesInv'
  BY DEF RegistryInv, FilesInv, HasFiles, ReplayEnds, Compatible
<1>3. CASE command[m].kind = "none"
  BY <1>1, <1>2, <1>3, HolderLeaves DEF ReplayEnds
<1>4. CASE command[m].kind # "none"
  <2>1. command[m].name \in Components
    BY <1>4 DEF RegistryInv, CommandInv
  <2>2. command[m].kind = "import" => command[m].package \in Packages
    BY DEF RegistryInv, CommandInv
  <2> QED
    BY <1>1, <1>2, <1>4, <2>1, <2>2, HolderMoves DEF ReplayEnds
<1> QED
  BY <1>3, <1>4

LEMMA ExtractKeeps ==
  ASSUME RegistryInv, NEW m \in Managers, Extract(m)
  PROVE  RegistryInv'
<1>1. command[m].name \in Components /\ command[m].package \in Packages /\ pending = None
  BY DEF RegistryInv, CommandInv, JournalInv, Extract, Acting
<1>2. RegistryTypeOK'
  BY <1>1 DEF RegistryInv, RegistryTypeOK, Extract, MoveTo
<1>3. FilesInv'
  BY DEF RegistryInv, FilesInv, HasFiles, Extract, Compatible
<1>4. command'[m].package \in directories'
  BY DEF Extract
<1>5. Compatible([installed' EXCEPT ![command'[m].name] = command'[m].package])
  BY DEF Extract
<1> QED
  BY <1>1, <1>2, <1>3, <1>4, <1>5, HolderMoves DEF Extract, Acting

LEMMA ActivateKeeps ==
  ASSUME RegistryInv, NEW m \in Managers, Activate(m)
  PROVE  RegistryInv'
<1>1. /\ command[m].name \in Components /\ command[m].package \in Packages
      /\ command[m].package \in directories
      /\ Compatible([installed EXCEPT ![command[m].name] = command[m].package])
  BY DEF RegistryInv, CommandInv, Activate
<1> QED
  BY <1>1, JournalKeeps DEF Activate

LEMMA UninstallKeeps ==
  ASSUME RegistryInv, NEW m \in Managers, Uninstall(m)
  PROVE  RegistryInv'
<1>1. command[m].name \in Components
  BY DEF RegistryInv, CommandInv, Uninstall, Acting
<1>2. Compatible([installed EXCEPT ![command[m].name] = None])
  BY <1>1, UninstallKeepsCompatible DEF RegistryInv, RegistryTypeOK, FilesInv, Uninstall
<1> QED
  BY <1>1, <1>2, JournalKeeps DEF Uninstall, Acting

LEMMA RollbackKeeps ==
  ASSUME RegistryInv, NEW m \in Managers, Rollback(m)
  PROVE  RegistryInv'
<1>1. command[m].name \in Components
  BY DEF RegistryInv, CommandInv, Rollback, Acting
<1>2. undo[command[m].name] \in Packages
  BY <1>1 DEF RegistryInv, RegistryTypeOK, Entries, Rollback
<1> QED
  BY <1>1, <1>2, JournalKeeps DEF Rollback, Acting

LEMMA BeginRunKeeps ==
  ASSUME RegistryInv, NEW m \in Managers, BeginRun(m)
  PROVE  RegistryInv'
<1> DEFINE c == command[m].name
<1>1. c \in Components /\ pending = None
  BY DEF RegistryInv, CommandInv, JournalInv, BeginRun
<1>2. command' = [command EXCEPT ![m].package = installed[c]]
      /\ command \in [Managers -> Command] /\ installed[c] \in Packages \cup {None}
  BY <1>1 DEF BeginRun, RegistryInv, RegistryTypeOK, Entries
<1>3. command'[m] = [command[m] EXCEPT !.package = installed[c]]
      /\ \A k \in Managers : k # m => command'[k] = command[k]
  BY <1>2
<1>4. command'[m].kind = "run" /\ command'[m].name = c /\ command'[m].package = installed[c]
  BY <1>2, <1>3 DEF BeginRun, Command
<1>5. RegistryTypeOK'
  <2>1. command' \in [Managers -> Command]
    BY <1>2 DEF Command
  <2>2. stage' \in [Managers -> {"idle", "recover", "replay", "install", "unlink", "act",
                                "activate", "run"}]
    BY DEF BeginRun, MoveTo, RegistryInv, RegistryTypeOK
  <2> QED
    BY <2>1, <2>2 DEF BeginRun, RegistryInv, RegistryTypeOK
<1>6. FilesInv'
  BY DEF RegistryInv, FilesInv, HasFiles, BeginRun, Compatible
<1> HIDE DEF c
<1> QED
  BY <1>1, <1>3, <1>4, <1>5, <1>6, HolderMoves DEF BeginRun

LEMMA NextKeepsInv == RegistryInv /\ [RegistryNext]_registryVars => RegistryInv'
<1> SUFFICES ASSUME RegistryInv, [RegistryNext]_registryVars PROVE RegistryInv'
  OBVIOUS
<1>1. ASSUME NEW m \in Managers, RegistryStep(m) PROVE RegistryInv'
  BY <1>1, BeginKeeps, RecoverKeeps, ReplayUndoKeeps, ReplayInstalledKeeps, ReplayEndsKeeps,
     ExtractKeeps, ActivateKeeps, UninstallKeeps, RollbackKeeps, BeginRunKeeps, AbandonKeeps
     DEF RegistryStep
<1>2. CASE UNCHANGED registryVars
  BY <1>2 DEF RegistryInv, RegistryTypeOK, LockInv, JournalInv, CommandInv, FilesInv, HasFiles,
              Back, Compatible
<1> QED
  BY <1>1, <1>2 DEF RegistryNext

LEMMA InvHolds == RegistrySpec => []RegistryInv
BY InitInv, NextKeepsInv, PTL DEF RegistrySpec

-----------------------------------------------------------------------------
(* Theorems                                                                *)

\* For any managers, packages and requirements, and wherever a process dies, every
\* installed component has its dependencies and its files, a rollback has files to
\* return to, and a component that runs stays installed.
THEOREM RegistrySound == RegistrySpec => []RegistryIsSound
<1>1. RegistryInv => RegistryIsSound
  BY DEF RegistryInv, RegistryIsSound, CommandInv, FilesInv, HasFiles
<1> QED
  BY <1>1, InvHolds, PTL

\* A journal that is written is one whole step of the contract.
LEMMA JournalReplaces ==
  ASSUME RegistryInv, RegistryInv', NEW m \in Managers, pending = None,
         NEW c \in Components, NEW p, Journal(m, c, p), UNCHANGED <<installed, undo>>
  PROVE  Promise!Replace(c, p)
<1>1. installed \in Entries /\ undo \in Entries
  BY DEF RegistryInv, RegistryTypeOK
<1>2. pending' # None
  BY DEF RegistryInv, JournalInv, Journal, MoveTo, RegistryTypeOK
<1>3. Live' = [installed EXCEPT ![c] = p] /\ Live = installed /\ Back = undo
  BY <1>2 DEF Live, Back, Journal
<1>4. Back' = IF installed[c] = None THEN undo ELSE [undo EXCEPT ![c] = installed[c]]
  <2>1. pending'.previous = [Empty EXCEPT ![c] = installed[c]]
    BY DEF Journal
  <2>2. Back' = [d \in Components |->
                   IF pending'.previous[d] # None THEN pending'.previous[d] ELSE undo[d]]
    BY <1>2 DEF Back
  <2> QED
    BY <1>1, <2>1, <2>2 DEF Empty, Entries
<1> QED
  BY <1>3, <1>4 DEF Promise!Replace

\* A command takes effect as a whole when its journal is written, or never: every step
\* is a step of RegistryContract or leaves its state alone, a crash and the replays
\* that follow it included.
THEOREM RegistryPromiseKept == RegistrySpec => ImplementsRegistryContract
<1>1. RegistryInit => Promise!ContractInit
  BY DEF RegistryInit, Promise!ContractInit, Live, Back, Empty
<1>2. ASSUME RegistryInv, RegistryInv', [RegistryNext]_registryVars
      PROVE  [Promise!ContractNext]_<<Live, Back>>
  <2>1. ASSUME NEW m \in Managers, Extract(m) \/ Recover(m) \/ BeginRun(m) \/ Abandon(m)
        PROVE  UNCHANGED <<Live, Back>>
    BY <2>1 DEF Extract, Begin, Recover, BeginRun, Abandon, Live, Back
  <2>2. ASSUME NEW m \in Managers, NEW cmd, Begin(m, cmd) PROVE UNCHANGED <<Live, Back>>
    BY <2>2 DEF Begin, Live, Back
  <2>3. ASSUME NEW m \in Managers, ReplayUndo(m) PROVE UNCHANGED <<Live, Back>>
    <3>1. pending # None
      BY <1>2, <2>3 DEF RegistryInv, JournalInv, ReplayUndo
    <3> QED
      BY <2>3, <3>1 DEF ReplayUndo, Live, Back
  <2>4. ASSUME NEW m \in Managers, ReplayInstalled(m) PROVE UNCHANGED <<Live, Back>>
    <3>1. pending # None
      BY <1>2, <2>4 DEF RegistryInv, JournalInv, ReplayInstalled
    <3> QED
      BY <2>4, <3>1 DEF ReplayInstalled, Live, Back
  <2>5. ASSUME NEW m \in Managers, ReplayEnds(m) PROVE UNCHANGED <<Live, Back>>
    <3>1. pending # None /\ undo = Back /\ installed = pending.installed
      BY <1>2, <2>5 DEF RegistryInv, JournalInv, ReplayEnds
    <3> QED
      BY <2>5, <3>1 DEF ReplayEnds, Live, Back
  <2>6. ASSUME NEW m \in Managers, Activate(m) PROVE Promise!ContractNext
    <3>1. /\ command[m].name \in Components /\ command[m].package \in Packages
          /\ pending = None
      BY <1>2, <2>6 DEF RegistryInv, CommandInv, JournalInv, Activate
    <3> QED
      BY <1>2, <2>6, <3>1, JournalReplaces DEF Activate, Promise!ContractNext, Promise!Import
  <2>7. ASSUME NEW m \in Managers, Uninstall(m) PROVE Promise!ContractNext
    <3>1. command[m].name \in Components /\ pending = None /\ Live = installed
      BY <1>2, <2>7 DEF RegistryInv, CommandInv, JournalInv, Uninstall, Acting, Live
    <3> QED
      BY <1>2, <2>7, <3>1, JournalReplaces DEF Uninstall, Promise!ContractNext, Promise!Uninstall
  <2>8. ASSUME NEW m \in Managers, Rollback(m) PROVE Promise!ContractNext
    <3>1. command[m].name \in Components /\ pending = None /\ Back = undo
      BY <1>2, <2>8 DEF RegistryInv, CommandInv, JournalInv, Rollback, Acting, Back
    <3> QED
      BY <1>2, <2>8, <3>1, JournalReplaces DEF Rollback, Promise!ContractNext, Promise!Rollback
  <2>9. CASE UNCHANGED registryVars
    BY <2>9 DEF Live, Back
  <2> QED
    BY <1>2, <2>1, <2>2, <2>3, <2>4, <2>5, <2>6, <2>7, <2>8, <2>9
       DEF RegistryNext, RegistryStep
<1> QED
  BY <1>1, <1>2, InvHolds, PTL DEF ImplementsRegistryContract, Promise!ContractSpec, RegistrySpec
=============================================================================

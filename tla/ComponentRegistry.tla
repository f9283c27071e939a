-------------------------- MODULE ComponentRegistry --------------------------
(***************************************************************************)
(* The registry of optional components (services/component_registry.py and *)
(* component_manager.py): import, uninstall and rollback by processes that *)
(* may die at any write, each kept from the others by the lock of the      *)
(* registry, with a journal that the next command replays.                 *)
(*                                                                         *)
(* A package stands for a verified component of some version.  Signatures, *)
(* hashes, free space, platforms and the digest of a registry its user     *)
(* reviewed only decide whether a command goes on.                         *)
(***************************************************************************)
CONSTANTS
  Managers,     \* processes that run commands
  NoManager,    \* nobody holds .registry.lock
  Components,   \* names of components
  Packages,     \* packages one may import
  NameOf,       \* NameOf[p]: the component p is a version of
  Needs,        \* Needs[p]: its requirements, each a set of packages that meet it
  None          \* no package, or no journal

ASSUME RegistryConstants ==
  /\ NoManager \notin Managers /\ None \notin Packages
  /\ NameOf \in [Packages -> Components]
  /\ Needs \in [Packages -> SUBSET (SUBSET Packages)]

VARIABLES
  installed,    \* installed.json
  undo,         \* .rollback/<name>.json
  pending,      \* .registry.pending.json
  directories,  \* extracted packages, each in its version directory
  owner,        \* holder of .registry.lock
  stage,        \* where each process is
  command       \* what it does

registryVars == <<installed, undo, pending, directories, owner, stage, command>>

Entries == [Components -> Packages \cup {None}]

\* A journal is no missing journal.
ASSUME JournalIsSomething == None \notin [installed : Entries, previous : Entries]

Command == [kind : {"list", "import", "uninstall", "rollback", "run", "none"},
            name : Components \cup {None}, package : Packages \cup {None}]

Requests ==
  [kind : {"list", "uninstall", "rollback", "run"}, name : Components, package : {None}]
    \cup {[kind |-> "import", name |-> NameOf[p], package |-> p] : p \in Packages}

NoCommand == [kind |-> "none", name |-> None, package |-> None]

RegistryTypeOK ==
  /\ installed \in Entries /\ undo \in Entries
  /\ pending = None \/ pending \in [installed : Entries, previous : Entries]
  /\ directories \subseteq Packages
  /\ owner \in Managers \cup {NoManager}
  /\ stage \in [Managers -> {"idle", "recover", "replay", "install", "unlink", "act",
                            "activate", "run"}]
  /\ command \in [Managers -> Command]

Empty == [c \in Components |-> None]

RegistryInit ==
  /\ installed = Empty /\ undo = Empty
  /\ pending = None
  /\ directories = {}
  /\ owner = NoManager
  /\ stage = [m \in Managers |-> "idle"]
  /\ command = [m \in Managers |-> NoCommand]

-----------------------------------------------------------------------------
(* Helpers                                                                 *)

\* check_entry: each requirement is met by what is installed.
Satisfied(entries, p) ==
  \A need \in Needs[p] : \E q \in need : entries[NameOf[q]] = q

Dependents(entries, c) ==
  {d \in Components : entries[d] # None
                      /\ \E need \in Needs[entries[d]] : \E q \in need : NameOf[q] = c}

\* A set of components in which each one is needed by another of them.
Cyclic(entries, cycle) == cycle # {} /\ \A c \in cycle : Dependents(entries, c) \cap cycle # {}

\* check_registry, of every entry.
Compatible(entries) ==
  /\ \A c \in Components : entries[c] # None => Satisfied(entries, entries[c])
  /\ \A cycle \in SUBSET Components : ~Cyclic(entries, cycle)

MoveTo(m, place) == stage' = [stage EXCEPT ![m] = place]

\* The lock is released, by the end of a command, an exception or a kill.
Release(m) ==
  /\ MoveTo(m, "idle")
  /\ command' = [command EXCEPT ![m] = NoCommand]
  /\ owner' = NoManager

\* commit_document writes the journal first.
Journal(m, c, p) ==
  /\ pending' = [installed |-> [installed EXCEPT ![c] = p],
                 previous |-> [Empty EXCEPT ![c] = installed[c]]]
  /\ MoveTo(m, "replay")
  /\ command' = [command EXCEPT ![m] = NoCommand]

-----------------------------------------------------------------------------
(* Commands                                                                *)

Begin(m, cmd) ==
  /\ stage[m] = "idle" /\ owner = NoManager
  /\ owner' = m
  /\ command' = [command EXCEPT ![m] = cmd]
  /\ MoveTo(m, "recover")
  /\ UNCHANGED <<installed, undo, pending, directories>>

\* Mutant of Recover: a journal that was left behind is ignored.
RecoverNothing(m) ==
  /\ stage[m] = "recover"
  /\ MoveTo(m, "act")
  /\ UNCHANGED <<installed, undo, pending, directories, owner, command>>

Recover(m) ==
  /\ stage[m] = "recover"
  /\ MoveTo(m, IF pending = None THEN "act" ELSE "replay")
  /\ UNCHANGED <<installed, undo, pending, directories, owner, command>>

\* recover_document: the rollback entry, then the registry, then the journal.
ReplayUndo(m) ==
  /\ stage[m] = "replay"
  /\ undo' = [c \in Components |->
                IF pending.previous[c] # None THEN pending.previous[c] ELSE undo[c]]
  /\ MoveTo(m, "install")
  /\ UNCHANGED <<installed, pending, directories, owner, command>>

ReplayInstalled(m) ==
  /\ stage[m] = "install"
  /\ installed' = pending.installed
  /\ MoveTo(m, "unlink")
  /\ UNCHANGED <<undo, pending, directories, owner, command>>

\* A commit ends its command; a recovery goes on to the command.
ReplayEnds(m) ==
  /\ stage[m] = "unlink"
  /\ pending' = None
  /\ IF command[m].kind = "none" THEN Release(m)
     ELSE MoveTo(m, "act") /\ UNCHANGED <<command, owner>>
  /\ UNCHANGED <<installed, undo, directories>>

Acting(m, kind) == stage[m] = "act" /\ command[m].kind = kind

\* The payload is renamed to its version directory in one step, or found there.
Extract(m) ==
  LET c == command[m].name
      p == command[m].package
  IN  /\ Acting(m, "import")
      /\ Compatible([installed EXCEPT ![c] = p]) /\ installed[c] # p
      /\ directories' = directories \cup {p}
      /\ MoveTo(m, "activate")
      /\ UNCHANGED <<installed, undo, pending, owner, command>>

Activate(m) ==
  /\ stage[m] = "activate"
  /\ Journal(m, command[m].name, command[m].package)
  /\ UNCHANGED <<installed, undo, directories, owner>>

\* The files stay, for a rollback and for tasks that use this version.
Uninstall(m) ==
  LET c == command[m].name
  IN  /\ Acting(m, "uninstall")
      /\ installed[c] # None /\ Dependents(installed, c) = {}
      /\ Journal(m, c, None)
      /\ UNCHANGED <<installed, undo, directories, owner>>

\* Mutant of Rollback: the registry it leads to is not checked.
RollbackUnchecked(m) ==
  LET c == command[m].name
  IN  /\ Acting(m, "rollback") /\ undo[c] # None
      /\ Journal(m, c, undo[c])
      /\ UNCHANGED <<installed, undo, directories, owner>>

Rollback(m) ==
  LET c == command[m].name
  IN  /\ Acting(m, "rollback")
      /\ undo[c] # None /\ undo[c] \in directories
      /\ Compatible([installed EXCEPT ![c] = undo[c]])
      /\ Journal(m, c, undo[c])
      /\ UNCHANGED <<installed, undo, directories, owner>>

\* leased_ocr_runtime: the component runs with the lock held.
BeginRun(m) ==
  LET c == command[m].name
  IN  /\ stage[m] = "act" /\ command[m].kind = "run"
      /\ installed[c] \in directories /\ Compatible(installed)
      /\ command' = [command EXCEPT ![m].package = installed[c]]
      /\ MoveTo(m, "run")
      /\ UNCHANGED <<installed, undo, pending, directories, owner>>

\* The end of a list or a run, a check that refuses, an exception, or a kill.
Abandon(m) ==
  /\ stage[m] # "idle"
  /\ Release(m)
  /\ UNCHANGED <<installed, undo, pending, directories>>

RegistryStep(m) ==
  \/ \E cmd \in Requests : Begin(m, cmd)
  \/ Recover(m) \/ ReplayUndo(m) \/ ReplayInstalled(m) \/ ReplayEnds(m)
  \/ Extract(m) \/ Activate(m) \/ Uninstall(m) \/ Rollback(m)
  \/ BeginRun(m) \/ Abandon(m)

RegistryNext == \E m \in Managers : RegistryStep(m)

RegistrySpec == RegistryInit /\ [][RegistryNext]_registryVars

-----------------------------------------------------------------------------
(* Properties                                                              *)

\* Whatever died, each installed component has its dependencies and its files, a
\* rollback has files to return to, and a component that runs stays installed.
RegistryIsSound ==
  /\ RegistryTypeOK
  /\ Compatible(installed)
  /\ \A c \in Components : installed[c] \in directories \cup {None}
                           /\ undo[c] \in directories \cup {None}
  /\ \A m \in Managers : stage[m] = "run" => installed[command[m].name] = command[m].package

\* The registry as the next command will find it.
Live == IF pending = None THEN installed ELSE pending.installed

Back == IF pending = None THEN undo
        ELSE [c \in Components |->
                IF pending.previous[c] # None THEN pending.previous[c] ELSE undo[c]]

Promise == INSTANCE RegistryContract WITH live <- Live, back <- Back

\* A command takes effect as a whole when its journal is written, or never: what it
\* replaced can be had back, and no crash leaves a registry without its rollback entry.
ImplementsRegistryContract == Promise!ContractSpec
=============================================================================

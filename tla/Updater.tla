------------------------------ MODULE Updater ------------------------------
(***************************************************************************)
(* In-place updates of an installed program: commands/self_update.py over  *)
(* the rename-aside replacement of services/updater.py, with the list of   *)
(* left-over files that a later run deletes.                               *)
(*                                                                         *)
(* A file's content is a number, 0 when the path is free; a copy that was  *)
(* cut off is Partial.  An old file that made way is an aside, named by    *)
(* the run that moved it.  Downloads, signatures and hashes of packages    *)
(* only decide whether a run goes on, and the versions/ layout is left out.*)
(***************************************************************************)
EXTENDS Naturals, Sequences

CONSTANTS
  Files,       \* relative paths of the payload
  UserOwned,   \* those under configs/, kept when they exist
  Manifest,    \* Manifest[r][f]: content release r ships at f, 0 for none
  Partial,     \* the content of a copy that was cut off
  NoFile,      \* no file is being replaced
  MaxRuns,     \* bound: runs of apply in a behaviour
  MaxUpdateFaults  \* bound: errors and crashes in a behaviour

Releases == DOMAIN Manifest

ASSUME UpdaterConstants ==
  /\ Manifest \in Seq([Files -> Nat]) /\ Manifest # << >>
  /\ UserOwned \subseteq Files
  /\ NoFile \notin Files /\ Partial \notin Nat
  /\ MaxRuns \in Nat /\ MaxUpdateFaults \in Nat

VARIABLES
  disk,       \* content at each path
  asides,     \* old files that made way
  leftOver,   \* pending-cleanup.json: paths that could not be deleted
  release,    \* the release the program reports
  goal,       \* the release being applied
  todo,       \* files still to replace
  current,    \* the file that was moved aside and is being written
  applied,    \* files the run accounts for, in _rollback's list
  before,     \* disk when the replacement began
  run,        \* runs so far
  step,       \* where the run is
  outcome,    \* outcome of the last run
  errors      \* faults so far

updateVars == <<disk, asides, leftOver, release, goal, todo, current, applied,
                before, run, step, outcome, errors>>

FileContent == Nat \cup {Partial}

Aside == [file : Files, run : Nat \ {0}, content : FileContent]

\* A path in the list: a payload path (run 0) or the aside a run left.
Path == [file : Files, run : Nat]

UpdateTypeOK ==
  /\ disk \in [Files -> FileContent] /\ before \in [Files -> FileContent]
  /\ asides \subseteq Aside
  /\ leftOver \subseteq Path
  /\ release \in Releases /\ goal \in Releases
  /\ todo \subseteq Files /\ applied \subseteq Files
  /\ current \in Files \cup {NoFile}
  /\ run \in Nat /\ errors \in Nat
  /\ step \in {"idle", "clean", "fetch", "replace", "rollback", "finish", "delete"}
  /\ outcome \in {"none", "running", "applied", "failed", "stuck", "crashed", "unfinished"}

UpdateInit ==
  /\ disk = Manifest[1] /\ before = Manifest[1]
  /\ asides = {} /\ leftOver = {}
  /\ release = 1 /\ goal = 1
  /\ todo = {} /\ applied = {} /\ current = NoFile
  /\ run = 0 /\ errors = 0
  /\ step = "idle" /\ outcome = "none"

-----------------------------------------------------------------------------
(* Helpers                                                                 *)

Shipped(r) == {f \in Files : Manifest[r][f] # 0}

\* cumulative_deleted: whatever an earlier release shipped and this one does not.
Deleted(r) == (UNION {Shipped(s) : s \in 1 .. r}) \ Shipped(r)

\* plan_payload: files that are missing, or differ and are not the user's.
ToFetch(r) ==
  {f \in Shipped(r) : disk[f] = 0 \/ (disk[f] # Manifest[r][f] /\ f \notin UserOwned)}

\* A change package holds what differs between the two releases.
InDelta(r) == {f \in Shipped(r) : Manifest[release][f] # Manifest[r][f]}

PathOf(a) == [file |-> a.file, run |-> a.run]

\* Entries whose file still exists: pending_cleanup.
Alive ==
  {x \in leftOver : IF x.run = 0 THEN disk[x.file] # 0
                                ELSE \E a \in asides : PathOf(a) = x}

DiskWithout(paths) == [f \in Files |-> IF [file |-> f, run |-> 0] \in paths THEN 0 ELSE disk[f]]

AsidesWithout(paths) == {a \in asides : PathOf(a) \notin paths}

OwnAsides == {a \in asides : a.run = run}

Fault == errors < MaxUpdateFaults /\ errors' = errors + 1

\* The list is written over: a write that fails leaves it as it was or cut off, and a
\* damaged list counts as empty.  What this run entered is lost with it.
ListWriteFails == leftOver' \in {leftOver, leftOver \ {PathOf(a) : a \in OwnAsides}, {}}

planVars == <<release, goal, run>>

-----------------------------------------------------------------------------
(* A run of apply                                                          *)

\* The plan is made before the left-overs are cleaned.
Plan(r) ==
  /\ step = "idle" /\ run < MaxRuns /\ r >= release
  /\ goal' = r
  /\ todo' = ToFetch(r)
  /\ run' = run + 1
  /\ step' = "clean" /\ outcome' = "running"
  /\ UNCHANGED <<disk, asides, leftOver, release, current, applied, before, errors>>

\* Left-overs are deleted; those still in use stay in the list.
CleanUp ==
  \E removed \in SUBSET Alive :
    /\ disk' = DiskWithout(removed)
    /\ asides' = AsidesWithout(removed)
    /\ leftOver' = Alive \ removed

CleanFirst ==
  /\ step = "clean" /\ CleanUp
  /\ step' = "fetch"
  /\ UNCHANGED <<planVars, todo, current, applied, before, outcome, errors>>

\* self-update cleanup --yes, without an update.
CleanAlone ==
  /\ step = "idle" /\ Alive # {} /\ CleanUp
  /\ UNCHANGED <<planVars, todo, current, applied, before, step, outcome, errors>>

\* The change package when it holds all that is needed, else (or on request, or
\* when nothing differs) the full archive.
Fetch(full) ==
  /\ step = "fetch"
  /\ todo' = IF ~full /\ todo # {} /\ todo \subseteq InDelta(goal)
             THEN todo ELSE Shipped(goal)
  /\ before' = disk
  /\ applied' = {}
  /\ step' = "replace"
  /\ UNCHANGED <<disk, asides, leftOver, planVars, current, outcome, errors>>

FetchFails ==
  /\ step = "fetch" /\ Fault
  /\ step' = "idle" /\ outcome' = "failed" /\ before' = disk
  /\ UNCHANGED <<disk, asides, leftOver, planVars, todo, current, applied>>

\* apply_archive leaves the user's files alone.
Preserve(f) ==
  /\ step = "replace" /\ current = NoFile /\ f \in todo
  /\ f \in UserOwned /\ disk[f] # 0
  /\ todo' = todo \ {f}
  /\ UNCHANGED <<disk, asides, leftOver, planVars, current, applied, before,
                 step, outcome, errors>>

\* The old file is renamed, and the pair is in the list before anything is written.
MoveAside(f) ==
  /\ step = "replace" /\ current = NoFile /\ f \in todo
  /\ ~(f \in UserOwned /\ disk[f] # 0)
  /\ asides' = IF disk[f] = 0 THEN asides
               ELSE asides \cup {[file |-> f, run |-> run, content |-> disk[f]]}
  /\ disk' = [disk EXCEPT ![f] = 0]
  /\ todo' = todo \ {f}
  /\ current' = f
  /\ applied' = applied \cup {f}
  /\ UNCHANGED <<leftOver, planVars, before, step, outcome, errors>>

WriteNew ==
  /\ current # NoFile /\ step = "replace"
  /\ disk' = [disk EXCEPT ![current] = Manifest[goal][current]]
  /\ current' = NoFile
  /\ UNCHANGED <<asides, leftOver, planVars, todo, applied, before, step, outcome, errors>>

\* A rename or a copy raises; the copy may have begun.
ReplaceFails ==
  /\ step = "replace" /\ todo \cup {current} # {NoFile} /\ Fault
  /\ \/ disk' = disk
     \/ current # NoFile /\ disk' = [disk EXCEPT ![current] = Partial]
  /\ current' = NoFile
  /\ step' = "rollback"
  /\ UNCHANGED <<asides, leftOver, planVars, todo, applied, before, outcome>>

AsideOf(f) == {a \in OwnAsides : a.file = f}

\* Mutant of RollBackFile: the old file is not renamed back.
RollBackDeletes(f) ==
  /\ step = "rollback" /\ f \in applied
  /\ disk' = [disk EXCEPT ![f] = 0]
  /\ applied' = applied \ {f}
  /\ UNCHANGED <<asides, leftOver, planVars, todo, current, before, step, outcome, errors>>

\* The new file is deleted, and the old one renamed back.
RollBackFile(f) ==
  /\ step = "rollback" /\ f \in applied
  /\ \/ AsideOf(f) = {} /\ disk' = [disk EXCEPT ![f] = 0]
     \/ \E a \in AsideOf(f) : disk' = [disk EXCEPT ![f] = a.content]
  /\ asides' = asides \ AsideOf(f)
  /\ applied' = applied \ {f}
  /\ UNCHANGED <<leftOver, planVars, todo, current, before, step, outcome, errors>>

\* The new file cannot be deleted, or the old one not be renamed: the aside is
\* entered in the list of left-overs, although it is the only copy of the old file.
\* The list is written after the last file: a run that ends before loses the entry.
RollBackStuck(f) ==
  /\ step = "rollback" /\ f \in applied /\ Fault
  /\ \/ disk' = disk
     \/ AsideOf(f) # {} /\ disk' = [disk EXCEPT ![f] = 0]
  /\ leftOver' = leftOver \cup {PathOf(a) : a \in AsideOf(f)}
  /\ applied' = applied \ {f}
  /\ outcome' = "stuck"
  /\ UNCHANGED <<asides, planVars, todo, current, before, step>>

RollBackEnds ==
  /\ step = "rollback" /\ applied = {}
  /\ step' = "idle"
  /\ outcome' = IF outcome = "stuck" THEN "stuck" ELSE "failed"
  /\ \/ UNCHANGED <<leftOver, errors>>
     \/ outcome = "stuck" /\ Fault /\ ListWriteFails
  /\ UNCHANGED <<disk, asides, planVars, todo, current, applied, before>>

\* All files are written: a restarted program is the new release.
ReplaceEnds ==
  /\ step = "replace" /\ todo = {} /\ current = NoFile
  /\ release' = goal
  /\ step' = "finish"
  /\ UNCHANGED <<disk, asides, leftOver, goal, run, todo, current, applied,
                 before, outcome, errors>>

\* Asides in use go to the list, the others are deleted.
Finish ==
  /\ step = "finish"
  /\ \E inUse \in SUBSET OwnAsides :
       /\ asides' = (asides \ OwnAsides) \cup inUse
       /\ leftOver' = leftOver \cup {PathOf(a) : a \in inUse}
  /\ step' = "delete"
  /\ UNCHANGED <<disk, planVars, todo, current, applied, before, outcome, errors>>

\* The list cannot be written, outside the try block of the replacement: the run ends
\* as failed and rolled back, with the new files in place, the asides in use in no
\* list, and what the release dropped not deleted.
FinishFails ==
  /\ step = "finish" /\ Fault
  /\ \E inUse \in SUBSET OwnAsides \ {{}} : asides' = (asides \ OwnAsides) \cup inUse
  /\ ListWriteFails
  /\ step' = "idle"
  /\ outcome' = "unfinished"
  /\ UNCHANGED <<disk, planVars, todo, current, applied, before>>

Present(r) == {f \in Deleted(r) : disk[f] # 0}

\* Files the release dropped are deleted; those in use go to the list by their path.
RemoveDeleted ==
  /\ step = "delete"
  /\ \E inUse \in SUBSET Present(goal) :
       /\ disk' = [f \in Files |-> IF f \in Deleted(goal) \ inUse THEN 0 ELSE disk[f]]
       /\ leftOver' = leftOver \cup {[file |-> f, run |-> 0] : f \in inUse}
  /\ step' = "idle"
  /\ outcome' = "applied"
  /\ UNCHANGED <<asides, planVars, todo, current, applied, before, errors>>

\* A kill, a Ctrl-C, or a list that cannot be written before or after the try block:
\* nothing is rolled back or entered in the list.  Deletions may have begun, and the
\* program that restarts is the old or the new release.
UpdateCrash ==
  /\ step # "idle" /\ Fault
  /\ \E gone \in SUBSET (CASE step = "clean" -> Alive
                           [] step = "finish" -> {PathOf(a) : a \in OwnAsides}
                           [] step = "delete" -> {[file |-> f, run |-> 0] : f \in Present(goal)}
                           [] OTHER -> {}) :
       /\ asides' = AsidesWithout(gone)
       /\ \/ disk' = DiskWithout(gone)
          \/ current # NoFile /\ disk' = [disk EXCEPT ![current] = Partial]
  /\ release' \in IF step = "replace" THEN {release, goal} ELSE {release}
  /\ step' = "idle"
  /\ outcome' = IF step \in {"replace", "rollback"} /\ outcome # "stuck" THEN "crashed" ELSE "none"
  /\ current' = NoFile
  /\ ListWriteFails
  /\ UNCHANGED <<goal, run, todo, applied, before>>

UpdateNext ==
  \/ \E r \in Releases : Plan(r)
  \/ CleanFirst \/ CleanAlone
  \/ \E full \in BOOLEAN : Fetch(full)
  \/ FetchFails
  \/ \E f \in Files : Preserve(f) \/ MoveAside(f) \/ RollBackFile(f) \/ RollBackStuck(f)
  \/ WriteNew \/ ReplaceFails \/ RollBackEnds \/ ReplaceEnds
  \/ Finish \/ FinishFails \/ RemoveDeleted \/ UpdateCrash

UpdateSpec == UpdateInit /\ [][UpdateNext]_updateVars

-----------------------------------------------------------------------------
(* Properties                                                              *)

\* Release r brings back a file that a release before it dropped.
Returns(f, r) ==
  \E s, t \in 1 .. r : s < t /\ f \in Shipped(s) \cap Deleted(t) /\ f \in Shipped(r)

Lasting(r) == {f \in Shipped(r) : ~Returns(f, r)}

\* Until every file is written, each old file the new release also ships is at its
\* path or aside, and it still is when the run crashed: cleanups delete no aside
\* that nobody entered in the list.
OldFilesKept ==
  step \in {"replace", "rollback"} \/ outcome = "crashed" =>
    \A f \in Lasting(goal) :
      before[f] # 0 /\ outcome # "stuck" =>
        \/ disk[f] = before[f]
        \/ [file |-> f, run |-> run, content |-> before[f]] \in asides

\* An update that fails before all files are written, and whose rollback meets no
\* error, leaves the files as they were.
FailedUpdateUndone ==
  [][outcome = "running" /\ outcome' = "failed" => disk' = before']_updateVars

Complete(f) == disk[f] = Manifest[release][f] \/ (f \in UserOwned /\ disk[f] # 0)

\* An update whose files were all written, reported as applied or, when its left-overs
\* could not be listed, as failed, has every file of its release and keeps them through
\* later cleanups, unless the release brings back a dropped path; after an applied one
\* a dropped file is gone or entered in the list.  It holds after crashed and failed
\* runs too.
AppliedIsComplete ==
  /\ outcome \in {"applied", "unfinished"} => \A f \in Lasting(release) : Complete(f)
  /\ outcome = "applied" =>
       \A f \in Deleted(release) : disk[f] = 0 \/ [file |-> f, run |-> 0] \in leftOver

\* An update that is interrupted, fails or succeeds leaves its files as promised.
UpdateIsSafe ==
  /\ []UpdateTypeOK /\ []OldFilesKept /\ []AppliedIsComplete
  /\ FailedUpdateUndone
=============================================================================

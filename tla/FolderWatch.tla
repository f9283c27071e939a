---------------------------- MODULE FolderWatch ----------------------------
(***************************************************************************)
(* The folder watcher of convertx/watch.py: files that other programs      *)
(* write are converted once they rest, and signatures of size and time     *)
(* keep a file from being converted twice.                                 *)
(*                                                                         *)
(* A file's content and signature are its version, 0 while it is absent.   *)
(* Each look at a file is a step of its own, for the writer may go on in   *)
(* between.  Time is abstract: a file rests, a retry window ends.          *)
(***************************************************************************)
EXTENDS Naturals, Sequences, FiniteSets

CONSTANTS
  WatchedFiles,
  NoPath,           \* no file is being looked at
  MaxFiles,         \* max_files: files a scan comes to at most
  MaxProcessed,     \* entries of the table of signatures
  MaxFileVersion,   \* bound: versions written
  MaxConvertFaults  \* bound: failed conversions and locked files

ASSUME WatchConstants ==
  /\ NoPath \notin WatchedFiles
  /\ IsFiniteSet(WatchedFiles) /\ MaxFiles \in Nat \ {0}
  /\ MaxProcessed \in Nat \ {0} /\ MaxFileVersion \in Nat /\ MaxConvertFaults \in Nat

VARIABLES
  onConflict, \* what a conversion does when its output exists
  content,    \* version of each file
  settled,    \* files older than settle_seconds
  newest,     \* the last version written
  processed,  \* _processed, oldest first: signatures of sources, and of outputs
  failed,     \* _failed: signature; 0 for none
  waiting,    \* failed files within their retry window
  unseen,     \* files the scan under way has not come to
  looking,    \* the file it is at, its signature, and how far it is
  done,       \* done[f]: the versions of f that were converted, with repetitions
  trouble

watchVars == <<onConflict, content, settled, newest, processed, failed, waiting, unseen, looking,
               done, trouble>>

Nothing == [file |-> NoPath, sign |-> 0, stage |-> "none"]

\* An entry of the table: a source's signature, or an output written for it.
Entry == [file : WatchedFiles, sign : Nat, output : BOOLEAN]

WatchTypeOK ==
  /\ onConflict \in {"rename", "skip"}
  /\ content \in [WatchedFiles -> Nat] /\ settled \subseteq WatchedFiles /\ newest \in Nat
  /\ processed \in Seq(Entry)
  /\ failed \in [WatchedFiles -> Nat] /\ waiting \subseteq WatchedFiles
  /\ unseen \subseteq WatchedFiles
  /\ looking \in [file : WatchedFiles \cup {NoPath}, sign : Nat,
                  stage : {"none", "settle", "probe", "convert", "skipped", "record"}]
  /\ done \in [WatchedFiles -> Seq(Nat)]
  /\ trouble \in Nat

WatchInit ==
  /\ onConflict \in {"rename", "skip"}
  /\ content = [f \in WatchedFiles |-> 0] /\ settled = {} /\ newest = 0
  /\ processed = <<>>
  /\ failed = [f \in WatchedFiles |-> 0] /\ waiting = {}
  /\ unseen = {} /\ looking = Nothing
  /\ done = [f \in WatchedFiles |-> <<>>]
  /\ trouble = 0

-----------------------------------------------------------------------------
(* Helpers                                                                 *)

Trouble == trouble < MaxConvertFaults /\ trouble' = trouble + 1

\* Where the table has f as a source, which is one place at most.
SourceOf(table, f) == {i \in DOMAIN table : table[i].file = f /\ ~table[i].output}

\* A source that has an entry keeps its place; an output is renamed to a new path.
Put(table, f, sign) ==
  LET entry == [file |-> f, sign |-> sign, output |-> FALSE]
  IN  IF SourceOf(table, f) = {}
      THEN Append(table, entry)
      ELSE [i \in DOMAIN table |-> IF i \in SourceOf(table, f) THEN entry ELSE table[i]]

\* The oldest entries go when the table is full.
Trim(table) ==
  SubSeq(table, IF Len(table) > MaxProcessed THEN Len(table) - MaxProcessed + 1 ELSE 1, Len(table))

WithoutSource(table, f) ==
  IF SourceOf(table, f) = {} THEN table
  ELSE LET i == CHOOSE i \in SourceOf(table, f) : TRUE
       IN  SubSeq(table, 1, i - 1) \o SubSeq(table, i + 1, Len(table))

IsProcessed(f, sign) ==
  \E i \in DOMAIN processed :
    processed[i] = [file |-> f, sign |-> sign, output |-> FALSE]

-----------------------------------------------------------------------------
(* The files                                                               *)

\* Another program writes f, or goes on to write it.
WriteFile(f) ==
  /\ newest < MaxFileVersion
  /\ newest' = newest + 1
  /\ content' = [content EXCEPT ![f] = newest + 1]
  /\ settled' = settled \ {f}
  /\ UNCHANGED <<onConflict, processed, failed, waiting, unseen, looking, done, trouble>>

ComesToRest(f) ==
  /\ content[f] # 0 /\ f \notin settled
  /\ settled' = settled \cup {f}
  /\ UNCHANGED <<onConflict, content, newest, processed, failed, waiting, unseen, looking,
                 done, trouble>>

RetryWindowEnds(f) ==
  /\ f \in waiting
  /\ waiting' = waiting \ {f}
  /\ UNCHANGED <<onConflict, content, settled, newest, processed, failed, unseen, looking,
                 done, trouble>>

-----------------------------------------------------------------------------
(* scan_once                                                               *)

Present == {f \in WatchedFiles : content[f] # 0}

\* The iteration over the folder ends at max_files, in whatever order it goes.
Scan ==
  /\ unseen = {} /\ looking = Nothing /\ Present # {}
  /\ unseen' \in SUBSET Present
  /\ unseen' = Present \/ (Cardinality(unseen') = MaxFiles /\ MaxFiles < Cardinality(Present))
  /\ UNCHANGED <<onConflict, content, settled, newest, processed, failed, waiting, looking,
                 done, trouble>>

\* A file with a known signature is skipped, and one that failed within its window.
Look(f) ==
  /\ looking = Nothing /\ f \in unseen
  /\ unseen' = unseen \ {f}
  /\ IF IsProcessed(f, content[f]) \/ (failed[f] = content[f] /\ f \in waiting)
     THEN UNCHANGED <<failed, waiting, looking>>
     ELSE /\ failed' = [failed EXCEPT ![f] = 0]
          /\ waiting' = waiting \ {f}
          /\ looking' = [file |-> f, sign |-> content[f], stage |-> "settle"]
  /\ UNCHANGED <<onConflict, content, settled, newest, processed, done, trouble>>

\* The file's age is read again; then it is opened.
CheckSettled ==
  /\ looking.stage = "settle"
  /\ looking' = IF looking.file \in settled THEN [looking EXCEPT !.stage = "probe"] ELSE Nothing
  /\ UNCHANGED <<onConflict, content, settled, newest, processed, failed, waiting, unseen,
                 done, trouble>>

Probe ==
  /\ looking.stage = "probe"
  /\ \/ looking' = [looking EXCEPT !.stage = "convert"] /\ UNCHANGED trouble
     \/ looking' = Nothing /\ Trouble
  /\ UNCHANGED <<onConflict, content, settled, newest, processed, failed, waiting, unseen,
                 done>>

\* The converter reads what the file holds by now.
ConvertFile ==
  /\ looking.stage = "convert"
  /\ done' = [done EXCEPT ![looking.file] = Append(@, content[looking.file])]
  /\ looking' = [looking EXCEPT !.stage = "record"]
  /\ UNCHANGED <<onConflict, content, settled, newest, processed, failed, waiting, unseen,
                 trouble>>

\* An output of that name exists and the policy is to skip: nothing is written.
SkipFile ==
  /\ looking.stage = "convert" /\ onConflict = "skip"
  /\ looking' = [looking EXCEPT !.stage = "skipped"]
  /\ UNCHANGED <<onConflict, content, settled, newest, processed, failed, waiting, unseen,
                 done,
                 trouble>>

ConvertFails ==
  /\ looking.stage = "convert" /\ Trouble
  /\ processed' = WithoutSource(processed, looking.file)
  /\ failed' = [failed EXCEPT ![looking.file] = looking.sign]
  /\ waiting' = waiting \cup {looking.file}
  /\ looking' = Nothing
  /\ UNCHANGED <<onConflict, content, settled, newest, unseen, done>>

\* Mutant of Recorded: the signature is taken after the conversion.
RecordedLate(f, sign) == Put(processed, f, content[f])

\* Mutant of Recorded: only the output is entered.
RecordedOutputOnly(f, sign) == processed

\* The table once the source has the signature it had at first.
Recorded(f, sign) == Put(processed, f, sign)

\* The output of a conversion is entered as well.
Record ==
  /\ looking.stage \in {"skipped", "record"}
  /\ LET sources == Trim(Recorded(looking.file, looking.sign))
         output == [file |-> looking.file, sign |-> looking.sign, output |-> TRUE]
     IN  processed' = IF looking.stage = "record" THEN Trim(Append(sources, output)) ELSE sources
  /\ failed' = [failed EXCEPT ![looking.file] = 0]
  /\ waiting' = waiting \ {looking.file}
  /\ looking' = Nothing
  /\ UNCHANGED <<onConflict, content, settled, newest, unseen, done, trouble>>

ScanStep ==
  \/ Scan \/ CheckSettled \/ Probe \/ ConvertFile \/ SkipFile \/ Record
  \/ \E f \in WatchedFiles : Look(f)

WatchNext ==
  \/ \E f \in WatchedFiles : WriteFile(f) \/ ComesToRest(f) \/ RetryWindowEnds(f)
  \/ ScanStep \/ ConvertFails

WatchSpec == WatchInit /\ [][WatchNext]_watchVars

-----------------------------------------------------------------------------
(* Properties                                                              *)

Converted(f) == done[f] # <<>> /\ done[f][Len(done[f])] = content[f]

\* The last version of every file is converted, although it is written while the
\* watcher looks at it, and conversions fail: unless outputs that exist are kept, or
\* the folder holds more files than a scan comes to.
LastVersionIsConverted ==
  \A f \in WatchedFiles :
    /\ onConflict = "rename" /\ Cardinality(WatchedFiles) <= MaxFiles
    /\ content[f] # 0 /\ newest = MaxFileVersion
    ~> content[f] # 0 /\ Converted(f)

\* A version is converted twice in a row only when it was written between the look at
\* its signature and the conversion.
ConvertedTwiceOnlyWhenWritten ==
  /\ WatchTypeOK
  /\ \A f \in WatchedFiles : \A i \in 1 .. Len(done[f]) - 2 : done[f][i] < done[f][i + 2]
=============================================================================

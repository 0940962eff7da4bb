---------------------------- MODULE PassManager -----------------------------
(***************************************************************************)
(* Running the passes of a conversion (main.py, pass_manager.py), all at   *)
(* once or some at a time, and keeping account of the temporary files      *)
(* (artifact_manager.py).  A program run may fail or be killed at any      *)
(* point; what is left on disk is all that the next one has.               *)
(*                                                                         *)
(* Each pass has the temporary files that register_artifacts() says it     *)
(* creates and needs, and those that its run() writes and reads (passes.py). *)
(* A store and its index are one file here, because they are always        *)
(* registered and opened together.                                         *)
(***************************************************************************)
EXTENDS Integers, Sequences, SequencesExt, FiniteSetsExt

\* The options that make a difference: contents are read with the internal
\* checkout, with an external tool, or are written to a git blob file before.
Options == {"internal", "external", "git"}

-----------------------------------------------------------------------------
\* What the collector of revisions and the output options add to a pass.
RevisionCollector(o) ==
  [creates |-> (IF o = "internal" THEN {"RCS_DELTAS", "RCS_TREES"} ELSE {})
               \cup (IF o = "git" THEN {"GIT_BLOB_DATAFILE"} ELSE {}),
   writes  |-> (IF o = "internal" THEN {"RCS_DELTAS", "RCS_TREES"} ELSE {})
               \cup (IF o = "git" THEN {"GIT_BLOB_DATAFILE"} ELSE {})]

RepositoryMirror == [creates |-> {"MIRROR_NODES"}, writes |-> {"MIRROR_NODES"}]

SymbolingsReader ==
  [needs |-> {"SYMBOL_OPENINGS_CLOSINGS_SORTED", "SYMBOL_OFFSETS_DB"},
   reads |-> {"SYMBOL_OPENINGS_CLOSINGS_SORTED", "SYMBOL_OFFSETS_DB"}]

RevisionReader(o) ==
  [creates |-> IF o = "internal" THEN {"CVS_CHECKOUT_DB"} ELSE {},
   needs   |-> IF o = "internal" THEN {"RCS_DELTAS", "RCS_TREES"} ELSE {},
   reads   |-> IF o = "internal" THEN {"RCS_DELTAS", "RCS_TREES"} ELSE {},
   writes  |-> IF o = "internal" THEN {"CVS_CHECKOUT_DB"} ELSE {}]

GitRevisionMarkWriter(o) ==
  [needs |-> IF o = "git" THEN {"GIT_BLOB_DATAFILE"} ELSE {},
   reads |-> IF o = "git" THEN {"GIT_BLOB_DATAFILE"} ELSE {}]

-----------------------------------------------------------------------------
CollectRevsPass ==
  LET files == {"PROJECTS", "SYMBOL_STATISTICS", "METADATA", "CVS_PATHS_DB", "CVS_ITEMS_STORE"}
  IN  [creates |-> files, needs |-> {}, reads |-> {}, writes |-> files]

CleanMetadataPass ==
  [creates |-> {"METADATA_CLEAN"}, needs |-> {"METADATA"},
   reads |-> {"METADATA"}, writes |-> {"METADATA_CLEAN"}]

CollateSymbolsPass ==
  [creates |-> {"SYMBOL_DB"}, needs |-> {"PROJECTS", "SYMBOL_STATISTICS"},
   reads |-> {"PROJECTS", "SYMBOL_STATISTICS"}, writes |-> {"SYMBOL_DB"}]

FilterSymbolsPass(o) ==
  LET files == {"ITEM_SERIALIZER", "CVS_REVS_DATAFILE", "CVS_SYMBOLS_DATAFILE"}
      old == {"PROJECTS", "SYMBOL_DB", "METADATA_CLEAN", "CVS_PATHS_DB", "CVS_ITEMS_STORE"}
  IN  [creates |-> files \cup RevisionCollector(o).creates, needs |-> old,
       reads |-> old, writes |-> files \cup RevisionCollector(o).writes]

SortRevisionsPass ==
  [creates |-> {"CVS_REVS_SORTED_DATAFILE"}, needs |-> {"CVS_REVS_DATAFILE"},
   reads |-> {"CVS_REVS_DATAFILE"}, writes |-> {"CVS_REVS_SORTED_DATAFILE"}]

SortSymbolsPass ==
  [creates |-> {"CVS_SYMBOLS_SORTED_DATAFILE"}, needs |-> {"CVS_SYMBOLS_DATAFILE"},
   reads |-> {"CVS_SYMBOLS_DATAFILE"}, writes |-> {"CVS_SYMBOLS_SORTED_DATAFILE"}]

\* Where the projects, the paths and the symbols are known from.
Common == {"PROJECTS", "SYMBOL_DB", "CVS_PATHS_DB"}

InitializeChangesetsPass ==
  LET files == {"CVS_ITEM_TO_CHANGESET", "CHANGESETS", "CVS_ITEMS_SORTED"}
      old == Common \cup {"ITEM_SERIALIZER", "CVS_REVS_SORTED_DATAFILE",
                          "CVS_SYMBOLS_SORTED_DATAFILE"}
  IN  [creates |-> files, needs |-> old, reads |-> old, writes |-> files]

BreakRevisionChangesetCyclesPass ==
  LET files == {"CHANGESETS_REVBROKEN", "CVS_ITEM_TO_CHANGESET_REVBROKEN"}
      old == Common \cup {"CVS_ITEMS_SORTED", "CHANGESETS", "CVS_ITEM_TO_CHANGESET"}
  IN  [creates |-> files, needs |-> old, reads |-> old, writes |-> files]

RevisionTopologicalSortPass ==
  LET old == Common \cup {"CVS_ITEMS_SORTED", "CHANGESETS_REVBROKEN",
                          "CVS_ITEM_TO_CHANGESET_REVBROKEN"}
  IN  [creates |-> {"CHANGESETS_REVSORTED"}, needs |-> old,
       reads |-> old, writes |-> {"CHANGESETS_REVSORTED"}]

BreakSymbolChangesetCyclesPass ==
  LET files == {"CHANGESETS_SYMBROKEN", "CVS_ITEM_TO_CHANGESET_SYMBROKEN"}
      old == Common \cup {"CVS_ITEMS_SORTED", "CHANGESETS_REVSORTED",
                          "CVS_ITEM_TO_CHANGESET_REVBROKEN"}
  IN  [creates |-> files, needs |-> old, reads |-> old, writes |-> files]

BreakAllChangesetCyclesPass ==
  LET files == {"CHANGESETS_ALLBROKEN", "CVS_ITEM_TO_CHANGESET_ALLBROKEN"}
      old == Common \cup {"CVS_ITEMS_SORTED", "CHANGESETS_SYMBROKEN",
                          "CVS_ITEM_TO_CHANGESET_SYMBROKEN"}
  IN  [creates |-> files, needs |-> old, reads |-> old, writes |-> files]

TopologicalSortPass ==
  LET old == Common \cup {"CVS_ITEMS_SORTED", "CHANGESETS_ALLBROKEN",
                          "CVS_ITEM_TO_CHANGESET_ALLBROKEN"}
  IN  [creates |-> {"CHANGESETS_SORTED_DATAFILE"}, needs |-> old,
       reads |-> old, writes |-> {"CHANGESETS_SORTED_DATAFILE"}]

CreateRevsPass ==
  LET files == {"SVN_COMMITS", "CVS_REVS_TO_SVN_REVNUMS", "SYMBOL_OPENINGS_CLOSINGS"}
      old == Common \cup {"CVS_ITEMS_SORTED", "CHANGESETS_ALLBROKEN",
                          "CHANGESETS_SORTED_DATAFILE"}
  IN  [creates |-> files, needs |-> old, reads |-> old, writes |-> files]

SortSymbolOpeningsClosingsPass ==
  [creates |-> {"SYMBOL_OPENINGS_CLOSINGS_SORTED"}, needs |-> {"SYMBOL_OPENINGS_CLOSINGS"},
   reads |-> {"SYMBOL_OPENINGS_CLOSINGS"}, writes |-> {"SYMBOL_OPENINGS_CLOSINGS_SORTED"}]

IndexSymbolsPass ==
  LET old == {"PROJECTS", "SYMBOL_DB", "SYMBOL_OPENINGS_CLOSINGS_SORTED"}
  IN  [creates |-> {"SYMBOL_OFFSETS_DB"}, needs |-> old,
       reads |-> old, writes |-> {"SYMBOL_OFFSETS_DB"}]

OutputPass(o) ==
  LET old == Common \cup {"CVS_ITEMS_SORTED", "METADATA_CLEAN", "SVN_COMMITS",
                          "CVS_REVS_TO_SVN_REVNUMS"}
  IN  [creates |-> RepositoryMirror.creates \cup RevisionReader(o).creates,
       needs   |-> old \cup SymbolingsReader.needs \cup RevisionReader(o).needs
                   \cup GitRevisionMarkWriter(o).needs,
       reads   |-> old \cup SymbolingsReader.reads \cup RevisionReader(o).reads
                   \cup GitRevisionMarkWriter(o).reads,
       writes  |-> RepositoryMirror.writes \cup RevisionReader(o).writes]

-----------------------------------------------------------------------------
passes(o) ==
  <<CollectRevsPass, CleanMetadataPass, CollateSymbolsPass, FilterSymbolsPass(o),
    SortRevisionsPass, SortSymbolsPass, InitializeChangesetsPass,
    BreakRevisionChangesetCyclesPass, RevisionTopologicalSortPass,
    BreakSymbolChangesetCyclesPass, BreakAllChangesetCyclesPass, TopologicalSortPass,
    CreateRevsPass, SortSymbolOpeningsClosingsPass, IndexSymbolsPass, OutputPass(o)>>

-----------------------------------------------------------------------------
(***************************************************************************)
(* Running the passes.                                                     *)
(***************************************************************************)

CONSTANTS
  None,     \* no exception
  MaxRuns,  \* how many times the program is started
  Ends      \* the passes that a run may end with, besides the one it starts with

VARIABLES
  options,      \* the options, the same for every program run
  disk,         \* "absent", "partial" or "whole": the state of every file
  tmpdir,       \* whether the temporary directory exists
  lock,         \* whether cvs2svn.lock exists in it
  runs,         \* how many program runs were started
  process,      \* where the program run is that is under way, "none" if none
  pass,         \* the number of the pass it is at
  index_end,    \* the last pass it is to run
  skip_cleanup, \* Ctx().skip_cleanup
  erase_tmpdir, \* whether main() made the temporary directory
  pass_needs,   \* ArtifactManager._pass_needs, as pairs <<pass, artifact>>
  active,       \* ArtifactManager._active_passes
  unneeded,     \* the artifacts that pass_done() has yet to clean up, in order
  unclean,      \* whether check_clean() found an artifact still registered
  error,        \* the exception that a missing file raised
  resumable,    \* the passes that a conversion may be started at
  unbroken      \* no run failed, skipped its cleanup or went back to an
                \* earlier pass

disk_vars == <<disk, tmpdir, lock>>
manager_vars == <<pass_needs, active, unneeded, unclean>>
run_vars == <<index_end, skip_cleanup, erase_tmpdir>>
vars == <<options, disk_vars, runs, process, pass, run_vars, manager_vars, error,
          resumable, unbroken>>

Passes == passes(options)
NumPasses == Len(Passes)

\* Each pass writes a statistics file and reads the one before.
Statistics(p) == "STATISTICS_FILE " \o ToString(p)
Reads(p) == Passes[p].reads
Writes(p) == Passes[p].writes

\* What is registered before a run: register_artifacts() of all the passes and
\* the statistics files.
RegisteredFor(o) ==
  UNION {{<<p, a>> : a \in passes(o)[p].creates \cup passes(o)[p].needs
                           \cup {Statistics(p)}
                           \cup (IF p = 1 THEN {} ELSE {Statistics(p - 1)})} :
           p \in DOMAIN passes(o)}
Registered == [o \in Options |-> RegisteredFor(o)]
ArtifactsOf == [o \in Options |-> {r[2] : r \in Registered[o]}]
Artifacts == ArtifactsOf[options]

-----------------------------------------------------------------------------
(* ArtifactManager                                                         *)

\* get_artifact(): the artifact is needed by an active pass.
IsActive(a) == \E p \in active : <<p, a>> \in pass_needs

\* _unregister_artifacts(): what stays registered, and what no other pass needs.
Unregister(needs, ps) == {n \in needs : n[1] \notin ps}
NoLongerNeeded(needs, p) ==
  {a \in {n[2] : n \in {m \in needs : m[1] = p}} : \A n \in needs : n[2] = a => n[1] = p}

Whole(as) == \A a \in as : IsActive(a) /\ disk[a] = "whole"

-----------------------------------------------------------------------------
(* main() and PassManager.run()                                            *)

\* Mutant: the passes after the last one are deferred before the run.
Invoke_DeferFirst(start, end, skip) ==
  /\ process = "none" /\ runs < MaxRuns /\ error = None
  /\ ~lock
  /\ start \in resumable /\ start <= end
  /\ erase_tmpdir' = ~tmpdir
  /\ tmpdir' = TRUE /\ lock' = TRUE
  /\ runs' = runs + 1
  /\ process' = "start" /\ pass' = start /\ index_end' = end /\ skip_cleanup' = skip
  /\ pass_needs' = Unregister(Registered[options], (1 .. start - 1) \cup (end + 1 .. NumPasses))
  /\ active' = {} /\ unneeded' = <<>>
  /\ unbroken' = (unbroken /\ ~skip /\ \A p \in resumable : p <= start)
  /\ UNCHANGED <<options, disk, unclean, error, resumable>>

\* Mutant: the passes before the first one stay registered.
Invoke_NotSkipped(start, end, skip) ==
  /\ process = "none" /\ runs < MaxRuns /\ error = None
  /\ ~lock
  /\ start \in resumable /\ start <= end
  /\ erase_tmpdir' = ~tmpdir
  /\ tmpdir' = TRUE /\ lock' = TRUE
  /\ runs' = runs + 1
  /\ process' = "start" /\ pass' = start /\ index_end' = end /\ skip_cleanup' = skip
  /\ pass_needs' = Registered[options]
  /\ active' = {} /\ unneeded' = <<>>
  /\ unbroken' = (unbroken /\ ~skip /\ \A p \in resumable : p <= start)
  /\ UNCHANGED <<options, disk, unclean, error, resumable>>

\* The program is started for passes start to end.  Another one that finds
\* the lock gives up at once and changes nothing.
Invoke(start, end, skip) ==
  /\ process = "none" /\ runs < MaxRuns /\ error = None
  /\ ~lock
  /\ start \in resumable /\ start <= end
  /\ erase_tmpdir' = ~tmpdir
  /\ tmpdir' = TRUE /\ lock' = TRUE
  /\ runs' = runs + 1
  /\ process' = "start" /\ pass' = start /\ index_end' = end /\ skip_cleanup' = skip
  /\ pass_needs' = Unregister(Registered[options], 1 .. start - 1)  \* pass_skipped()
  /\ active' = {} /\ unneeded' = <<>>
  /\ unbroken' = (unbroken /\ ~skip /\ \A p \in resumable : p <= start)
  /\ UNCHANGED <<options, disk, unclean, error, resumable>>

\* pass_started()
StartPass ==
  /\ process = "start" /\ error = None
  /\ active' = active \cup {pass}
  /\ process' = "open"
  /\ UNCHANGED <<options, disk_vars, runs, pass, run_vars, pass_needs, unneeded, unclean,
                 error, resumable, unbroken>>

\* The statistics are read and the pass opens its files; those that it writes
\* are truncated.
OpenFiles ==
  LET found == /\ Whole(Reads(pass) \cup (IF pass = 1 THEN {} ELSE {Statistics(pass - 1)}))
               /\ \A a \in Writes(pass) : IsActive(a)
  IN  /\ process = "open" /\ error = None
      /\ disk' = [a \in Artifacts |-> IF found /\ a \in Writes(pass) THEN "partial" ELSE disk[a]]
      /\ error' = IF found THEN None ELSE "a file is missing"
      /\ process' = "run"
      /\ resumable' = resumable \cap 1 .. pass
      /\ UNCHANGED <<options, tmpdir, lock, runs, pass, run_vars, manager_vars, unbroken>>

\* The pass is over, and the statistics are archived.
CompletePass ==
  /\ process = "run" /\ error = None
  /\ disk' = [a \in Artifacts |-> IF a \in Writes(pass) THEN "whole"
                                  ELSE IF a = Statistics(pass) THEN "partial" ELSE disk[a]]
  /\ process' = "archive"
  /\ UNCHANGED <<options, tmpdir, lock, runs, pass, run_vars, manager_vars, error, resumable,
                 unbroken>>

Archive ==
  /\ process = "archive" /\ error = None
  /\ disk' = [disk EXCEPT ![Statistics(pass)] = "whole"]
  /\ process' = "done"
  /\ resumable' = resumable \cup {pass + 1}
  /\ UNCHANGED <<options, tmpdir, lock, runs, pass, run_vars, manager_vars, error, unbroken>>

\* pass_done(): the bookkeeping, then the cleanup of one artifact at a time.
\* The order is that of a Python set; the model tries one order and its reverse.
SomeOrder(as) == FoldSet(LAMBDA a, s : Append(s, a), <<>>, as)
CleanupOrders(as) == {SomeOrder(as), Reverse(SomeOrder(as))}

PassDone ==
  /\ process = "done" /\ error = None
  /\ active' = active \ {pass}
  /\ unneeded' \in IF skip_cleanup THEN {<<>>}
                   ELSE CleanupOrders(NoLongerNeeded(pass_needs, pass))
  /\ pass_needs' = Unregister(pass_needs, {pass})
  /\ process' = "cleanup"
  /\ resumable' = IF skip_cleanup THEN resumable ELSE resumable \ 2 .. pass
  /\ UNCHANGED <<options, disk_vars, runs, pass, run_vars, unclean, error, unbroken>>

\* TempFile.cleanup() of the next one; os.unlink() fails if it is not there.
Cleanup ==
  /\ process = "cleanup" /\ error = None
  /\ unneeded # <<>>
  /\ error' = IF disk[Head(unneeded)] = "absent" THEN "OSError" ELSE None
  /\ disk' = [disk EXCEPT ![Head(unneeded)] = "absent"]
  /\ unneeded' = Tail(unneeded)
  /\ UNCHANGED <<options, tmpdir, lock, runs, process, pass, run_vars, pass_needs, active, unclean,
                 resumable, unbroken>>

NextPass ==
  /\ process = "cleanup" /\ unneeded = <<>> /\ pass < index_end /\ error = None
  /\ process' = "start" /\ pass' = pass + 1
  /\ UNCHANGED <<options, disk_vars, runs, run_vars, manager_vars, error, resumable, unbroken>>

\* The lock goes, and the temporary directory if main() made it and it is empty.
Leave ==
  /\ lock' = FALSE
  /\ tmpdir' = ~(erase_tmpdir /\ \A a \in Artifacts : disk[a] = "absent")

\* With the program, what it had in memory goes.
Exit ==
  /\ process' = "none"
  /\ pass' = 1 /\ index_end' = NumPasses /\ skip_cleanup' = FALSE /\ erase_tmpdir' = FALSE
  /\ active' = {} /\ unneeded' = <<>>
  /\ UNCHANGED <<options, disk, runs, error, resumable>>

\* The end of the run: pass_deferred() for the passes left, and check_clean().
Finish ==
  /\ process = "cleanup" /\ unneeded = <<>> /\ pass = index_end /\ error = None
  /\ unclean' = (Unregister(pass_needs, index_end + 1 .. NumPasses) # {})
  /\ pass_needs' = {}
  /\ Leave /\ Exit
  /\ UNCHANGED unbroken

\* An exception ends the run; main() still removes the lock.
Abort ==
  /\ process # "none" /\ error = None
  /\ pass_needs' = {} /\ unbroken' = FALSE
  /\ Leave /\ Exit
  /\ UNCHANGED unclean

\* The program is killed, and its lock stays until the user removes it.
Kill ==
  /\ process # "none" /\ error = None
  /\ pass_needs' = {} /\ unbroken' = FALSE
  /\ Exit
  /\ UNCHANGED <<tmpdir, lock, unclean>>

RemoveLock ==
  /\ process = "none" /\ lock
  /\ lock' = FALSE
  /\ UNCHANGED <<options, disk, tmpdir, runs, process, pass, run_vars, manager_vars, error,
                 resumable, unbroken>>

-----------------------------------------------------------------------------
Init ==
  /\ options \in Options
  /\ disk = [a \in Artifacts |-> "absent"]
  /\ tmpdir = FALSE /\ lock = FALSE
  /\ runs = 0 /\ process = "none" /\ pass = 1 /\ index_end = NumPasses
  /\ skip_cleanup = FALSE /\ erase_tmpdir = FALSE
  /\ pass_needs = {} /\ active = {} /\ unneeded = <<>>
  /\ unclean = FALSE /\ error = None /\ resumable = {1} /\ unbroken = TRUE

RunPasses ==
  \/ StartPass \/ OpenFiles \/ CompletePass \/ Archive \/ PassDone \/ NextPass \/ Finish
  \/ Cleanup
Next ==
  \/ \E start \in 1 .. NumPasses, skip \in BOOLEAN :
       \E end \in Ends \cup {start} : Invoke(start, end, skip)
  \/ RunPasses
  \/ Abort \/ Kill \/ RemoveLock
Spec == Init /\ [][Next]_vars

-----------------------------------------------------------------------------
\* After all passes were run without being interrupted, in one program run or
\* in several, no temporary file is left, and check_clean() finds nothing.
NothingLeftBehind ==
  /\ ~unclean
  /\ process = "none" /\ unbroken /\ NumPasses + 1 \in resumable =>
       \A a \in Artifacts : disk[a] = "absent"

\* Every file that a pass opens or that is cleaned up is there, is whole and
\* is registered for the pass, wherever the program runs before were stopped
\* and whatever passes each of them was for; and none is left behind.
NothingMissing ==
  /\ error = None
  /\ NothingLeftBehind
=============================================================================

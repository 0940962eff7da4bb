-------------------------- MODULE RepositoryWalker --------------------------
(***************************************************************************)
(* CollectRevsPass looks for the files to convert: _RepositoryWalker of    *)
(* repository_walker.py generates the paths of a project one at a time,    *)
(* CollectData.process_project records each in the CVSPathDatabase, and at *)
(* the end the empty directories and the order of the paths are set.       *)
(*                                                                         *)
(* The repository is a set of physical paths, sequences of <<name, kind>>; *)
(* the ",v" of a file is its kind, so no directory has a name in ",v".     *)
(***************************************************************************)
EXTENDS Integers, Sequences, FiniteSets, SequencesExt

CONSTANTS
  Names,            \* the names of files and directories, in their order
  None              \* no parent

VARIABLES
  disk,             \* the paths in the repository, which do not change
  options,          \* exclude_paths, the names that are illegal, and
                    \* retain_conflicting_attic_files
  made,             \* the CVSPaths by id, in the order they are made
  logged,           \* the ids in the CVSPathDatabase, in the order of log_path()
  frames,           \* the generators that are suspended, the innermost last
  errors,           \* the fatal errors that are recorded
  result,           \* what the end of the pass has set
  pc

vars == <<disk, options, made, logged, frames, errors, result, pc>>

Dir(name) == <<name, "dir">>
File(name) == <<name, "rcs">>
RankOf(name) == CHOOSE k \in DOMAIN Names : Names[k] = name
Attic == "Attic"
Ignored == {"CVS", ".svn"}
----------------------------------------------------------------------------
(* A CVSPath knows its parent, its name and, if it is a file, whether it   *)
(* was found in an Attic directory that is not its parent.                 *)

Directory(parent, name) ==
  [kind |-> "dir", parent |-> parent, name |-> name, inAttic |-> FALSE]
CVSFile(parent, name, inAttic) ==
  [kind |-> "rcs", parent |-> parent, name |-> name, inAttic |-> inAttic]

\* get_path_components(rcs=True): the physical path
RECURSIVE RCSPath(_, _)
RCSPath(paths, id) ==
  LET path == paths[id]
  IN IF path.parent = None THEN << >>
     ELSE RCSPath(paths, path.parent)
          \o (IF path.inAttic THEN <<Dir(Attic)>> ELSE << >>)
          \o <<<<path.name, path.kind>>>>

\* get_path_components(rcs=False): the logical path, without kinds
RECURSIVE CVSPath(_, _)
CVSPath(paths, id) ==
  IF paths[id].parent = None THEN << >>
  ELSE Append(CVSPath(paths, paths[id].parent), paths[id].name)

\* os.listdir(), sorted
Listing(path) ==
  SetToSortSeq({Last(p) : p \in {q \in disk : q # << >> /\ Front(q) = path}},
    LAMBDA a, b : \/ RankOf(a[1]) < RankOf(b[1])
                  \/ (a[1] = b[1] /\ a[2] = "dir" /\ b[2] # "dir"))

\* A generator: its directory, what it has still to look at, and what it has
\* found.  While it lists the Attic, attic is the id of that directory.
Frame(id, path) ==
  [dir |-> id, listing |-> Listing(path), hasAttic |-> FALSE, attic |-> None,
   files |-> {}, retained |-> << >>, dirs |-> << >>, phase |-> "listing"]

Top == Last(frames)
SetTop(frame) == frames' = Append(Front(frames), frame)
TopPath == RCSPath(made, IF Top.attic = None THEN Top.dir ELSE Top.attic)

NextId == Len(made) + 1

\* A yielded path goes to log_path().
Yield(path) ==
  /\ made' = Append(made, path)
  /\ logged' = Append(logged, NextId)

\* A FatalError, which nothing catches, ends the run.
FatalError ==
  /\ pc' = "fatal"
  /\ UNCHANGED <<disk, options, made, logged, frames, errors, result>>
----------------------------------------------------------------------------
(* One turn of the loop over the entries of a directory or of its Attic.   *)

Entry == Head(Top.listing)
Turn(phase) ==
  /\ pc = "walking"
  /\ Top.phase = phase
  /\ Top.listing # << >>
IsExcluded == Append(TopPath, Entry) \in options.excluded
IsIllegal(name) == name \in options.illegal
Rest == [Top EXCEPT !.listing = Tail(@)]

\* What is excluded and files that are not RCS files are passed over, and so
\* are all directories in an Attic.
SkipEntry ==
  /\ pc = "walking"
  /\ Top.phase \in {"listing", "attic"}
  /\ Top.listing # << >>
  /\ \/ IsExcluded
     \/ Entry[2] = "other"
     \/ (Entry[2] = "dir" /\ (Top.phase = "attic" \/ Entry[1] \in Ignored))
  /\ SetTop(Rest)
  /\ UNCHANGED <<disk, options, made, logged, errors, result, pc>>

FoundDirectory ==
  /\ Turn("listing")
  /\ ~ IsExcluded
  /\ Entry[2] = "dir"
  /\ Entry[1] \notin Ignored
  /\ SetTop(IF Entry[1] = Attic THEN [Rest EXCEPT !.hasAttic = TRUE]
            ELSE [Rest EXCEPT !.dirs = Append(@, Entry[1])])
  /\ UNCHANGED <<disk, options, made, logged, errors, result, pc>>

FoundFile ==
  /\ Turn("listing")
  /\ ~ IsExcluded
  /\ Entry[2] = "rcs"
  /\ IF IsIllegal(Entry[1]) THEN FatalError
     ELSE /\ Yield(CVSFile(Top.dir, Entry[1], FALSE))
          /\ SetTop([Rest EXCEPT !.files = @ \union {Entry[1]}])
          /\ UNCHANGED <<disk, options, errors, result, pc>>

\* os.path.exists() of the same file outside of the Attic
ExistsOutside ==
  Append(RCSPath(made, Top.dir), Entry) \in disk

\* A file of the Attic is put one directory up, unless it is there already.
FoundAtticFile ==
  /\ Turn("attic")
  /\ ~ IsExcluded
  /\ Entry[2] = "rcs"
  /\ ~ ExistsOutside
  /\ IF IsIllegal(Entry[1]) THEN FatalError
     ELSE /\ Yield(CVSFile(Top.dir, Entry[1], TRUE))
          /\ SetTop([Rest EXCEPT !.files = @ \union {Entry[1]}])
          /\ UNCHANGED <<disk, options, errors, result, pc>>

\* Mutant: the file that stays in the Attic is marked as one that does not.
RetainAtticFile_InAttic ==
  /\ Turn("attic")
  /\ ~ IsExcluded
  /\ Entry[2] = "rcs"
  /\ ExistsOutside
  /\ made' = Append(made, CVSFile(Top.attic, Entry[1], TRUE))
  /\ SetTop([Rest EXCEPT !.retained = Append(@, NextId)])
  /\ errors' = IF options.retain THEN errors
               ELSE errors \union {<<"in and out of Attic", TopPath, Entry[1]>>}
  /\ UNCHANGED <<disk, options, logged, result, pc>>

\* If it is, it stays in the Attic; that is an error unless it is asked for.
RetainAtticFile ==
  /\ Turn("attic")
  /\ ~ IsExcluded
  /\ Entry[2] = "rcs"
  /\ ExistsOutside
  /\ IF IsIllegal(Entry[1]) THEN FatalError
     ELSE /\ made' = Append(made, CVSFile(Top.attic, Entry[1], FALSE))
          /\ SetTop([Rest EXCEPT !.retained = Append(@, NextId)])
          /\ errors' =
               IF options.retain THEN errors
               ELSE errors \union {<<"in and out of Attic", TopPath, Entry[1]>>}
          /\ UNCHANGED <<disk, options, logged, result, pc>>
----------------------------------------------------------------------------
(* After the listing come the Attic, the conflicts and the subdirectories. *)

StartAttic ==
  /\ pc = "walking"
  /\ Top.phase = "listing"
  /\ Top.listing = << >>
  /\ Top.hasAttic
  /\ made' = Append(made, Directory(Top.dir, Attic))
  /\ SetTop([Top EXCEPT !.attic = NextId, !.phase = "attic",
               !.listing = Listing(Append(RCSPath(made, Top.dir), Dir(Attic)))])
  /\ UNCHANGED <<disk, options, logged, errors, result, pc>>

\* The Attic directory itself is yielded if files stay in it.
EndOfAttic ==
  /\ pc = "walking"
  /\ Top.phase = "attic"
  /\ Top.listing = << >>
  /\ logged' = IF Top.retained = << >> THEN logged
               ELSE logged \o <<Top.attic>> \o Top.retained
  /\ SetTop([Top EXCEPT !.attic = None, !.phase = "checking"])
  /\ UNCHANGED <<disk, options, made, errors, result, pc>>

\* Names of directories, the Attic's too, against the files' logical names.
CheckConflicts ==
  /\ pc = "walking"
  /\ IF Top.hasAttic THEN Top.phase = "checking"
     ELSE Top.phase = "listing" /\ Top.listing = << >>
  /\ LET names == ToSet(Top.dirs) \union (IF Top.hasAttic THEN {Attic} ELSE {})
     IN errors' = errors \union
          {<<"directory conflicts with file", TopPath, name>> :
             name \in names \intersect Top.files}
  /\ SetTop([Top EXCEPT !.phase = "recursing"])
  /\ UNCHANGED <<disk, options, made, logged, result, pc>>

Recurse ==
  /\ pc = "walking"
  /\ Top.phase = "recursing"
  /\ Top.dirs # << >>
  /\ LET name == Head(Top.dirs)
     IN IF IsIllegal(name) THEN FatalError
        ELSE /\ Yield(Directory(Top.dir, name))
             /\ frames' = Append(Front(frames), [Top EXCEPT !.dirs = Tail(@)])
                            \o <<Frame(NextId, Append(TopPath, Dir(name)))>>
             /\ UNCHANGED <<disk, options, errors, result, pc>>

Return ==
  /\ pc = "walking"
  /\ Top.phase = "recursing"
  /\ Top.dirs = << >>
  /\ frames' = Front(frames)
  /\ pc' = IF Len(frames) = 1 THEN "walked" ELSE pc
  /\ UNCHANGED <<disk, options, made, logged, errors, result>>
----------------------------------------------------------------------------
(* The end of the pass.                                                    *)

Logged(kind) == {id \in ToSet(logged) : made[id].kind = kind}

NoRCSFiles ==
  /\ pc = "walked"
  /\ Logged("rcs") = {}
  /\ errors' = errors \union {<<"No RCS files found">>}
  /\ pc' = "closing"
  /\ UNCHANGED <<disk, options, made, logged, frames, result>>

FoundRCSFiles ==
  /\ pc = "walked"
  /\ Logged("rcs") # {}
  /\ pc' = "closing"
  /\ UNCHANGED <<disk, options, made, logged, frames, errors, result>>

RECURSIVE Ancestors(_)
Ancestors(id) ==
  IF id = None THEN {} ELSE {id} \union Ancestors(made[id].parent)

\* _register_empty_subdirectories: what no file lies under, by its parent
EmptySubdirectories ==
  LET empty == Logged("dir")
                 \ UNION {Ancestors(made[id].parent) : id \in Logged("rcs")}
  IN [id \in Logged("dir") |-> {d \in empty : made[d].parent = id}]

\* sorted by sort_key(); a path comes before the longer ones that begin with it
SortsBefore(p, q) ==
  \/ (Len(p) < Len(q) /\ IsPrefix(p, q))
  \/ \E k \in DOMAIN p \intersect DOMAIN q :
       /\ SubSeq(p, 1, k - 1) = SubSeq(q, 1, k - 1)
       /\ RankOf(p[k]) < RankOf(q[k])

SetOrdinals ==
  [id \in ToSet(logged) |->
     Cardinality({other \in ToSet(logged) :
                    SortsBefore(CVSPath(made, other), CVSPath(made, id))})]

\* The database is closed, and its ordinals set, if there are no errors.
Close ==
  /\ pc = "closing"
  /\ result' = [empty |-> EmptySubdirectories,
                ordinal |-> IF errors = {} THEN SetOrdinals ELSE << >>]
  /\ pc' = IF errors = {} THEN "done" ELSE "failed"
  /\ UNCHANGED <<disk, options, made, logged, frames, errors>>
----------------------------------------------------------------------------
\* walk_repository() of a repository and the options of its project
Walk(repository, opts) ==
  /\ disk = repository
  /\ options = opts
  /\ made = <<Directory(None, "")>>
  /\ logged = <<1>>
  /\ frames = <<Frame(1, << >>)>>
  /\ errors = {}
  /\ result = << >>
  /\ pc = "walking"

Next ==
  \/ SkipEntry \/ FoundDirectory \/ FoundFile
  \/ StartAttic \/ FoundAtticFile \/ RetainAtticFile \/ EndOfAttic
  \/ CheckConflicts \/ Recurse \/ Return
  \/ NoRCSFiles \/ FoundRCSFiles \/ Close
-----------------------------------------------------------------------------
(* What is to be converted, told without walking.                          *)

\* The files that are in no excluded or ignored directory and not in a
\* directory of an Attic.
Converted ==
  {p \in disk :
     /\ Last(p)[2] = "rcs"
     /\ \A k \in DOMAIN p :
          /\ SubSeq(p, 1, k) \notin options.excluded
          /\ (k < Len(p) /\ p[k][1] = Attic) => k = Len(p) - 1
     /\ \A k \in 1..(Len(p) - 1) : p[k][1] \notin Ignored}

RCSPaths == {RCSPath(made, id) : id \in Logged("rcs")}

\* The database never holds a path without its directories, and each path is
\* where the disk has it.
TreeOfPaths ==
  /\ \A k \in DOMAIN logged :
       LET parent == made[logged[k]].parent
       IN parent # None => \E j \in 1..(k - 1) : logged[j] = parent
  /\ IsInjective(logged)
  /\ \A id \in Logged("rcs") : RCSPath(made, id) \in disk

\* When it is done every file to be converted is there once, no two paths are
\* the same and none is a file with paths in it.
NoClashes ==
  pc = "done" =>
    /\ RCSPaths = Converted /\ Cardinality(Logged("rcs")) = Cardinality(Converted)
    /\ \A a, b \in ToSet(logged) :
         CVSPath(made, a) = CVSPath(made, b) => a = b
    /\ {result.ordinal[id] : id \in ToSet(logged)} = 0..(Len(logged) - 1)
    /\ \A a, b \in ToSet(logged) :
         (a # b /\ IsPrefix(CVSPath(made, a), CVSPath(made, b))) =>
            result.ordinal[a] < result.ordinal[b] /\ made[a].kind = "dir"

\* It fails only if two of the paths would be the same, a file is both in and
\* out of the Attic, or there is nothing to convert.
FailsForCause ==
  pc = "failed" =>
    \/ Converted = {}
    \/ ~ options.retain /\ \E p \in Converted :
         /\ Len(p) > 1 /\ p[Len(p) - 1] = Dir(Attic)
         /\ Append(Front(Front(p)), Last(p)) \in disk
    \/ \E p \in Converted, d \in disk :
         LET at == IF Len(p) > 1 /\ p[Len(p) - 1] = Dir(Attic)
                   THEN Front(Front(p)) ELSE Front(p)
         IN d = Append(at, Dir(Last(p)[1]))

\* Every directory is made exactly once: with a file in it, or as an empty
\* subdirectory of a directory that is made.
RECURSIVE EmptyBelow(_)
EmptyBelow(S) ==
  LET below == UNION {result.empty[d] : d \in S}
  IN IF below = {} THEN {} ELSE below \union EmptyBelow(below)
EmptyOnce ==
  pc = "done" =>
    LET full == UNION {Ancestors(made[id].parent) : id \in Logged("rcs")}
    IN /\ Logged("dir") = full \union EmptyBelow(full)
       /\ full \intersect EmptyBelow(full) = {}

\* The walk: its paths form a tree in which every file to be converted is found
\* once under a name of its own, whatever lies in an Attic, is excluded or
\* empty; and it fails only where the names cannot be told apart.
WalkExact == TreeOfPaths /\ NoClashes /\ FailsForCause /\ EmptyOnce
=============================================================================

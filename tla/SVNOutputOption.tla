-------------------------- MODULE SVNOutputOption --------------------------
(***************************************************************************)
(* OutputPass: the SVNCommits are replayed, in order, on the mirror and on *)
(* the delegates, which write the dump that svnadmin loads                 *)
(* (svn_output_option.py, svn_dump.py).  Symbols are filled by copying     *)
(* whole directories, deleting what does not belong there and copying      *)
(* again what came from elsewhere.                                         *)
(*                                                                         *)
(* The operators pass on a record w of the mirror and the transaction of   *)
(* the commit under way: for every LOD, a function from the paths that     *)
(* exist to their contents, a revision for a file and Dir for a directory. *)
(***************************************************************************)
EXTENDS SVNCommitCreator

CONSTANTS
  LODs,              \* the trunk, the branches and the tags
  Root,              \* the project's root directory
  Directories,       \* the CVSDirectories, Root among them
  Files,             \* the CVSFiles
  parent_directory,  \* CVSPath -> CVSDirectory; Root -> None
  Dir                \* the content of a directory

INSTANCE RepositoryMirror

ASSUME PathsAssumption ==
  /\ Root \in Directories /\ Directories \cap Files = {}
  /\ Paths \subseteq Nat    \* the ordinals that CVSPath.__cmp__() compares
  /\ parent_directory \in [Paths -> Directories \cup {None}]
  /\ \A p \in Paths : parent_directory[p] = None <=> p = Root

VARIABLES
  prune,      \* Ctx().prune
  mirror,     \* SVNOutputOption._mirror
  repository  \* what svnadmin loaded: the trees of the revisions, from r1 on

vars == <<creator_vars, prune, mirror, repository>>

Revnum == Len(repository) + 1
Commit == commits[Revnum]

\* An exception ends the conversion.
Throw(w, exception) == [w EXCEPT !.mirror = Raise(@, exception)]
Failed(w) == Raised(w.mirror)
Node(w) == w.mirror.node
Entries(w, dir) == DOMAIN w.mirror.objects[dir].entries
Lookup(w, dir, path) == [w EXCEPT !.mirror = GetItem(@, dir, path)]

-----------------------------------------------------------------------------
(***************************************************************************)
(* DumpstreamDelegate, and what `svnadmin load' makes of its output: it    *)
(* fails if a path to be added exists, or one to be used does not.         *)
(***************************************************************************)
Below(path) == {p \in Paths : path \in ToSet(GetAncestry[p])}

Load(w, lod, requirement, tree) ==
  IF Failed(w) THEN w
  ELSE IF requirement THEN [w EXCEPT !.txn[lod] = tree]
  ELSE Throw(w, "svnadmin failed")

MayAdd(tree, path) ==
  path \notin DOMAIN tree /\ (path = Root \/ parent_directory[path] \in DOMAIN tree)

DumpAdd(w, lod, path, content) ==
  Load(w, lod, MayAdd(w.txn[lod], path), (path :> content) @@ w.txn[lod])
DumpChange(w, lod, path, content) ==
  Load(w, lod, path \in DOMAIN w.txn[lod], (path :> content) @@ w.txn[lod])
DumpDelete(w, lod, path) ==
  LET tree == w.txn[lod]
  IN  Load(w, lod, path \in DOMAIN tree, Restrict(tree, DOMAIN tree \ Below(path)))
DumpCopy(w, path, src_lod, dest_lod, src_revnum) ==
  LET source == repository[src_revnum][src_lod]
      tree == w.txn[dest_lod]
  IN  Load(w, dest_lod, path \in DOMAIN source /\ MayAdd(tree, path),
           Restrict(source, DOMAIN source \cap Below(path)) @@ tree)

-----------------------------------------------------------------------------
\* initialize_project() and _mkdir_p()
AddLODDirectory(w, lod) ==
  DumpAdd([w EXCEPT !.mirror = AddLOD(@, lod)], lod, Root, Dir)

MkdirP(w, directory, lod) ==
  LET start == IF GetCurrentId(w.mirror, lod) = None THEN AddLODDirectory(w, lod)
               ELSE [w EXCEPT !.mirror = GetCurrentLODDirectory(@, lod)]
      Step(acc, p) ==
        IF Failed(acc) THEN acc
        ELSE IF p \in Entries(acc, Node(acc)) THEN Lookup(acc, Node(acc), p)
        ELSE DumpAdd([acc EXCEPT !.mirror = Mkdir(@, Node(acc), p)], lod, p, Dir)
  IN  IF Failed(w) THEN w ELSE FoldLeft(Step, start, Tail(GetAncestry[directory]))

\* add_path() and change_path()
AddPath(w, i) ==
  LET f == CVSFile[i]
      lod == project[i].lod
      made == MkdirP(w, parent_directory[f], lod)
  IN  IF Failed(made) THEN made
      ELSE DumpAdd([made EXCEPT !.mirror = AddFile(@, Node(made), f)], lod, f, i)

ChangePath(w, i) == DumpChange(w, project[i].lod, CVSFile[i], i)

\* delete_lod(); never of the trunk.
DeleteLOD(w, lod) ==
  LET found == GetCurrentLODDirectory(w.mirror, lod)
  IN  IF Failed(w) \/ lod = Trunk THEN w
      ELSE DumpDelete([w EXCEPT !.mirror = DeleteLODDirectory(found, found.node)], lod, Root)

\* The loop of delete_path() over the parents that became empty.
RECURSIVE PruneEmpty(_, _, _)
PruneEmpty(w, dir, lod) ==
  LET object == w.mirror.objects[dir]
      deleted == [w EXCEPT !.mirror = DelItem(@, object.parent, object.path)]
  IN  IF Failed(w) THEN w
      ELSE IF Entries(w, dir) # {} THEN w
      ELSE IF object.path = Root THEN DeleteLOD(w, lod)
      ELSE PruneEmpty(DumpDelete(deleted, lod, object.path), object.parent, lod)

DeletePath(w, path, lod, should_prune) ==
  LET Delete(found, parent) ==
        DumpDelete([found EXCEPT !.mirror = DelItem(@, parent, path)], lod, path)
      DeleteIn(found) ==
        IF Failed(found) THEN found
        ELSE IF should_prune THEN PruneEmpty(Delete(found, Node(found)), Node(found), lod)
        ELSE Delete(found, Node(found))
  IN  IF Failed(w) THEN w
      ELSE DeleteIn([w EXCEPT !.mirror = GetCurrentPath(@, parent_directory[path], lod)])

\* copy_path() and copy_lod(); .node is the new node.
Paste(w, path, id) ==
  IF Failed(w) THEN w
  ELSE IF path \in Entries(w, Node(w)) THEN Throw(w, "PathExistsError")
  ELSE [w EXCEPT !.mirror = GetItem(SetItem(@, Node(w), path, id), Node(w), path)]

CopyPath(w, path, src_lod, dest_lod, src_revnum, create_parent) ==
  LET src_node == GetOldPath(w.mirror, path, src_lod, src_revnum)
      found == IF create_parent THEN MkdirP(w, parent_directory[path], dest_lod)
               ELSE [w EXCEPT !.mirror = GetCurrentPath(@, parent_directory[path], dest_lod)]
      copied == IF path = Root
                THEN [w EXCEPT !.mirror = CopyLOD(@, src_lod, dest_lod, src_revnum)]
                ELSE Paste(found, path, src_node[1])
  IN  IF Failed(w) THEN w
      ELSE IF path # Root /\ src_node = <<>> THEN Throw(w, "KeyError")
      ELSE DumpCopy(copied, path, src_lod, dest_lod, src_revnum)

-----------------------------------------------------------------------------
\* The part of a fill source, a map from files to ranges, below a path, and
\* the entries of a directory that it lists.
Subsource(source, path) == Restrict(source, DOMAIN source \cap Below(path))
SubPaths(source, directory) ==
  {p \in Paths : parent_directory[p] = directory /\ Below(p) \cap DOMAIN source # {}}

\* What _fill_directory() and _fill_file() do first: unless what exists is
\* fine, copy it, after deleting what is in the way.
CopyIfNeeded(w, symbol, path, exists, copy_source, parent_source) ==
  LET cleared == IF exists THEN DeletePath(w, path, symbol, FALSE) ELSE w
  IN  IF Failed(w) THEN w
      ELSE IF copy_source = None THEN Throw(w, "FatalError")
      ELSE IF exists /\ (parent_source = None \/ copy_source = parent_source) THEN w
      ELSE CopyPath(cleared, path, copy_source.source_lod, symbol,
                    copy_source.opening_revnum, FALSE)

\* _prune_extra_entries() of the directory .node
PruneExtraEntries_NotBelow(w, symbol, kept) == w
PruneExtraEntries(w, symbol, kept) ==
  LET dir == Node(w)
      Delete(acc, p) ==
        DumpDelete([acc EXCEPT !.mirror = [DelItem(@, dir, p) EXCEPT !.node = dir]], symbol, p)
  IN  FoldLeft(Delete, w, SetToSortSeq(Entries(w, dir) \ kept, <))

FillFile(w, symbol, path, dir, source, parent_source) ==
  CopyIfNeeded(w, symbol, path, path \in Entries(w, dir),
               ComputeBestSource(source, parent_source), parent_source)

(***************************************************************************)
(* _fill_directory() and _cleanup_filled_directory(); dest_node is the     *)
(* object of the directory or None.  Filling an entry may copy the node of *)
(* the directory, so its object is read again after each: a subdirectory's *)
(* parent, or a fresh object after a file.                                 *)
(***************************************************************************)
RECURSIVE FillDirectory(_, _, _, _, _, _), FillEntries(_, _, _, _, _)
FillDirectory(w, symbol, dest_node, path, source, parent_source) ==
  LET best == ComputeBestSource(source, parent_source)
      exists == dest_node # None
      copy_source ==
        IF ~exists \/ (parent_source # None /\ best # parent_source) THEN best ELSE parent_source
      copied == CopyIfNeeded([w EXCEPT !.mirror.node = dest_node], symbol, path, exists,
                             best, parent_source)
      CleanUp(filled) ==
        IF Failed(filled) \/ copy_source = None THEN filled
        ELSE PruneExtraEntries(filled, symbol, SubPaths(source, path))
  IN  FillEntries(CleanUp(copied), symbol, path, source, copy_source)

FillEntries(w, symbol, path, source, copy_source) ==
  LET EntryOf(acc, p) ==
        IF p \in Entries(acc, Node(acc)) THEN Lookup(acc, Node(acc), p)
        ELSE [acc EXCEPT !.mirror.node = None]
      Reread(acc, p) ==
        IF Failed(acc) THEN acc
        ELSE IF p \in Directories
        THEN [acc EXCEPT !.mirror.node = acc.mirror.objects[Node(acc)].parent]
        ELSE [acc EXCEPT !.mirror = GetCurrentPath(@, path, symbol)]
      FillEntry(acc, p) ==
        IF p \in Directories
        THEN FillDirectory(EntryOf(acc, p), symbol, Node(EntryOf(acc, p)), p,
                           Subsource(source, p),
                           IF p \in Entries(acc, Node(acc)) THEN copy_source ELSE None)
        ELSE FillFile(acc, symbol, p, Node(acc), Subsource(source, p), copy_source)
  IN  FoldLeft(LAMBDA acc, p : IF Failed(acc) THEN acc ELSE Reread(FillEntry(acc, p), p),
               w, SetToSortSeq(SubPaths(source, path), <))

FillSymbol(w, symbol, source) ==
  LET found == [w EXCEPT !.mirror = GetCurrentLODDirectory(@, symbol)]
  IN  IF GetCurrentId(w.mirror, symbol) = None
      THEN FillDirectory(w, symbol, None, Root, source, None)
      ELSE FillDirectory(found, symbol, Node(found), Root, source, None)

-----------------------------------------------------------------------------
EmptyTrees == [lod \in LODs |-> <<>>]

Start == [mirror |-> StartCommit(mirror, Revnum),
          txn |-> IF repository = <<>> THEN EmptyTrees ELSE Last(repository)]

\* end_commit(); a commit that fails is not loaded.
End(w) ==
  /\ mirror' = EndCommit(w.mirror)
  /\ repository' = IF Failed(w) THEN repository ELSE Append(repository, w.txn)
  /\ UNCHANGED <<creator_vars, prune>>

\* The loop of OutputPass.run() reaches a commit of the given type.
Outputs(type) ==
  sorted /\ ~Raised(mirror) /\ Revnum \in DOMAIN commits /\ Commit.type = type

ProcessInitialProjectCommit ==
  Outputs("initial project") /\ End(AddLODDirectory(Start, Trunk))

CommitRevision(w, i) ==
  CASE project[i].live /\ ~project[i].pred_live -> AddPath(w, i)
    [] project[i].live /\ project[i].pred_live -> ChangePath(w, i)
    [] ~project[i].live /\ project[i].pred_live ->
         DeletePath(w, CVSFile[i], project[i].lod, prune)
    [] OTHER -> w

ProcessPrimaryCommit ==
  Outputs("primary") /\ End(FoldLeft(CommitRevision, Start, Commit.cvs_items))

\* Copy what happened on a default branch to trunk.
PostRevision(w, i) ==
  LET deleted == IF project[i].pred_live
                 THEN DeletePath(w, CVSFile[i], Trunk, FALSE) ELSE w
  IN  IF ~project[i].live THEN deleted
      ELSE CopyPath(deleted, CVSFile[i], project[i].lod, Trunk,
                    Commit.motivating_revnum, TRUE)

ProcessPostCommit ==
  Outputs("post") /\ End(FoldLeft(PostRevision, Start, Commit.cvs_items))

\* get_source_set(): the ranges by file.
GetSourceSet ==
  LET range_map == GetRangeMap(Revnum)
  IN  [f \in {CVSFile[i] : i \in DOMAIN range_map} |->
         range_map[CHOOSE i \in DOMAIN range_map : CVSFile[i] = f]]

ProcessSymbolCommit(type) ==
  /\ Outputs(type)
  /\ End(IF RangeMapIsLegal(Revnum) THEN FillSymbol(Start, Commit.symbol, GetSourceSet)
         ELSE Throw(Start, "InternalError"))

ProcessBranchCommit == ProcessSymbolCommit("branch")
ProcessTagCommit == ProcessSymbolCommit("tag")

Init == CreatorInit /\ prune \in BOOLEAN /\ mirror = Open /\ repository = <<>>

Creating ==
  /\ ProcessChangeset \/ SortSymbolOpeningsClosings
  /\ UNCHANGED <<prune, mirror, repository>>

Next ==
  \/ Creating
  \/ ProcessInitialProjectCommit
  \/ ProcessPrimaryCommit \/ ProcessPostCommit
  \/ ProcessBranchCommit \/ ProcessTagCommit

Spec == Init /\ [][Next]_vars

-----------------------------------------------------------------------------
(***************************************************************************)
(* None of the exceptions in the symbolings reader, the mirror and the     *)
(* copying code is ever raised, and svnadmin accepts the dump.             *)
(***************************************************************************)
NothingRaised == ~Raised(mirror)

(***************************************************************************)
(* The mirror shows the directories and files of every revision: of the    *)
(* youngest, and in the end of all of them, however the nodes were shared  *)
(* and copied since.                                                       *)
(***************************************************************************)
MirrorMatches ==
  \A n \in {k \in DOMAIN repository :
              k = Len(repository) \/ Len(repository) = Len(commits)}, x \in LODs :
    {p \in Paths : GetOldPath(mirror, p, x, n) # <<>>} = DOMAIN repository[n][x]

(***************************************************************************)
(* All revisions in the range of a symbol hold the content that the symbol *)
(* has in CVS, so that any of them may serve as the source of a copy.      *)
(***************************************************************************)
RangesServe ==
  sorted /\ Revnum \in DOMAIN commits /\ Commit.type \in {"branch", "tag"} =>
    \A i \in ToSet(Commit.cvs_items) :
      RangeIsLegal(i, Revnum) =>
        \A r \in {r \in 1 .. Revnum - 1 : InRange(RangeOf(i, Revnum), r)} :
          LET tree == repository[r][project[i].source_lod]
          IN  CVSFile[i] \in DOMAIN tree /\ tree[CVSFile[i]] = RevisionSource(i)

(***************************************************************************)
(* Every revision of the repository holds, on every branch, tag and the    *)
(* trunk, exactly the files that CVS has there, with their contents: no    *)
(* copied directory brings along a file that does not belong, or a wrong   *)
(* version of one, and the trunk follows the default branches.  Nothing is *)
(* raised on the way, the mirror has the same paths, and all revisions of  *)
(* a range serve.                                                          *)
(***************************************************************************)
Faithful ==
  /\ NothingRaised
  /\ LET n == Len(repository)
     IN  n > 0 => \A x \in LODs, f \in Files :
           (IF f \in DOMAIN repository[n][x] THEN repository[n][x][f] ELSE None)
             = ContentInCVS(n, x, f)
  /\ MirrorMatches
  /\ RangesServe

\* "Return the Subversion revision number in which CVS_REV_ID was committed"
\* (get_svn_revnum()): the commit with that number contains the revision.
CommittedInItsRevision ==
  \A i \in DOMAIN cvs2svn_db : commits[cvs2svn_db[i]].type = "primary"
=============================================================================

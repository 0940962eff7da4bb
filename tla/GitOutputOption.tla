-------------------------- MODULE GitOutputOption --------------------------
(***************************************************************************)
(* OutputPass of cvs2git and cvs2bzr: the SVNCommits are replayed on the   *)
(* mirror and written as commands for git fast-import (dvcs_common.py,     *)
(* git_output_option.py).  A symbol is a copy of a commit where that holds *)
(* exactly its files; otherwise it sprouts from its best source and gets   *)
(* the other files one by one.                                             *)
(*                                                                         *)
(* The operators pass on a record w of the mirror, the marks, and the refs *)
(* and commits that fast-import makes of the commands written so far.      *)
(***************************************************************************)
EXTENDS SVNCommitCreator

CONSTANTS
  LODs,              \* the trunk, the branches and the tags
  Root,              \* the project's root directory
  Directories,       \* the CVSDirectories, Root among them
  Files,             \* the CVSFiles
  parent_directory   \* CVSPath -> CVSDirectory; Root -> None

INSTANCE RepositoryMirror

VARIABLES
  name,    \* "Git" or "Bzr", which names the fixup branch after its tag
  tie_tag_fixup_branches, \* whether a tag's branch is merged into its source
  mirror,  \* GitOutputOption._mirror
  marks,   \* _marks: lod -> <<revnum, mark>>s; of None for the post commits
  refs,    \* fast-import's refs, branches and tags: name -> mark
  git      \* fast-import's commits, by mark

git_vars == <<mirror, marks, refs, git>>
options == <<name, tie_tag_fixup_branches>>
vars == <<creator_vars, options, git_vars>>

Revnum == mirror.youngest + 1
Commit == commits[Revnum]

\* An exception ends the conversion.
Throw(w, exception) == [w EXCEPT !.mirror = Raise(@, exception)]
Failed(w) == Raised(w.mirror)

\* The names of refs; no symbol is called TAG.FIXUP or tag-fixup.<symbol>.
BranchRef(lod) == <<"heads", lod>>
TagRef(symbol) == <<"tags", symbol>>
TagFixup(symbol) == <<"tag-fixup", IF name = "Git" THEN None ELSE symbol>>

-----------------------------------------------------------------------------
(***************************************************************************)
(* git fast-import.  A commit without `from' continues its branch, and is  *)
(* a root commit if there is none.  M and D change the tree of the commit  *)
(* that is being written.                                                  *)
(***************************************************************************)
WriteCommit(w, ref, from, merge, log) ==
  LET first == IF from # None THEN {from} ELSE IF ref \in DOMAIN w.refs THEN {w.refs[ref]} ELSE {}
      new == Len(w.git) + 1
  IN  [w EXCEPT
         !.git = Append(@, [parents |-> SetToSeq(first) \o SetToSeq({merge} \ {None}),
                            tree |-> IF first = {} THEN <<>>
                                     ELSE w.git[CHOOSE m \in first : TRUE].tree,
                            sprouts |-> first # {}, log |-> log]),
         !.refs = (ref :> new) @@ @]

WriteModify(w, f, revision) == [w EXCEPT !.git[Len(w.git)].tree = (f :> revision) @@ @]
WriteDelete(w, f) == [w EXCEPT !.git[Len(w.git)].tree = Restrict(@, DOMAIN @ \ {f})]

WriteReset(w, ref, from) ==
  IF from = None THEN [w EXCEPT !.refs = Restrict(@, DOMAIN @ \ {ref})]
  ELSE [w EXCEPT !.refs = (ref :> from) @@ @]

-----------------------------------------------------------------------------
\* MirrorUpdater; .node of the result is the directory.
MkdirP(m, directory, lod) ==
  LET start == IF GetCurrentId(m, lod) = None THEN AddLOD(m, lod)
               ELSE GetCurrentLODDirectory(m, lod)
      Step(acc, p) ==
        IF Raised(acc) THEN acc
        ELSE IF p \in DOMAIN acc.objects[acc.node].entries THEN GetItem(acc, acc.node, p)
        ELSE Mkdir(acc, acc.node, p)
  IN  FoldLeft(Step, start, Tail(GetAncestry[directory]))

AddIn(made, f) == IF Raised(made) THEN made ELSE AddFile(made, made.node, f)
DeleteIn(found, f) == IF Raised(found) THEN found ELSE DelItem(found, found.node, f)

\* GitRevisionWriter: the mirror is updated, then the command is written.
AddPath(w, f, lod, revision) ==
  WriteModify([w EXCEPT !.mirror = AddIn(MkdirP(@, parent_directory[f], lod), f)], f, revision)
ModifyPath(w, f, lod, revision) ==
  WriteModify([w EXCEPT !.mirror = GetCurrentPath(@, f, lod)], f, revision)
DeletePath(w, f, lod) ==
  WriteDelete([w EXCEPT !.mirror = DeleteIn(GetCurrentPath(@, parent_directory[f], lod), f)], f)

ProcessRevision(w, i, lod) ==
  CASE Failed(w) -> w
    [] project[i].live /\ ~project[i].pred_live -> AddPath(w, CVSFile[i], lod, i)
    [] project[i].live /\ project[i].pred_live -> ModifyPath(w, CVSFile[i], lod, i)
    [] ~project[i].live /\ project[i].pred_live -> DeletePath(w, CVSFile[i], lod)
    [] OTHER -> w

\* The text of a symbol is that of the revision it comes from.
BranchFile(w, i) ==
  IF Failed(w) THEN w ELSE AddPath(w, CVSFile[i], project[i].symbol, RevisionSource(i))

-----------------------------------------------------------------------------
\* _set_lod_mark(); a second mark in a revision replaces the first.
SetLodMark(w, lod, mark) ==
  LET entry == [revnum |-> Revnum, mark |-> mark]
      old == w.marks[lod]
  IN  [w EXCEPT !.marks[lod] =
         IF old # <<>> /\ Last(old).revnum = Revnum
         THEN [old EXCEPT ![Len(old)] = entry] ELSE Append(old, entry)]

\* _create_commit_mark()
CreateCommitMark(w, lod) == SetLodMark(w, lod, Len(w.git) + 1)

\* _get_source_mark(): in Python, the last mark if all are younger than revnum.
GetSourceMark(w, source_lod, revnum) ==
  LET older == {k \in DOMAIN w.marks[source_lod] : w.marks[source_lod][k].revnum <= revnum}
  IN  w.marks[source_lod][IF older = {} THEN Len(w.marks[source_lod]) ELSE Max(older)].mark

-----------------------------------------------------------------------------
\* A source group: the symbols that can be copied from a revision of an LOD.
SourceGroup(revnum, source_lod, cvs_symbols) ==
  [revnum |-> revnum, source_lod |-> source_lod, cvs_symbols |-> cvs_symbols]

\* The loop over the ranges of one LOD: the revision that serves most of them,
\* then the one that serves most of the rest.
RECURSIVE GroupsOfLod(_, _)
GroupsOfLod(lod, range_map) ==
  LET best == GetBestRevnum(range_map).opening_revnum
      served == {i \in DOMAIN range_map : InRange(range_map[i], best)}
  IN  IF range_map = <<>> THEN <<>>
      ELSE <<SourceGroup(best, lod, served)>>
             \o GroupsOfLod(lod, Restrict(range_map, DOMAIN range_map \ served))

\* _get_source_groups(): the LOD that is the source of most symbols is first.
GetSourceGroups(range_map) ==
  LET SymbolsOf(lod) == {i \in DOMAIN range_map : range_map[i].source_lod = lod}
      lods == SetToSortSeq(ScoredLods(range_map),
                LAMBDA a, b : \/ Cardinality(SymbolsOf(a)) > Cardinality(SymbolsOf(b))
                              \/ Cardinality(SymbolsOf(a)) = Cardinality(SymbolsOf(b)) /\ a < b)
  IN  FlattenSeq([k \in DOMAIN lods |-> GroupsOfLod(lods[k], Restrict(range_map, SymbolsOf(lods[k])))])

\* _get_all_files() of an LOD at a revision.
GetAllFiles(m, lod, revnum) == {f \in Files : GetOldPath(m, f, lod, revnum) # <<>>}
FilesOf(cvs_symbols) == {CVSFile[i] : i \in cvs_symbols}
GroupFiles(groups) == UNION {FilesOf(groups[k].cvs_symbols) : k \in DOMAIN groups}

\* get_old_lod_directory() finds no directory of the source.
SourceMissing(m, group) == GetId(m, group.source_lod, group.revnum) = None

\* _is_simple_copy() raises an exception as it comes to its third requirement.
CopyFails(m, symbol, groups) ==
  Len(groups) = 1 /\ GetCurrentId(m, symbol) = None /\ SourceMissing(m, groups[1])

\* Mutant: the source may have other files as well.
IsSimpleCopy_Subset(m, symbol, groups) ==
  /\ Len(groups) = 1
  /\ GetCurrentId(m, symbol) = None
  /\ FilesOf(groups[1].cvs_symbols) \subseteq GetAllFiles(m, groups[1].source_lod, groups[1].revnum)

\* _is_simple_copy(), where it answers.
IsSimpleCopy(m, symbol, groups) ==
  /\ Len(groups) = 1
  /\ GetCurrentId(m, symbol) = None
  /\ FilesOf(groups[1].cvs_symbols) = GetAllFiles(m, groups[1].source_lod, groups[1].revnum)

\* What both kinds of symbols do then.
SimpleCopy(w, symbol, ref, group) ==
  LET mark == GetSourceMark(w, group.source_lod, group.revnum)
      copied == [WriteReset(w, ref, mark) EXCEPT
                   !.mirror = CopyLOD(@, group.source_lod, symbol, group.revnum)]
  IN  SetLodMark(copied, symbol, mark)

(***************************************************************************)
(* _process_symbol_commit().  The message of the commit names the files    *)
(* that are taken from elsewhere than the source it sprouts from, and      *)
(* those that are in the source and not in the symbol.                     *)
(***************************************************************************)
BranchFiles(w, groups) ==
  FoldLeft(BranchFile, w, FlattenSeq([k \in DOMAIN groups |-> ByPath(groups[k].cvs_symbols)]))

ExtendSymbol(w, symbol, ref, groups) ==
  BranchFiles(WriteCommit(CreateCommitMark(w, symbol), ref, None, None,
                          [cherrypicks |-> GroupFiles(groups), deletes |-> {}]), groups)

SproutSymbol(w, symbol, ref, groups) ==
  LET p == groups[1]
      deletes == GetAllFiles(w.mirror, p.source_lod, p.revnum) \ GroupFiles(groups)
      sprouted == WriteCommit(CreateCommitMark(w, symbol), ref,
                    GetSourceMark(w, p.source_lod, p.revnum), None,
                    [cherrypicks |-> GroupFiles(Tail(groups)), deletes |-> deletes])
  IN  FoldLeft(WriteDelete, BranchFiles(sprouted, groups), SetToSeq(deletes))

MakeSymbol(w, symbol, ref, groups) ==
  IF w.marks[symbol] # <<>> THEN ExtendSymbol(w, symbol, ref, groups)
  ELSE IF SourceMissing(w.mirror, groups[1])
       THEN Throw(CreateCommitMark(w, symbol), "InternalError")
  ELSE SproutSymbol(w, symbol, ref, groups)

BranchSymbol(w, symbol, groups) ==
  IF CopyFails(w.mirror, symbol, groups) THEN Throw(w, "InternalError")
  ELSE IF IsSimpleCopy(w.mirror, symbol, groups)
       THEN SimpleCopy(w, symbol, BranchRef(symbol), groups[1])
  ELSE MakeSymbol(w, symbol, BranchRef(symbol), groups)

\* The tag's branch is merged into its source by a commit that changes nothing.
Tie(w, source_lod, mark) ==
  WriteCommit(CreateCommitMark(w, source_lod), BranchRef(source_lod), None, mark, None)

TagSymbol(w, symbol, groups) ==
  LET made == MakeSymbol(w, symbol, TagFixup(symbol), groups)
      tagged == WriteReset(WriteReset(made, TagRef(symbol), Len(made.git)), TagFixup(symbol), None)
  IN  IF CopyFails(w.mirror, symbol, groups) THEN Throw(w, "InternalError")
      ELSE IF IsSimpleCopy(w.mirror, symbol, groups)
           THEN SimpleCopy(w, symbol, TagRef(symbol), groups[1])
      ELSE IF Failed(made) THEN made
      ELSE IF tie_tag_fixup_branches THEN Tie(tagged, groups[1].source_lod, Len(made.git))
      ELSE tagged

-----------------------------------------------------------------------------
Start == [mirror |-> StartCommit(mirror, Revnum), marks |-> marks, refs |-> refs, git |-> git]

\* end_commit()
End(w) ==
  /\ mirror' = EndCommit(w.mirror)
  /\ marks' = w.marks /\ refs' = w.refs /\ git' = w.git
  /\ UNCHANGED <<creator_vars, options>>

\* The loop of OutputPass.run() reaches a commit of the given type.
Outputs(type) ==
  sorted /\ ~Raised(mirror) /\ Revnum \in DOMAIN commits /\ Commit.type = type

CommitLods == {project[i].lod : i \in ToSet(Commit.cvs_items)}
CommitLod == CHOOSE lod \in CommitLods : TRUE

ProcessInitialProjectCommit == Outputs("initial project") /\ End(Start)

Primary(w, lod) ==
  FoldLeft(LAMBDA acc, i : ProcessRevision(acc, i, lod),
           WriteCommit(CreateCommitMark(w, lod), BranchRef(lod), None, None, None),
           Commit.cvs_items)

ProcessPrimaryCommit ==
  /\ Outputs("primary")
  /\ End(IF Cardinality(CommitLods) = 1 THEN Primary(Start, CommitLod)
         ELSE Throw(Start, "InternalError"))

Post(w, lod) ==
  FoldLeft(LAMBDA acc, i : ProcessRevision(acc, i, Trunk),
           WriteCommit(CreateCommitMark(w, None), BranchRef(Trunk), None,
                       GetSourceMark(w, lod, Revnum), None),
           Commit.cvs_items)

ProcessPostCommit ==
  /\ Outputs("post")
  /\ End(IF Cardinality(CommitLods) = 1 THEN Post(Start, CommitLod)
         ELSE Throw(Start, "InternalError"))

ProcessSymbolCommit(type, Make(_, _, _)) ==
  /\ Outputs(type)
  /\ End(IF RangeMapIsLegal(Revnum)
         THEN Make(Start, Commit.symbol, GetSourceGroups(GetRangeMap(Revnum)))
         ELSE Throw(Start, "InternalError"))

ProcessBranchCommit == ProcessSymbolCommit("branch", BranchSymbol)
ProcessTagCommit == ProcessSymbolCommit("tag", TagSymbol)

Init ==
  /\ CreatorInit
  /\ name \in {"Git", "Bzr"}
  /\ tie_tag_fixup_branches \in BOOLEAN
  /\ mirror = Open
  /\ marks = [lod \in LODs \cup {None} |-> <<>>]
  /\ refs = <<>> /\ git = <<>>

\* Nothing follows a tag, so that no cycle is ever broken at its changeset.
Creating ==
  /\ ProcessChangeset \/ SortSymbolOpeningsClosings
  /\ \A i, j \in Items :
       project[i].kind = "tag" /\ project[j].changeset = project[i].changeset =>
         (i \in done' <=> j \in done')
  /\ UNCHANGED <<options, git_vars>>

Next ==
  \/ Creating
  \/ ProcessInitialProjectCommit
  \/ ProcessPrimaryCommit \/ ProcessPostCommit
  \/ ProcessBranchCommit \/ ProcessTagCommit

Spec == Init /\ [][Next]_vars

-----------------------------------------------------------------------------
\* The files at the tip of a branch or tag.
TreeOf(ref) == IF ref \in DOMAIN refs THEN git[refs[ref]].tree ELSE <<>>

(***************************************************************************)
(* The message of a symbol's commit tells the truth: the files not listed  *)
(* as cherry-picked or deleted are, with their contents, those of the      *)
(* commit it sprouts from or adds to, and none of the files it lists as    *)
(* deleted is missing there.                                               *)
(***************************************************************************)
MessageTellsChanges ==
  \A mark \in DOMAIN git :
    LET c == git[mark]
        old == git[c.parents[1]].tree
    IN  c.log # None /\ c.sprouts =>
          /\ Restrict(old, DOMAIN old \ (c.log.cherrypicks \cup c.log.deletes))
               = Restrict(c.tree, DOMAIN c.tree \ (c.log.cherrypicks \cup c.log.deletes))
          /\ c.log.deletes \subseteq DOMAIN old \ DOMAIN c.tree

(***************************************************************************)
(* No exception is raised, and after every commit each branch, each tag    *)
(* and master hold exactly the files that CVS has there, with their        *)
(* contents, whether they were copied, sprouted or filled in several       *)
(* steps; no tag has a branch of its own.                                  *)
(***************************************************************************)
RefsFaithful ==
  /\ MessageTellsChanges
  /\ ~Raised(mirror)
  /\ \A ref \in DOMAIN refs : ref[1] # "tag-fixup"
  /\ \A x \in LODs, f \in Files :
       LET tree == TreeOf(BranchRef(x)) @@ TreeOf(TagRef(x))
       IN  (IF f \in DOMAIN tree THEN tree[f] ELSE None)
             = ContentInCVS(mirror.youngest, x, f)
=============================================================================

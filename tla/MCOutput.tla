----------------------------- MODULE MCOutput -----------------------------
(***************************************************************************)
(* CreateRevsPass, the sorting of the log, and OutputPass with each of two *)
(* output options, which is chosen at the start, on small projects.  Three *)
(* files, 1 in the root directory 0, 4 in the directory 2 and 5 in the     *)
(* directory 3 below 2, are taken from the shapes of MCItems and rewritten *)
(* by the operators of CVSFileItems; item i of file f has the id           *)
(* 100 * f + i.                                                            *)
(***************************************************************************)
EXTENDS SVNOutputOption

Parsing ==
  INSTANCE CVSFileItems WITH
    Symbols <- {1, 2, 3}, Parsed <- {}, parsed <- None, file <- None,
    trunk_only <- FALSE, fatal <- FALSE, pc <- None, pending <- {},
    ntdbr_excluded <- FALSE, fate <- None
Shapes == INSTANCE MCItems

MCDirectories == {0, 2, 3}
MCFiles == {1, 4, 5}
MCparent_directory ==
  [p \in MCDirectories \cup MCFiles |->
     CASE p = 0 -> None [] p \in {1, 2} -> 0 [] p \in {3, 4} -> 2 [] p = 5 -> 3]

\* A file as CollectRevsPass and FilterSymbolsPass leave it; if the symbol 3
\* sprouts from where the branch 2 does, the branch becomes its parent.
Rewritten(shape) ==
  LET p == Shapes!FileOf(Parsing!NewItem, shape)
      f == [item |-> p.item, root |-> {1}]
      adjusted == IF p.default_branch = None THEN f
                  ELSE Parsing!AdjustNtdbrs(f, 11, Parsing!Revisions(f, 11))
      shortened == IF p.default_branch # None /\ p.file_imported
                   THEN Parsing!ImportedRemove11(adjusted, 11) ELSE adjusted
      moved == IF shape.c_at = 0 THEN shortened ELSE Parsing!AdjustParent(shortened, 31, 2)
  IN  Parsing!RecordSymbols(Parsing!RefineSymbols(moved))

\* The items of file f in the project's database.  Revisions with the same
\* number were committed together.
Numbered(f, item) ==
  LET Id(i) == IF i = None THEN None ELSE 100 * f + i
      IdSet(S) == {Id(i) : i \in S}
      IdSeq(s) == [k \in DOMAIN s |-> Id(s[k])]
      Renumbered(r, i) == [changeset |-> IF r.kind = "revision" THEN i ELSE -r.symbol] @@
        [r EXCEPT !.prev_id = Id(@), !.next_id = Id(@), !.first_on_branch_id = Id(@),
                  !.ntdbr_prev_id = Id(@), !.ntdbr_next_id = Id(@), !.source_id = Id(@),
                  !.tag_ids = IdSet(@), !.branch_ids = IdSeq(@),
                  !.branch_commit_ids = IdSet(@), !.opened_symbols = IdSet(@),
                  !.closed_symbols = IdSet(@)]
  IN  [n \in IdSet(DOMAIN item) |-> Renumbered(item[n - 100 * f], n - 100 * f)]

\* A project from shapes of its three files; <<>> for a file it does not have.
Project(shapes) ==
  LET File(f, shape) == IF shape = <<>> THEN <<>> ELSE Numbered(f, Rewritten(shape).item)
  IN  File(1, shapes[1]) @@ File(4, shapes[2]) @@ File(5, shapes[3])

Plain ==
  [trunk |-> 1, vendor |-> -1, b |-> 0, b_at |-> 0, c_at |-> 0, c_tag |-> TRUE,
   order |-> <<11, 21, 31>>, dead |-> {}, early |-> 0, delta |-> TRUE,
   default |-> FALSE, imported |-> FALSE, added |-> FALSE, added_b |-> FALSE]

\* Files with trunk revisions only, with the branch 2 from revision 1 or 2,
\* with a commit on it, deleted by it, and deleted on trunk.
Trunk1 == Plain
Trunk2 == [Plain EXCEPT !.trunk = 2]
Early == [Trunk2 EXCEPT !.b_at = 1]
Late  == [Trunk2 EXCEPT !.b_at = 2]
OnB   == [Early EXCEPT !.b = 1]
DeadOnB == [Plain EXCEPT !.b_at = 1, !.b = 1, !.dead = {22}]
DeadOnTrunk == [Late EXCEPT !.dead = {2}]

\* The symbol 3 at revision i.
Tagged(shape, i) == [shape EXCEPT !.c_at = i]
Branched(shape, i) == [shape EXCEPT !.c_at = i, !.c_tag = FALSE]

\* Files with a default branch.
Default == [Plain EXCEPT !.vendor = 2, !.default = TRUE]
Imported1 == Tagged([Default EXCEPT !.imported = TRUE, !.delta = FALSE], 12)
Imported2 == Tagged([Default EXCEPT !.imported = TRUE, !.dead = {13}], 1)
Vendor3 == [Default EXCEPT !.trunk = 2, !.b_at = 1]

MCProjects ==
  {Project(p) : p \in
     {\* The branch 2 from different revisions, and emptied on it.
      <<Early, Late, OnB>>, <<Early, DeadOnB, OnB>>, <<<<>>, DeadOnB, DeadOnB>>,
      \* A tag of the branch 2, or of the branch in one file and of trunk in another.
      <<Trunk1, Tagged(OnB, 22), Tagged(OnB, 1)>>,
      <<<<>>, Tagged(DeadOnB, 1), Tagged(Trunk2, 2)>>,
      \* The same for a branch.
      <<<<>>, Branched(DeadOnB, 1), Branched(OnB, 22)>>,
      <<<<>>, Branched(OnB, 1), Branched(OnB, 1)>>,
      <<Early, Branched(OnB, 1), Late>>,
      <<Branched(Early, 1), DeadOnB, Branched(OnB, 22)>>,
      \* Default branches.
      <<<<>>, Imported1, Tagged(Trunk1, 1)>>, <<<<>>, Branched(Imported1, 12), Branched(Trunk1, 1)>>,
      <<Trunk2, Imported2, DeadOnTrunk>>, <<<<>>, Vendor3, Imported2>>,
      <<Imported1, Vendor3, DeadOnTrunk>>, <<Imported1, Vendor3, Tagged(Imported2, 13)>>}}

\* Evaluated once.
MCProjectSet == MCProjects
MCIds == {100 * f + i : f \in MCFiles, i \in 1 .. 31}
MCCVSFile == [i \in MCIds |-> i \div 100]
MCLODs == 0 .. 3

-----------------------------------------------------------------------------
VARIABLES
  output,  \* the output option, "svn" or "git"
  name, tie_tag_fixup_branches, git_mirror, marks, refs, git  \* GitOutputOption

Git == INSTANCE GitOutputOption WITH mirror <- git_mirror

svn_vars == <<prune, mirror, repository>>
git_vars == <<name, tie_tag_fixup_branches, git_mirror, marks, refs, git>>

MCInit ==
  \/ /\ output = "svn" /\ Init
     /\ name = None /\ tie_tag_fixup_branches = FALSE /\ git_mirror = None
     /\ marks = <<>> /\ refs = <<>> /\ git = <<>>
  \/ /\ output = "git" /\ Git!Init
     /\ prune = FALSE /\ mirror = None /\ repository = <<>>

SVN == output = "svn" /\ Next /\ UNCHANGED <<output, git_vars>>
GIT == output = "git" /\ Git!Next /\ UNCHANGED <<output, svn_vars>>

MCSpec == MCInit /\ [][SVN \/ GIT]_<<output, vars, git_vars>>

\* Every tree that svnadmin has loaded holds what CVS has, and the mirror, the
\* openings and closings and the dump agree with it.
SVNFaithful == output = "svn" => Faithful

\* Every branch and tag that fast-import has made holds what CVS has.
RefsFaithful == output = "git" => Git!RefsFaithful

\* The SVNRevisionRange of an item opens in the revision it was committed in.
SVNCommittedInItsRevision == output = "svn" => CommittedInItsRevision
=============================================================================

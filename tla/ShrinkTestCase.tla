--------------------------- MODULE ShrinkTestCase ---------------------------
(***************************************************************************)
(* contrib/shrink_test_case.py makes a CVS repository as small as it can   *)
(* while a test command still shows a bug.  It deletes directories, files, *)
(* then branches and then tags, many at once; where the bug disappears it  *)
(* puts them back and tries halves of them.                                *)
(*                                                                         *)
(* An item of the repository is a path, of a directory, of a file, or of a *)
(* branch or a tag in a file; what is in an item has a longer path.        *)
(***************************************************************************)
EXTENDS Integers, SequencesExt

CONSTANTS
  Tree,             \* the items that there are at the start
  KindOf(_),        \* "directory", "file", "branch" or "tag"
  Root              \* the path of the repository

VARIABLES
  repository,       \* the items that exist
  needed,           \* the items without which the bug disappears
  phase,            \* what is deleted now
  todo,             \* the modifications that are to be tried
  attempt,          \* the one that is tried, with the other half of a split
  step,             \* how many of its parts have been made, or reverted
  temporary,        \* for each part that has been made, what it moved away
  pc

vars == <<repository, needed, phase, todo, attempt, step, temporary, pc>>

Under(path) == {item \in repository : IsPrefix(path, item)}
In(path, kind) ==
  {item \in Under(path) : Len(item) = Len(path) + 1 /\ KindOf(item) = kind}
Ordered(items) == SetToSeq(items)
----------------------------------------------------------------------------
(* Modifications, each with the size it has when it is made.               *)

\* DeleteDirectoryModification and DeleteFileModification
Delete(path) ==
  [kind |-> "delete", path |-> path, filters |-> << >>, mods |-> << >>,
   size |-> Cardinality(Under(path))]

\* RCSFileModification: what is deleted in a file.  The filter of a branch is
\* twice as large as that of a tag.
FilterSize(item) == IF KindOf(item) = "branch" THEN 2 ELSE 1
SumOver(Op(_), s) == FoldFunction(+, 0, [k \in DOMAIN s |-> Op(s[k])])
Filter(path, filters) ==
  [kind |-> "filter", path |-> path, filters |-> filters, mods |-> << >>,
   size |-> SumOver(FilterSize, filters)]

\* CompoundModification, or the only one (create_modification)
Create(mods) ==
  IF Len(mods) = 1 THEN mods[1]
  ELSE [kind |-> "compound", path |-> << >>, filters |-> << >>, mods |-> mods,
        size |-> SumOver(LAMBDA mod : mod.size, mods)]

\* SplitModification(): mod1 is the larger one.
Split(mod1, mod2) ==
  [kind |-> "split", path |-> << >>, filters |-> << >>,
   mods |-> IF mod2.size > mod1.size THEN <<mod2, mod1>> ELSE <<mod1, mod2>>,
   size |-> Max({mod1.size, mod2.size})]

FirstHalf(s) == SubSeq(s, 1, Len(s) \div 2)
SecondHalf(s) == SubSeq(s, Len(s) \div 2 + 1, Len(s))
OneOf(mods) == IF mods = << >> THEN {} ELSE {Create(mods)}
Deletions(items) == LET s == Ordered(items) IN [k \in DOMAIN s |-> Delete(s[k])]

\* get_submodifications(False), of what is not a split
RECURSIVE PartsToTry(_)
PartsToTry(mod) ==
  CASE mod.kind = "delete" ->
         IF KindOf(mod.path) = "file" THEN {}
         ELSE OneOf(Deletions(In(mod.path, "directory")))
                \union OneOf(Deletions(In(mod.path, "file")))
    [] mod.kind = "compound" ->
         {Split(Create(FirstHalf(mod.mods)), Create(SecondHalf(mod.mods)))}
    [] mod.kind = "filter" ->
         IF Len(mod.filters) > 1
         THEN {Split(Filter(mod.path, FirstHalf(mod.filters)),
                     Filter(mod.path, SecondHalf(mod.filters)))}
         ELSE LET below == In(mod.filters[1], "branch")
              IN IF KindOf(mod.filters[1]) = "tag" \/ below = {} THEN {}
                 ELSE {Filter(mod.path, Ordered(below))}

\* Mutant: the other half of a split that failed is not tried.
SubModifications_FirstHalf(mod, success) ==
  CASE mod.kind = "split" /\ success -> PartsToTry(mod.mods[2])
    [] mod.kind = "split" /\ ~ success -> PartsToTry(mod.mods[1])
    [] mod.kind # "split" /\ success -> {}
    [] OTHER -> PartsToTry(mod)

\* get_submodifications(): when the larger half of a split could be deleted,
\* the other one cannot be as a whole, for both together could not.
SubModifications(mod, success) ==
  CASE mod.kind = "split" /\ success -> PartsToTry(mod.mods[2])
    [] mod.kind = "split" /\ ~ success ->
         {mod.mods[2]} \union PartsToTry(mod.mods[1])
    [] mod.kind # "split" /\ success -> {}
    [] OTHER -> PartsToTry(mod)

\* What is modified one after the other
Parts(mod) ==
  LET tried == IF mod.kind = "split" THEN mod.mods[1] ELSE mod
  IN IF tried.kind = "compound" THEN tried.mods ELSE <<tried>>
----------------------------------------------------------------------------
(* try_modification_combinations                                           *)

\* todo.sort() and todo.pop()
Pick ==
  /\ pc = "pick"
  /\ \E mod \in todo :
       /\ \A other \in todo : other.size <= mod.size
       /\ todo' = todo \ {mod}
       /\ attempt' = mod
  /\ step' = 0
  /\ pc' = "modify"
  /\ UNCHANGED <<repository, needed, phase, temporary>>

Part == Parts(attempt)[step + 1]
Deleted(part) ==
  IF part.kind = "delete" THEN Under(part.path)
  ELSE UNION {Under(part.filters[k]) : k \in DOMAIN part.filters}

\* modify(), of one part
Modify ==
  /\ pc = "modify"
  /\ step < Len(Parts(attempt))
  /\ temporary' = Append(temporary, Under(Part.path))
  /\ repository' = repository \ Deleted(Part)
  /\ step' = step + 1
  /\ UNCHANGED <<needed, phase, todo, attempt, pc>>

\* The test command
Test ==
  /\ pc = "modify"
  /\ step = Len(Parts(attempt))
  /\ step' = 0
  /\ pc' = IF needed \subseteq repository THEN "commit" ELSE "revert"
  /\ UNCHANGED <<repository, needed, phase, todo, attempt, temporary>>

Revert ==
  /\ pc \in {"revert", "interrupted"}
  /\ temporary # << >>
  /\ repository' = (repository \ Under(Part.path)) \union temporary[1]
  /\ temporary' = Tail(temporary)
  /\ step' = step + 1
  /\ UNCHANGED <<needed, phase, todo, attempt, pc>>

Commit ==
  /\ pc = "commit"
  /\ temporary # << >>
  /\ temporary' = Tail(temporary)
  /\ UNCHANGED <<repository, needed, phase, todo, attempt, step, pc>>

Tried ==
  /\ pc \in {"commit", "revert"}
  /\ temporary = << >>
  /\ todo' = todo \union SubModifications(attempt, pc = "commit")
  /\ pc' = "pick"
  /\ UNCHANGED <<repository, needed, phase, attempt, step, temporary>>

\* A KeyboardInterrupt, or another exception, while the test command runs: the
\* modification is reverted.
InterruptTest ==
  /\ pc = "modify"
  /\ step = Len(Parts(attempt))
  /\ step' = 0
  /\ pc' = "interrupted"
  /\ UNCHANGED <<repository, needed, phase, todo, attempt, temporary>>

\* One that comes at any other time: nothing is reverted.
Interrupt ==
  /\ \/ pc = "modify" /\ step < Len(Parts(attempt))
     \/ pc \in {"revert", "commit", "interrupted"} /\ temporary # << >>
  /\ pc' = "broken"
  /\ UNCHANGED <<repository, needed, phase, todo, attempt, step, temporary>>
----------------------------------------------------------------------------
(* shrink_repository                                                       *)

Files == {item \in repository : KindOf(item) = "file"}

\* The branches that are on trunk, and the tags of a file wherever they are
BranchesOf(path) == In(path, "branch")
TagsOf(path) == {item \in Under(path) : KindOf(item) = "tag"}
Filters(ItemsOf(_)) ==
  {Filter(path, Ordered(ItemsOf(path))) : path \in {p \in Files : ItemsOf(p) # {}}}

NextPhase(from, to, mods) ==
  /\ pc = "pick" /\ todo = {}
  /\ phase = from
  /\ Root \in repository
  /\ phase' = to
  /\ todo' = mods
  /\ UNCHANGED <<repository, needed, attempt, step, temporary, pc>>

DeleteBranches == NextPhase("paths", "branches", Filters(BranchesOf))
DeleteTags == NextPhase("branches", "tags", Filters(TagsOf))
Finish ==
  /\ pc = "pick" /\ todo = {}
  /\ phase = "tags"
  /\ pc' = "finished"
  /\ UNCHANGED <<repository, needed, phase, todo, attempt, step, temporary>>

\* get_files() of a repository that could be deleted as a whole
OSError ==
  /\ pc = "pick" /\ todo = {}
  /\ Root \notin repository
  /\ pc' = "OSError"
  /\ UNCHANGED <<repository, needed, phase, todo, attempt, step, temporary>>

Start(bug) ==
  /\ repository = Tree
  /\ needed = bug
  /\ phase = "paths"
  /\ todo = {Delete(Root)}
  /\ attempt = Delete(Root)
  /\ step = 0
  /\ temporary = << >>
  /\ pc = "pick"

Next ==
  \/ Pick \/ Modify \/ Test \/ Revert \/ Commit \/ Tried
  \/ InterruptTest \/ Interrupt
  \/ DeleteBranches \/ DeleteTags \/ Finish \/ OSError
-----------------------------------------------------------------------------
\* Between two attempts the repository still shows the bug, and nothing is left
\* in the temporary directory; an interrupted test leaves it so too.
BugKept ==
  (pc \in {"pick", "finished", "OSError"} \/ (pc = "interrupted" /\ temporary = << >>)) =>
     needed \subseteq repository /\ temporary = << >>

\* Whenever the script stops, all that the bug needs is in the repository or in
\* the temporary directory.
NothingNeededLost ==
  needed \subseteq repository \union UNION {temporary[k] : k \in DOMAIN temporary}

\* In the end nothing is left that the bug does not need, nor is there anything
\* that it needs in it: every item that could be deleted was tried.
Smallest ==
  pc = "finished" =>
    repository = {item \in Tree : \E n \in needed : IsPrefix(item, n)}

\* A repository is shrunk as far as it can be by deleting, whatever the order in
\* which the modifications are split, and never loses the bug on the way.
ShrinksWell == BugKept /\ NothingNeededLost /\ Smallest
=============================================================================

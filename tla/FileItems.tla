----------------------------- MODULE FileItems -----------------------------
(***************************************************************************)
(* The items of one RCS file as a value, and the methods of CVSFileItems   *)
(* and LODItems (cvs_file_items.py) as functions of it: they read and edit *)
(* a doubly linked structure of revisions, branches and tags.  A file is a *)
(* record [item |-> _cvs_items, root |-> root_ids].                        *)
(***************************************************************************)
EXTENDS Integers, FiniteSets, SequencesExt

CONSTANTS
  None,  \* Python's None
  Trunk  \* the trunk; a number, as the symbols are

-----------------------------------------------------------------------------
(***************************************************************************)
(* One record shape serves CVSRevision, CVSBranch and CVSTag.  The class   *)
(* of a revision (Add, Change, Delete, Noop) is the pair (live, pred_live) *)
(* of cvs_revision_type_map.  Of a log message only the shapes CVS         *)
(* generates itself matter.                                                *)
(***************************************************************************)
\* An item when it is made.
NewItem ==
  [kind |-> "revision", live |-> TRUE, pred_live |-> FALSE, lod |-> Trunk,
   symbol |-> None, is_rev_1_1 |-> FALSE, timestamp |-> 0, log |-> None,
   deltatext_exists |-> TRUE, prev_id |-> None, next_id |-> None,
   first_on_branch_id |-> None, ntdbr |-> FALSE, ntdbr_prev_id |-> None,
   ntdbr_next_id |-> None, source_id |-> None, source_lod |-> None,
   tag_ids |-> {}, branch_ids |-> <<>>, branch_commit_ids |-> {},
   noop |-> FALSE, opened_symbols |-> {}, closed_symbols |-> {}]

\* The items of a file with the ids I.
ItemRecord(I) ==
  LET Id == I \cup {None} IN
  [kind : {"revision", "branch", "tag"}, live : BOOLEAN, pred_live : BOOLEAN, lod : Nat,
   symbol : {None} \cup Nat, is_rev_1_1 : BOOLEAN, timestamp : Nat, log : {None} \cup STRING,
   deltatext_exists : BOOLEAN, prev_id : Id, next_id : Id, first_on_branch_id : Id,
   ntdbr : BOOLEAN, ntdbr_prev_id : Id, ntdbr_next_id : Id, source_id : Id,
   source_lod : {None} \cup Nat, tag_ids : SUBSET I, branch_ids : Seq(I),
   branch_commit_ids : SUBSET I, noop : BOOLEAN, opened_symbols : SUBSET I,
   closed_symbols : SUBSET I]

Ids(f) == DOMAIN f.item
IsRev(f, i) == f.item[i].kind = "revision"
IsBranch(f, i) == f.item[i].kind = "branch"

\* LODs are named by where they start: a CVSBranch, or a root revision.
LodAt(f, s) == IF IsRev(f, s) THEN f.item[s].lod ELSE f.item[s].symbol
FirstRev(f, s) == IF IsRev(f, s) THEN s ELSE f.item[s].next_id

\* LODItems.cvs_revisions of the LOD that starts at s, as a set.
Revisions(f, s) ==
  LET at[n \in Nat] == IF n = 0 THEN FirstRev(f, s)
                       ELSE IF at[n - 1] = None THEN None
                       ELSE f.item[at[n - 1]].next_id
  IN  {at[n] : n \in 0 .. Cardinality(Ids(f))} \ {None}

LastRev(f, s) == CHOOSE i \in Revisions(f, s) : f.item[i].next_id = None

\* LODItems.cvs_tags and cvs_branches: what sprouts from the LOD.
SproutsFrom(f, s) ==
  Revisions(f, s) \cup (IF IsRev(f, s) THEN {} ELSE {s})
TagsOf(f, s) == UNION {f.item[i].tag_ids : i \in SproutsFrom(f, s)}
BranchesOf(f, s) == UNION {ToSet(f.item[i].branch_ids) : i \in SproutsFrom(f, s)}

\* What iter_lods() yields, and, of what it has still to yield, what may be
\* next: it is a depth-first traversal, every LOD after those that sprout from it.
Lods(f) == f.root \cup {i \in Ids(f) : IsBranch(f, i)}
LeafLods(f, S) == {s \in S : BranchesOf(f, s) \cap S = {}}

StartsWithNtdbr(f, s) == FirstRev(f, s) # None /\ f.item[FirstRev(f, s)].ntdbr
IsPureNtdb(f, s) == Revisions(f, s) # {} /\ f.item[LastRev(f, s)].ntdbr

-----------------------------------------------------------------------------
\* What becomes of the first revision of a branch that loses its CVSBranch.
Rootless(r) ==
  [r EXCEPT !.first_on_branch_id = None, !.prev_id = None, !.pred_live = FALSE]

\* _sever_branch(): the branch loses its CVSBranch and becomes a root.
SeverBranch(f, b) ==
  LET first == f.item[b].next_id
      Severed(i) ==
        IF i = f.item[b].source_id
        THEN [f.item[i] EXCEPT !.branch_ids = RemoveFirst(@, b),
                               !.branch_commit_ids = @ \ {first}]
        ELSE IF i = first THEN Rootless(f.item[i]) ELSE f.item[i]
  IN  [item |-> [i \in Ids(f) \ {b} |-> Severed(i)],
       root |-> f.root \cup ({first} \ {None})]

\* adjust_ntdbrs(): 1.2 follows the last revision of the default branch b.
AdjustNtdbrs(f, b, revs) ==
  LET rev_1_2 == f.item[f.item[b].source_id].next_id
      last == CHOOSE i \in revs : f.item[i].next_id \notin revs
      Adjusted(i) ==
        IF i = last /\ rev_1_2 # None
        THEN [f.item[i] EXCEPT !.ntdbr = TRUE, !.ntdbr_next_id = rev_1_2]
        ELSE IF i \in revs THEN [f.item[i] EXCEPT !.ntdbr = TRUE]
        ELSE IF i = rev_1_2
        THEN [f.item[i] EXCEPT !.ntdbr_prev_id = last, !.pred_live = f.item[last].live]
        ELSE f.item[i]
  IN  IF revs = {} THEN f ELSE [f EXCEPT !.item = [i \in Ids(f) |-> Adjusted(i)]]

\* process_historical_ntdb(): the revisions before the first one as late as 1.2.
HistoricalNtdbrs(f, b) ==
  LET rev_1_2 == f.item[f.item[b].source_id].next_id
      Late(i) == rev_1_2 # None /\ f.item[i].timestamp >= f.item[rev_1_2].timestamp
  IN  {i \in Revisions(f, b) :
         \A j \in Revisions(f, b) : i \in Revisions(f, j) => ~Late(j)}

\* imported_remove_1_1(): the first revision on b takes the place of 1.1, if
\* it has the same content.
RepeatsSource_Always(f, b) == f.item[f.item[b].next_id].live
RepeatsSource(f, b) ==
  LET first == f.item[f.item[b].next_id]
  IN  first.live /\ ~first.deltatext_exists

ImportedRemove11(f, b) ==
  LET first == f.item[b].next_id
      rev_1_1 == f.item[b].source_id
      cut == SeverBranch(f, b)
      old == cut.item[rev_1_1]
      Moved(i) ==
        CASE i = first ->
               [cut.item[i] EXCEPT !.tag_ids = @ \cup old.tag_ids,
                                   !.branch_ids = old.branch_ids \o @,
                                   !.branch_commit_ids = @ \cup old.branch_commit_ids]
          [] i \in old.tag_ids \cup ToSet(old.branch_ids) ->
               [cut.item[i] EXCEPT !.source_id = first,
                                   !.source_lod = cut.item[first].lod]
          [] i \in old.branch_commit_ids -> [cut.item[i] EXCEPT !.prev_id = first]
          [] i = old.next_id -> [cut.item[i] EXCEPT !.prev_id = None]
          [] OTHER -> cut.item[i]
  IN  IF RepeatsSource(f, b)
      THEN [item |-> [i \in Ids(cut) \ {rev_1_1} |-> Moved(i)],
            root |-> (cut.root \ {rev_1_1}) \cup ({old.next_id} \ {None})]
      ELSE f

-----------------------------------------------------------------------------
\* Delete a root revision and its tags; its successor is the root instead.
DropRoot(f, i) ==
  LET next == f.item[i].next_id
      Kept(j) == IF j = next THEN [f.item[j] EXCEPT !.prev_id = None] ELSE f.item[j]
  IN  [item |-> [j \in Ids(f) \ ({i} \cup f.item[i].tag_ids) |-> Kept(j)],
       root |-> (f.root \ {i}) \cup ({next} \ {None})]

\* remove_unneeded_initial_trunk_delete(), with its test.
UnneededTrunkDeletes(f) ==
  {i \in f.root : /\ ~f.item[i].live /\ ~f.item[i].pred_live
                  /\ f.item[i].is_rev_1_1
                  /\ f.item[i].lod = Trunk
                  /\ ~f.item[i].ntdbr
                  /\ f.item[i].log = "initially added on branch"}

\* All branches of the revision are severed first.
SeverBranches(f, i) ==
  LET branches == ToSet(f.item[i].branch_ids)
      firsts == {f.item[b].next_id : b \in branches} \ {None}
      Severed(j) ==
        IF j = i THEN [f.item[j] EXCEPT !.branch_ids = <<>>, !.branch_commit_ids = @ \ firsts]
        ELSE IF j \in firsts THEN Rootless(f.item[j]) ELSE f.item[j]
  IN  [item |-> [j \in Ids(f) \ branches |-> Severed(j)], root |-> f.root \cup firsts]

RemoveTrunkDelete_NotSevered(f, i) == DropRoot(f, i)
RemoveTrunkDelete(f, i) == DropRoot(SeverBranches(f, i), i)

\* remove_initial_branch_deletes() for one LOD, with its test.
IsUnneededBranchDelete(f, i) ==
  /\ ~f.item[i].ntdbr
  /\ ~f.item[i].live
  /\ f.item[i].branch_ids = <<>>
  /\ f.item[i].log = "added on branch"

RemoveBranchDelete(f, s) ==
  LET first == FirstRev(f, s)
  IN  IF first # None /\ IsUnneededBranchDelete(f, first)
      THEN DropRoot(IF IsRev(f, s) THEN f ELSE SeverBranch(f, s), first)
      ELSE f

-----------------------------------------------------------------------------
\* _exclude_tag() of every tag in T.
ExcludeTags(f, T) ==
  [f EXCEPT !.item = [i \in Ids(f) \ T |-> [f.item[i] EXCEPT !.tag_ids = @ \ T]]]

\* _exclude_branch(): NTDB revisions stay, to be grafted to trunk.
ExcludeBranch(f, s) ==
  LET revs == Revisions(f, s)
      tail == {i \in revs : ~f.item[i].ntdbr}
      first == FirstRev(f, s)
      Shortened(i) ==
        IF f.item[i].next_id \in tail THEN [f.item[i] EXCEPT !.next_id = None] ELSE f.item[i]
      Detached(i) ==
        IF i = f.item[s].source_id
        THEN [f.item[i] EXCEPT !.branch_ids = RemoveFirst(@, s),
                               !.branch_commit_ids = @ \ {first}]
        ELSE f.item[i]
  IN  IF StartsWithNtdbr(f, s)
      THEN [f EXCEPT !.item = [i \in Ids(f) \ tail |-> Shortened(i)]]
      ELSE [item |-> [i \in Ids(f) \ (revs \cup {s}) |-> Detached(i)],
            root |-> f.root \ {first}]

\* The body of the loops of filter_excluded_symbols() and exclude_non_trunk().
ExcludeFrom(f, s, excluded) ==
  LET kept == ExcludeTags(f, {t \in TagsOf(f, s) : f.item[t].symbol \in excluded})
  IN  IF LodAt(f, s) \in excluded THEN ExcludeBranch(kept, s) ELSE kept

\* graft_ntdbr_to_trunk(): 1.1, the NTDB revisions and 1.2 become one LOD.
GraftNtdbrToTrunk(f, s) ==
  LET revs == Revisions(f, s)
      first == FirstRev(f, s)
      last == LastRev(f, s)
      rev_1_1 == f.item[first].prev_id
      rev_1_2 == f.item[last].ntdbr_next_id
      sprouts == TagsOf(f, s) \cup BranchesOf(f, s)
      severed == IF IsRev(f, s) THEN f ELSE SeverBranch(f, s)
      OnTrunk(i) ==
        [severed.item[i] EXCEPT
           !.ntdbr = FALSE, !.lod = Trunk,
           !.prev_id = IF i = first THEN rev_1_1 ELSE @,
           !.pred_live = IF i = first /\ rev_1_1 # None THEN f.item[rev_1_1].live ELSE @,
           !.next_id = IF i = last /\ rev_1_2 # None THEN rev_1_2 ELSE @,
           !.ntdbr_next_id = IF i = last THEN None ELSE @]
      Grafted(i) ==
        IF i \in revs THEN OnTrunk(i)
        ELSE IF i = rev_1_1 THEN [severed.item[i] EXCEPT !.next_id = first]
        ELSE IF i = rev_1_2
        THEN [severed.item[i] EXCEPT !.ntdbr_prev_id = None, !.prev_id = last]
        ELSE IF i \in sprouts THEN [severed.item[i] EXCEPT !.source_lod = Trunk]
        ELSE severed.item[i]
  IN  [item |-> [i \in Ids(severed) |-> Grafted(i)],
       root |-> severed.root \ ({rev_1_2} \cup (IF rev_1_1 = None THEN {} ELSE {first}))]

GraftIfExcluded(f, ntdbr_excluded) ==
  LET ntdbs == {s \in Lods(f) : StartsWithNtdbr(f, s)}
  IN  IF ntdbr_excluded /\ ntdbs # {}
      THEN GraftNtdbrToTrunk(f, CHOOSE s \in ntdbs : TRUE) ELSE f

-----------------------------------------------------------------------------
\* _mutate_branch_to_tag() and _mutate_tag_to_branch().
MutateBranchToTag(f, i) ==
  LET source == f.item[i].source_id
      Mutated(j) ==
        IF j = i THEN [f.item[j] EXCEPT !.kind = "tag"]
        ELSE IF j = source
        THEN [f.item[j] EXCEPT !.branch_ids = RemoveFirst(@, i), !.tag_ids = @ \cup {i}]
        ELSE f.item[j]
  IN  [f EXCEPT !.item = [j \in Ids(f) |-> Mutated(j)]]

MutateTagToBranch_StillTag(f, i) ==
  LET source == f.item[i].source_id
      Mutated(j) ==
        IF j = i THEN [f.item[j] EXCEPT !.kind = "branch"]
        ELSE IF j = source THEN [f.item[j] EXCEPT !.branch_ids = Append(@, i)]
        ELSE f.item[j]
  IN  [f EXCEPT !.item = [j \in Ids(f) |-> Mutated(j)]]
MutateTagToBranch(f, i) ==
  LET source == f.item[i].source_id
      Mutated(j) ==
        IF j = i THEN [f.item[j] EXCEPT !.kind = "branch"]
        ELSE IF j = source
        THEN [f.item[j] EXCEPT !.tag_ids = @ \ {i}, !.branch_ids = Append(@, i)]
        ELSE f.item[j]
  IN  [f EXCEPT !.item = [j \in Ids(f) |-> Mutated(j)]]

\* The branches that _adjust_tag_parent() and _adjust_branch_parents() take
\* for possible parents: a branch may only move onto an earlier one.
PossibleParents(f, i) ==
  LET branch_ids == f.item[f.item[i].source_id].branch_ids
  IN  {branch_ids[k] : k \in {k \in DOMAIN branch_ids :
         IsBranch(f, i) => \A l \in 1 .. k : branch_ids[l] # i}}

\* Both methods switch the parent of a symbol to the preferred one, if it can be.
AdjustParent(f, i, preferred_parent) ==
  LET source == f.item[i].source_id
      found == {b \in PossibleParents(f, i) : f.item[b].symbol = preferred_parent}
      parent == CHOOSE b \in found : TRUE
      Moved(j) ==
        IF j = i THEN [f.item[j] EXCEPT !.source_lod = preferred_parent, !.source_id = parent]
        ELSE IF j = source
        THEN IF IsBranch(f, i) THEN [f.item[j] EXCEPT !.branch_ids = RemoveFirst(@, i)]
                               ELSE [f.item[j] EXCEPT !.tag_ids = @ \ {i}]
        ELSE IF j = parent
        THEN IF IsBranch(f, i) THEN [f.item[j] EXCEPT !.branch_ids = Append(@, i)]
                               ELSE [f.item[j] EXCEPT !.tag_ids = @ \cup {i}]
        ELSE f.item[j]
  IN  IF f.item[i].source_lod = preferred_parent \/ found = {} THEN f
      ELSE [f EXCEPT !.item = [j \in Ids(f) |-> Moved(j)]]

\* get_cvs_revision_source(): where a symbol's content comes from.
RevisionSource(f, i) ==
  LET source[j \in Ids(f)] == IF IsRev(f, j) THEN j ELSE source[f.item[j].source_id]
  IN  source[i]

\* refine_symbols(): a symbol of a dead revision does nothing.
RefineSymbols(f) ==
  [f EXCEPT !.item = [i \in Ids(f) |->
     [f.item[i] EXCEPT !.noop = ~IsRev(f, i) /\ ~f.item[RevisionSource(f, i)].live]]]

\* get_cvs_symbol_ids_opened() of the classes of items.
SymbolsOpened(f, i) ==
  IF f.item[i].noop \/ (IsRev(f, i) /\ ~f.item[i].live) THEN {}
  ELSE f.item[i].tag_ids \cup ToSet(f.item[i].branch_ids)

\* get_ids_closed(): whose symbols can no longer be filled after item i.
IdsClosed_Twice(f, i) ==
  LET r == f.item[i] IN
  IF ~IsRev(f, i) THEN {}
  ELSE IF r.first_on_branch_id # None
       THEN {r.first_on_branch_id} \cup (IF r.ntdbr THEN {r.prev_id} ELSE {})
  ELSE {r.prev_id} \ {None}
IdsClosed(f, i) ==
  LET r == f.item[i] IN
  IF ~IsRev(f, i) THEN {}
  ELSE IF r.first_on_branch_id # None
       THEN {r.first_on_branch_id} \cup (IF r.ntdbr THEN {r.prev_id} ELSE {})
  ELSE IF r.ntdbr_prev_id # None THEN {}
  ELSE {r.prev_id} \ {None}

\* record_opened_symbols() and record_closed_symbols().
RecordSymbols(f) ==
  [f EXCEPT !.item = [i \in Ids(f) |->
     [f.item[i] EXCEPT !.opened_symbols = SymbolsOpened(f, i),
                  !.closed_symbols = UNION {SymbolsOpened(f, j) : j \in IdsClosed(f, i)}]]]

-----------------------------------------------------------------------------
\* LODItems.iter_blockers(): the symbols that an exclusion of s would orphan.
Blockers(f, s) ==
  IF IsPureNtdb(f, s) THEN {}
  ELSE {f.item[i].symbol : i \in {i \in TagsOf(f, s) \cup BranchesOf(f, s) :
          LET source == f.item[i].source_id
          IN  IsRev(f, source) /\ ~f.item[source].ntdbr}}

\* What SymbolStatistics.check_consistency() asks of a plan, for one file: no
\* excluded LOD has a kept symbol sprouting from it, no tag has revisions.
ExcludedOf(fate) == {x \in DOMAIN fate : fate[x] = "exclude"}

IsConsistent(f, fate) ==
  \A s \in Lods(f) : LodAt(f, s) # Trunk =>
    /\ fate[LodAt(f, s)] = "exclude" => Blockers(f, s) \subseteq ExcludedOf(fate)
    /\ fate[LodAt(f, s)] = "tag" => Revisions(f, s) = {}

\* _FileDataCollector._process_ntdbrs() of a file with the default branch b,
\* and of an imported file whose vendor branch b once was the default branch.
LiveNtdbProcessed(f, b, file_imported) ==
  LET revs == Revisions(f, b)
      adjusted == AdjustNtdbrs(f, b, revs)
  IN  IF revs = {} THEN f
      ELSE IF file_imported THEN ImportedRemove11(adjusted, b) ELSE adjusted

HistoricalNtdbProcessed(f, b) ==
  LET revs == HistoricalNtdbrs(f, b)
  IN  IF revs = {} THEN f ELSE ImportedRemove11(AdjustNtdbrs(f, b, revs), b)

-----------------------------------------------------------------------------
(***************************************************************************)
(* check_links() of the three classes, with the LODs and the classes.      *)
(***************************************************************************)
RefsExist(f) ==
  \A i \in Ids(f) :
    LET r == f.item[i]
    IN  /\ {r.prev_id, r.next_id, r.first_on_branch_id, r.ntdbr_prev_id,
            r.ntdbr_next_id, r.source_id} \subseteq Ids(f) \cup {None}
        /\ r.tag_ids \cup ToSet(r.branch_ids) \cup r.branch_commit_ids \subseteq Ids(f)

SproutLinks(f, i) ==
  /\ \A t \in f.item[i].tag_ids :
       /\ f.item[t].kind = "tag"
       /\ f.item[t].source_id = i /\ f.item[t].source_lod = LodAt(f, i)
  /\ \A b \in ToSet(f.item[i].branch_ids) :
       /\ IsBranch(f, b)
       /\ f.item[b].source_id = i /\ f.item[b].source_lod = LodAt(f, i)

EffectivePrev(r) == IF r.ntdbr_prev_id # None THEN r.ntdbr_prev_id ELSE r.prev_id

RevisionLinks(f, i) ==
  LET r == f.item[i]
      branch == r.first_on_branch_id
  IN  /\ r.prev_id = None <=> i \in f.root
      /\ branch # None =>
           /\ IsBranch(f, branch)
           /\ f.item[branch].symbol = r.lod /\ f.item[branch].next_id = i
           /\ RevisionSource(f, branch) = r.prev_id
           /\ i \in f.item[r.prev_id].branch_commit_ids
      /\ branch = None /\ r.prev_id # None =>
           f.item[r.prev_id].next_id = i /\ f.item[r.prev_id].lod = r.lod
      /\ r.next_id # None =>
           f.item[r.next_id].prev_id = i /\ f.item[r.next_id].lod = r.lod
      /\ r.ntdbr_next_id # None =>
           r.ntdbr /\ f.item[r.ntdbr_next_id].ntdbr_prev_id = i
      /\ r.ntdbr_prev_id # None => f.item[r.ntdbr_prev_id].ntdbr_next_id = i
      /\ r.branch_commit_ids =
           {f.item[b].next_id : b \in {b \in Ids(f) : IsBranch(f, b)
                                         /\ RevisionSource(f, b) = i}} \ {None}
      /\ r.pred_live = (EffectivePrev(r) # None /\ f.item[EffectivePrev(r)].live)

SymbolLinks(f, i) ==
  LET r == f.item[i]
      source == f.item[r.source_id]
  IN  /\ i \in IF IsBranch(f, i) THEN ToSet(source.branch_ids) ELSE source.tag_ids
      /\ r.source_lod = LodAt(f, r.source_id)
      /\ r.next_id # None =>
           f.item[r.next_id].lod = r.symbol /\ f.item[r.next_id].first_on_branch_id = i

LinksHold(f) ==
  /\ RefsExist(f)
  /\ f.root \subseteq {i \in Ids(f) : IsRev(f, i)}
  /\ \A i \in Ids(f) :
       SproutLinks(f, i) /\ (IF IsRev(f, i) THEN RevisionLinks(f, i) ELSE SymbolLinks(f, i))

(***************************************************************************)
(* What the parser hands over.  Every item has the links of its class and  *)
(* no others; symbols sprout from revisions, and a revision follows one of *)
(* its own LOD or is the first on a branch.  What precedes a revision goes *)
(* back to the one root, which is on trunk.  CVS adds to it: nothing       *)
(* precedes 1.1, a file with a vendor branch has it on its first revision, *)
(* which was alive if the file was imported, and only a first revision on  *)
(* a branch has the log message "was added on branch".                     *)
(***************************************************************************)
OfItsClass(f, i) ==
  LET r == f.item[i] IN
  IF IsRev(f, i) THEN r.source_id = None
  ELSE /\ r.prev_id = None /\ r.first_on_branch_id = None
       /\ r.ntdbr_prev_id = None /\ r.ntdbr_next_id = None
       /\ r.branch_commit_ids = {}
       /\ r.source_id # None /\ IsRev(f, r.source_id)

PrevsEnd(f) ==
  \A S \in SUBSET {i \in Ids(f) : IsRev(f, i)} :
    S # {} => \E i \in S : f.item[i].prev_id \notin S

ParsedLinks(f) ==
  /\ LinksHold(f) /\ PrevsEnd(f)
  /\ \A i \in Ids(f) :
       LET r == f.item[i]
       IN  /\ OfItsClass(f, i) /\ ~r.ntdbr /\ IsInjective(r.branch_ids)
           /\ IsRev(f, i) /\ r.next_id # None => f.item[r.next_id].first_on_branch_id = None
           /\ r.is_rev_1_1 => r.prev_id = None
           /\ r.log = "added on branch" => ~r.live /\ r.first_on_branch_id # None
  /\ \A i, j \in Ids(f) : i # j /\ f.item[i].symbol # None => f.item[i].symbol # f.item[j].symbol
  /\ \A i, j \in f.root : i = j /\ f.item[i].lod = Trunk

IsParsed(p) ==
  LET ids == DOMAIN p.item
      f == [item |-> p.item,
            root |-> {i \in ids : p.item[i].kind = "revision" /\ p.item[i].prev_id = None}]
  IN  /\ None \notin ids /\ IsFiniteSet(ids) /\ p.item \in [ids -> ItemRecord(ids)]
      /\ ParsedLinks(f)
      /\ p.vendor_branch \in ids \cup {None}
      /\ \A b \in {p.default_branch, p.vendor_branch} \cap ids :
           /\ IsBranch(f, b) /\ f.item[b].source_id \in f.root
           /\ p.file_imported => f.item[f.item[b].source_id].live
=============================================================================

--------------------------- MODULE BreakAllCycles ---------------------------
(***************************************************************************)
(* BreakAllChangesetCyclesPass (passes.py) and ChangesetGraph's            *)
(* search_for_path().  The changesets of revisions have been put in a      *)
(* fixed order by now: they are OrderedChangesets, each tied to the one    *)
(* before and after it, and only changesets of branches may still be       *)
(* split.  First every BranchChangeset that would have to come both after  *)
(* and before some ordered changeset by itself is split; then the graph is *)
(* consumed, and each time that stalls, a path of symbol changesets that   *)
(* leads from an ordered changeset to the next one due is broken.          *)
(***************************************************************************)
EXTENDS ChangesetGraph

CONSTANT MaxInt   \* sys.maxint

ASSUME MaxIntAssumption == MaxInt \in Nat /\ Cardinality(Item) < MaxInt

(***************************************************************************)
(* A branch sprouts from a revision or, when its preferred parent is       *)
(* another one, from a branch that sprouts from the same revision.  The    *)
(* first revision on the branch follows that revision: every set of        *)
(* symbols that leads from the branch back to a revision leads there.      *)
(***************************************************************************)
ASSUME BranchRootAssumption ==
  \A z \in Item : IsRevision(z) /\ cvs_item[z].first_on_branch_id # None =>
    \A S \in SUBSET {i \in Item : IsSymbol(i)} :
      /\ cvs_item[z].first_on_branch_id \in S
      /\ \A s \in S : IsSymbol(cvs_item[s].source_id) => cvs_item[s].source_id \in S
      => \E s \in S : cvs_item[s].source_id = cvs_item[z].prev_id

VARIABLES
  pc,                     \* "load", "retrograde", "consume", "search", "path",
                          \* "break" or "done"
  unread,                 \* ids of source changesets that run() has not read yet
  key_base,               \* KeyGenerator._key_base (the running maximum at first)
  branch_changeset_ids,   \* the BranchChangesets still to be checked, in order
  next_ordered_changeset, \* the number of ordered changesets consumed
  ordered_changeset_ids,  \* the ids of those not yet consumed
  open_nodes,             \* search_for_path()'s queue
  reachable_changesets,   \* search_for_path()'s map: id -> next id on the path
  path,                   \* _get_path()'s list
  consumed                \* history: the ids consume_nopred_nodes() has yielded

search_vars == <<open_nodes, reachable_changesets, path>>
vars == <<graph_vars, pc, unread, key_base, branch_changeset_ids,
          next_ordered_changeset, ordered_changeset_ids, search_vars, consumed>>

-----------------------------------------------------------------------------
\* The previous passes leave the revisions in order, and no cycle among the
\* changesets of symbols.
Init ==
  /\ \E ordinal \in Orders, id_of \in OrderedIds, symbol_id \in SymbolIds :
       /\ Range(ordinal) \subseteq 0..(Len(id_of) - 1)
       /\ cvs_item_to_changeset_id = ItemTable(ordinal, id_of, symbol_id)
       /\ changeset_db = ChangesetTable(cvs_item_to_changeset_id, ordinal, id_of)
       /\ Acyclic(changeset_db, Range(symbol_id)) = TRUE
  /\ nodes = <<>>
  /\ nopred_nodes = {}
  /\ pc = "load"
  /\ unread = DOMAIN changeset_db
  /\ key_base = 1
  /\ branch_changeset_ids = <<>>
  /\ next_ordered_changeset = 0
  /\ ordered_changeset_ids = {}
  /\ open_nodes = <<>>
  /\ reachable_changesets = <<>>
  /\ path = <<>>
  /\ consumed = {}

-----------------------------------------------------------------------------
\* run(): store and graph the next changeset, and note what it is.
LoadChangeset ==
  /\ pc = "load"
  /\ \E id \in unread :
       /\ \A other \in unread : id <= other
       /\ unread' = unread \ {id}
       /\ nodes' = AddNode(nodes, id,
                     CreateGraphNode(changeset_db[id], cvs_item_to_changeset_id))
       /\ ordered_changeset_ids' =
            ordered_changeset_ids \cup
              (IF changeset_db[id].kind = "ordered" THEN {id} ELSE {})
       /\ branch_changeset_ids' =
            branch_changeset_ids \o
              (IF changeset_db[id].kind = "branch" THEN <<id>> ELSE <<>>)
       /\ key_base' = IF id >= key_base THEN id + 1 ELSE key_base
       /\ pc' = IF unread' = {} THEN "retrograde" ELSE "load"
  /\ UNCHANGED <<changeset_db, cvs_item_to_changeset_id, nopred_nodes,
                 next_ordered_changeset, search_vars, consumed>>

-----------------------------------------------------------------------------
Ordered(S) == {id \in S : changeset_db[id].kind = "ordered"}

\* The test of _split_if_retrograde(): the changeset has to come after one
\* ordered changeset and not after, or even before, that one.
Retrograde(id) ==
  \E p \in Ordered(nodes[id].pred_ids), s \in Ordered(nodes[id].succ_ids) :
    changeset_db[p].ordinal >= changeset_db[s].ordinal

(***************************************************************************)
(* _split_retrograde_changeset(): the ordinals that one item has to come   *)
(* after and before, of which the code keeps the largest and the smallest. *)
(***************************************************************************)
OrdinalOf(i, default) ==
  LET changeset == changeset_db[cvs_item_to_changeset_id[i]]
  IN  IF changeset.kind = "ordered" THEN changeset.ordinal ELSE default

PredOrdinals(i) == {0} \cup {OrdinalOf(p, 0) : p \in GetPredIds(i)}
SuccOrdinals(i) == {MaxInt} \cup {OrdinalOf(s, MaxInt) : s \in GetSuccIds(i)}

\* The items that must come after the earliest successor of any item.
LateItems(id) ==
  {i \in changeset_db[id].items :
     \E j \in changeset_db[id].items :
       \E p \in PredOrdinals(i), s \in SuccOrdinals(j) : p >= s}

EarlyItems(id) == changeset_db[id].items \ LateItems(id)

\* Mutant: the late fragment is not looked at again.
SplitRetrograde_Once ==
  /\ pc = "retrograde"
  /\ branch_changeset_ids # <<>>
  /\ LET id == Head(branch_changeset_ids) IN
     /\ Retrograde(id)
     /\ ReplaceChangeset(id, EarlyItems(id), LateItems(id), key_base)
     /\ branch_changeset_ids' = <<key_base>> \o Tail(branch_changeset_ids)
  /\ key_base' = key_base + 2
  /\ UNCHANGED <<nopred_nodes, pc, unread, next_ordered_changeset,
                 ordered_changeset_ids, search_vars, consumed>>

\* Mutant: the lists of early and late items change places.
SplitRetrograde_LateFirst ==
  /\ pc = "retrograde"
  /\ branch_changeset_ids # <<>>
  /\ LET id == Head(branch_changeset_ids) IN
     /\ Retrograde(id)
     /\ ReplaceChangeset(id, LateItems(id), EarlyItems(id), key_base)
     /\ branch_changeset_ids' = <<key_base, key_base + 1>> \o Tail(branch_changeset_ids)
  /\ key_base' = key_base + 2
  /\ UNCHANGED <<nopred_nodes, pc, unread, next_ordered_changeset,
                 ordered_changeset_ids, search_vars, consumed>>

\* _split_if_retrograde(): a retrograde changeset is split in two, and first
\* the early and then the late fragment is looked at in the same way.
SplitRetrograde ==
  /\ pc = "retrograde"
  /\ branch_changeset_ids # <<>>
  /\ LET id == Head(branch_changeset_ids) IN
     /\ Retrograde(id)
     /\ ReplaceChangeset(id, EarlyItems(id), LateItems(id), key_base)
     /\ branch_changeset_ids' = <<key_base, key_base + 1>> \o Tail(branch_changeset_ids)
  /\ key_base' = key_base + 2
  /\ UNCHANGED <<nopred_nodes, pc, unread, next_ordered_changeset,
                 ordered_changeset_ids, search_vars, consumed>>

\* _split_if_retrograde(): the changeset may stay as it is.
KeepChangeset ==
  /\ pc = "retrograde"
  /\ branch_changeset_ids # <<>>
  /\ ~ Retrograde(Head(branch_changeset_ids))
  /\ branch_changeset_ids' = Tail(branch_changeset_ids)
  /\ UNCHANGED <<graph_vars, pc, unread, key_base, next_ordered_changeset,
                 ordered_changeset_ids, search_vars, consumed>>

\* run(): the first call of consume_nopred_nodes().
StartConsuming ==
  /\ pc = "retrograde"
  /\ branch_changeset_ids = <<>>
  /\ nopred_nodes' = NoPred(nodes)
  /\ pc' = "consume"
  /\ UNCHANGED <<changeset_db, cvs_item_to_changeset_id, nodes, unread, key_base,
                 branch_changeset_ids, next_ordered_changeset,
                 ordered_changeset_ids, search_vars, consumed>>

-----------------------------------------------------------------------------
\* run(): one changeset is consumed; ordered ones are counted.
Consume ==
  /\ pc = "consume"
  /\ \E id \in nopred_nodes :
       /\ ConsumeNode(id)
       /\ consumed' = consumed \cup {id}
       /\ ordered_changeset_ids' = ordered_changeset_ids \ {id}
       /\ next_ordered_changeset' =
            next_ordered_changeset + Cardinality({id} \cap ordered_changeset_ids)
  /\ UNCHANGED <<changeset_db, cvs_item_to_changeset_id, pc, unread, key_base,
                 branch_changeset_ids, search_vars>>

\* ordered_changesets[next_ordered_changeset].
NextOrdered ==
  CHOOSE id \in DOMAIN changeset_db :
    changeset_db[id].kind = "ordered" /\ changeset_db[id].ordinal = next_ordered_changeset

\* run(): no node is free of predecessors, so search_for_path() is called for
\* the ordered changeset that is due next.
StartSearch ==
  /\ pc = "consume"
  /\ nopred_nodes = {}
  /\ DOMAIN nodes # {}
  /\ open_nodes' = <<NextOrdered>>
  /\ reachable_changesets' = <<>>
  /\ pc' = "search"
  /\ UNCHANGED <<graph_vars, unread, key_base, branch_changeset_ids,
                 next_ordered_changeset, ordered_changeset_ids, path, consumed>>

\* Mutant: the search goes on from the newest node (and is depth-first).
SearchStep_DepthFirst ==
  /\ pc = "search"
  /\ open_nodes # <<>>
  /\ LET id == Last(open_nodes)
         new == nodes[id].pred_ids \ DOMAIN reachable_changesets
         found(S) == [n \in S \cup DOMAIN reachable_changesets |->
                       IF n \in S THEN id ELSE reachable_changesets[n]]
     IN  IF new \cap ordered_changeset_ids = {}
         THEN /\ \E order \in SetToSeqs(new) : open_nodes' = Front(open_nodes) \o order
              /\ reachable_changesets' = found(new)
              /\ UNCHANGED <<pc, path>>
         ELSE \E last \in new \cap ordered_changeset_ids :
                /\ reachable_changesets' = found({last})
                /\ path' = <<last>>
                /\ open_nodes' = <<>>
                /\ pc' = "path"
  /\ UNCHANGED <<graph_vars, unread, key_base, branch_changeset_ids,
                 next_ordered_changeset, ordered_changeset_ids, consumed>>

(***************************************************************************)
(* search_for_path(): the predecessors of the oldest open node become      *)
(* reachable, in any order, until one of them is in the stop set.          *)
(***************************************************************************)
SearchStep ==
  /\ pc = "search"
  /\ open_nodes # <<>>
  /\ LET id == Head(open_nodes)
         new == nodes[id].pred_ids \ DOMAIN reachable_changesets
         found(S) == [n \in S \cup DOMAIN reachable_changesets |->
                       IF n \in S THEN id ELSE reachable_changesets[n]]
     IN  IF new \cap ordered_changeset_ids = {}
         THEN /\ \E order \in SetToSeqs(new) : open_nodes' = Tail(open_nodes) \o order
              /\ reachable_changesets' = found(new)
              /\ UNCHANGED <<pc, path>>
         ELSE \E last \in new \cap ordered_changeset_ids :
                /\ reachable_changesets' = found({last})
                /\ path' = <<last>>
                /\ open_nodes' = <<>>
                /\ pc' = "path"
  /\ UNCHANGED <<graph_vars, unread, key_base, branch_changeset_ids,
                 next_ordered_changeset, ordered_changeset_ids, consumed>>

\* _get_path(): follow the map from the node that was found to the start.
GetPath ==
  /\ pc = "path"
  /\ path' = Append(path, reachable_changesets[Last(path)])
  /\ IF Last(path') = NextOrdered
     THEN pc' = "break" /\ reachable_changesets' = <<>>
     ELSE UNCHANGED <<pc, reachable_changesets>>
  /\ UNCHANGED <<graph_vars, unread, key_base, branch_changeset_ids,
                 next_ordered_changeset, ordered_changeset_ids, open_nodes, consumed>>

-----------------------------------------------------------------------------
SegmentLink(segment, k) ==
  Link(changeset_db[segment[k - 1]].items,
       changeset_db[segment[k]].items,
       changeset_db[segment[k + 1]].items)

Interior(segment) == 2..(Len(segment) - 1)

\* break_segment(): the first of the best links.
IsBestLink(segment, k) ==
  \A m \in Interior(segment) :
    /\ ~ BetterLink(SegmentLink(segment, m), SegmentLink(segment, k))
    /\ m < k => BetterLink(SegmentLink(segment, k), SegmentLink(segment, m))

\* break_segment(), and the next call of consume_nopred_nodes().
BreakSegment ==
  /\ pc = "break"
  /\ \E k \in Interior(path) :
       LET link == SegmentLink(path, k) IN
       /\ IsBestLink(path, k)
       /\ IsBreakable(link)
       /\ ReplaceChangeset(path[k], PredItems(link), SuccItems(link), key_base)
  /\ key_base' = key_base + 2
  /\ nopred_nodes' = NoPred(nodes')
  /\ path' = <<>>
  /\ pc' = "consume"
  /\ UNCHANGED <<unread, branch_changeset_ids, next_ordered_changeset,
                 ordered_changeset_ids, open_nodes, reachable_changesets, consumed>>

\* run(): the graph is empty, and the pass closes its databases.
Finish ==
  /\ pc = "consume"
  /\ DOMAIN nodes = {}
  /\ pc' = "done"
  /\ UNCHANGED <<graph_vars, unread, key_base, branch_changeset_ids,
                 next_ordered_changeset, ordered_changeset_ids, search_vars, consumed>>

Terminated == pc = "done" /\ UNCHANGED vars

Next ==
  \/ LoadChangeset
  \/ SplitRetrograde \/ KeepChangeset \/ StartConsuming
  \/ Consume \/ StartSearch \/ SearchStep \/ GetPath \/ BreakSegment \/ Finish
  \/ Terminated

\* One single-threaded loop: while it has a next step, it takes it.
Spec == Init /\ [][Next]_vars /\ WF_vars(Next)

-----------------------------------------------------------------------------
\* The types of the variables.
TypeOK ==
  /\ DOMAIN changeset_db \subseteq Nat
  /\ \A id \in DOMAIN changeset_db : changeset_db[id] \in ChangesetRecord
  /\ cvs_item_to_changeset_id \in [Item -> DOMAIN changeset_db]
  /\ nodes \in [DOMAIN nodes -> [pred_ids : SUBSET DOMAIN nodes,
                                 succ_ids : SUBSET DOMAIN nodes]]
  /\ DOMAIN nodes \subseteq DOMAIN changeset_db
  /\ nopred_nodes \subseteq DOMAIN nodes
  /\ pc \in {"load", "retrograde", "consume", "search", "path", "break", "done"}
  /\ unread \subseteq DOMAIN changeset_db
  /\ key_base \in Nat
  /\ branch_changeset_ids \in Seq(DOMAIN nodes)
  /\ next_ordered_changeset \in Nat
  /\ ordered_changeset_ids \subseteq DOMAIN nodes
  /\ open_nodes \in Seq(DOMAIN nodes)
  /\ reachable_changesets \in [DOMAIN reachable_changesets -> DOMAIN nodes]
  /\ DOMAIN reachable_changesets \subseteq DOMAIN nodes
  /\ path \in Seq(DOMAIN nodes)
  /\ consumed \subseteq DOMAIN changeset_db

\* No item is lost or duplicated by either way of splitting a changeset, and
\* no fragment is empty (_split_retrograde_changeset() asserts that there are
\* early items and late items).
ItemsPartitioned ==
  /\ \A id \in DOMAIN changeset_db :
       changeset_db[id].items = {i \in Item : cvs_item_to_changeset_id[i] = id}
  /\ \A id \in DOMAIN changeset_db : changeset_db[id].items # {}

\* The edges of the graph are the order of the ordered changesets and the
\* dependencies of the other items, seen from both ends.
GraphMirrorsItems ==
  \A a, b \in DOMAIN nodes :
    /\ a \in nodes[b].pred_ids <=> ComesAfter(changeset_db, b, a)
    /\ b \in nodes[a].succ_ids <=> ComesAfter(changeset_db, b, a)

\* The databases, the table and the graph agree, through every split.
Consistent == TypeOK /\ ItemsPartitioned /\ GraphMirrorsItems

\* "assert max_pred_ordinal < min_succ_ordinal", for every item that is ever
\* looked at: a branch sprouts in an earlier ordered changeset than the one
\* with the first commit on it, also when it is grafted onto another branch.
OrdinalLimitsHold ==
  pc = "retrograde" /\ branch_changeset_ids # <<>> =>
    \A i \in changeset_db[Head(branch_changeset_ids)].items :
      \A p \in PredOrdinals(i), s \in SuccOrdinals(i) : p < s

\* A branch changeset that has been looked at is not retrograde, and none
\* becomes so when the graph is consumed and changesets are split further.
NoneRetrograde ==
  /\ OrdinalLimitsHold
  /\ pc # "load" =>
       \A id \in DOMAIN nodes :
         changeset_db[id].kind = "branch" /\ ~ Contains(branch_changeset_ids, id) =>
           ~ Retrograde(id)

\* "Because of the way we constructed it, the early changeset should not have
\* to be split: assert not early_split" (passes.py:1270): right after a split,
\* the graph does not call for another split of the first fragment.
EarlyStays ==
  [][SplitRetrograde => ~ Retrograde(Head(branch_changeset_ids))']_vars

\* The ordered changesets are consumed in their order, and whenever a search is
\* due, the next of them is still in the graph ("assert next_ordered_changeset
\* < len(ordered_changesets)").
OrderedInOrder ==
  /\ pc # "load" =>
       ordered_changeset_ids = Ordered(DOMAIN nodes)
  /\ \A id \in Ordered(DOMAIN changeset_db) :
       id \in consumed <=> changeset_db[id].ordinal < next_ordered_changeset
  /\ pc = "consume" /\ nopred_nodes = {} /\ DOMAIN nodes # {} =>
       \E id \in ordered_changeset_ids :
         changeset_db[id].ordinal = next_ordered_changeset

\* "The range SEGMENT[1:-1] is not empty, and all of the changesets in that
\* range are SymbolChangesets"; the ends are ordered changesets, the last one
\* due no later than the first, and each changeset follows the one before it.
SegmentInOrder ==
  pc = "break" =>
    /\ Interior(path) # {}
    /\ \A k \in Interior(path) : changeset_db[path[k]].kind = "branch"
    /\ \A k \in 1..(Len(path) - 1) : path[k] \in nodes[path[k + 1]].pred_ids
    /\ changeset_db[path[1]].kind = "ordered"
    /\ changeset_db[path[1]].ordinal >= changeset_db[Last(path)].ordinal

\* "Try to find the shortest dependency path": no path from a changeset in the
\* stop set is shorter than the one that is broken.
SegmentShortest ==
  /\ SegmentInOrder
  /\ pc = "break" =>
       \A n \in 2..(Len(path) - 1) : \A p \in [1..n -> DOMAIN nodes] :
         ~ /\ p[1] \in ordered_changeset_ids
           /\ p[n] = Last(path)
           /\ \A k \in 1..(n - 1) : p[k] \in nodes[p[k + 1]].pred_ids

\* search_for_path() always comes to an ordered changeset, on a shortest path:
\* no cycle is closed by symbol changesets alone, so the code's other case,
\* generic cycle-breaking, does not arise.
PathFound ==
  /\ SegmentShortest
  /\ OrderedInOrder
  /\ pc = "search" => open_nodes # <<>>

\* All items are emitted in dependency order, each once, and all of them.
Order == INSTANCE CommitOrder WITH
  work      <- Item,
  preds     <- [i \in Item |-> GetPredIds(i)],
  committed <- UNION {changeset_db[id].items : id \in consumed}

ImplementsCommitOrder == Order!Spec
=============================================================================

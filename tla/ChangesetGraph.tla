--------------------------- MODULE ChangesetGraph ---------------------------
(***************************************************************************)
(* The graph of changesets that four passes build in memory                *)
(* (changeset_graph.py, changeset_graph_node.py), with the two tables on   *)
(* disk it is built from: the changeset database and the table             *)
(* CVSItem id -> changeset id.  The actions below are the methods of       *)
(* ChangesetGraph; the modules of the passes say when they are called.     *)
(*                                                                         *)
(* From RevisionTopologicalSortPass on the changesets of revisions are in  *)
(* a fixed order, among changesets of symbols that are still to be fitted  *)
(* in.  The two constants are the ids that the changesets may have there;  *)
(* they are empty for the passes before it.                                *)
(***************************************************************************)
EXTENDS Changesets, SequencesExt

CONSTANTS
  OrderedIds, \* the ids the changesets of revisions may have, in sequence
  SymbolIds   \* the changesets the symbols may be in: functions item -> id

\* The items of one symbol may be split over several changesets, but no
\* changeset has items of two symbols, nor symbols and revisions.
ASSUME OrderedIdsAssumption ==
  \A id_of \in OrderedIds : id_of \in Seq(Nat \ {0}) /\ IsInjective(id_of)
ASSUME SymbolIdsAssumption ==
  \A symbol_id \in SymbolIds :
    /\ symbol_id \in [Symbols -> Nat \ {0}]
    /\ \A i, j \in Symbols :
         symbol_id[i] = symbol_id[j] => cvs_item[i].symbol = cvs_item[j].symbol
    /\ \A id_of \in OrderedIds : Range(id_of) \cap Range(symbol_id) = {}

VARIABLES
  changeset_db,              \* ChangesetDatabase: id -> changeset
  cvs_item_to_changeset_id,  \* CVSItemToChangesetTable
  nodes,                     \* ChangesetGraph.nodes: id -> [pred_ids, succ_ids]
  nopred_nodes               \* the ids on the heap of a running _NoPredNodes

graph_vars == <<changeset_db, cvs_item_to_changeset_id, nodes, nopred_nodes>>

\* Mutant: successors already in the graph do not learn of the new node.
AddNode_OneWay(N, id, node) ==
  LET preds == node.pred_ids \cap DOMAIN N
      succs == node.succ_ids \cap DOMAIN N
  IN  [n \in DOMAIN N \cup {id} |->
         IF n = id THEN [pred_ids |-> preds, succ_ids |-> succs]
         ELSE [N[n] EXCEPT !.succ_ids = IF n \in preds THEN @ \cup {id} ELSE @]]

(***************************************************************************)
(* add_changeset(): references to changesets that are not in the graph are *)
(* dropped from the new node, and the others are mirrored in the nodes     *)
(* they point to.                                                          *)
(***************************************************************************)
AddNode(N, id, node) ==
  LET preds == node.pred_ids \cap DOMAIN N
      succs == node.succ_ids \cap DOMAIN N
  IN  [n \in DOMAIN N \cup {id} |->
         IF n = id THEN [pred_ids |-> preds, succ_ids |-> succs]
         ELSE [ pred_ids |-> IF n \in succs THEN N[n].pred_ids \cup {id}
                                            ELSE N[n].pred_ids,
                succ_ids |-> IF n \in preds THEN N[n].succ_ids \cup {id}
                                            ELSE N[n].succ_ids ]]

\* Mutant: the predecessors keep their references to the deleted node.
DeleteNode_Dangling(N, id) ==
  [n \in DOMAIN N \ {id} |->
     [N[n] EXCEPT !.pred_ids = IF n \in N[id].succ_ids THEN @ \ {id} ELSE @]]

\* __delitem__(): the node goes, and so do the references to it.
DeleteNode(N, id) ==
  [n \in DOMAIN N \ {id} |->
     [ pred_ids |-> IF n \in N[id].succ_ids THEN N[n].pred_ids \ {id}
                                            ELSE N[n].pred_ids,
       succ_ids |-> IF n \in N[id].pred_ids THEN N[n].succ_ids \ {id}
                                            ELSE N[n].succ_ids ]]

\* Mutant: the item table is not updated.
StoreItems_Forgotten(table, id, S) == table

\* store_changeset(): the items of the changeset now map to it.
StoreItems(table, id, S) ==
  [i \in DOMAIN table |-> IF i \in S THEN id ELSE table[i]]

\* The nodes consume_nopred_nodes() starts from.
NoPred(N) == {n \in DOMAIN N : N[n].pred_ids = {}}

-----------------------------------------------------------------------------
\* The order of the heap: tuples (time_range, changeset, node).
HeapKey(id) ==
  LET changeset == changeset_db[id]
  IN  << TMax(changeset), TMin(changeset),
         SortOrder[changeset.kind], changeset.symbol, id >>

HeapLess(a, b) ==
  LET ka == HeapKey(a)  kb == HeapKey(b)
  IN  \E k \in 1..5 : ka[k] < kb[k] /\ \A m \in 1..(k - 1) : ka[m] = kb[m]

\* Mutant: successors go on the heap while they still have predecessors.
ConsumeNode_Eager(id) ==
  /\ id \in nopred_nodes
  /\ \A n \in nopred_nodes \ {id} : HeapLess(id, n)
  /\ nodes' = DeleteNode(nodes, id)
  /\ nopred_nodes' = (nopred_nodes \ {id}) \cup nodes[id].succ_ids

(***************************************************************************)
(* One iteration of consume_nopred_nodes(): the least node on the heap is  *)
(* removed from the graph, and the successors it frees go on the heap.     *)
(***************************************************************************)
ConsumeNode(id) ==
  /\ id \in nopred_nodes
  /\ \A n \in nopred_nodes \ {id} : HeapLess(id, n)
  /\ nodes' = DeleteNode(nodes, id)
  /\ nopred_nodes' = (nopred_nodes \ {id})
                       \cup (nodes[id].succ_ids \cap NoPred(nodes'))

-----------------------------------------------------------------------------
(***************************************************************************)
(* delete_changeset() of the broken changeset, then add_new_changeset() of *)
(* the two fragments, each of which is tied into the graph before the item *)
(* table is updated for it.                                                *)
(***************************************************************************)
ReplaceChangeset(old, first, second, key) ==
  LET fragment1 == CreateSplitChangeset(changeset_db[old], first)
      fragment2 == CreateSplitChangeset(changeset_db[old], second)
      table0 == cvs_item_to_changeset_id
      table1 == StoreItems(table0, key, first)
      table2 == StoreItems(table1, key + 1, second)
      nodes1 == AddNode(DeleteNode(nodes, old), key,
                        CreateGraphNode(fragment1, table0))
  IN  /\ changeset_db' =
           [id \in (DOMAIN changeset_db \ {old}) \cup {key, key + 1} |->
              IF id = key THEN fragment1
              ELSE IF id = key + 1 THEN fragment2 ELSE changeset_db[id]]
      /\ cvs_item_to_changeset_id' = table2
      /\ nodes' = AddNode(nodes1, key + 1, CreateGraphNode(fragment2, table1))

-----------------------------------------------------------------------------
\* The edges of N are the dependencies of the items, seen from both ends.
Mirrors(N, db) ==
  \A a, b \in DOMAIN N :
    /\ a \in N[b].pred_ids <=> DependsOn(db, b, a)
    /\ b \in N[a].succ_ids <=> DependsOn(db, b, a)

-----------------------------------------------------------------------------
(***************************************************************************)
(* A link pred -> changeset -> succ of a dependency loop, how good a place *)
(* it is to break the loop, and how it is broken (changeset_graph_link.py).*)
(* A link is a record of the three sets of items.                          *)
(***************************************************************************)
LINK_NONE     == 0
LINK_PRED     == 1
LINK_SUCC     == 2
LINK_PASSTHRU == 3   \* LINK_PRED | LINK_SUCC

\* ChangesetGraphLink.__init__()
Link(pred, items, succ) == [pred |-> pred, items |-> items, succ |-> succ]

\* get_link_type(): which neighbours the item is tied to.
GetLinkType(link, i) ==
  (IF GetPredIds(i) \cap link.pred # {} THEN LINK_PRED ELSE LINK_NONE)
    + (IF GetSuccIds(i) \cap link.succ # {} THEN LINK_SUCC ELSE LINK_NONE)

ItemsOfType(link, type) == {i \in link.items : GetLinkType(link, i) = type}

PredLinks(link)     == Cardinality(ItemsOfType(link, LINK_PRED))
SuccLinks(link)     == Cardinality(ItemsOfType(link, LINK_SUCC))
PassthruLinks(link) == Cardinality(ItemsOfType(link, LINK_PASSTHRU))

\* get_links_to_move(): min(...) or max(...), where Python's "or" skips 0.
GetLinksToMove(link) ==
  LET p == PredLinks(link)  s == SuccLinks(link)
      least == IF p <= s THEN p ELSE s
      most  == IF p <= s THEN s ELSE p
  IN  IF least # 0 THEN least ELSE most

IsBreakable(link) == PredLinks(link) # 0 \/ SuccLinks(link) # 0

\* Mutant: whether a link can be broken at all is not compared.
BetterLink_AnyLink(a, b) ==
  \/ PassthruLinks(a) < PassthruLinks(b)
  \/ /\ PassthruLinks(a) = PassthruLinks(b)
     /\ GetLinksToMove(a) < GetLinksToMove(b)

\* __cmp__(): link a is a better place to break than link b.
BetterLink(a, b) ==
  \/ IsBreakable(a) /\ ~ IsBreakable(b)
  \/ /\ IsBreakable(a) = IsBreakable(b)
     /\ \/ PassthruLinks(a) < PassthruLinks(b)
        \/ /\ PassthruLinks(a) = PassthruLinks(b)
           /\ GetLinksToMove(a) < GetLinksToMove(b)

\* Mutant: items tied to no neighbour end in neither fragment.
Rest_Passthru(link) == ItemsOfType(link, LINK_PASSTHRU)

(***************************************************************************)
(* break_changeset(): the items tied only to pred and those tied only to   *)
(* succ part company; the rest go together to one side.  Defined only for  *)
(* a breakable link (the code raises ValueError otherwise).                *)
(***************************************************************************)
RestGoesToPred(link) ==
  \/ PredLinks(link) = 0
  \/ SuccLinks(link) # 0 /\ ~ (PredLinks(link) < SuccLinks(link))

Rest(link) == ItemsOfType(link, LINK_NONE) \cup ItemsOfType(link, LINK_PASSTHRU)

PredItems(link) ==
  ItemsOfType(link, LINK_PRED) \cup (IF RestGoesToPred(link) THEN Rest(link) ELSE {})

SuccItems(link) ==
  ItemsOfType(link, LINK_SUCC) \cup (IF RestGoesToPred(link) THEN {} ELSE Rest(link))
=============================================================================

---------------------------- MODULE BreakCycles ----------------------------
(***************************************************************************)
(* BreakRevisionChangesetCyclesPass and BreakSymbolChangesetCyclesPass     *)
(* (passes.py): the changesets of the kinds in Breakable are loaded into a *)
(* graph, the graph is consumed in dependency order, and whenever that     *)
(* stalls a cycle is found and one changeset of it is split in two.  The   *)
(* two passes run the same code; only Breakable differs.                   *)
(***************************************************************************)
EXTENDS ChangesetGraph

CONSTANTS
  Breakable,   \* the kinds of the changesets the pass loads and may split
  SourceId     \* the changeset ids the previous pass may have handed out

ASSUME BreakableAssumption ==
  Breakable \in {{"revision"}, {"branch", "tag"}}
ASSUME SourceIdAssumption == SourceId \subseteq Nat \ {0} /\ IsFiniteSet(SourceId)

VARIABLES
  pc,            \* "load", "consume", "walk", "break" or "done"
  unread,        \* ids of source changesets that run() has not read yet
  key_base,      \* KeyGenerator._key_base (the running maximum while loading)
  seen_nodes,    \* find_cycle()'s list; the cycle itself when pc = "break"
  consumed       \* history: the ids consume_graph() has yielded

vars == <<graph_vars, pc, unread, key_base, seen_nodes, consumed>>

-----------------------------------------------------------------------------
(***************************************************************************)
(* The databases the previous pass can leave: one changeset per symbol;    *)
(* the revisions grouped in any way that puts no revision together with    *)
(* one it depends on.                                                      *)
(***************************************************************************)
Init ==
  /\ \E symbol_id \in [SymbolNames -> SourceId] :
       /\ IsInjective(symbol_id)
       /\ \E revision_id \in [Revisions -> SourceId \ Range(symbol_id)] :
            /\ IsGrouping(revision_id)
            /\ cvs_item_to_changeset_id = SourceTable(symbol_id, revision_id)
  /\ changeset_db = SourceChangesets(cvs_item_to_changeset_id)
  /\ nodes = <<>>
  /\ nopred_nodes = {}
  /\ pc = "load"
  /\ unread = DOMAIN changeset_db
  /\ key_base = 1
  /\ seen_nodes = <<>>
  /\ consumed = {}

-----------------------------------------------------------------------------
\* run(): store the next changeset in the new database; add it to the graph
\* if it is of the kind this pass works on; keep track of the largest id.
LoadChangeset ==
  /\ pc = "load"
  /\ \E id \in unread :
       /\ \A other \in unread : id <= other
       /\ unread' = unread \ {id}
       /\ nodes' = IF changeset_db[id].kind \in Breakable
                   THEN AddNode(nodes, id,
                          CreateGraphNode(changeset_db[id], cvs_item_to_changeset_id))
                   ELSE nodes
       /\ key_base' = IF id >= key_base THEN id + 1 ELSE key_base
  /\ UNCHANGED <<changeset_db, cvs_item_to_changeset_id, nopred_nodes, pc,
                 seen_nodes, consumed>>

\* run(): the key generator starts past the largest id; consume_graph() makes
\* its first call of consume_nopred_nodes().
StartConsuming ==
  /\ pc = "load"
  /\ unread = {}
  /\ pc' = "consume"
  /\ nopred_nodes' = NoPred(nodes)
  /\ UNCHANGED <<changeset_db, cvs_item_to_changeset_id, nodes, unread,
                 key_base, seen_nodes, consumed>>

\* consume_graph(): yield the next node that has no predecessors left.
Consume ==
  /\ pc = "consume"
  /\ \E id \in nopred_nodes :
       /\ ConsumeNode(id)
       /\ consumed' = consumed \cup {id}
  /\ UNCHANGED <<changeset_db, cvs_item_to_changeset_id, pc, unread, key_base,
                 seen_nodes>>

\* consume_graph(): the heap is empty and nodes are left; find_cycle() starts
\* from whichever of them the dictionary yields first.
StartWalk ==
  /\ pc = "consume"
  /\ nopred_nodes = {}
  /\ \E n \in DOMAIN nodes : seen_nodes' = <<n>>
  /\ pc' = "walk"
  /\ UNCHANGED <<graph_vars, unread, key_base, consumed>>

\* Mutant: the cycle is never handed to the cycle breaker.
WalkBack_NoBreaker ==
  /\ pc = "walk"
  /\ \E n \in nodes[Last(seen_nodes)].pred_ids :
       IF Contains(seen_nodes, n)
       THEN seen_nodes' = <<>> /\ pc' = "consume"
       ELSE seen_nodes' = Append(seen_nodes, n) /\ UNCHANGED pc
  /\ UNCHANGED <<graph_vars, unread, key_base, consumed>>

\* find_cycle(): step to an arbitrary predecessor.  The first node seen twice
\* closes the cycle, which is returned in dependency order.
WalkBack ==
  /\ pc = "walk"
  /\ \E n \in nodes[Last(seen_nodes)].pred_ids :
       \/ /\ ~ Contains(seen_nodes, n)
          /\ seen_nodes' = Append(seen_nodes, n)
          /\ UNCHANGED pc
       \/ \E k \in DOMAIN seen_nodes :
            /\ seen_nodes[k] = n
            /\ seen_nodes' = Reverse(SubSeq(seen_nodes, k, Len(seen_nodes)))
            /\ pc' = "break"
  /\ UNCHANGED <<graph_vars, unread, key_base, consumed>>

-----------------------------------------------------------------------------
\* The link around position k of the cycle (indices wrap around).
Before(cycle, k) == IF k = 1 THEN Len(cycle) ELSE k - 1
After(cycle, k)  == IF k = Len(cycle) THEN 1 ELSE k + 1

CycleLink(cycle, k) ==
  Link(changeset_db[cycle[Before(cycle, k)]].items,
       changeset_db[cycle[k]].items,
       changeset_db[cycle[After(cycle, k)]].items)

\* break_cycle(): the first of the best links.
IsBestLink(cycle, k) ==
  \A m \in DOMAIN cycle :
    /\ ~ BetterLink(CycleLink(cycle, m), CycleLink(cycle, k))
    /\ m < k => BetterLink(CycleLink(cycle, k), CycleLink(cycle, m))

\* break_cycle(), and the next call of consume_nopred_nodes().
BreakCycle ==
  /\ pc = "break"
  /\ \E k \in DOMAIN seen_nodes :
       LET link == CycleLink(seen_nodes, k) IN
       /\ IsBestLink(seen_nodes, k)
       /\ IsBreakable(link)
       /\ ReplaceChangeset(seen_nodes[k], PredItems(link), SuccItems(link),
                           key_base)
  /\ key_base' = key_base + 2
  /\ nopred_nodes' = NoPred(nodes')
  /\ pc' = "consume"
  /\ seen_nodes' = <<>>
  /\ UNCHANGED <<unread, consumed>>

\* consume_graph(): no nodes are left, and the pass closes its databases.
Finish ==
  /\ pc = "consume"
  /\ DOMAIN nodes = {}
  /\ nopred_nodes = {}
  /\ pc' = "done"
  /\ UNCHANGED <<graph_vars, unread, key_base, seen_nodes, consumed>>

Terminated == pc = "done" /\ UNCHANGED vars

Next ==
  \/ LoadChangeset \/ StartConsuming \/ Consume
  \/ StartWalk \/ WalkBack \/ BreakCycle \/ Finish
  \/ Terminated

\* One single-threaded loop: while it has a next step, it takes it.
Spec == Init /\ [][Next]_vars /\ WF_vars(Next)

-----------------------------------------------------------------------------
\* The types of the variables.  A node refers only to nodes of the graph, and
\* every node and every id waiting to be read has a changeset in the database.
TypeOK ==
  /\ DOMAIN changeset_db \subseteq Nat
  /\ \A id \in DOMAIN changeset_db : changeset_db[id] \in ChangesetRecord
  /\ cvs_item_to_changeset_id \in [Item -> Nat]
  /\ nodes \in [DOMAIN nodes -> [pred_ids : SUBSET DOMAIN nodes,
                                 succ_ids : SUBSET DOMAIN nodes]]
  /\ DOMAIN nodes \subseteq DOMAIN changeset_db
  /\ nopred_nodes \subseteq DOMAIN nodes
  /\ pc \in {"load", "consume", "walk", "break", "done"}
  /\ unread \subseteq DOMAIN changeset_db
  /\ key_base \in Nat
  /\ seen_nodes \in Seq(DOMAIN nodes)
  /\ consumed \subseteq DOMAIN changeset_db

\* Every item is in exactly one changeset, the item table says which, and no
\* changeset is empty: split after split, store_changeset() and
\* break_changeset() neither lose nor duplicate an item.
ItemsPartitioned ==
  /\ \A i \in Item : cvs_item_to_changeset_id[i] \in DOMAIN changeset_db
  /\ \A id \in DOMAIN changeset_db :
       changeset_db[id].items = {i \in Item : cvs_item_to_changeset_id[i] = id}
  /\ \A id \in DOMAIN changeset_db : changeset_db[id].items # {}

\* The edges of the graph are the dependencies of the items, seen from both
\* ends, although add_changeset() ties each node in when only some of the
\* others are there and the item table is behind.
GraphMirrorsItems == Mirrors(nodes, changeset_db)

\* While the graph is consumed the heap holds exactly the nodes without
\* predecessors; while it is searched for a cycle there are none, which is
\* what find_cycle() requires (else NoPredNodeInGraphException).
ReadyExact ==
  /\ pc = "consume" => nopred_nodes = NoPred(nodes)
  /\ pc \in {"walk", "break"} => NoPred(nodes) = {}

GraphExact == GraphMirrorsItems /\ ReadyExact

\* find_cycle() returns the cycle "ordered such that cycle[n-1] is a
\* predecessor of cycle[n] and cycle[-1] is a predecessor of cycle[0]".
CycleInOrder ==
  pc = "break" =>
    /\ seen_nodes # <<>>
    /\ \A k \in DOMAIN seen_nodes :
         seen_nodes[Before(seen_nodes, k)] \in nodes[seen_nodes[k]].pred_ids

\* The link break_cycle() picks can be broken, so that break_changeset() does
\* not raise ValueError: no cycle of changesets consists of links whose items
\* are all tied to both neighbours or to none.
ChosenLinkBreakable ==
  pc = "break" =>
    \A k \in DOMAIN seen_nodes :
      IsBestLink(seen_nodes, k) => IsBreakable(CycleLink(seen_nodes, k))

\* When the pass ends no dependency cycle is left among the changesets it
\* worked on, so that the passes that sort them do not raise
\* CycleInGraphException.
AcyclicWhenDone ==
  pc = "done" =>
    Acyclic(changeset_db,
            {id \in DOMAIN changeset_db : changeset_db[id].kind \in Breakable})

\* A step leaves every changeset as it is or replaces one that has not been
\* consumed by two proper parts of it; so each break makes progress, and what
\* was logged as processed stays as it was.
OnlySplits ==
  LET gone == DOMAIN changeset_db \ DOMAIN changeset_db'
      new  == DOMAIN changeset_db' \ DOMAIN changeset_db
  IN  /\ \A id \in DOMAIN changeset_db \ gone : changeset_db'[id] = changeset_db[id]
      /\ gone \cap consumed = {}
      /\ \A id \in new : \E old \in gone :
           /\ changeset_db'[id].kind = changeset_db[old].kind
           /\ changeset_db'[id].symbol = changeset_db[old].symbol
           /\ changeset_db'[id].items \subseteq changeset_db[old].items
           /\ changeset_db'[id].items # changeset_db[old].items

OnlySplitsSpec == [][OnlySplits]_vars

\* The pass ends: breaking cycles cannot go on for ever.
Termination == <>(pc = "done")

\* The items of the kinds the pass works on are emitted in dependency order,
\* each once, and all of them.
Order == INSTANCE CommitOrder WITH
  work      <- {i \in Item : cvs_item[i].kind \in Breakable},
  preds     <- [i \in Item |-> GetPredIds(i)],
  committed <- UNION {changeset_db[id].items : id \in consumed}

ImplementsCommitOrder == Order!Spec
=============================================================================

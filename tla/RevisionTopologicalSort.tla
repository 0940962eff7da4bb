----------------------- MODULE RevisionTopologicalSort -----------------------
(***************************************************************************)
(* RevisionTopologicalSortPass (passes.py): the changesets of revisions,   *)
(* whose cycles have been broken, are consumed in dependency order and     *)
(* turned into a doubly linked chain of OrderedChangesets with the same    *)
(* ids; the changesets of symbols are copied to the new database.          *)
(***************************************************************************)
EXTENDS ChangesetGraph

VARIABLES
  pc,              \* "load", "consume", "write" or "done"
  unread,          \* ids of source changesets that get_changesets() has not read
  changeset_ids,   \* get_changesets()'s list, between its sentries None
  next_i,          \* the loop variable i of the second loop
  revordered_db    \* changesets_revordered_db: id -> changeset

vars == <<graph_vars, pc, unread, changeset_ids, next_i, revordered_db>>

-----------------------------------------------------------------------------
\* The revisions may be grouped in any way that leaves no cycle.
Groupings ==
  {group \in [Revisions -> 0..(Cardinality(Revisions) - 1)] :
     /\ \A x, y \in Revisions : group[x] = group[y] => y \notin GetPredIds(x)
     /\ Range(group) = 0..(Cardinality(Range(group)) - 1)}

Init ==
  /\ \E group \in Groupings, id_of \in OrderedIds, symbol_id \in SymbolIds :
       /\ Range(group) \subseteq 0..(Len(id_of) - 1)
       /\ cvs_item_to_changeset_id = ItemTable(group, id_of, symbol_id)
       /\ changeset_db = SourceChangesets(cvs_item_to_changeset_id)
       /\ Acyclic(changeset_db, {id_of[n + 1] : n \in Range(group)}) = TRUE
  /\ nodes = <<>>
  /\ nopred_nodes = {}
  /\ pc = "load"
  /\ unread = DOMAIN changeset_db
  /\ changeset_ids = <<None>>
  /\ next_i = 1
  /\ revordered_db = <<>>

-----------------------------------------------------------------------------
\* ChangesetDatabase.store() of the new database.
Store(id, changeset) ==
  revordered_db' = [n \in DOMAIN revordered_db \cup {id} |->
                      IF n = id THEN changeset ELSE revordered_db[n]]

\* get_changesets(), first loop: a changeset of revisions goes to the graph.
AddRevisionChangeset(id) ==
  /\ changeset_db[id].kind = "revision"
  /\ nodes' = AddNode(nodes, id,
                CreateGraphNode(changeset_db[id], cvs_item_to_changeset_id))
  /\ UNCHANGED revordered_db

\* get_changesets(), first loop: any other is yielded, and stored, as it is.
CopySymbolChangeset(id) ==
  /\ changeset_db[id].kind # "revision"
  /\ Store(id, changeset_db[id])
  /\ UNCHANGED nodes

ReadChangeset ==
  /\ pc = "load"
  /\ \E id \in unread :
       /\ \A other \in unread : id <= other
       /\ unread' = unread \ {id}
       /\ AddRevisionChangeset(id) \/ CopySymbolChangeset(id)
  /\ IF unread' = {} THEN pc' = "consume" /\ nopred_nodes' = NoPred(nodes')
                     ELSE UNCHANGED <<pc, nopred_nodes>>
  /\ UNCHANGED <<changeset_db, cvs_item_to_changeset_id, changeset_ids, next_i>>

\* consume_graph(): the next changeset takes its place in the list.
Consume ==
  /\ pc = "consume"
  /\ \E id \in nopred_nodes :
       ConsumeNode(id) /\ changeset_ids' = Append(changeset_ids, id)
  /\ UNCHANGED <<changeset_db, cvs_item_to_changeset_id, pc, unread, next_i, revordered_db>>

\* consume_graph(): the graph is empty.  (It would raise CycleInGraphException
\* if nodes were left.)  The second sentry ends the list.
EndOfGraph ==
  /\ pc = "consume"
  /\ nopred_nodes = {}
  /\ DOMAIN nodes = {}
  /\ changeset_ids' = Append(changeset_ids, None)
  /\ pc' = "write"
  /\ UNCHANGED <<graph_vars, unread, next_i, revordered_db>>

\* Mutant: the link to the next changeset is one place off.
WriteOrdered_NextOff ==
  /\ pc = "write"
  /\ next_i < Len(changeset_ids) - 1
  /\ Store(changeset_ids[next_i + 1],
           OrderedChangeset(changeset_db[changeset_ids[next_i + 1]].items, next_i - 1,
                            changeset_ids[next_i], changeset_ids[next_i + 1]))
  /\ next_i' = next_i + 1
  /\ UNCHANGED <<graph_vars, pc, unread, changeset_ids>>

\* get_changesets(), second loop.  (Python's list index is one less.)
WriteOrdered ==
  /\ pc = "write"
  /\ next_i < Len(changeset_ids) - 1
  /\ Store(changeset_ids[next_i + 1],
           OrderedChangeset(changeset_db[changeset_ids[next_i + 1]].items, next_i - 1,
                            changeset_ids[next_i], changeset_ids[next_i + 2]))
  /\ next_i' = next_i + 1
  /\ UNCHANGED <<graph_vars, pc, unread, changeset_ids>>

Finish ==
  /\ pc = "write"
  /\ next_i = Len(changeset_ids) - 1
  /\ pc' = "done"
  /\ UNCHANGED <<graph_vars, unread, changeset_ids, next_i, revordered_db>>

Terminated == pc = "done" /\ UNCHANGED vars

Next ==
  ReadChangeset \/ Consume \/ EndOfGraph \/ WriteOrdered \/ Finish \/ Terminated

\* One single-threaded loop: while it has a next step, it takes it.
Spec == Init /\ [][Next]_vars /\ WF_vars(Next)

-----------------------------------------------------------------------------
\* The types of the variables.
TypeOK ==
  /\ \A id \in DOMAIN changeset_db : changeset_db[id] \in ChangesetRecord
  /\ cvs_item_to_changeset_id \in [Item -> DOMAIN changeset_db]
  /\ nodes \in [DOMAIN nodes -> [pred_ids : SUBSET DOMAIN nodes,
                                 succ_ids : SUBSET DOMAIN nodes]]
  /\ nopred_nodes \subseteq DOMAIN nodes
  /\ DOMAIN nodes \cup unread \subseteq DOMAIN changeset_db
  /\ pc \in {"load", "consume", "write", "done"}
  /\ changeset_ids \in Seq(DOMAIN changeset_db \cup {None})
  /\ next_i \in Nat \ {0}
  /\ DOMAIN revordered_db \subseteq DOMAIN changeset_db
  /\ \A id \in DOMAIN revordered_db : revordered_db[id] \in ChangesetRecord

\* Of the changesets that are ready the oldest goes first: wherever a changeset
\* directly follows another one in the list, it depends on that one or sorts
\* after it.
OldestFirst ==
  \A k \in 2..(Len(changeset_ids) - 1) :
    LET a == changeset_ids[k]  b == changeset_ids[k + 1]
    IN  b # None => DependsOn(changeset_db, b, a) \/ HeapLess(a, b)

\* The pass leaves what the next ones start from: the same changesets under
\* the same ids, those of revisions numbered from 0 without gaps in an order
\* that respects every dependency, oldest first, and linked to their neighbours.
OutputIsOrdered ==
  /\ OldestFirst
  /\ TypeOK /\ (pc = "done" =>
       LET ordinal == [x \in Revisions |-> revordered_db[cvs_item_to_changeset_id[x]].ordinal]
           id_of   == SubSeq(changeset_ids, 2, Len(changeset_ids) - 1)
       IN  /\ IsOrder(ordinal)
           /\ revordered_db = ChangesetTable(cvs_item_to_changeset_id, ordinal, id_of))

=============================================================================

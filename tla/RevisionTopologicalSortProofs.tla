------------------- MODULE RevisionTopologicalSortProofs -------------------
(***************************************************************************)
(* Proofs about RevisionTopologicalSort, for every item database, every    *)
(* grouping of the revisions and every way the symbols are grouped.        *)
(***************************************************************************)
EXTENDS RevisionTopologicalSort, ChangesetGraphTheorems

-----------------------------------------------------------------------------
(* The source database, which the pass does not change.                    *)

RevisionsIn(db) == {id \in DOMAIN db : db[id].kind = "revision"}

SourceDb(db, table) ==
  /\ DOMAIN db \subseteq Nat
  /\ Partitioned(db, table)
  /\ \A id \in DOMAIN db :
       /\ db[id] \in ChangesetRecord
       /\ db[id] = SourceChangeset({i \in Item : table[i] = id})
       /\ db[id].items \subseteq IF db[id].kind = "revision" THEN Revisions ELSE Symbols
  /\ \A id \in RevisionsIn(db) : ~ DependsOn(db, id, id)

\* The edges of the graph: the dependencies between changesets of revisions.
Edges(db) == DependencyEdges(db, RevisionsIn(db))

-----------------------------------------------------------------------------
(* The invariant that is inductive, in three groups.                       *)

\* The places of the list that are taken by changesets.
Places == 2..(IF pc \in {"load", "consume"} THEN Len(changeset_ids) ELSE Len(changeset_ids) - 1)
Placed == {changeset_ids[k] : k \in Places}

\* The graph has what was read and not put in the list.
GraphInv ==
  /\ SourceDb(changeset_db, cvs_item_to_changeset_id)
  /\ DOMAIN nodes = (RevisionsIn(changeset_db) \ unread) \ Placed
  /\ HasEdges(nodes, Edges(changeset_db))
  /\ pc = "load" => nopred_nodes = {} /\ changeset_ids = <<None>>
  /\ pc # "load" => unread = {}
  /\ pc = "consume" => nopred_nodes = NoPred(nodes)
  /\ pc \in {"write", "done"} => DOMAIN nodes = {}

\* Each changeset has one place, after those it depends on.
PlacedOnce == \A j, k \in Places : changeset_ids[j] = changeset_ids[k] => j = k

DependenciesFirst ==
  \A k \in Places : \A a \in RevisionsIn(changeset_db) :
    DependsOn(changeset_db, changeset_ids[k], a) => \E j \in 2..(k - 1) : changeset_ids[j] = a

\* What is ready was not when the last changeset was chosen, or sorts after it.
LastWasLeast ==
  pc = "consume" /\ Len(changeset_ids) > 1 =>
    \A id \in nopred_nodes :
      \/ DependsOn(changeset_db, id, changeset_ids[Len(changeset_ids)])
      \/ HeapLess(changeset_ids[Len(changeset_ids)], id)

OldestFirstPlaced ==
  \A k \in Places : k > 2 =>
    \/ DependsOn(changeset_db, changeset_ids[k], changeset_ids[k - 1])
    \/ HeapLess(changeset_ids[k - 1], changeset_ids[k])

ListInv ==
  /\ Len(changeset_ids) >= 1 /\ changeset_ids[1] = None
  /\ pc \in {"write", "done"} =>
       Len(changeset_ids) >= 2 /\ changeset_ids[Len(changeset_ids)] = None
  /\ Placed \subseteq RevisionsIn(changeset_db)
  /\ PlacedOnce /\ DependenciesFirst /\ LastWasLeast /\ OldestFirstPlaced

\* The new database has the changesets of symbols that were read, and the
\* changesets of the list up to the loop variable.
OutputInv ==
  /\ pc \in {"load", "consume"} => next_i = 1
  /\ pc \in {"write", "done"} => next_i <= Len(changeset_ids) - 1
  /\ pc = "done" => next_i = Len(changeset_ids) - 1
  /\ DOMAIN revordered_db =
       ((DOMAIN changeset_db \ RevisionsIn(changeset_db)) \ unread)
         \cup {changeset_ids[k] : k \in 2..next_i}
  /\ revordered_db = [id \in DOMAIN revordered_db |-> revordered_db[id]]
  /\ \A id \in DOMAIN revordered_db \ RevisionsIn(changeset_db) :
       revordered_db[id] = changeset_db[id]
  /\ \A k \in 2..next_i :
       revordered_db[changeset_ids[k]] =
         OrderedChangeset(changeset_db[changeset_ids[k]].items, k - 2,
                          changeset_ids[k - 1], changeset_ids[k + 1])

IInv == TypeOK /\ GraphInv /\ ListInv /\ OutputInv

-----------------------------------------------------------------------------
\* It holds before anything is read.
LEMMA InitIInv == Init => IInv
<1> SUFFICES ASSUME Init PROVE IInv
  OBVIOUS
<1>1. PICK db, table : db = changeset_db /\ table = cvs_item_to_changeset_id
  OBVIOUS
<1>2. PICK group \in Groupings, id_of \in OrderedIds, symbol_id \in SymbolIds :
        /\ Range(group) \subseteq 0..(Len(id_of) - 1)
        /\ table = ItemTable(group, id_of, symbol_id)
        /\ db = SourceChangesets(table)
  BY <1>1 DEF Init
<1>3. /\ id_of \in Seq(Nat \ {0}) /\ IsInjective(id_of)
      /\ symbol_id \in [Symbols -> Nat \ {0}]
      /\ \A i, j \in Symbols :
           symbol_id[i] = symbol_id[j] => cvs_item[i].symbol = cvs_item[j].symbol
      /\ Range(id_of) \cap Range(symbol_id) = {}
  BY OrderedIdsAssumption, SymbolIdsAssumption
<1>4. /\ Len(id_of) \in Nat /\ DOMAIN id_of = 1..Len(id_of)
      /\ \A n \in 1..Len(id_of) : id_of[n] \in Nat \ {0} /\ id_of[n] \in Range(id_of)
  BY <1>3 DEF Range
<1>5. /\ Revisions \subseteq Item /\ Symbols \subseteq Item
      /\ \A i \in Item : i \in Symbols <=> i \notin Revisions
  BY DEF Revisions, Symbols
<1>6. /\ DOMAIN group = Revisions
      /\ \A x, y \in Revisions : group[x] = group[y] => y \notin GetPredIds(x)
  BY <1>2 DEF Groupings
<1>7. ASSUME NEW i \in Revisions
      PROVE  /\ group[i] \in Nat /\ group[i] + 1 \in 1..Len(id_of)
             /\ table[i] = id_of[group[i] + 1]
             /\ table[i] \in Nat /\ table[i] \notin Range(symbol_id)
             /\ cvs_item[i].kind = "revision"
  <2>1. group[i] \in 0..(Len(id_of) - 1)
    BY <1>2, <1>6 DEF Range
  <2>2. table[i] = id_of[group[i] + 1]
    BY <1>2, <1>5 DEF ItemTable
  <2>3. cvs_item[i].kind = "revision"
    BY DEF Revisions, IsRevision
  <2> QED
    BY <1>3, <1>4, <2>1, <2>2, <2>3
<1>8. ASSUME NEW i \in Symbols
      PROVE  /\ table[i] = symbol_id[i] /\ table[i] \in Nat /\ table[i] \in Range(symbol_id)
             /\ IsSymbol(i)
  <2>1. table[i] = symbol_id[i] /\ symbol_id[i] \in Range(symbol_id)
    BY <1>2, <1>3, <1>5 DEF ItemTable, Range
  <2>2. IsSymbol(i)
    BY <1>5, LinksAssumption DEF IsSymbol, Revisions, IsRevision, ItemRecord
  <2> QED
    BY <1>3, <2>1, <2>2
<1> DEFINE Has(id) == {i \in Item : table[i] = id}
<1>9. /\ DOMAIN db = {table[i] : i \in Item}
      /\ \A id \in DOMAIN db : db[id] = SourceChangeset(Has(id))
  BY <1>2 DEF SourceChangesets
<1>10. ASSUME NEW i \in Item, NEW j \in Item, table[i] = table[j]
       PROVE  /\ cvs_item[i].kind = cvs_item[j].kind
              /\ i \in Revisions <=> j \in Revisions
              /\ j \notin GetPredIds(i)
  <2>1. CASE i \in Revisions
    <3>1. j \in Revisions
      BY <1>5, <1>7, <1>8, <1>10, <2>1
    <3>2. group[i] = group[j]
      <4>1. /\ group[i] \in Nat /\ group[j] \in Nat
            /\ group[i] + 1 \in 1..Len(id_of) /\ group[j] + 1 \in 1..Len(id_of)
            /\ id_of[group[i] + 1] = id_of[group[j] + 1]
        BY <1>7, <1>10, <2>1, <3>1
      <4>2. group[i] + 1 = group[j] + 1
        BY <1>3, <1>4, <4>1 DEF IsInjective
      <4> QED
        BY <4>1, <4>2
    <3> QED
      BY <1>6, <1>7, <2>1, <3>1, <3>2
  <2>2. CASE i \in Symbols
    <3>1. j \in Symbols /\ IsSymbol(i) /\ IsSymbol(j) /\ cvs_item[i].symbol = cvs_item[j].symbol
      BY <1>3, <1>5, <1>7, <1>8, <1>10, <2>2
    <3> QED
      BY <1>5, <2>2, <3>1, SymbolAssumption
  <2> QED
    BY <1>5, <2>1, <2>2
<1>11. ASSUME NEW id \in DOMAIN db
       PROVE  /\ id \in Nat /\ db[id] \in ChangesetRecord
              /\ db[id].items = Has(id) /\ Has(id) # {}
              /\ Has(id) \subseteq IF db[id].kind = "revision" THEN Revisions ELSE Symbols
              /\ ~ DependsOn(db, id, id)
  <2> DEFINE first == CHOOSE x \in Has(id) : TRUE
  <2>1. first \in Has(id) /\ first \in Item /\ Has(id) # {}
    BY <1>9
  <2>2. db[id] = Changeset(cvs_item[first].kind, Has(id), cvs_item[first].symbol)
    BY <1>9 DEF SourceChangeset
  <2>3. cvs_item[first].kind \in {"revision", "branch", "tag"} /\ cvs_item[first].symbol \in Nat
    BY <2>1, LinksAssumption DEF ItemRecord
  <2>4. \A i \in Has(id) : i \in Revisions <=> first \in Revisions
    BY <1>10, <2>1
  <2>5. first \in Revisions <=> cvs_item[first].kind = "revision"
    BY <2>1 DEF Revisions, IsRevision
  <2>6. Has(id) \in SUBSET Item /\ \A i \in Has(id) : \A j \in Has(id) : j \notin GetPredIds(i)
    BY <1>10
  <2>7. id \in Nat
    BY <1>5, <1>7, <1>8, <1>9
  <2> HIDE DEF first, Has
  <2>8. db[id].items = Has(id) /\ db[id].kind = cvs_item[first].kind /\ db[id] \in ChangesetRecord
    BY <2>2, <2>3, <2>6 DEF Changeset, ChangesetRecord
  <2>9. Has(id) \subseteq IF db[id].kind = "revision" THEN Revisions ELSE Symbols
    BY <1>5, <2>4, <2>5, <2>6, <2>8
  <2>10. ~ DependsOn(db, id, id)
    BY <2>6, <2>8 DEF DependsOn
  <2> QED
    BY <2>1, <2>7, <2>8, <2>9, <2>10
<1>12. Partitioned(db, table)
  <2>1. table \in [Item -> DOMAIN db]
    BY <1>2, <1>9 DEF ItemTable
  <2> QED
    BY <1>11, <2>1 DEF Partitioned
<1>13. SourceDb(db, table)
  <2>1. \A id \in RevisionsIn(db) : ~ DependsOn(db, id, id)
    BY <1>11 DEF RevisionsIn
  <2>2. \A id \in DOMAIN db :
          /\ id \in Nat
          /\ db[id] \in ChangesetRecord
          /\ db[id] = SourceChangeset(Has(id))
          /\ db[id].items \subseteq IF db[id].kind = "revision" THEN Revisions ELSE Symbols
    <3> HIDE DEF Has
    <3> QED
      BY <1>9, <1>11
  <2> QED
    BY <1>12, <2>1, <2>2 DEF SourceDb
<1>14. /\ nodes = <<>> /\ nopred_nodes = {} /\ pc = "load" /\ unread = DOMAIN changeset_db
       /\ changeset_ids = <<None>> /\ next_i = 1 /\ revordered_db = <<>>
       /\ DOMAIN nodes = {} /\ DOMAIN revordered_db = {}
  BY DEF Init
<1>15. Len(changeset_ids) = 1 /\ changeset_ids[1] = None /\ Places = {} /\ Placed = {}
  <2>1. Len(changeset_ids) = 1 /\ changeset_ids[1] = None
    BY <1>14
  <2>2. Places = {}
    BY <1>14, <2>1 DEF Places
  <2> QED
    BY <2>1, <2>2 DEF Placed
<1>16. TypeOK
  <2>1. /\ \A id \in DOMAIN changeset_db : changeset_db[id] \in ChangesetRecord
        /\ cvs_item_to_changeset_id \in [Item -> DOMAIN changeset_db]
    BY <1>1, <1>13 DEF SourceDb, Partitioned
  <2>2. /\ nodes \in [DOMAIN nodes -> [pred_ids : SUBSET DOMAIN nodes,
                                       succ_ids : SUBSET DOMAIN nodes]]
        /\ changeset_ids \in Seq(DOMAIN changeset_db \cup {None})
    BY <1>14
  <2> QED
    BY <1>14, <2>1, <2>2 DEF TypeOK
<1>17. GraphInv
  BY <1>1, <1>13, <1>14, <1>15 DEF GraphInv, HasEdges, RevisionsIn
<1>18. ListInv
  BY <1>14, <1>15 DEF ListInv, PlacedOnce, DependenciesFirst, LastWasLeast, OldestFirstPlaced
<1>19. OutputInv
  <2>1. 2..next_i = {}
    BY <1>14
  <2> QED
    BY <1>14, <2>1 DEF OutputInv
<1> QED
  BY <1>16, <1>17, <1>18, <1>19 DEF IInv

-----------------------------------------------------------------------------
\* Loading: a changeset of revisions gets exactly the edges it should have.
LEMMA AddRevisionEdges ==
  ASSUME NEW db, NEW table, SourceDb(db, table),
         NEW N, IsGraph(N), HasEdges(N, Edges(db)), DOMAIN N \subseteq RevisionsIn(db),
         NEW id \in RevisionsIn(db), id \notin DOMAIN N
  PROVE  LET M == AddNode(N, id, CreateGraphNode(db[id], table)) IN
         IsGraph(M) /\ DOMAIN M = DOMAIN N \cup {id} /\ HasEdges(M, Edges(db))
<1> DEFINE node == CreateGraphNode(db[id], table)
           E == Edges(db)
<1>1. /\ id \in DOMAIN db /\ db[id].kind # "ordered" /\ db[id].items \subseteq Item
      /\ ~ DependsOn(db, id, id)
  BY DEF RevisionsIn, SourceDb, Partitioned
<1>2. TableRight(table, db, DOMAIN N)
  BY DEF TableRight, RevisionsIn, SourceDb, Partitioned
<1>3. \A a \in RevisionsIn(db), b \in RevisionsIn(db) : <<a, b>> \in E <=> DependsOn(db, b, a)
  BY DEF Edges, DependencyEdges
<1>4. ASSUME NEW a \in DOMAIN N
      PROVE  /\ a \in node.pred_ids <=> <<a, id>> \in E
             /\ a \in node.succ_ids <=> <<id, a>> \in E
  <2>1. /\ a \in node.pred_ids <=> \E i \in db[id].items, j \in db[a].items : j \in GetPredIds(i)
        /\ a \in node.succ_ids <=> \E i \in db[id].items, j \in db[a].items : i \in GetPredIds(j)
    BY <1>1, <1>2, CreateGraphNodeExact
  <2>2. /\ <<a, id>> \in E <=> DependsOn(db, id, a)
        /\ <<id, a>> \in E <=> DependsOn(db, a, id)
    BY <1>3
  <2> QED
    BY <2>1, <2>2 DEF DependsOn
<1>5. <<id, id>> \notin E
  BY <1>1, <1>3
<1> HIDE DEF node, E
<1>6. HasEdges(N, E)
  BY DEF E
<1>7. HasEdges(AddNode(N, id, node), E)
  BY <1>4, <1>5, <1>6, AddNodeEdges, Zenon
<1>8. IsGraph(AddNode(N, id, node)) /\ DOMAIN AddNode(N, id, node) = DOMAIN N \cup {id}
  BY AddNodeIsGraph
<1> QED
  BY <1>7, <1>8 DEF node, E

-----------------------------------------------------------------------------
\* get_changesets(), first loop.
LEMMA ReadChangesetIInv == IInv /\ ReadChangeset => IInv'
<1> SUFFICES ASSUME IInv, ReadChangeset PROVE IInv'
  OBVIOUS
<1>1. PICK db, table : db = changeset_db /\ table = cvs_item_to_changeset_id
  OBVIOUS
<1>2. /\ pc = "load"
      /\ IF unread' = {} THEN pc' = "consume" /\ nopred_nodes' = NoPred(nodes')
                         ELSE pc' = pc /\ nopred_nodes' = nopred_nodes
      /\ changeset_db' = db /\ cvs_item_to_changeset_id' = table
      /\ UNCHANGED <<changeset_ids, next_i>>
  BY <1>1 DEF ReadChangeset
<1>3. PICK id \in unread :
        /\ unread' = unread \ {id}
        /\ AddRevisionChangeset(id) \/ CopySymbolChangeset(id)
  BY DEF ReadChangeset
<1>4. /\ changeset_ids = <<None>> /\ Len(changeset_ids) = 1 /\ changeset_ids[1] = None
      /\ Places = {} /\ Placed = {} /\ Places' = {} /\ Placed' = {}
  <2>1. changeset_ids = <<None>>
    BY <1>2 DEF IInv, GraphInv
  <2>2. Len(changeset_ids) = 1 /\ changeset_ids[1] = None
    BY <2>1
  <2>3. Places = {} /\ Places' = {}
    BY <1>2, <2>2 DEF Places
  <2> QED
    BY <2>1, <2>2, <2>3 DEF Placed
<1>5. /\ SourceDb(db, table) /\ HasEdges(nodes, Edges(db)) /\ IsGraph(nodes)
      /\ DOMAIN nodes = RevisionsIn(db) \ unread /\ unread \subseteq DOMAIN db
      /\ nopred_nodes = {} /\ id \in DOMAIN db /\ id \notin DOMAIN nodes
      /\ next_i = 1
      /\ DOMAIN revordered_db = (DOMAIN db \ RevisionsIn(db)) \ unread
      /\ \A n \in DOMAIN revordered_db : revordered_db[n] = db[n]
      /\ revordered_db = [n \in DOMAIN revordered_db |-> revordered_db[n]]
  <2>1. {changeset_ids[k] : k \in 2..next_i} = {}
    BY <1>2 DEF IInv, OutputInv
  <2> QED
    BY <1>1, <1>2, <1>3, <1>4, <2>1 DEF IInv, TypeOK, GraphInv, IsGraph, OutputInv
<1>6. /\ IsGraph(nodes') /\ HasEdges(nodes', Edges(db))
      /\ DOMAIN nodes' = RevisionsIn(db) \ unread'
      /\ DOMAIN revordered_db' = (DOMAIN db \ RevisionsIn(db)) \ unread'
      /\ \A n \in DOMAIN revordered_db' : revordered_db'[n] = db[n]
      /\ revordered_db' = [n \in DOMAIN revordered_db' |-> revordered_db'[n]]
  <2>1. CASE AddRevisionChangeset(id)
    <3>1. id \in RevisionsIn(db) /\ DOMAIN nodes \subseteq RevisionsIn(db)
      BY <1>1, <1>5, <2>1 DEF AddRevisionChangeset, RevisionsIn
    <3> DEFINE M == AddNode(nodes, id, CreateGraphNode(db[id], table))
    <3>2. IsGraph(M) /\ DOMAIN M = DOMAIN nodes \cup {id} /\ HasEdges(M, Edges(db))
      BY <1>5, <3>1, AddRevisionEdges, Zenon
    <3>3. nodes' = M /\ revordered_db' = revordered_db
      BY <1>1, <2>1 DEF AddRevisionChangeset
    <3> HIDE DEF M
    <3> QED
      BY <1>3, <1>5, <3>1, <3>2, <3>3
  <2>2. CASE CopySymbolChangeset(id)
    <3>1. id \notin RevisionsIn(db) /\ nodes' = nodes
      BY <1>1, <2>2 DEF CopySymbolChangeset, RevisionsIn
    <3>2. revordered_db' = [n \in DOMAIN revordered_db \cup {id} |->
                              IF n = id THEN db[id] ELSE revordered_db[n]]
      BY <1>1, <2>2 DEF CopySymbolChangeset, Store
    <3> QED
      BY <1>3, <1>5, <3>1, <3>2
  <2> QED
    BY <1>3, <2>1, <2>2
<1>7. TypeOK'
  <2>1. /\ nodes' \in [DOMAIN nodes' -> [pred_ids : SUBSET DOMAIN nodes',
                                         succ_ids : SUBSET DOMAIN nodes']]
        /\ nopred_nodes' \subseteq DOMAIN nodes'
        /\ DOMAIN nodes' \cup unread' \subseteq DOMAIN db
        /\ pc' \in {"load", "consume"}
        /\ DOMAIN revordered_db' \subseteq DOMAIN db
    BY <1>2, <1>3, <1>5, <1>6 DEF IsGraph, NoPred, RevisionsIn
  <2>2. \A n \in DOMAIN revordered_db' : revordered_db'[n] \in ChangesetRecord
    BY <1>5, <1>6 DEF SourceDb
  <2> QED
    BY <1>1, <1>2, <2>1, <2>2 DEF IInv, TypeOK
<1>8. GraphInv'
  BY <1>1, <1>2, <1>4, <1>5, <1>6 DEF GraphInv
<1>9. ListInv'
  BY <1>2, <1>4 DEF ListInv, PlacedOnce, DependenciesFirst, LastWasLeast, OldestFirstPlaced
<1>10. OutputInv'
  <2>1. /\ 2..next_i' = {} /\ next_i' = 1 /\ pc' \in {"load", "consume"}
        /\ {changeset_ids'[k] : k \in 2..next_i'} = {}
    BY <1>2, <1>5
  <2>2. DOMAIN revordered_db' = ((DOMAIN db \ RevisionsIn(db)) \ unread')
                                   \cup {changeset_ids'[k] : k \in 2..next_i'}
    BY <1>6, <2>1
  <2> QED
    BY <1>2, <1>6, <2>1, <2>2 DEF OutputInv
<1> QED
  BY <1>7, <1>8, <1>9, <1>10 DEF IInv

\* The places of a list and of the list that is one longer.
LEMMA Longer ==
  ASSUME NEW S, NEW old \in Seq(S), NEW e \in S, NEW new, new = Append(old, e)
  PROVE  /\ new \in Seq(S) /\ Len(new) = Len(old) + 1 /\ Len(old) \in Nat
         /\ new[Len(old) + 1] = e
         /\ \A k \in 1..Len(old) : new[k] = old[k]
OBVIOUS

\* consume_graph(): the next changeset takes its place in the list.
LEMMA ConsumeIInv == IInv /\ Consume => IInv'
<1> SUFFICES ASSUME IInv, Consume PROVE IInv'
  OBVIOUS
<1>1. PICK db, table, n, old, new :
        /\ db = changeset_db /\ table = cvs_item_to_changeset_id
        /\ n = Len(changeset_ids) /\ old = changeset_ids /\ new = changeset_ids'
  OBVIOUS
<1>2. /\ pc = "consume" /\ pc' = "consume"
      /\ changeset_db' = db /\ cvs_item_to_changeset_id' = table
      /\ UNCHANGED <<unread, next_i, revordered_db>>
  BY <1>1 DEF Consume
<1>3. PICK id \in nopred_nodes : ConsumeNode(id) /\ new = Append(old, id)
  BY <1>1 DEF Consume
<1>4. /\ IsGraph(nodes) /\ HasEdges(nodes, Edges(db)) /\ nopred_nodes = NoPred(nodes)
      /\ unread = {} /\ DOMAIN nodes = RevisionsIn(db) \ Placed
      /\ SourceDb(db, table)
  BY <1>1, <1>2 DEF IInv, TypeOK, IsGraph, GraphInv
<1>5. /\ id \in DOMAIN nodes /\ nodes[id].pred_ids = {}
      /\ IsGraph(nodes') /\ DOMAIN nodes' = DOMAIN nodes \ {id}
      /\ HasEdges(nodes', Edges(db)) /\ nopred_nodes' = NoPred(nodes')
  <2> DEFINE E == Edges(db)
  <2> HIDE DEF E
  <2>1. HasEdges(nodes, E)
    BY <1>4 DEF E
  <2>2. /\ id \in DOMAIN nodes /\ nodes[id].pred_ids = {}
        /\ IsGraph(nodes') /\ DOMAIN nodes' = DOMAIN nodes \ {id}
        /\ HasEdges(nodes', E) /\ nopred_nodes' = NoPred(nodes')
    BY <1>3, <1>4, <2>1, ConsumeReady
  <2> QED
    BY <2>2 DEF E
<1>6. /\ id \in RevisionsIn(db) /\ id \in DOMAIN db /\ id \notin Placed
      /\ ~ DependsOn(db, id, id)
  BY <1>4, <1>5 DEF RevisionsIn, SourceDb
<1>7. ASSUME NEW a \in DOMAIN nodes, NEW b \in DOMAIN nodes
      PROVE  /\ a \in nodes[b].pred_ids <=> DependsOn(db, b, a)
             /\ b \in nodes[a].succ_ids <=> DependsOn(db, b, a)
  <2>1. <<a, b>> \in Edges(db) <=> DependsOn(db, b, a)
    BY <1>4 DEF Edges, DependencyEdges
  <2> QED
    BY <1>4, <2>1 DEF HasEdges
\* The list.
<1>8. /\ n \in Nat /\ n >= 1 /\ Len(new) = n + 1
      /\ old \in Seq(DOMAIN db \cup {None}) /\ new \in Seq(DOMAIN db \cup {None})
      /\ new[n + 1] = id /\ \A k \in 1..n : new[k] = old[k]
      /\ old[1] = None /\ new[1] = None
  <2>1. old \in Seq(DOMAIN db \cup {None}) /\ n >= 1 /\ old[1] = None
    BY <1>1 DEF IInv, TypeOK, ListInv
  <2>2. id \in DOMAIN db \cup {None}
    BY <1>6
  <2>3. /\ new \in Seq(DOMAIN db \cup {None}) /\ Len(new) = n + 1 /\ n \in Nat
        /\ new[n + 1] = id /\ \A k \in 1..n : new[k] = old[k]
    BY <1>1, <1>3, <2>1, <2>2, Longer
  <2>4. 1 \in 1..n
    BY <2>1, <2>3
  <2> QED
    BY <2>1, <2>3, <2>4
<1>9. /\ Places = 2..n /\ Places' = 2..(n + 1) /\ 2..(n + 1) = 2..n \cup {n + 1}
      /\ n + 1 \notin 2..n
  <2>1. Places = 2..n
    BY <1>1, <1>2 DEF Places
  <2>2. Places' = 2..(n + 1)
    BY <1>1, <1>2, <1>8 DEF Places
  <2> QED
    BY <1>8, <2>1, <2>2
<1>10. /\ Placed = {old[k] : k \in 2..n} /\ Placed' = Placed \cup {id}
       /\ \A k \in 2..n : new[k] = old[k]
  <2>1. \A k \in 2..n : new[k] = old[k]
    BY <1>8
  <2>2. Placed = {old[k] : k \in 2..n}
    BY <1>1, <1>9 DEF Placed
  <2>3. Placed' = {new[k] : k \in 2..(n + 1)}
    BY <1>1, <1>9 DEF Placed
  <2> QED
    BY <1>8, <1>9, <2>1, <2>2, <2>3
<1>11. Placed \subseteq RevisionsIn(db)
  BY <1>1 DEF IInv, ListInv
<1>12. TypeOK'
  <2>1. /\ nodes' \in [DOMAIN nodes' -> [pred_ids : SUBSET DOMAIN nodes',
                                         succ_ids : SUBSET DOMAIN nodes']]
        /\ nopred_nodes' \subseteq DOMAIN nodes' /\ DOMAIN nodes' \subseteq DOMAIN db
    BY <1>4, <1>5 DEF IsGraph, NoPred, RevisionsIn
  <2> QED
    BY <1>1, <1>2, <1>4, <1>8, <2>1 DEF IInv, TypeOK
<1>13. GraphInv'
  BY <1>1, <1>2, <1>4, <1>5, <1>10 DEF GraphInv
<1>14. PlacedOnce'
  <2>1. \A j, k \in 2..n : old[j] = old[k] => j = k
    BY <1>1, <1>9 DEF IInv, ListInv, PlacedOnce
  <2>2. ASSUME NEW j \in 2..(n + 1), NEW k \in 2..(n + 1), new[j] = new[k] PROVE j = k
    BY <1>6, <1>8, <1>9, <1>10, <2>1, <2>2
  <2> QED
    BY <1>1, <1>9, <2>2 DEF PlacedOnce
<1>15. DependenciesFirst'
  <2>1. ASSUME NEW k \in 2..(n + 1), NEW a \in RevisionsIn(db), DependsOn(db, new[k], a)
        PROVE  \E j \in 2..(k - 1) : new[j] = a
    <3>1. CASE k \in 2..n
      <4>1. DependsOn(db, old[k], a)
        BY <1>10, <2>1, <3>1
      <4>2. PICK j \in 2..(k - 1) : old[j] = a
        BY <1>1, <1>9, <3>1, <4>1 DEF IInv, ListInv, DependenciesFirst
      <4>3. j \in 2..n
        BY <1>8, <3>1, <4>2
      <4> QED
        BY <1>10, <4>2, <4>3
    <3>2. CASE k = n + 1
      <4>1. DependsOn(db, id, a)
        BY <1>8, <2>1, <3>2
      <4>2. a \in Placed
        BY <1>4, <1>5, <1>7, <4>1
      <4>3. PICK j \in 2..n : old[j] = a
        BY <1>10, <4>2
      <4>4. j \in 2..(k - 1) /\ new[j] = a
        BY <1>8, <1>10, <3>2, <4>3
      <4> QED
        BY <4>4
    <3> QED
      BY <1>9, <3>1, <3>2
  <2> QED
    BY <1>1, <1>2, <1>9, <2>1 DEF DependenciesFirst
<1>16. LastWasLeast'
  <2>1. ASSUME NEW x \in nopred_nodes' PROVE DependsOn(db, x, id) \/ HeapLess(id, x)'
    <3>1. x \in nopred_nodes \ {id} \/ x \in nodes[id].succ_ids
      BY <1>3 DEF ConsumeNode
    <3>2. x \in DOMAIN nodes
      BY <1>5 DEF NoPred
    <3>3. CASE x \in nopred_nodes \ {id}
      <4>1. HeapLess(id, x)
        BY <1>3, <3>3 DEF ConsumeNode
      <4> QED
        BY <1>1, <1>2, <4>1 DEF HeapLess, HeapKey
    <3>4. CASE x \in nodes[id].succ_ids
      BY <1>5, <1>7, <3>2, <3>4
    <3> QED
      BY <3>1, <3>3, <3>4
  <2>2. changeset_ids'[Len(changeset_ids')] = id
    BY <1>1, <1>8
  <2> QED
    BY <1>2, <2>1, <2>2 DEF LastWasLeast
<1>17. OldestFirstPlaced'
  <2> DEFINE Right(a, b) == DependsOn(db, b, a) \/ HeapLess(a, b)
  <2>1. \A a, b : Right(a, b) => DependsOn(db, b, a) \/ HeapLess(a, b)'
    BY <1>1, <1>2 DEF HeapLess, HeapKey
  <2>2. \A k \in 2..n : k > 2 => Right(old[k - 1], old[k])
    BY <1>1, <1>9 DEF IInv, ListInv, OldestFirstPlaced
  <2>3. n > 1 => Right(old[n], id)
    BY <1>1, <1>2 DEF IInv, ListInv, LastWasLeast
  <2> HIDE DEF Right
  <2>4. ASSUME NEW k \in 2..(n + 1), k > 2 PROVE Right(new[k - 1], new[k])
    <3>1. k - 1 \in 2..n /\ new[k - 1] = old[k - 1]
      <4>1. k - 1 \in 2..n
        BY <1>8, <2>4
      <4> QED
        BY <1>10, <4>1
    <3>2. CASE k \in 2..n
      BY <1>10, <2>2, <2>4, <3>1, <3>2
    <3>3. CASE k = n + 1
      <4>1. k - 1 = n /\ n > 1
        BY <1>8, <2>4, <3>3
      <4> QED
        BY <1>8, <2>3, <3>1, <3>3, <4>1
    <3> QED
      BY <1>9, <3>2, <3>3
  <2>5. ASSUME NEW k \in 2..(n + 1), k > 2
        PROVE  DependsOn(db, new[k], new[k - 1]) \/ HeapLess(new[k - 1], new[k])'
    BY <2>1, <2>4, <2>5
  <2> QED
    BY <1>1, <1>2, <1>9, <2>5 DEF OldestFirstPlaced
<1>18. ListInv'
  <2>1. Len(changeset_ids') >= 1 /\ changeset_ids'[1] = None
    BY <1>1, <1>8
  <2> QED
    BY <1>2, <1>6, <1>10, <1>11, <1>14, <1>15, <1>16, <1>17, <2>1 DEF ListInv
<1>19. OutputInv'
  <2>1. next_i = 1 /\ 2..next_i = {} /\ 2..next_i' = {}
    BY <1>2 DEF IInv, OutputInv
  <2>2. DOMAIN revordered_db = ((DOMAIN db \ RevisionsIn(db)) \ unread)
      /\ revordered_db = [m \in DOMAIN revordered_db |-> revordered_db[m]]
      /\ \A m \in DOMAIN revordered_db \ RevisionsIn(db) : revordered_db[m] = db[m]
    BY <1>1, <2>1 DEF IInv, OutputInv
  <2>3. {changeset_ids'[k] : k \in 2..next_i'} = {}
    BY <2>1
  <2> QED
    BY <1>2, <2>1, <2>2, <2>3 DEF OutputInv
<1> QED
  BY <1>12, <1>13, <1>18, <1>19 DEF IInv

\* consume_graph(): the second sentry ends the list.
LEMMA EndOfGraphIInv == IInv /\ EndOfGraph => IInv'
<1> SUFFICES ASSUME IInv, EndOfGraph PROVE IInv'
  OBVIOUS
<1>1. PICK db, n, old, new :
        /\ db = changeset_db
        /\ n = Len(changeset_ids) /\ old = changeset_ids /\ new = changeset_ids'
  OBVIOUS
<1>2. /\ pc = "consume" /\ pc' = "write" /\ DOMAIN nodes = {} /\ new = Append(old, None)
      /\ changeset_db' = db
      /\ UNCHANGED <<cvs_item_to_changeset_id, nodes, nopred_nodes, unread, next_i, revordered_db>>
  BY <1>1 DEF EndOfGraph, graph_vars
<1>3. /\ n \in Nat /\ n >= 1 /\ Len(new) = n + 1
      /\ new \in Seq(DOMAIN db \cup {None})
      /\ new[n + 1] = None /\ \A k \in 1..n : new[k] = old[k]
      /\ new[1] = None
  <2>1. old \in Seq(DOMAIN db \cup {None}) /\ n >= 1 /\ old[1] = None
    BY <1>1 DEF IInv, TypeOK, ListInv
  <2>2. None \in DOMAIN db \cup {None}
    OBVIOUS
  <2>3. /\ new \in Seq(DOMAIN db \cup {None}) /\ Len(new) = n + 1 /\ n \in Nat
        /\ new[n + 1] = None /\ \A k \in 1..n : new[k] = old[k]
    BY <1>1, <1>2, <2>1, <2>2, Longer
  <2>4. 1 \in 1..n
    BY <2>1, <2>3
  <2> QED
    BY <2>1, <2>3, <2>4
<1>4. Places = 2..n /\ Places' = 2..n /\ \A k \in 2..n : new[k] = old[k]
  <2>1. Places = 2..n
    BY <1>1, <1>2 DEF Places
  <2>2. Places' = 2..n
    <3>1. Places' = 2..((n + 1) - 1)
      BY <1>1, <1>2, <1>3 DEF Places
    <3>2. (n + 1) - 1 = n
      BY <1>3
    <3> QED
      BY <3>1, <3>2
  <2> QED
    BY <1>3, <2>1, <2>2
<1>5. Placed' = Placed
  BY <1>1, <1>4 DEF Placed
<1>6. TypeOK'
  BY <1>1, <1>2, <1>3 DEF IInv, TypeOK
<1>7. GraphInv'
  BY <1>1, <1>2, <1>5 DEF IInv, GraphInv
<1>8. PlacedOnce'
  BY <1>1, <1>4 DEF IInv, ListInv, PlacedOnce
<1>9. DependenciesFirst'
  <2>1. ASSUME NEW k \in 2..n, NEW a \in RevisionsIn(db), DependsOn(db, new[k], a)
        PROVE  \E j \in 2..(k - 1) : new[j] = a
    <3>1. PICK j \in 2..(k - 1) : old[j] = a
      BY <1>1, <1>4, <2>1 DEF IInv, ListInv, DependenciesFirst
    <3>2. j \in 2..n
      BY <1>3, <3>1
    <3> QED
      BY <1>4, <3>1, <3>2
  <2> QED
    BY <1>1, <1>2, <1>4, <2>1 DEF DependenciesFirst
<1>10. OldestFirstPlaced'
  <2>1. ASSUME NEW k \in 2..n, k > 2
        PROVE  DependsOn(db, new[k], new[k - 1]) \/ HeapLess(new[k - 1], new[k])'
    <3>1. k - 1 \in 2..n
      BY <1>3, <2>1
    <3>2. DependsOn(db, new[k], new[k - 1]) \/ HeapLess(new[k - 1], new[k])
      BY <1>1, <1>4, <2>1, <3>1 DEF IInv, ListInv, OldestFirstPlaced
    <3> QED
      BY <1>1, <1>2, <3>2 DEF HeapLess, HeapKey
  <2> QED
    BY <1>1, <1>2, <1>4, <2>1 DEF OldestFirstPlaced
<1>11. ListInv'
  <2>1. Len(changeset_ids') >= 2 /\ changeset_ids'[Len(changeset_ids')] = None
          /\ changeset_ids'[1] = None
    BY <1>1, <1>3
  <2>2. LastWasLeast'
    BY <1>2 DEF LastWasLeast
  <2>3. Placed' \subseteq RevisionsIn(changeset_db')
    BY <1>1, <1>2, <1>5 DEF IInv, ListInv
  <2> QED
    BY <1>1, <1>3, <1>8, <1>9, <1>10, <2>1, <2>2, <2>3 DEF ListInv
<1>12. OutputInv'
  <2>1. next_i = 1 /\ 2..next_i = {} /\ next_i' <= Len(changeset_ids') - 1
    BY <1>1, <1>2, <1>3 DEF IInv, OutputInv
  <2>2. /\ DOMAIN revordered_db = ((DOMAIN db \ RevisionsIn(db)) \ unread)
        /\ revordered_db = [m \in DOMAIN revordered_db |-> revordered_db[m]]
        /\ \A m \in DOMAIN revordered_db \ RevisionsIn(db) : revordered_db[m] = db[m]
    BY <1>1, <2>1 DEF IInv, OutputInv
  <2>3. {changeset_ids'[k] : k \in 2..next_i'} = {} /\ 2..next_i' = {}
    BY <1>2, <2>1
  <2> QED
    BY <1>2, <2>1, <2>2, <2>3 DEF OutputInv
<1> QED
  BY <1>6, <1>7, <1>11, <1>12 DEF IInv

\* get_changesets(), second loop: one more ordered changeset is stored.
LEMMA WriteOrderedIInv == IInv /\ WriteOrdered => IInv'
<1> SUFFICES ASSUME IInv, WriteOrdered PROVE IInv'
  OBVIOUS
<1>1. PICK db, L, i, ids, id :
        /\ db = changeset_db /\ L = Len(changeset_ids) /\ ids = changeset_ids /\ i = next_i
        /\ id = changeset_ids[next_i + 1]
  OBVIOUS
<1> DEFINE changeset == OrderedChangeset(db[id].items, i - 1, ids[i], ids[i + 2])
<1>2. /\ pc = "write" /\ i < L - 1 /\ next_i' = i + 1
      /\ revordered_db' = [n \in DOMAIN revordered_db \cup {id} |->
                             IF n = id THEN changeset ELSE revordered_db[n]]
      /\ UNCHANGED <<changeset_db, cvs_item_to_changeset_id, nodes, nopred_nodes, pc, unread,
                     changeset_ids>>
  BY <1>1 DEF WriteOrdered, Store, graph_vars
<1>3. /\ i \in Nat /\ i >= 1 /\ L \in Nat /\ ids \in Seq(DOMAIN db \cup {None})
      /\ i \in 1..L /\ i + 1 \in 2..(L - 1) /\ i + 2 \in 1..L
  <2>1. i \in Nat \ {0} /\ ids \in Seq(DOMAIN db \cup {None}) /\ L \in Nat
    BY <1>1 DEF IInv, TypeOK
  <2> QED
    BY <1>2, <2>1
<1>4. Places = 2..(L - 1) /\ Placed = {ids[k] : k \in 2..(L - 1)} /\ Placed \subseteq RevisionsIn(db)
  BY <1>1, <1>2 DEF IInv, ListInv, Places, Placed
<1>5. id = ids[i + 1] /\ id \in RevisionsIn(db)
  BY <1>1, <1>3, <1>4
<1>6. changeset \in ChangesetRecord
  <2>1. db[id].items \in SUBSET Item
    BY <1>1, <1>5 DEF IInv, GraphInv, SourceDb, Partitioned, RevisionsIn
  <2>2. ids[i] \in Nat \cup {None} /\ ids[i + 2] \in Nat \cup {None}
    <3>1. ids[i] \in DOMAIN db \cup {None} /\ ids[i + 2] \in DOMAIN db \cup {None}
      <4>1. L = Len(ids)
        BY <1>1
      <4> QED
        BY <1>3, <4>1, ElementOfSeq
    <3>2. DOMAIN db \subseteq Nat
      BY <1>1 DEF IInv, GraphInv, SourceDb
    <3> QED
      BY <3>1, <3>2
  <2>3. i - 1 \in Nat
    BY <1>3
  <2> QED
    BY <2>1, <2>2, <2>3 DEF OrderedChangeset, ChangesetRecord
<1>7. \A k \in 2..i : ids[k] # id
  <2>1. \A j, k \in 2..(L - 1) : ids[j] = ids[k] => j = k
    BY <1>1, <1>4 DEF IInv, ListInv, PlacedOnce
  <2> QED
    BY <1>2, <1>3, <1>5, <2>1
<1>8. 2..(i + 1) = 2..i \cup {i + 1}
  BY <1>3
<1> HIDE DEF changeset
<1>9. TypeOK'
  <2>1. id \in DOMAIN db
    BY <1>5 DEF RevisionsIn
  <2>2. /\ DOMAIN revordered_db \subseteq DOMAIN db
        /\ \A n \in DOMAIN revordered_db : revordered_db[n] \in ChangesetRecord
    BY <1>1 DEF IInv, TypeOK
  <2>3. /\ DOMAIN revordered_db' \subseteq DOMAIN db
        /\ \A n \in DOMAIN revordered_db' : revordered_db'[n] \in ChangesetRecord
    BY <1>2, <1>6, <2>1, <2>2
  <2>4. next_i' \in Nat \ {0}
    BY <1>2, <1>3
  <2> QED
    BY <1>1, <1>2, <2>3, <2>4 DEF IInv, TypeOK
<1>10. Places' = Places /\ Placed' = Placed
  BY <1>2 DEF Places, Placed
<1>11. GraphInv'
  BY <1>2, <1>10 DEF IInv, GraphInv
<1>12. ListInv'
  <2>1. PlacedOnce' /\ DependenciesFirst' /\ LastWasLeast'
    BY <1>2, <1>10 DEF IInv, ListInv, PlacedOnce, DependenciesFirst, LastWasLeast
  <2>2. OldestFirstPlaced'
    BY <1>2, <1>10 DEF IInv, ListInv, OldestFirstPlaced, HeapLess, HeapKey
  <2> QED
    BY <1>2, <1>10, <2>1, <2>2 DEF IInv, ListInv
<1>13. OutputInv'
  <2> DEFINE Copied == (DOMAIN db \ RevisionsIn(db)) \ unread
  <2>1. /\ DOMAIN revordered_db = Copied \cup {ids[k] : k \in 2..i}
        /\ \A n \in DOMAIN revordered_db \ RevisionsIn(db) : revordered_db[n] = db[n]
        /\ \A k \in 2..i : revordered_db[ids[k]] =
             OrderedChangeset(db[ids[k]].items, k - 2, ids[k - 1], ids[k + 1])
    BY <1>1 DEF IInv, OutputInv
  <2>2. DOMAIN revordered_db' = Copied \cup {ids[k] : k \in 2..(i + 1)}
    BY <1>2, <1>5, <1>8, <2>1
  <2>3. \A n \in DOMAIN revordered_db' \ RevisionsIn(db) : revordered_db'[n] = db[n]
    BY <1>2, <1>5, <2>1
  <2>4. ASSUME NEW k \in 2..(i + 1)
        PROVE  revordered_db'[ids[k]] =
                 OrderedChangeset(db[ids[k]].items, k - 2, ids[k - 1], ids[k + 1])
    <3>1. CASE k \in 2..i
      <4>1. ids[k] \in DOMAIN revordered_db /\ ids[k] # id
        BY <1>7, <2>1, <3>1
      <4> QED
        BY <1>2, <2>1, <3>1, <4>1
    <3>2. CASE k = i + 1
      <4>1. k - 2 = i - 1 /\ k - 1 = i /\ k + 1 = i + 2
        BY <1>3, <3>2
      <4>2. revordered_db'[id] = changeset
        BY <1>2
      <4> QED
        BY <1>5, <3>2, <4>1, <4>2 DEF changeset
    <3> QED
      BY <1>8, <3>1, <3>2
  <2>5. next_i' <= L - 1
    BY <1>2, <1>3
  <2> HIDE DEF Copied
  <2>6. /\ DOMAIN revordered_db' = Copied \cup {ids[k] : k \in 2..next_i'}
        /\ \A k \in 2..next_i' : revordered_db'[ids[k]] =
             OrderedChangeset(db[ids[k]].items, k - 2, ids[k - 1], ids[k + 1])
    BY <1>2, <2>2, <2>4
  <2>7. Copied = (DOMAIN changeset_db' \ RevisionsIn(changeset_db')) \ unread'
    BY <1>1, <1>2 DEF Copied
  <2>8. /\ changeset_db' = db /\ changeset_ids' = ids /\ pc' = "write"
        /\ next_i' <= Len(changeset_ids') - 1
    BY <1>1, <1>2, <2>5
  <2>9. revordered_db' = [n \in DOMAIN revordered_db' |-> revordered_db'[n]]
    BY <1>2
  <2> QED
    BY <2>3, <2>6, <2>7, <2>8, <2>9 DEF OutputInv
<1> QED
  BY <1>9, <1>11, <1>12, <1>13 DEF IInv

\* One turn of either loop.
LEMMA NextIInv == IInv /\ [Next]_vars => IInv'
<1> SUFFICES ASSUME IInv, [Next]_vars PROVE IInv'
  OBVIOUS
<1>1. CASE UNCHANGED vars \/ Finish
  <2>1. /\ UNCHANGED <<changeset_db, cvs_item_to_changeset_id, nodes, nopred_nodes, unread,
                       changeset_ids, next_i, revordered_db>>
        /\ (pc' = pc \/ (pc = "write" /\ pc' = "done" /\ next_i = Len(changeset_ids) - 1))
    BY <1>1 DEF vars, graph_vars, Finish
  <2>2. Places' = Places /\ Placed' = Placed
    BY <2>1 DEF Places, Placed
  <2>3. TypeOK'
    BY <2>1 DEF IInv, TypeOK
  <2>4. GraphInv'
    BY <2>1, <2>2 DEF IInv, GraphInv
  <2>5. ListInv'
    <3>1. PlacedOnce' /\ DependenciesFirst'
      BY <2>1, <2>2 DEF IInv, ListInv, PlacedOnce, DependenciesFirst
    <3>2. LastWasLeast' /\ OldestFirstPlaced'
      BY <2>1, <2>2 DEF IInv, ListInv, LastWasLeast, OldestFirstPlaced, HeapLess, HeapKey
    <3> QED
      BY <2>1, <2>2, <3>1, <3>2 DEF IInv, ListInv
  <2>6. OutputInv'
    BY <2>1 DEF IInv, OutputInv
  <2> QED
    BY <2>3, <2>4, <2>5, <2>6 DEF IInv
<1> QED
  BY <1>1, ReadChangesetIInv, ConsumeIInv, EndOfGraphIInv, WriteOrderedIInv DEF Next, Terminated

-----------------------------------------------------------------------------
\* The inductive invariant of RevisionTopologicalSortPass.
THEOREM Invariance == Spec => []IInv
BY InitIInv, NextIInv, PTL DEF Spec

\* Of the changesets that are ready the oldest is placed next.
LEMMA InvOldestFirst == IInv => OldestFirst
<1> SUFFICES ASSUME IInv, NEW k \in 2..(Len(changeset_ids) - 1), changeset_ids[k + 1] # None
             PROVE  \/ DependsOn(changeset_db, changeset_ids[k + 1], changeset_ids[k])
                    \/ HeapLess(changeset_ids[k], changeset_ids[k + 1])
  BY DEF OldestFirst
<1>1. PICK L : L = Len(changeset_ids)
  OBVIOUS
<1>2. L \in Nat
  BY <1>1 DEF IInv, TypeOK
<1>3. k + 1 \in Places
  <2>1. pc \in {"load", "consume", "write", "done"}
    BY DEF IInv, TypeOK
  <2>2. pc \in {"write", "done"} => changeset_ids[L] = None
    BY <1>1 DEF IInv, ListInv
  <2>3. k \in 2..(L - 1)
    BY <1>1
  <2>4. Places = 2..(IF pc \in {"load", "consume"} THEN L ELSE L - 1)
    BY <1>1 DEF Places
  <2> QED
    BY <1>2, <2>1, <2>2, <2>3, <2>4
<1>4. (k + 1) - 1 = k /\ k + 1 > 2
  BY <1>1, <1>2
<1> QED
  BY <1>3, <1>4 DEF IInv, ListInv, OldestFirstPlaced

\* Where the ordered changesets are in the end.
LEMMA InvOutput ==
  ASSUME IInv, pc = "done"
  PROVE  LET ordinal == [x \in Revisions |-> revordered_db[cvs_item_to_changeset_id[x]].ordinal]
             id_of   == SubSeq(changeset_ids, 2, Len(changeset_ids) - 1)
         IN  /\ IsOrder(ordinal)
             /\ revordered_db = ChangesetTable(cvs_item_to_changeset_id, ordinal, id_of)
<1>1. PICK db, table, L, ids, out :
        /\ db = changeset_db /\ table = cvs_item_to_changeset_id
        /\ L = Len(changeset_ids) /\ ids = changeset_ids /\ out = revordered_db
  OBVIOUS
<1>2. PICK ordinal, id_of :
        /\ ordinal = [x \in Revisions |-> out[table[x]].ordinal]
        /\ id_of = SubSeq(ids, 2, L - 1)
  OBVIOUS
<1>3. /\ L \in Nat /\ L >= 2 /\ ids \in Seq(DOMAIN db \cup {None}) /\ L = Len(ids)
      /\ ids[1] = None /\ ids[L] = None
      /\ unread = {} /\ DOMAIN nodes = {}
  BY <1>1 DEF IInv, TypeOK, GraphInv, ListInv
<1>4. \A m \in 1..(L - 2) : id_of[m] = ids[m + 1]
  <2> DEFINE S == DOMAIN db \cup {None}
  <2> HIDE DEF S
  <2>1. ids \in Seq(S)
    BY <1>3 DEF S
  <2> SUFFICES ASSUME NEW m \in 1..(L - 2) PROVE id_of[m] = ids[m + 1]
    OBVIOUS
  <2>2. m + 1 = 2 + m - 1 /\ m \in 1..((L - 1) - 2 + 1)
    BY <1>3
  <2>3. \A i \in 2..(L - 1) : i \in 1..Len(ids)
    BY <1>3
  <2> QED
    BY <1>2, <1>3, <2>1, <2>2, <2>3
<1>5. /\ SourceDb(db, table)
      /\ Places = 2..(L - 1) /\ Placed = {ids[k] : k \in 2..(L - 1)} /\ Placed = RevisionsIn(db)
      /\ \A j, k \in 2..(L - 1) : ids[j] = ids[k] => j = k
  <2>1. Places = 2..(L - 1) /\ Placed = {ids[k] : k \in 2..(L - 1)}
    BY <1>1 DEF Places, Placed
  <2>2. Placed = RevisionsIn(db) /\ SourceDb(db, table)
    BY <1>1, <1>3 DEF IInv, GraphInv, ListInv
  <2> QED
    BY <1>1, <2>1, <2>2 DEF IInv, ListInv, PlacedOnce
<1>6. /\ DOMAIN out = DOMAIN db /\ out = [id \in DOMAIN out |-> out[id]]
      /\ \A id \in DOMAIN db \ RevisionsIn(db) : out[id] = db[id]
      /\ \A k \in 2..(L - 1) :
           out[ids[k]] = OrderedChangeset(db[ids[k]].items, k - 2, ids[k - 1], ids[k + 1])
  <2>1. next_i = L - 1
    BY <1>1 DEF IInv, OutputInv
  <2>2. DOMAIN out = (DOMAIN db \ RevisionsIn(db)) \cup {ids[k] : k \in 2..(L - 1)}
    BY <1>1, <1>3, <2>1 DEF IInv, OutputInv
  <2>3. DOMAIN out = DOMAIN db
    BY <1>5, <2>2 DEF RevisionsIn
  <2> QED
    BY <1>1, <2>1, <2>3 DEF IInv, OutputInv
<1>7. /\ table \in [Item -> DOMAIN db]
      /\ \A id \in DOMAIN db : db[id].items = {i \in Item : table[i] = id} /\ db[id].items # {}
      /\ \A id \in RevisionsIn(db) : db[id].items \subseteq Revisions
      /\ \A id \in DOMAIN db \ RevisionsIn(db) : db[id].items \subseteq Symbols
  BY <1>5 DEF SourceDb, Partitioned, RevisionsIn
<1>8. /\ Revisions \subseteq Item /\ \A i \in Revisions : i \notin Symbols
  BY DEF Revisions, Symbols
<1>9. ASSUME NEW k \in 2..(L - 1), NEW x \in Revisions, table[x] = ids[k]
      PROVE  ordinal[x] = k - 2
  <2>1. \A S, n, p, q : OrderedChangeset(S, n, p, q).ordinal = n
    BY DEF OrderedChangeset
  <2>2. out[table[x]].ordinal = k - 2
    BY <1>6, <1>9, <2>1
  <2> QED
    BY <1>2, <2>2
<1>10. ASSUME NEW x \in Revisions
       PROVE  table[x] \in RevisionsIn(db) /\ \E k \in 2..(L - 1) : table[x] = ids[k]
  <2>1. table[x] \in DOMAIN db /\ x \in db[table[x]].items
    BY <1>7, <1>8
  <2>2. table[x] \in RevisionsIn(db)
    BY <1>7, <1>8, <2>1
  <2> QED
    BY <1>5, <2>2
<1>11. ASSUME NEW k \in 2..(L - 1)
       PROVE  \E x \in Revisions : table[x] = ids[k]
  <2>1. ids[k] \in RevisionsIn(db)
    BY <1>5
  <2>2. ids[k] \in DOMAIN db
    BY <2>1 DEF RevisionsIn
  <2> QED
    BY <1>7, <2>1, <2>2
<1>12. IsOrder(ordinal)
  <2>1. ASSUME NEW i \in Revisions, NEW j \in Revisions, j \in GetPredIds(i)
        PROVE  ordinal[j] < ordinal[i]
    <3>1. PICK k \in 2..(L - 1) : table[i] = ids[k]
      BY <1>10
    <3>2. DependsOn(db, ids[k], table[j])
      <4>1. /\ i \in db[table[i]].items /\ j \in db[table[j]].items
        BY <1>7, <1>8, <1>10
      <4> QED
        BY <2>1, <3>1, <4>1 DEF DependsOn
    <3>3. PICK l \in 2..(k - 1) : ids[l] = table[j]
      BY SMTT(60), <1>1, <1>5, <1>10, <3>2 DEF IInv, ListInv, DependenciesFirst
    <3>4. l \in 2..(L - 1) /\ l < k
      BY <1>3, <3>1, <3>3
    <3>5. ordinal[i] = k - 2 /\ ordinal[j] = l - 2
      BY <1>9, <3>1, <3>3, <3>4
    <3> QED
      BY <3>4, <3>5
  <2>2. ASSUME NEW i \in Revisions, NEW m \in 0..ordinal[i]
        PROVE  \E j \in Revisions : ordinal[j] = m
    <3>1. PICK k \in 2..(L - 1) : table[i] = ids[k]
      BY <1>10
    <3>2. ordinal[i] = k - 2
      BY <1>9, <3>1
    <3>3. m + 2 \in 2..(L - 1) /\ (m + 2) - 2 = m
      BY <1>3, <3>1, <3>2
    <3>4. PICK j \in Revisions : table[j] = ids[m + 2]
      BY <1>11, <3>3
    <3> QED
      BY <1>9, <3>3, <3>4
  <2> QED
    BY <2>1, <2>2 DEF IsOrder
<1>13. ASSUME NEW id \in DOMAIN db
       PROVE  out[id] = ChangesetOf({i \in Item : table[i] = id}, ordinal, id_of)
  <2> DEFINE S == {i \in Item : table[i] = id}
             c == CHOOSE x \in S : TRUE
  <2>1. S = db[id].items /\ S # {} /\ c \in S
    BY <1>7
  <2> HIDE DEF S
  <2>2. CASE id \in RevisionsIn(db)
    <3>1. c \in Revisions /\ c \notin Symbols
      BY <1>7, <1>8, <2>1, <2>2
    <3>2. table[c] = id
      BY <2>1 DEF S
    <3>3. PICK k \in 2..(L - 1) : id = ids[k]
      BY <1>5, <2>2
    <3>4. ordinal[c] = k - 2
      BY <1>9, <3>1, <3>2, <3>3
    <3>5. (IF ordinal[c] = 0 THEN None ELSE id_of[ordinal[c]]) = ids[k - 1]
      <4>1. CASE k = 2
        BY <1>3, <3>4, <4>1
      <4>2. CASE k # 2
        <5>1. k - 2 \in 1..(L - 2) /\ (k - 2) + 1 = k - 1 /\ k - 2 # 0
          BY <1>3, <4>2
        <5> QED
          BY <1>4, <3>4, <5>1
      <4> QED
        BY <4>1, <4>2
    <3>6. (\E j \in Revisions : ordinal[j] > ordinal[c]) <=> k < L - 1
      <4>1. ASSUME NEW j \in Revisions, ordinal[j] > ordinal[c] PROVE k < L - 1
        <5>1. PICK l \in 2..(L - 1) : table[j] = ids[l]
          BY <1>10
        <5>2. ordinal[j] = l - 2
          BY <1>9, <5>1
        <5> QED
          BY <1>3, <3>4, <4>1, <5>1, <5>2
      <4>2. ASSUME k < L - 1 PROVE \E j \in Revisions : ordinal[j] > ordinal[c]
        <5>1. k + 1 \in 2..(L - 1)
          BY <1>3, <4>2
        <5>2. PICK j \in Revisions : table[j] = ids[k + 1]
          BY <1>11, <5>1
        <5>3. ordinal[j] = (k + 1) - 2
          BY <1>9, <5>1, <5>2
        <5>4. (k + 1) - 2 > k - 2
          BY <1>3
        <5> QED
          BY <3>4, <5>3, <5>4
      <4> QED
        BY <4>1, <4>2
    <3>7. (IF \E j \in Revisions : ordinal[j] > ordinal[c]
           THEN id_of[ordinal[c] + 2] ELSE None) = ids[k + 1]
      <4>1. CASE k < L - 1
        <5>1. k \in 1..(L - 2) /\ (k - 2) + 2 = k
          BY <1>3, <4>1
        <5> QED
          BY <1>4, <3>4, <3>6, <4>1, <5>1
      <4>2. CASE ~ (k < L - 1)
        <5>1. k + 1 = L
          BY <1>3, <4>2
        <5> QED
          BY <1>3, <3>6, <4>2, <5>1
      <4> QED
        BY <4>1, <4>2
    <3>8. ChangesetOf(S, ordinal, id_of) = OrderedChangeset(S, k - 2, ids[k - 1], ids[k + 1])
      BY <3>1, <3>4, <3>5, <3>7 DEF ChangesetOf
    <3> QED
      BY <1>6, <2>1, <3>3, <3>8 DEF S
  <2>3. CASE id \notin RevisionsIn(db)
    <3>1. c \in Symbols
      BY <1>7, <2>1, <2>3
    <3>2. out[id] = SourceChangeset(S)
      BY <1>5, <1>6, <2>3 DEF SourceDb, S
    <3> QED
      BY <3>1, <3>2 DEF SourceChangeset, ChangesetOf, S
  <2> QED
    BY <2>2, <2>3
<1>14. out = ChangesetTable(table, ordinal, id_of)
  <2>1. DOMAIN db = {table[i] : i \in Item}
    <3>1. ASSUME NEW id \in DOMAIN db PROVE \E i \in Item : id = table[i]
      BY <1>7
    <3>2. \A i \in Item : table[i] \in DOMAIN db
      BY <1>7
    <3> QED
      BY <3>1, <3>2
  <2>2. out = [id \in DOMAIN db |-> ChangesetOf({i \in Item : table[i] = id}, ordinal, id_of)]
    BY <1>6, <1>13
  <2> QED
    BY <2>1, <2>2 DEF ChangesetTable
<1> QED
  BY <1>1, <1>2, <1>12, <1>14

\* The pass leaves the same changesets under the same ids; those of revisions are
\* numbered without gaps, each after those it depends on, and are linked.
THEOREM OutputOrdered == Spec => []OutputIsOrdered
<1>1. IInv => OutputIsOrdered
  <2> SUFFICES ASSUME IInv PROVE OutputIsOrdered
    OBVIOUS
  <2>1. OldestFirst /\ TypeOK
    BY InvOldestFirst DEF IInv
  <2> QED
    BY <2>1, InvOutput DEF OutputIsOrdered
<1> QED
  BY <1>1, Invariance, PTL
=============================================================================

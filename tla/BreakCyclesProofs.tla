------------------------- MODULE BreakCyclesProofs -------------------------
(***************************************************************************)
(* Proofs about BreakCycles, for every item database and every grouping.   *)
(***************************************************************************)
EXTENDS BreakCycles, ChangesetGraphTheorems

-----------------------------------------------------------------------------
\* The changesets that belong in the graph, and have been read.
Loaded == {id \in DOMAIN changeset_db \ unread : changeset_db[id].kind \in Breakable}

ItemsAlike ==
  \A id \in DOMAIN changeset_db : \A i \in changeset_db[id].items :
    cvs_item[i].kind = changeset_db[id].kind

NoInternalDeps ==
  \A id \in DOMAIN changeset_db : ~ DependsOn(changeset_db, id, id)

\* The ids the key generator will hand out are not in use.
KeysFresh ==
  /\ \A id \in DOMAIN changeset_db \ unread : id < key_base
  /\ pc # "load" => unread = {}

GraphComplete == DOMAIN nodes = Loaded \ consumed

\* What has been consumed depends on nothing that has not, and has no cycle.
ConsumedClosed ==
  /\ consumed \subseteq Loaded
  /\ pc = "load" => consumed = {}
  /\ \A b \in consumed, a \in Loaded : DependsOn(changeset_db, b, a) => a \in consumed
  /\ Acyclic(changeset_db, consumed)

\* find_cycle() has walked along edges, backwards.
WalkInOrder ==
  pc = "walk" =>
    /\ seen_nodes # <<>>
    /\ \A k \in 1..(Len(seen_nodes) - 1) :
         seen_nodes[k + 1] \in nodes[seen_nodes[k]].pred_ids

OutsideSearch ==
  /\ pc \notin {"walk", "break"} => seen_nodes = <<>>
  /\ pc = "done" => DOMAIN nodes = {}

\* The invariant that is inductive.  The first group is about the databases,
\* the second about the graph, the third about the search for a cycle.
DbInv    == ItemsPartitioned /\ ItemsAlike /\ NoInternalDeps /\ KeysFresh
GraphInv == GraphComplete /\ GraphMirrorsItems /\ ConsumedClosed /\ ReadyExact
CycleInv == WalkInOrder /\ CycleInOrder /\ OutsideSearch
IInv     == TypeOK /\ DbInv /\ GraphInv /\ CycleInv

-----------------------------------------------------------------------------
\* It holds before anything is read.
LEMMA InitIInv == Init => IInv
<1> SUFFICES ASSUME Init PROVE IInv
  OBVIOUS
<1> DEFINE table == cvs_item_to_changeset_id
           Has(id) == {i \in Item : table[i] = id}
<1>1. PICK symbol_id \in [SymbolNames -> SourceId] :
        /\ IsInjective(symbol_id)
        /\ \E revision_id \in [Revisions -> SourceId \ Range(symbol_id)] :
             IsGrouping(revision_id) /\ table = SourceTable(symbol_id, revision_id)
  BY DEF Init
<1>2. PICK revision_id \in [Revisions -> SourceId \ Range(symbol_id)] :
        IsGrouping(revision_id) /\ table = SourceTable(symbol_id, revision_id)
  BY <1>1
<1>3. \A i \in Item : cvs_item[i] \in ItemRecord
  BY LinksAssumption
<1>4. \A i \in Item :
        /\ i \in Revisions => table[i] = revision_id[i] /\ table[i] \notin Range(symbol_id)
        /\ i \notin Revisions => /\ table[i] = symbol_id[cvs_item[i].symbol]
                                 /\ table[i] \in Range(symbol_id)
                                 /\ cvs_item[i].symbol \in SymbolNames
  BY <1>2 DEF SourceTable, Range, SymbolNames, Revisions
<1>5. table \in [Item -> SourceId]
  BY <1>2, <1>4 DEF SourceTable, Range, Revisions
<1>6. \A i, j \in Item : table[i] = table[j] =>
        cvs_item[i].kind = cvs_item[j].kind /\ j \notin GetPredIds(i)
  <2> SUFFICES ASSUME NEW i \in Item, NEW j \in Item, table[i] = table[j]
               PROVE  cvs_item[i].kind = cvs_item[j].kind /\ j \notin GetPredIds(i)
    OBVIOUS
  <2>1. CASE i \in Revisions
    BY <1>2, <1>4, <2>1 DEF IsGrouping, Revisions, IsRevision
  <2>2. CASE i \notin Revisions
    <3>1. j \notin Revisions /\ cvs_item[i].symbol = cvs_item[j].symbol
      BY <1>1, <1>4, <2>2 DEF IsInjective
    <3>2. IsSymbol(i) /\ IsSymbol(j)
      BY <1>3, <2>2, <3>1 DEF Revisions, IsRevision, IsSymbol, ItemRecord
    <3> QED
      BY <3>1, <3>2, SymbolAssumption
  <2> QED
    BY <2>1, <2>2
<1>7. /\ DOMAIN changeset_db = {table[i] : i \in Item}
      /\ \A id \in DOMAIN changeset_db : changeset_db[id] = SourceChangeset(Has(id))
  BY DEF Init, SourceChangesets
<1>8. \A id \in DOMAIN changeset_db :
        /\ changeset_db[id] \in ChangesetRecord
        /\ changeset_db[id].items = Has(id) /\ Has(id) # {}
        /\ \A i \in Has(id) : cvs_item[i].kind = changeset_db[id].kind
  <2> TAKE id \in DOMAIN changeset_db
  <2> DEFINE first == CHOOSE x \in Has(id) : TRUE
  <2>1. first \in Has(id) /\ first \in Item /\ Has(id) # {}
    BY <1>7
  <2>2. changeset_db[id] = Changeset(cvs_item[first].kind, Has(id), cvs_item[first].symbol)
    BY <1>7 DEF SourceChangeset
  <2>3. cvs_item[first].kind \in {"revision", "branch", "tag"} /\ cvs_item[first].symbol \in Nat
    BY <1>3, <2>1 DEF ItemRecord
  <2>4. \A i \in Has(id) : cvs_item[i].kind = cvs_item[first].kind
    BY <1>6, <2>1
  <2> HIDE DEF first
  <2> QED
    BY <2>1, <2>2, <2>3, <2>4 DEF Changeset, ChangesetRecord
<1>9. TypeOK
  <2>1. table \in [Item -> Nat]
    BY <1>5, SourceIdAssumption
  <2>2. DOMAIN changeset_db \subseteq Nat
    BY <1>5, <1>7, SourceIdAssumption
  <2>3. nodes \in [DOMAIN nodes -> [pred_ids : SUBSET DOMAIN nodes,
                                    succ_ids : SUBSET DOMAIN nodes]]
          /\ DOMAIN nodes = {}
    BY DEF Init
  <2> QED
    BY <1>8, <2>1, <2>2, <2>3 DEF TypeOK, Init
<1>10. DbInv
  <2>1. ItemsPartitioned /\ ItemsAlike
    BY <1>7, <1>8 DEF ItemsPartitioned, ItemsAlike
  <2>2. NoInternalDeps
    BY <1>6, <1>8 DEF NoInternalDeps, DependsOn
  <2>3. KeysFresh
    BY DEF KeysFresh, Init
  <2> QED
    BY <2>1, <2>2, <2>3 DEF DbInv
<1>11. GraphInv /\ CycleInv
  BY DEF GraphInv, CycleInv, GraphComplete, GraphMirrorsItems, ConsumedClosed, ReadyExact,
         WalkInOrder, CycleInOrder, OutsideSearch, Loaded, Mirrors, Acyclic, Init
<1> QED
  BY <1>9, <1>10, <1>11 DEF IInv

-----------------------------------------------------------------------------
\* Loading: the new node gets exactly the edges its items call for.
LEMMA LoadChangesetIInv == IInv /\ LoadChangeset => IInv'
<1> SUFFICES ASSUME IInv, LoadChangeset PROVE IInv'
  OBVIOUS
<1> USE DEF IInv, DbInv, GraphInv, CycleInv
<1>1. /\ pc = "load" /\ pc' = "load"
      /\ changeset_db' = changeset_db
      /\ cvs_item_to_changeset_id' = cvs_item_to_changeset_id
      /\ nopred_nodes' = nopred_nodes /\ seen_nodes' = seen_nodes
      /\ consumed' = consumed /\ consumed = {} /\ seen_nodes = <<>>
  BY DEF LoadChangeset, ConsumedClosed, OutsideSearch
<1>2. PICK id \in unread :
        /\ unread' = unread \ {id}
        /\ nodes' = IF changeset_db[id].kind \in Breakable
                    THEN AddNode(nodes, id,
                           CreateGraphNode(changeset_db[id], cvs_item_to_changeset_id))
                    ELSE nodes
        /\ key_base' = IF id >= key_base THEN id + 1 ELSE key_base
  BY DEF LoadChangeset
<1>3. id \in DOMAIN changeset_db /\ id \in Nat /\ key_base \in Nat
  BY DEF TypeOK
<1>4. id \notin DOMAIN nodes
  BY DEF GraphComplete, Loaded
<1>5. IsGraph(nodes) /\ Mirrors(nodes, changeset_db)
  BY DEF TypeOK, IsGraph, GraphMirrorsItems
<1>6. /\ IsGraph(nodes') /\ Mirrors(nodes', changeset_db)
      /\ DOMAIN nodes' = IF changeset_db[id].kind \in Breakable
                         THEN DOMAIN nodes \cup {id} ELSE DOMAIN nodes
  <2>1. CASE changeset_db[id].kind \in Breakable
    <3> DEFINE node == CreateGraphNode(changeset_db[id], cvs_item_to_changeset_id)
    <3>1. changeset_db[id].kind # "ordered"
      BY <2>1, BreakableAssumption
    <3>2. changeset_db[id].items \subseteq Item
      BY <1>3 DEF ItemsPartitioned
    <3>3. TableRight(cvs_item_to_changeset_id, changeset_db, DOMAIN nodes)
      BY DEF TableRight, ItemsPartitioned, TypeOK
    <3>4. \A a \in DOMAIN nodes :
            /\ a \in node.pred_ids <=> DependsOn(changeset_db, id, a)
            /\ a \in node.succ_ids <=> DependsOn(changeset_db, a, id)
      BY <3>1, <3>2, <3>3, CreateGraphNodeExact DEF DependsOn
    <3>5. ~ DependsOn(changeset_db, id, id)
      BY <1>3 DEF NoInternalDeps
    <3>6. nodes' = AddNode(nodes, id, node)
      BY <1>2, <2>1
    <3> HIDE DEF node
    <3>7. IsGraph(nodes') /\ DOMAIN nodes' = DOMAIN nodes \cup {id}
      BY <1>5, <3>6, AddNodeIsGraph
    <3> DEFINE E == DependencyEdges(changeset_db, DOMAIN nodes \cup {id})
    <3>8. \A a, b \in DOMAIN nodes \cup {id} :
            <<a, b>> \in E <=> DependsOn(changeset_db, b, a)
      <4> SUFFICES ASSUME NEW a \in DOMAIN nodes \cup {id}, NEW b \in DOMAIN nodes \cup {id}
                   PROVE  <<a, b>> \in E <=> DependsOn(changeset_db, b, a)
        OBVIOUS
      <4> QED
        BY DEF DependencyEdges
    <3>9. HasEdges(nodes, E)
      BY <1>5, MirrorsIsEdges
    <3> HIDE DEF E
    <3>10. HasEdges(nodes', E)
      BY <1>4, <1>5, <3>4, <3>5, <3>6, <3>8, <3>9, AddNodeEdges
    <3>11. Mirrors(nodes', changeset_db)
      BY <3>7, <3>10, MirrorsIsEdges DEF E
    <3> QED
      BY <2>1, <3>7, <3>11
  <2>2. CASE changeset_db[id].kind \notin Breakable
    BY <1>2, <1>5, <2>2
  <2> QED
    BY <2>1, <2>2
<1>7. TypeOK'
  BY <1>1, <1>2, <1>3, <1>6, EmptySeq DEF TypeOK, IsGraph
<1>8. DbInv'
  <2>1. ItemsPartitioned' /\ ItemsAlike' /\ NoInternalDeps'
    BY <1>1 DEF ItemsPartitioned, ItemsAlike, NoInternalDeps
  <2>2. KeysFresh'
    BY <1>1, <1>2, <1>3 DEF KeysFresh, TypeOK
  <2> QED
    BY <2>1, <2>2
<1>9. GraphInv'
  <2>1. GraphComplete'
    BY <1>1, <1>2, <1>3, <1>6 DEF GraphComplete, Loaded
  <2>2. GraphMirrorsItems'
    BY <1>1, <1>6 DEF GraphMirrorsItems
  <2>3. ConsumedClosed' /\ ReadyExact'
    BY <1>1 DEF ConsumedClosed, ReadyExact, Acyclic
  <2> QED
    BY <2>1, <2>2, <2>3
<1>10. CycleInv'
  BY <1>1 DEF WalkInOrder, CycleInOrder, OutsideSearch
<1> QED
  BY <1>7, <1>8, <1>9, <1>10

\* The graph is complete when the main loop begins.
LEMMA StartConsumingIInv == IInv /\ StartConsuming => IInv'
<1> SUFFICES ASSUME IInv, StartConsuming PROVE IInv'
  OBVIOUS
<1> USE DEF IInv, DbInv, GraphInv, CycleInv
<1>1. TypeOK'
  BY DEF TypeOK, StartConsuming, NoPred
<1>2. DbInv'
  BY DEF StartConsuming, ItemsPartitioned, ItemsAlike, NoInternalDeps, KeysFresh
<1>3. GraphInv'
  BY DEF StartConsuming, GraphComplete, Loaded, GraphMirrorsItems, ConsumedClosed, ReadyExact
<1>4. CycleInv'
  BY DEF StartConsuming, WalkInOrder, CycleInOrder, OutsideSearch
<1> QED
  BY <1>1, <1>2, <1>3, <1>4

\* Consuming a node that has no predecessors left in the graph.
LEMMA ConsumeIInv == IInv /\ Consume => IInv'
<1> SUFFICES ASSUME IInv, Consume PROVE IInv'
  OBVIOUS
<1> USE DEF IInv, DbInv, GraphInv, CycleInv
<1>1. PICK id \in nopred_nodes : ConsumeNode(id) /\ consumed' = consumed \cup {id}
  BY DEF Consume
<1>2. /\ pc = "consume" /\ pc' = "consume"
      /\ changeset_db' = changeset_db
      /\ cvs_item_to_changeset_id' = cvs_item_to_changeset_id
      /\ unread' = unread /\ key_base' = key_base /\ seen_nodes' = seen_nodes
      /\ seen_nodes = <<>>
  BY DEF Consume, OutsideSearch
<1>3. IsGraph(nodes) /\ Mirrors(nodes, changeset_db) /\ nopred_nodes = NoPred(nodes)
  BY <1>2 DEF TypeOK, IsGraph, GraphMirrorsItems, ReadyExact
<1> DEFINE E == DependencyEdges(changeset_db, DOMAIN nodes)
<1>4. HasEdges(nodes, E)
  BY <1>3, MirrorsIsEdges
<1> HIDE DEF E
<1>5. /\ id \in DOMAIN nodes /\ nodes[id].pred_ids = {}
      /\ IsGraph(nodes') /\ DOMAIN nodes' = DOMAIN nodes \ {id}
      /\ HasEdges(nodes', E)
      /\ nopred_nodes' = NoPred(nodes')
  BY <1>1, <1>3, <1>4, ConsumeReady
<1>6. Mirrors(nodes', changeset_db)
  BY <1>5, MirrorsIsEdges DEF E
<1>7. \A n \in DOMAIN nodes : DependsOn(changeset_db, id, n) => FALSE
  BY <1>3, <1>5 DEF Mirrors
<1>8. id \in Loaded /\ id \notin consumed /\ Loaded' = Loaded
  BY <1>2, <1>5 DEF GraphComplete, Loaded
<1>9. TypeOK'
  <2>1. nopred_nodes' \subseteq DOMAIN nodes'
    BY <1>5 DEF NoPred
  <2>2. seen_nodes' \in Seq(DOMAIN nodes')
    BY <1>2, EmptySeq
  <2> QED
    BY <1>1, <1>2, <1>5, <1>8, <2>1, <2>2 DEF TypeOK, IsGraph, Loaded
<1>10. DbInv'
  BY <1>2 DEF ItemsPartitioned, ItemsAlike, NoInternalDeps, KeysFresh
<1>11. ConsumedClosed'
  <2>1. \A a \in Loaded : DependsOn(changeset_db, id, a) => a \in consumed
    BY <1>7 DEF GraphComplete
  <2>2. \A b \in consumed : ~ DependsOn(changeset_db, b, id)
    BY <1>8 DEF ConsumedClosed
  <2>3. ~ DependsOn(changeset_db, id, id)
    BY <1>8 DEF NoInternalDeps, Loaded
  <2>4. Acyclic(changeset_db, consumed \cup {id})
    BY <2>2, <2>3, AcyclicExtend DEF ConsumedClosed
  <2> QED
    BY <1>1, <1>2, <1>8, <2>1, <2>4 DEF ConsumedClosed
<1>12. GraphInv'
  BY <1>1, <1>2, <1>5, <1>6, <1>8, <1>11
  DEF GraphComplete, GraphMirrorsItems, ReadyExact
<1>13. CycleInv'
  BY <1>2 DEF WalkInOrder, CycleInOrder, OutsideSearch
<1> QED
  BY <1>9, <1>10, <1>12, <1>13

\* The heap is empty: the graph has no node without predecessors.
LEMMA StartWalkIInv == IInv /\ StartWalk => IInv'
<1> SUFFICES ASSUME IInv, StartWalk PROVE IInv'
  OBVIOUS
<1> USE DEF IInv, DbInv, GraphInv, CycleInv
<1>1. PICK n \in DOMAIN nodes : seen_nodes' = <<n>>
  BY DEF StartWalk
<1>2. pc = "consume" /\ pc' = "walk" /\ NoPred(nodes) = {}
  BY DEF StartWalk, ReadyExact
<1>3. UNCHANGED <<changeset_db, cvs_item_to_changeset_id, nodes, nopred_nodes,
                  unread, key_base, consumed>>
  BY DEF StartWalk, graph_vars
<1>4. TypeOK'
  BY <1>1, <1>2, <1>3 DEF TypeOK
<1>5. DbInv'
  BY <1>2, <1>3 DEF ItemsPartitioned, ItemsAlike, NoInternalDeps, KeysFresh
<1>6. GraphInv'
  BY <1>2, <1>3 DEF GraphComplete, Loaded, GraphMirrorsItems, ConsumedClosed, ReadyExact
<1>7. CycleInv'
  BY <1>1, <1>2 DEF WalkInOrder, CycleInOrder, OutsideSearch
<1> QED
  BY <1>4, <1>5, <1>6, <1>7

\* The part of the walk from the second visit of a node back to the first,
\* reversed, is a cycle in dependency order.
LEMMA WalkIsCycle ==
  ASSUME NEW S, NEW s \in Seq(S), NEW k \in DOMAIN s, NEW N,
         \A m \in 1..(Len(s) - 1) : s[m + 1] \in N[s[m]].pred_ids,
         s[k] \in N[s[Len(s)]].pred_ids,
         NEW c, c = Reverse(SubSeq(s, k, Len(s)))
  PROVE  /\ c \in Seq(S) /\ c # <<>>
         /\ \A m \in DOMAIN c : c[Before(c, m)] \in N[c[m]].pred_ids
<1>1. Len(s) \in Nat /\ k \in 1..Len(s)
  OBVIOUS
<1> DEFINE t == SubSeq(s, k, Len(s))
           n == Len(s) - k + 1
<1>2. n \in Nat /\ n >= 1
  BY <1>1
<1>3. /\ t \in Seq(S) /\ Len(t) = n
      /\ \A m \in 1..n : t[m] = s[k + m - 1]
  BY <1>1, SubSeqProperties
<1> HIDE DEF t
<1>4. c = [m \in 1..n |-> t[n - m + 1]]
  BY <1>3 DEF Reverse, t
<1>5. c \in Seq(S) /\ Len(c) = n /\ DOMAIN c = 1..n
  <2>1. \A m \in 1..n : n - m + 1 \in 1..n
    BY <1>2
  <2>2. \A m \in 1..n : t[m] \in S
    BY <1>3, ElementOfSeq
  <2>3. c \in [1..n -> S]
    BY <1>4, <2>1, <2>2
  <2>4. c \in Seq(S)
    BY <1>2, <2>3, SeqDef
  <2> QED
    BY <1>2, <2>3, <2>4, LenProperties
<1>6. ASSUME NEW m \in 1..n PROVE c[m] = s[Len(s) - m + 1]
  <2> DEFINE p == n - m + 1
  <2>1. p \in 1..n /\ c[m] = t[p]
    BY <1>2, <1>4
  <2>2. k + p - 1 = Len(s) - m + 1
    BY <1>1
  <2> HIDE DEF p
  <2>3. t[p] = s[k + p - 1]
    BY <1>3, <2>1
  <2> QED
    BY <2>1, <2>2, <2>3
<1>7. ASSUME NEW m \in 1..n PROVE c[Before(c, m)] \in N[c[m]].pred_ids
  <2>1. CASE m = 1
    <3>1. c[Before(c, m)] = s[k] /\ c[m] = s[Len(s)]
      BY <1>1, <1>2, <1>5, <1>6, <2>1 DEF Before
    <3> QED
      BY <3>1
  <2>2. CASE m # 1
    <3> DEFINE p == Len(s) - m + 1
    <3>1. p \in 1..(Len(s) - 1)
      BY <1>1, <2>2
    <3>2. c[m] = s[p] /\ c[Before(c, m)] = s[p + 1]
      BY <1>1, <1>6, <2>2 DEF Before
    <3> HIDE DEF p
    <3> QED
      BY <3>1, <3>2
  <2> QED
    BY <2>1, <2>2
<1> QED
  BY <1>2, <1>5, <1>7

\* One step back along a path of predecessors.
LEMMA WalkBackIInv == IInv /\ WalkBack => IInv'
<1> SUFFICES ASSUME IInv, WalkBack PROVE IInv'
  OBVIOUS
<1> USE DEF IInv, DbInv, GraphInv, CycleInv
<1>1. pc = "walk" /\ pc' \in {"walk", "break"}
  BY DEF WalkBack
<1>2. UNCHANGED <<changeset_db, cvs_item_to_changeset_id, nodes, nopred_nodes,
                  unread, key_base, consumed>>
  BY DEF WalkBack, graph_vars
<1>3. /\ seen_nodes \in Seq(DOMAIN nodes) /\ seen_nodes # <<>>
      /\ \A k \in 1..(Len(seen_nodes) - 1) :
           seen_nodes[k + 1] \in nodes[seen_nodes[k]].pred_ids
  BY <1>1 DEF TypeOK, WalkInOrder
<1>4. PICK n \in nodes[seen_nodes[Len(seen_nodes)]].pred_ids :
        \/ seen_nodes' = Append(seen_nodes, n) /\ pc' = "walk"
        \/ \E k \in DOMAIN seen_nodes :
             /\ seen_nodes[k] = n
             /\ seen_nodes' = Reverse(SubSeq(seen_nodes, k, Len(seen_nodes)))
             /\ pc' = "break"
  BY <1>1 DEF WalkBack, Last
<1>5. n \in DOMAIN nodes
  <2>1. seen_nodes[Len(seen_nodes)] \in DOMAIN nodes
    BY <1>3
  <2> QED
    BY <2>1 DEF TypeOK
<1>6. seen_nodes' \in Seq(DOMAIN nodes) /\ CycleInv'
  <2>1. CASE seen_nodes' = Append(seen_nodes, n) /\ pc' = "walk"
    <3>1. seen_nodes' \in Seq(DOMAIN nodes) /\ Len(seen_nodes') = Len(seen_nodes) + 1
      BY <1>3, <1>5, <2>1
    <3>2. \A k \in 1..Len(seen_nodes) : seen_nodes'[k] = seen_nodes[k]
      BY <1>3, <2>1
    <3>3. seen_nodes'[Len(seen_nodes) + 1] = n
      BY <1>3, <2>1
    <3>4. ASSUME NEW k \in 1..(Len(seen_nodes') - 1)
          PROVE  seen_nodes'[k + 1] \in nodes[seen_nodes'[k]].pred_ids
      <4>1. CASE k = Len(seen_nodes)
        BY <1>3, <1>4, <3>2, <3>3, <4>1
      <4>2. CASE k # Len(seen_nodes)
        <5>1. k \in 1..(Len(seen_nodes) - 1) /\ k + 1 \in 1..Len(seen_nodes)
          BY <1>3, <3>1, <4>2
        <5> QED
          BY <1>3, <3>2, <5>1
      <4> QED
        BY <4>1, <4>2
    <3> QED
      BY <1>2, <1>3, <2>1, <3>1, <3>4 DEF WalkInOrder, CycleInOrder, OutsideSearch
  <2>2. CASE pc' = "break"
    <3>1. PICK k \in DOMAIN seen_nodes :
            /\ seen_nodes[k] = n
            /\ seen_nodes' = Reverse(SubSeq(seen_nodes, k, Len(seen_nodes)))
      BY <1>4, <2>2
    <3>2. /\ seen_nodes' \in Seq(DOMAIN nodes) /\ seen_nodes' # <<>>
          /\ \A m \in DOMAIN seen_nodes' :
               seen_nodes'[Before(seen_nodes', m)] \in nodes[seen_nodes'[m]].pred_ids
      BY <1>3, <1>4, <3>1, WalkIsCycle
    <3> QED
      BY <1>2, <2>2, <3>2 DEF WalkInOrder, CycleInOrder, OutsideSearch
  <2> QED
    BY <1>4, <2>1, <2>2
<1>7. TypeOK'
  BY <1>1, <1>2, <1>6 DEF TypeOK
<1>8. DbInv'
  BY <1>1, <1>2 DEF ItemsPartitioned, ItemsAlike, NoInternalDeps, KeysFresh
<1>9. GraphInv'
  BY <1>1, <1>2 DEF GraphComplete, Loaded, GraphMirrorsItems, ConsumedClosed, ReadyExact
<1> QED
  BY <1>6, <1>7, <1>8, <1>9

\* The main loop ends when the graph is empty.
LEMMA FinishIInv == IInv /\ Finish => IInv'
<1> SUFFICES ASSUME IInv, Finish PROVE IInv'
  OBVIOUS
<1> USE DEF IInv, DbInv, GraphInv, CycleInv
<1>1. TypeOK'
  BY DEF TypeOK, Finish, graph_vars
<1>2. DbInv'
  BY DEF Finish, graph_vars, ItemsPartitioned, ItemsAlike, NoInternalDeps, KeysFresh
<1>3. GraphInv'
  BY DEF Finish, graph_vars, GraphComplete, Loaded, GraphMirrorsItems, ConsumedClosed, ReadyExact
<1>4. CycleInv'
  BY DEF Finish, graph_vars, WalkInOrder, CycleInOrder, OutsideSearch
<1> QED
  BY <1>1, <1>2, <1>3, <1>4

-----------------------------------------------------------------------------
\* Around a cycle every changeset has an item tied to the changeset before it
\* and one tied to the changeset after it.
LEMMA CycleLinkTied ==
  ASSUME IInv, pc = "break", NEW k \in DOMAIN seen_nodes
  PROVE  LET link == CycleLink(seen_nodes, k) IN
         /\ seen_nodes[k] \in DOMAIN nodes
         /\ link.items = changeset_db[seen_nodes[k]].items
         /\ link.items \subseteq Item
         /\ \E i \in link.items : TiedToPred(link, i)
         /\ \E i \in link.items : TiedToSucc(link, i)
<1> USE DEF IInv, DbInv, GraphInv, CycleInv
<1> DEFINE link == CycleLink(seen_nodes, k)
           p == Before(seen_nodes, k)
           n == After(seen_nodes, k)
<1>1. /\ seen_nodes \in Seq(DOMAIN nodes)
      /\ k \in 1..Len(seen_nodes) /\ Len(seen_nodes) \in Nat
  BY DEF TypeOK
<1>2. /\ p \in DOMAIN seen_nodes /\ n \in DOMAIN seen_nodes
      /\ Before(seen_nodes, n) = k
  BY <1>1 DEF Before, After
<1>3. \A m \in DOMAIN seen_nodes :
        /\ seen_nodes[m] \in DOMAIN nodes
        /\ changeset_db[seen_nodes[m]].items \subseteq Item
  BY <1>1, ElementOfSeq DEF TypeOK, ItemsPartitioned
<1>4. /\ seen_nodes[p] \in nodes[seen_nodes[k]].pred_ids
      /\ seen_nodes[k] \in nodes[seen_nodes[n]].pred_ids
  BY <1>2 DEF CycleInOrder
<1>5. /\ DependsOn(changeset_db, seen_nodes[k], seen_nodes[p])
      /\ DependsOn(changeset_db, seen_nodes[n], seen_nodes[k])
  BY <1>2, <1>3, <1>4 DEF GraphMirrorsItems, Mirrors
<1>6. /\ link.pred = changeset_db[seen_nodes[p]].items
      /\ link.items = changeset_db[seen_nodes[k]].items
      /\ link.succ = changeset_db[seen_nodes[n]].items
  BY DEF CycleLink, Link
<1>7. \E i \in link.items : TiedToPred(link, i)
  BY <1>5, <1>6 DEF DependsOn, TiedToPred
<1>8. \E i \in link.items : TiedToSucc(link, i)
  <2>1. PICK i \in link.succ, j \in link.items : j \in GetPredIds(i)
    BY <1>5, <1>6 DEF DependsOn
  <2>2. i \in GetSuccIds(j)
    BY <1>2, <1>3, <1>6, <2>1, PredSuccInverse
  <2> QED
    BY <2>1, <2>2 DEF TiedToSucc
<1> HIDE DEF link
<1>9. /\ seen_nodes[k] \in DOMAIN nodes
      /\ link.items = changeset_db[seen_nodes[k]].items
      /\ link.items \subseteq Item
  BY <1>3, <1>6
<1> QED
  BY <1>7, <1>8, <1>9 DEF link

\* The fragments take the place of the broken changeset in both databases and
\* in the graph, where add_new_changeset() ties in the first fragment while
\* the item table still sends its items to the broken changeset.
LEMMA BreakCycleIInv == IInv /\ BreakCycle => IInv'
<1> SUFFICES ASSUME IInv, BreakCycle PROVE IInv'
  OBVIOUS
<1> USE DEF IInv, DbInv, GraphInv, CycleInv
<1>1. PICK k \in DOMAIN seen_nodes :
        /\ IsBreakable(CycleLink(seen_nodes, k))
        /\ ReplaceChangeset(seen_nodes[k], PredItems(CycleLink(seen_nodes, k)),
                            SuccItems(CycleLink(seen_nodes, k)), key_base)
  BY DEF BreakCycle
<1> DEFINE old    == seen_nodes[k]
           first  == PredItems(CycleLink(seen_nodes, k))
           second == SuccItems(CycleLink(seen_nodes, k))
           key    == key_base
           db     == changeset_db
           db2    == changeset_db'
<1>2. /\ pc = "break" /\ pc' = "consume" /\ seen_nodes' = <<>>
      /\ key_base' = key + 2 /\ nopred_nodes' = NoPred(nodes')
      /\ unread' = unread /\ unread = {} /\ consumed' = consumed
  BY DEF BreakCycle, KeysFresh
<1>3. /\ old \in DOMAIN nodes
      /\ first \cup second = db[old].items /\ first \cap second = {}
      /\ first # {} /\ second # {}
  BY <1>1, <1>2, CycleLinkTied, SplitIsProper
<1>4. ReplaceChangeset(old, first, second, key)
  BY <1>1
<1> HIDE DEF old, first, second
<1>5. /\ old \in DOMAIN db /\ old \notin consumed /\ old \in Nat
      /\ db[old] \in ChangesetRecord /\ db[old].kind \in Breakable
  BY <1>3 DEF TypeOK, GraphComplete, Loaded
<1>6. /\ key \in Nat /\ key + 1 \in Nat /\ key # key + 1
      /\ key \notin DOMAIN db /\ key + 1 \notin DOMAIN db
  BY <1>2 DEF TypeOK, KeysFresh
<1>7. MayReplace(old, first, second, key)
  BY <1>3, <1>5, <1>6 DEF MayReplace, Partitioned, TypeOK, ItemsPartitioned
<1>8. Replaced(old, first, second, key) /\ Partitioned(db2, cvs_item_to_changeset_id')
  BY <1>4, <1>7, ReplaceEffect, Zenon
<1>9. /\ DOMAIN db2 = (DOMAIN db \ {old}) \cup {key, key + 1}
      /\ \A id \in {key, key + 1} :
           /\ db2[id] \in ChangesetRecord /\ db2[id].kind = db[old].kind
           /\ db2[id].items \subseteq db[old].items
      /\ \A id \in DOMAIN db \ {old} : db2[id] = db[id]
  BY <1>8 DEF Replaced
<1>10. ItemsPartitioned'
  BY <1>8 DEF Partitioned, ItemsPartitioned
<1>11. ItemsAlike' /\ NoInternalDeps'
  BY <1>3, <1>5, <1>9 DEF ItemsAlike, NoInternalDeps, DependsOn
<1>12. KeysFresh'
  BY <1>2, <1>6, <1>9 DEF KeysFresh, TypeOK
<1>13. IsGraph(nodes) /\ DOMAIN nodes \subseteq DOMAIN db /\ ~ DependsOn(db, old, old)
  BY <1>5 DEF TypeOK, IsGraph, NoInternalDeps
<1> DEFINE X == DOMAIN nodes \cup {key, key + 1}
           E2 == {p \in X \X X : IF p[1] = old \/ p[2] = old THEN DependsOn(db, p[2], p[1])
                                 ELSE DependsOn(db2, p[2], p[1])}
<1>14. ASSUME NEW a \in X, NEW b \in X
       PROVE  <<a, b>> \in E2 <=> IF a = old \/ b = old THEN DependsOn(db, b, a)
                                  ELSE DependsOn(db2, b, a)
  OBVIOUS
<1>15. HasEdges(nodes, E2)
  <2> SUFFICES ASSUME NEW a \in DOMAIN nodes, NEW b \in DOMAIN nodes
               PROVE  <<a, b>> \in E2 <=> DependsOn(db, b, a)
    BY DEF HasEdges, GraphMirrorsItems, Mirrors
  <2>1. a \in X /\ b \in X
    OBVIOUS
  <2>2. a # old /\ b # old => db2[a] = db[a] /\ db2[b] = db[b]
    BY <1>9, <1>13
  <2> HIDE DEF E2, X, db2
  <2> QED
    BY <1>14, <2>1, <2>2 DEF DependsOn
<1>16. \A a \in (DOMAIN nodes \ {old}) \cup {key, key + 1}, b \in {key, key + 1} :
         /\ <<a, b>> \in E2 <=> DependsOn(db2, b, a)
         /\ <<b, a>> \in E2 <=> DependsOn(db2, a, b)
  <2>1. key # old /\ key + 1 # old
    BY <1>5, <1>6
  <2> HIDE DEF E2, db2
  <2> QED
    BY <1>14, <2>1
<1> HIDE DEF E2
<1>17. db[old].kind # "ordered"
  BY <1>5, BreakableAssumption
<1>18. /\ IsGraph(nodes') /\ DOMAIN nodes' = (DOMAIN nodes \ {old}) \cup {key, key + 1}
       /\ HasEdges(nodes', E2)
  BY <1>3, <1>4, <1>7, <1>13, <1>15, <1>16, <1>17, ReplaceEdges
<1>19. Mirrors(nodes', db2)
  <2> SUFFICES ASSUME NEW a \in DOMAIN nodes', NEW b \in DOMAIN nodes'
               PROVE  <<a, b>> \in E2 <=> DependsOn(db2, b, a)
    BY <1>18 DEF HasEdges, Mirrors
  <2>1. a \in X /\ b \in X /\ a # old /\ b # old
    BY <1>5, <1>6, <1>18
  <2> HIDE DEF X, db2
  <2> QED
    BY <1>14, <2>1
<1>20. TypeOK'
  <2>1. \A id \in DOMAIN db2 : id \in Nat /\ db2[id] \in ChangesetRecord
    BY <1>6, <1>9 DEF TypeOK
  <2>2. cvs_item_to_changeset_id' \in [Item -> Nat]
    BY <1>8, <2>1 DEF Partitioned
  <2>3. DOMAIN nodes' \subseteq DOMAIN db2
    BY <1>9, <1>13, <1>18
  <2>4. nopred_nodes' \subseteq DOMAIN nodes' /\ consumed' \subseteq DOMAIN db2
    BY <1>2, <1>5, <1>9 DEF NoPred, TypeOK
  <2>5. seen_nodes' \in Seq(DOMAIN nodes') /\ key_base' \in Nat
    BY <1>2, <1>6, EmptySeq
  <2> QED
    BY <1>2, <1>18, <2>1, <2>2, <2>3, <2>4, <2>5 DEF TypeOK, IsGraph
<1>21. Loaded' = (Loaded \ {old}) \cup {key, key + 1}
  BY <1>2, <1>5, <1>6, <1>9 DEF Loaded
<1>22. GraphComplete'
  BY <1>2, <1>5, <1>6, <1>13, <1>18, <1>21 DEF GraphComplete, TypeOK
<1>23. ConsumedClosed'
  <2>1. \A b \in consumed : b \in DOMAIN db /\ db2[b].items = db[b].items
    BY <1>5, <1>9 DEF TypeOK
  <2>2. consumed \subseteq Loaded'
    <3>1. consumed \subseteq Loaded
      BY DEF ConsumedClosed
    <3> QED
      BY <1>5, <1>21, <3>1
  <2>3. ASSUME NEW b \in consumed, NEW a \in Loaded', DependsOn(db2, b, a)
        PROVE  a \in consumed
    <3>1. CASE a \in Loaded \ {old}
      <4>1. DependsOn(db, b, a)
        BY <1>9, <2>1, <2>3, <3>1 DEF DependsOn, Loaded
      <4> QED
        BY <3>1, <4>1 DEF ConsumedClosed
    <3>2. CASE a \in {key, key + 1}
      <4>1. DependsOn(db, b, old)
        BY <1>3, <1>9, <2>1, <2>3, <3>2 DEF DependsOn
      <4>2. old \in Loaded
        BY <1>2, <1>5 DEF Loaded
      <4> QED
        BY <1>5, <4>1, <4>2 DEF ConsumedClosed
    <3> QED
      BY <1>21, <3>1, <3>2
  <2>4. Acyclic(db2, consumed)
    BY <2>1, AcyclicSameItems DEF ConsumedClosed
  <2>5. consumed' = consumed /\ pc' # "load"
    BY <1>2
  <2> HIDE DEF Loaded
  <2> QED
    BY <2>2, <2>3, <2>4, <2>5 DEF ConsumedClosed
<1>24. ReadyExact' /\ GraphMirrorsItems'
  BY <1>2, <1>19 DEF ReadyExact, GraphMirrorsItems
<1>25. CycleInv'
  BY <1>2 DEF WalkInOrder, CycleInOrder, OutsideSearch
<1> QED
  BY <1>10, <1>11, <1>12, <1>20, <1>22, <1>23, <1>24, <1>25

-----------------------------------------------------------------------------
\* One turn of any of the loops.
LEMMA NextIInv == IInv /\ [Next]_vars => IInv'
<1> SUFFICES ASSUME IInv, [Next]_vars PROVE IInv'
  OBVIOUS
<1>1. CASE UNCHANGED vars
  BY <1>1
  DEF vars, graph_vars, IInv, TypeOK, DbInv, ItemsPartitioned, ItemsAlike, NoInternalDeps,
      KeysFresh, GraphInv, GraphComplete, Loaded, GraphMirrorsItems, ConsumedClosed,
      ReadyExact, CycleInv, WalkInOrder, CycleInOrder, OutsideSearch
<1>2. CASE Next
  <2>1. CASE Terminated
    BY <1>1, <2>1 DEF Terminated
  <2> QED
    BY <1>2, <2>1, LoadChangesetIInv, StartConsumingIInv, ConsumeIInv, StartWalkIInv,
       WalkBackIInv, BreakCycleIInv, FinishIInv DEF Next
<1> QED
  BY <1>1, <1>2

\* The inductive invariant holds in every behaviour of the pass.
THEOREM Invariance == Spec => []IInv
<1>1. Init => IInv
  BY InitIInv
<1>2. IInv /\ [Next]_vars => IInv'
  BY NextIInv
<1> QED
  BY <1>1, <1>2, PTL DEF Spec

\* Type correctness, for every item database.
THEOREM TypeCorrect == Spec => []TypeOK
<1>1. IInv => TypeOK
  BY DEF IInv
<1> QED
  BY <1>1, Invariance, PTL

\* No item is ever lost, duplicated, or assigned to the wrong changeset by the
\* item table, and no changeset is empty.
THEOREM NoItemLost == Spec => []ItemsPartitioned
<1>1. IInv => ItemsPartitioned
  BY DEF IInv, DbInv
<1> QED
  BY <1>1, Invariance, PTL

\* The edges of the graph are always those the items call for; find_cycle()
\* never meets a node without predecessors, and consume_graph() never overlooks
\* one.
THEOREM GraphIsExact == Spec => []GraphExact
<1>1. IInv => GraphExact
  BY DEF IInv, GraphInv, GraphExact
<1> QED
  BY <1>1, Invariance, PTL

\* find_cycle() returns a cycle, in dependency order.
THEOREM CycleIsOrdered == Spec => []CycleInOrder
<1>1. IInv => CycleInOrder
  BY DEF IInv, CycleInv
<1> QED
  BY <1>1, Invariance, PTL

\* In every cycle there is a link that can be broken: following items tied to
\* both neighbours back around the cycle would never reach the root of a file.
LEMMA SomeLinkBreakable ==
  ASSUME IInv, pc = "break"
  PROVE  \E k \in DOMAIN seen_nodes : IsBreakable(CycleLink(seen_nodes, k))
<1> USE DEF IInv, DbInv, GraphInv, CycleInv
<1> SUFFICES ASSUME \A k \in DOMAIN seen_nodes : ~ IsBreakable(CycleLink(seen_nodes, k))
             PROVE  FALSE
  OBVIOUS
<1> DEFINE link(k) == CycleLink(seen_nodes, k)
           Tied == {i \in Item : \E k \in DOMAIN seen_nodes :
                      i \in link(k).items /\ TiedToPred(link(k), i)}
<1>1. /\ seen_nodes \in Seq(DOMAIN nodes) /\ seen_nodes # <<>>
      /\ Len(seen_nodes) \in Nat /\ DOMAIN seen_nodes = 1..Len(seen_nodes)
      /\ 1 \in DOMAIN seen_nodes
  BY DEF TypeOK, CycleInOrder
<1>2. \A k \in DOMAIN seen_nodes :
        /\ link(k).items \subseteq Item
        /\ \E i \in link(k).items : TiedToPred(link(k), i)
  BY CycleLinkTied
<1>3. Tied # {}
  BY <1>1, <1>2
<1>4. PICK i \in Tied : GetPredIds(i) \cap Tied = {}
  BY <1>3, ItemsWellFounded
<1>5. PICK k \in DOMAIN seen_nodes : i \in link(k).items /\ TiedToPred(link(k), i)
  OBVIOUS
<1> DEFINE p == Before(seen_nodes, k)
<1>6. p \in DOMAIN seen_nodes /\ After(seen_nodes, p) = k
  BY <1>1 DEF Before, After
<1>7. /\ link(p).items = changeset_db[seen_nodes[p]].items
      /\ link(p).succ = changeset_db[seen_nodes[k]].items
      /\ link(k).pred = changeset_db[seen_nodes[p]].items
      /\ link(k).items = changeset_db[seen_nodes[k]].items
  BY <1>6 DEF CycleLink, Link
<1> HIDE DEF p
<1>8. PICK j \in link(p).items : j \in GetPredIds(i)
  BY <1>5, <1>7 DEF TiedToPred
<1>9. j \in Item /\ i \in GetSuccIds(j)
  BY <1>2, <1>6, <1>8, PredSuccInverse
<1>10. TiedToSucc(link(p), j)
  BY <1>5, <1>7, <1>9 DEF TiedToSucc
<1>11. TiedToPred(link(p), j)
  BY <1>2, <1>6, <1>8, <1>10, UnbreakableLink
<1>12. j \in Tied
  BY <1>6, <1>8, <1>9, <1>11
<1> QED
  BY <1>4, <1>8, <1>12

\* break_changeset() never raises ValueError: the link that break_cycle()
\* prefers can be broken.
THEOREM NeverUnbreakable == Spec => []ChosenLinkBreakable
<1>1. IInv => ChosenLinkBreakable
  BY SomeLinkBreakable DEF ChosenLinkBreakable, IsBestLink, BetterLink
<1> QED
  BY <1>1, Invariance, PTL

\* The changesets the pass leaves have no dependency cycle, whatever items and
\* groups it started from.
THEOREM AcyclicInTheEnd == Spec => []AcyclicWhenDone
<1>1. IInv => AcyclicWhenDone
  <2> SUFFICES ASSUME IInv, pc = "done"
               PROVE  Acyclic(changeset_db,
                        {id \in DOMAIN changeset_db : changeset_db[id].kind \in Breakable})
    BY DEF AcyclicWhenDone
  <2>1. DOMAIN nodes = {} /\ unread = {}
    BY DEF IInv, CycleInv, OutsideSearch, DbInv, KeysFresh
  <2>2. consumed = Loaded
    BY <2>1 DEF IInv, GraphInv, GraphComplete, ConsumedClosed
  <2>3. Loaded = {id \in DOMAIN changeset_db : changeset_db[id].kind \in Breakable}
    BY <2>1 DEF Loaded
  <2> QED
    BY <2>2, <2>3 DEF IInv, GraphInv, ConsumedClosed
<1> QED
  BY <1>1, Invariance, PTL

-----------------------------------------------------------------------------
\* What a break does to the changeset database.
LEMMA BreakCycleEffect ==
  ASSUME IInv, BreakCycle
  PROVE  \E old \in DOMAIN nodes, first, second \in SUBSET Item :
           /\ old \in DOMAIN changeset_db /\ old \notin consumed
           /\ first \cup second = changeset_db[old].items
           /\ first \cap second = {} /\ first # {} /\ second # {}
           /\ DOMAIN changeset_db' = (DOMAIN changeset_db \ {old}) \cup {key_base, key_base + 1}
           /\ changeset_db'[key_base] = CreateSplitChangeset(changeset_db[old], first)
           /\ changeset_db'[key_base + 1] = CreateSplitChangeset(changeset_db[old], second)
           /\ \A id \in DOMAIN changeset_db \ {old} : changeset_db'[id] = changeset_db[id]
<1> USE DEF IInv, DbInv, GraphInv, CycleInv
<1>1. PICK k \in DOMAIN seen_nodes :
        /\ IsBreakable(CycleLink(seen_nodes, k))
        /\ ReplaceChangeset(seen_nodes[k], PredItems(CycleLink(seen_nodes, k)),
                            SuccItems(CycleLink(seen_nodes, k)), key_base)
  BY DEF BreakCycle
<1> DEFINE old    == seen_nodes[k]
           first  == PredItems(CycleLink(seen_nodes, k))
           second == SuccItems(CycleLink(seen_nodes, k))
<1>2. pc = "break" /\ unread = {}
  BY DEF BreakCycle, KeysFresh
<1>3. /\ old \in DOMAIN nodes
      /\ first \cup second = changeset_db[old].items /\ first \cap second = {}
      /\ first # {} /\ second # {} /\ first \in SUBSET Item /\ second \in SUBSET Item
  BY <1>1, <1>2, CycleLinkTied, SplitIsProper
<1>4. changeset_db' =
        [id \in (DOMAIN changeset_db \ {old}) \cup {key_base, key_base + 1} |->
           IF id = key_base THEN CreateSplitChangeset(changeset_db[old], first)
           ELSE IF id = key_base + 1 THEN CreateSplitChangeset(changeset_db[old], second)
           ELSE changeset_db[id]]
  BY <1>1 DEF ReplaceChangeset
<1> HIDE DEF old, first, second
<1>5. old \in DOMAIN changeset_db /\ old \notin consumed
  BY <1>3 DEF TypeOK, GraphComplete
<1>6. /\ key_base # key_base + 1
      /\ key_base \notin DOMAIN changeset_db /\ key_base + 1 \notin DOMAIN changeset_db
  BY <1>2 DEF TypeOK, KeysFresh
<1>7. /\ DOMAIN changeset_db' = (DOMAIN changeset_db \ {old}) \cup {key_base, key_base + 1}
      /\ changeset_db'[key_base] = CreateSplitChangeset(changeset_db[old], first)
      /\ changeset_db'[key_base + 1] = CreateSplitChangeset(changeset_db[old], second)
      /\ \A id \in DOMAIN changeset_db \ {old} : changeset_db'[id] = changeset_db[id]
  BY <1>4, <1>6
<1> QED
  BY <1>3, <1>5, <1>7

\* Only BreakCycle writes the changeset database.
LEMMA DbUnchanged ==
  ASSUME [Next]_vars, ~ BreakCycle
  PROVE  changeset_db' = changeset_db
BY DEF Next, vars, graph_vars, LoadChangeset, StartConsuming, Consume, StartWalk, WalkBack,
       Finish, Terminated

\* A step changes nothing in the changeset database but to replace one
\* changeset, never a consumed one, by two proper parts of it.
THEOREM SplitsOnly == Spec => OnlySplitsSpec
<1>1. IInv /\ [Next]_vars => [OnlySplits]_vars
  <2> SUFFICES ASSUME IInv, [Next]_vars PROVE OnlySplits
    OBVIOUS
  <2>1. CASE BreakCycle
    <3>1. PICK old \in DOMAIN nodes, first, second \in SUBSET Item :
           /\ old \in DOMAIN changeset_db /\ old \notin consumed
           /\ first \cup second = changeset_db[old].items
           /\ first \cap second = {} /\ first # {} /\ second # {}
           /\ DOMAIN changeset_db' = (DOMAIN changeset_db \ {old}) \cup {key_base, key_base + 1}
           /\ changeset_db'[key_base] = CreateSplitChangeset(changeset_db[old], first)
           /\ changeset_db'[key_base + 1] = CreateSplitChangeset(changeset_db[old], second)
           /\ \A id \in DOMAIN changeset_db \ {old} : changeset_db'[id] = changeset_db[id]
      BY <2>1, BreakCycleEffect
    <3>2. key_base # old /\ key_base + 1 # old
      <4>1. unread = {}
        BY <2>1 DEF BreakCycle, IInv, DbInv, KeysFresh
      <4>2. old \in Nat /\ key_base \in Nat /\ old < key_base
        BY <3>1, <4>1 DEF IInv, TypeOK, DbInv, KeysFresh
      <4> QED
        BY <4>2
    <3>3. /\ DOMAIN changeset_db \ DOMAIN changeset_db' = {old}
          /\ DOMAIN changeset_db' \ DOMAIN changeset_db \subseteq {key_base, key_base + 1}
      BY <3>1, <3>2
    <3>4. \A S \in {first, second} :
            /\ CreateSplitChangeset(changeset_db[old], S).kind = changeset_db[old].kind
            /\ CreateSplitChangeset(changeset_db[old], S).symbol = changeset_db[old].symbol
            /\ CreateSplitChangeset(changeset_db[old], S).items \subseteq changeset_db[old].items
            /\ CreateSplitChangeset(changeset_db[old], S).items # changeset_db[old].items
      BY <3>1 DEF CreateSplitChangeset, Changeset
    <3> QED
      BY <3>1, <3>3, <3>4 DEF OnlySplits
  <2>2. CASE ~ BreakCycle
    BY <2>2, DbUnchanged DEF OnlySplits
  <2> QED
    BY <2>1, <2>2
<1> QED
  BY <1>1, Invariance, PTL DEF Spec, OnlySplitsSpec

\* The safety half of the refinement: items are emitted in dependency order.
THEOREM EmitsInOrder == Spec => Order!Safety
<1> DEFINE Work      == {i \in Item : cvs_item[i].kind \in Breakable}
           Preds     == [i \in Item |-> GetPredIds(i)]
           committed == UNION {changeset_db[id].items : id \in consumed}
<1>1. Init => Order!Init
  BY DEF Init, Order!Init
<1>2. IInv /\ IInv' /\ [Next]_vars => [Order!Commit]_<<Work, Preds, committed>>
  <2> SUFFICES ASSUME IInv, IInv', [Next]_vars
               PROVE  Order!Commit \/ committed' = committed
    OBVIOUS
  <2> USE DEF IInv, DbInv, GraphInv, CycleInv
  <2>1. CASE Consume
    <3>1. PICK id \in nopred_nodes : consumed' = consumed \cup {id}
      BY <2>1 DEF Consume
    <3>2. /\ changeset_db' = changeset_db /\ unread = {} /\ unread' = {}
          /\ id \in Loaded /\ id \notin consumed /\ Loaded' = Loaded
      BY <2>1, <3>1 DEF Consume, TypeOK, KeysFresh, GraphComplete, Loaded
    <3> DEFINE S == changeset_db[id].items
    <3>3. committed' = committed \cup S
      BY <3>1, <3>2
    <3>4. S # {} /\ S \subseteq Work
      BY <3>2 DEF Loaded, ItemsPartitioned, ItemsAlike
    <3>5. S \cap committed = {}
      BY <3>2 DEF ConsumedClosed, Loaded, ItemsPartitioned
    <3>6. ASSUME NEW i \in S, NEW j \in GetPredIds(i) \cap Work
          PROVE  j \in committed
      <4> DEFINE a == cvs_item_to_changeset_id[j]
      <4>1. a \in DOMAIN changeset_db /\ j \in changeset_db[a].items
        BY DEF TypeOK, ItemsPartitioned
      <4>2. a \in Loaded
        BY <3>2, <4>1 DEF ItemsAlike, Loaded
      <4>3. DependsOn(changeset_db, id, a)
        BY <4>1 DEF DependsOn
      <4> HIDE DEF a
      <4>4. a \in consumed'
        BY <3>1, <3>2, <4>2, <4>3 DEF ConsumedClosed
      <4>5. a # id
        BY <3>2, <4>3 DEF NoInternalDeps, Loaded
      <4> QED
        BY <3>1, <4>1, <4>4, <4>5
    <3>7. \A i \in S : GetPredIds(i) \cap Work \subseteq committed
      BY <3>6
    <3>8. S \in SUBSET (Work \ committed)
      BY <3>4, <3>5
    <3> HIDE DEF S
    <3>9. \A i \in S : Preds[i] = GetPredIds(i)
      BY <3>4
    <3>10. committed \subseteq Work
      BY DEF ConsumedClosed, Loaded, ItemsAlike, ItemsPartitioned
    <3> HIDE DEF committed, Preds, Work
    <3>11. /\ committed' # committed
           /\ committed \subseteq committed' /\ committed' \subseteq Work
           /\ \A i \in committed' \ committed : Preds[i] \cap Work \subseteq committed
      BY <3>3, <3>4, <3>5, <3>7, <3>8, <3>9, <3>10
    <3> QED
      BY <3>11 DEF Order!Commit, Work, Preds, committed
  <2>2. CASE BreakCycle
    <3>1. PICK old \in DOMAIN nodes :
            /\ old \notin consumed
            /\ \A id \in DOMAIN changeset_db \ {old} : changeset_db'[id] = changeset_db[id]
      BY <2>2, BreakCycleEffect
    <3>2. consumed' = consumed /\ consumed \subseteq DOMAIN changeset_db \ {old}
      BY <2>2, <3>1 DEF BreakCycle, TypeOK
    <3> QED
      BY <3>1, <3>2
  <2>3. CASE ~ Consume /\ ~ BreakCycle
    <3>1. consumed' = consumed
      BY <2>3 DEF Next, vars, LoadChangeset, StartConsuming, StartWalk, WalkBack, Finish,
                  Terminated
    <3> QED
      BY <2>3, <3>1, DbUnchanged
  <2> QED
    BY <2>1, <2>2, <2>3
<1> QED
  BY <1>1, <1>2, Invariance, PTL DEF Spec, Order!Safety
=============================================================================

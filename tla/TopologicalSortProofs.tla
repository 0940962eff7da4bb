----------------------- MODULE TopologicalSortProofs -----------------------
(***************************************************************************)
(* Proofs about TopologicalSort, for every item database, every order of   *)
(* the changesets of revisions and every way the symbols are grouped.      *)
(***************************************************************************)
EXTENDS TopologicalSort, ChangesetGraphTheorems

-----------------------------------------------------------------------------
(* The invariant that is inductive, in three groups.                       *)

Written == {SortedId(k) : k \in DOMAIN sorted_changesets}

\* The graph has what was read and not written out.
GraphInv ==
  /\ ProperDb(changeset_db, cvs_item_to_changeset_id)
  /\ DOMAIN nodes = (DOMAIN changeset_db \ unread) \ Written
  /\ HasEdges(nodes, OrderEdges(changeset_db))
  /\ pc = "load" => nopred_nodes = {} /\ sorted_changesets = <<>>
  /\ pc # "load" => unread = {}
  /\ pc = "consume" => nopred_nodes = NoPred(nodes)

\* What was written of the ordered changesets is the start of their order.
StartOfOrder ==
  \A a, b \in OrderedIn(changeset_db) :
    b \in Written /\ changeset_db[a].ordinal < changeset_db[b].ordinal => a \in Written

WrittenOnce ==
  \A j, k \in DOMAIN sorted_changesets : SortedId(j) = SortedId(k) => j = k

\* Each changeset has its place after those that it comes after.
DependenciesFirst ==
  \A k \in DOMAIN sorted_changesets : \A a \in DOMAIN changeset_db :
    ComesAfter(changeset_db, SortedId(k), a) => \E j \in 1..(k - 1) : SortedId(j) = a

OrderKept ==
  \A j, k \in DOMAIN sorted_changesets :
    /\ changeset_db[SortedId(j)].kind = "ordered" /\ changeset_db[SortedId(k)].kind = "ordered"
    /\ j < k
    => changeset_db[SortedId(j)].ordinal < changeset_db[SortedId(k)].ordinal

\* What is ready was not when the last changeset was chosen, or sorts after it.
LastWasLeast ==
  pc = "consume" /\ sorted_changesets # <<>> =>
    \A id \in nopred_nodes :
      \/ ComesAfter(changeset_db, id, SortedId(Len(sorted_changesets)))
      \/ HeapLess(SortedId(Len(sorted_changesets)), id)

OrderInv ==
  /\ StartOfOrder /\ WrittenOnce /\ DependenciesFirst /\ OrderKept
  /\ LastWasLeast /\ SymbolsAtOnce

\* The times that changesets which ask for asked[1], asked[2], ... give the k-th.
Times(asked, k) ==
  {k} \cup {asked[j] + (k - j) : j \in {j \in 1..k : ~ (asked[j] > MaxTimestamp)}}

Asks == [k \in DOMAIN sorted_changesets |-> TMax(changeset_db[SortedId(k)])]

TimeInv ==
  /\ \A k \in DOMAIN sorted_changesets :
       /\ sorted_changesets[k].timestamp \in Times(Asks, k)
       /\ \A u \in Times(Asks, k) : u <= sorted_changesets[k].timestamp
  /\ timestamp = IF sorted_changesets = <<>> THEN 0
                 ELSE sorted_changesets[Len(sorted_changesets)].timestamp

IInv == TypeOK /\ GraphInv /\ OrderInv /\ TimeInv

-----------------------------------------------------------------------------
\* It holds before anything is read.
LEMMA InitIInv == Init => IInv
<1> SUFFICES ASSUME Init PROVE IInv
  OBVIOUS
<1>1. PICK ordinal \in Orders, id_of \in OrderedIds, symbol_id \in SymbolIds :
       /\ Range(ordinal) \subseteq 0..(Len(id_of) - 1)
       /\ cvs_item_to_changeset_id = ItemTable(ordinal, id_of, symbol_id)
       /\ changeset_db = ChangesetTable(cvs_item_to_changeset_id, ordinal, id_of)
  BY DEF Init
<1>2. /\ id_of \in Seq(Nat \ {0}) /\ IsInjective(id_of)
      /\ symbol_id \in [Symbols -> Nat \ {0}]
      /\ \A i, j \in Symbols :
           symbol_id[i] = symbol_id[j] => cvs_item[i].symbol = cvs_item[j].symbol
      /\ Range(id_of) \cap Range(symbol_id) = {}
  BY OrderedIdsAssumption, SymbolIdsAssumption
<1>3. ProperDb(changeset_db, cvs_item_to_changeset_id)
  BY <1>1, <1>2, OrderedTables
<1>4. /\ nodes = <<>> /\ nopred_nodes = {} /\ pc = "load" /\ unread = DOMAIN changeset_db
      /\ timestamp = 0 /\ sorted_changesets = <<>>
      /\ DOMAIN nodes = {} /\ DOMAIN sorted_changesets = {}
  BY DEF Init
<1>5. TypeOK
  <2>1. /\ \A id \in DOMAIN changeset_db : changeset_db[id] \in ChangesetRecord
        /\ cvs_item_to_changeset_id \in [Item -> DOMAIN changeset_db]
    BY <1>3 DEF ProperDb, Partitioned
  <2>2. /\ nodes \in [DOMAIN nodes -> [pred_ids : SUBSET DOMAIN nodes,
                                       succ_ids : SUBSET DOMAIN nodes]]
        /\ sorted_changesets \in Seq([id : DOMAIN changeset_db, timestamp : Nat])
    BY <1>4, EmptySeq
  <2> QED
    BY <1>4, <2>1, <2>2 DEF TypeOK
<1>6. GraphInv
  BY <1>3, <1>4 DEF GraphInv, HasEdges, Written
<1>7. OrderInv
  BY <1>4 DEF OrderInv, StartOfOrder, WrittenOnce, DependenciesFirst, OrderKept,
         LastWasLeast, SymbolsAtOnce, Written
<1>8. TimeInv
  BY <1>4 DEF TimeInv
<1> QED
  BY <1>5, <1>6, <1>7, <1>8 DEF IInv

\* A changeset that is read becomes a node of the graph.
LEMMA AddChangesetIInv == IInv /\ AddChangeset => IInv'
<1> SUFFICES ASSUME IInv, AddChangeset PROVE IInv'
  OBVIOUS
<1> DEFINE db == changeset_db
<1>1. /\ pc = "load"
      /\ IF unread' = {} THEN pc' = "consume" /\ nopred_nodes' = NoPred(nodes')
                         ELSE pc' = pc /\ nopred_nodes' = nopred_nodes
      /\ UNCHANGED <<changeset_db, cvs_item_to_changeset_id, timestamp, sorted_changesets>>
  BY DEF AddChangeset
<1>2. PICK id \in unread :
        /\ unread' = unread \ {id}
        /\ nodes' = AddNode(nodes, id, CreateGraphNode(db[id], cvs_item_to_changeset_id))
  BY DEF AddChangeset
<1>3. /\ ProperDb(db, cvs_item_to_changeset_id) /\ HasEdges(nodes, OrderEdges(db))
      /\ IsGraph(nodes) /\ DOMAIN nodes = DOMAIN db \ unread /\ unread \subseteq DOMAIN db
      /\ nopred_nodes = {} /\ sorted_changesets = <<>> /\ Written = {}
  BY <1>1 DEF IInv, TypeOK, GraphInv, IsGraph, Written
<1>4. DOMAIN nodes \subseteq DOMAIN db /\ id \in DOMAIN db /\ id \notin DOMAIN nodes
  BY <1>3
<1>5. IsGraph(nodes') /\ DOMAIN nodes' = DOMAIN nodes \cup {id} /\ HasEdges(nodes', OrderEdges(db))
  <2> DEFINE M == AddNode(nodes, id, CreateGraphNode(db[id], cvs_item_to_changeset_id))
  <2>1. IsGraph(M) /\ DOMAIN M = DOMAIN nodes \cup {id} /\ HasEdges(M, OrderEdges(db))
    BY <1>3, <1>4, AddChangesetEdges, Zenon
  <2> QED
    BY <1>2, <2>1
<1>6. Written' = {} /\ DOMAIN sorted_changesets' = {}
  BY <1>1, <1>3 DEF Written
<1>7. TypeOK'
  <2>1. /\ nodes' \in [DOMAIN nodes' -> [pred_ids : SUBSET DOMAIN nodes',
                                         succ_ids : SUBSET DOMAIN nodes']]
        /\ nopred_nodes' \subseteq DOMAIN nodes'
        /\ DOMAIN nodes' \cup unread' \subseteq DOMAIN db
        /\ pc' \in {"load", "consume"}
    BY <1>1, <1>2, <1>3, <1>4, <1>5 DEF IsGraph, NoPred
  <2> QED
    BY <1>1, <2>1 DEF IInv, TypeOK
<1>8. GraphInv'
  BY <1>1, <1>2, <1>3, <1>4, <1>5, <1>6 DEF GraphInv
<1>9. OrderInv'
  BY <1>1, <1>3, <1>6 DEF OrderInv, StartOfOrder, WrittenOnce, DependenciesFirst, OrderKept,
         LastWasLeast, SymbolsAtOnce
<1>10. TimeInv'
  BY <1>1, <1>3, <1>6 DEF IInv, TimeInv
<1> QED
  BY <1>7, <1>8, <1>9, <1>10 DEF IInv

-----------------------------------------------------------------------------
(* Facts about the changesets and the order in which they become ready.    *)

\* The nodes know of each other as the changesets come after each other.
LEMMA EdgesExact ==
  ASSUME IInv, NEW a \in DOMAIN nodes, NEW b \in DOMAIN nodes
  PROVE  /\ a \in nodes[b].pred_ids <=> ComesAfter(changeset_db, b, a)
         /\ b \in nodes[a].succ_ids <=> ComesAfter(changeset_db, b, a)
<1>1. a \in DOMAIN changeset_db /\ b \in DOMAIN changeset_db
  BY DEF IInv, TypeOK
<1>2. <<a, b>> \in OrderEdges(changeset_db) <=> ComesAfter(changeset_db, b, a)
  BY <1>1, OrderEdge
<1>3. HasEdges(nodes, OrderEdges(changeset_db))
  BY DEF IInv, GraphInv
<1> QED
  BY <1>2, <1>3 DEF HasEdges

\* The time that a changeset asks for.
LEMMA TMaxType ==
  ASSUME NEW changeset, changeset.items \subseteq Item
  PROVE  /\ TMax(changeset) \in Nat
         /\ changeset.kind \in {"branch", "tag"} => TMax(changeset) = 0
<1> DEFINE S == changeset.items
           T == Timestamps(changeset) \cup {0}
<1>1. T \subseteq Nat
  BY LinksAssumption DEF Timestamps, ItemRecord
<1>2. IsFiniteSet(T)
  <2>1. CASE changeset.kind \in {"branch", "tag"}
    <3>1. T = {0}
      BY <2>1 DEF Timestamps
    <3> QED
      BY <3>1, FS_Singleton
  <2>2. CASE changeset.kind \notin {"branch", "tag"}
    <3> DEFINE U == {cvs_item[i].timestamp : i \in S}
               f == [i \in S |-> cvs_item[i].timestamp]
    <3>1. f \in Surjection(S, U)
      BY DEF Surjection
    <3>2. IsFiniteSet(S)
      BY ItemAssumption, FS_Subset
    <3>3. IsFiniteSet(U)
      <4> HIDE DEF f, U
      <4> QED
        BY <3>1, <3>2, FS_Surjection
    <3>4. T = U \cup {0}
      BY <2>2 DEF Timestamps
    <3> HIDE DEF U, T
    <3> QED
      BY <3>3, <3>4, FS_AddElement
  <2> QED
    BY <2>1, <2>2
<1>3. \E x \in T : \A y \in T : y <= x
  <2> HIDE DEF T
  <2>1. 0 \in T
    BY DEF T
  <2> QED
    BY <1>1, <1>2, <2>1, GreatestOf
<1>4. TMax(changeset) \in T
  BY <1>3 DEF TMax
<1>5. changeset.kind \in {"branch", "tag"} => T = {0}
  BY DEF Timestamps
<1> QED
  BY <1>1, <1>4, <1>5

\* The time of the next commit: the greatest of the times it is given.
LEMMA NextTime ==
  ASSUME NEW n \in Nat, NEW A, \A j \in 1..(n + 1) : A[j] \in Nat, NEW t \in Nat,
         n = 0 => t = 0,
         n # 0 => t \in Times(A, n) /\ \A u \in Times(A, n) : u <= t,
         NEW t2, t2 = IF A[n + 1] > MaxTimestamp \/ A[n + 1] < t + 1 THEN t + 1 ELSE A[n + 1]
  PROVE  t2 \in Times(A, n + 1) /\ \A u \in Times(A, n + 1) : u <= t2
<1> DEFINE Counts(j) == ~ (A[j] > MaxTimestamp)
<1>1. A[n + 1] \in Nat /\ t2 \in Nat /\ t2 >= t + 1
  <2>1. n + 1 \in 1..(n + 1)
    OBVIOUS
  <2> QED
    BY <2>1
<1>2. n + 1 \in Times(A, n + 1)
  BY DEF Times
<1>3. Counts(n + 1) => A[n + 1] \in Times(A, n + 1)
  <2>1. n + 1 \in 1..(n + 1) /\ A[n + 1] + ((n + 1) - (n + 1)) = A[n + 1]
    BY <1>1
  <2> QED
    BY <2>1 DEF Times
<1>4. ASSUME n # 0, NEW v \in Times(A, n)
      PROVE  v + 1 \in Times(A, n + 1)
  <2>1. CASE v = n
    BY <1>2, <2>1
  <2>2. CASE v # n
    <3>1. PICK j \in 1..n : Counts(j) /\ v = A[j] + (n - j)
      BY <1>4, <2>2 DEF Times
    <3>2. j \in 1..(n + 1) /\ A[j] \in Nat
      BY <3>1
    <3>3. v + 1 = A[j] + ((n + 1) - j)
      BY <3>1, <3>2
    <3> QED
      BY <3>1, <3>2, <3>3 DEF Times
  <2> QED
    BY <2>1, <2>2
<1>5. ASSUME NEW u \in Times(A, n + 1)
      PROVE  \/ u = A[n + 1] /\ Counts(n + 1)
             \/ u = n + 1
             \/ n # 0 /\ \E v \in Times(A, n) : v \in Nat /\ u = v + 1
  <2>1. CASE u = n + 1
    BY <2>1
  <2>2. CASE u # n + 1
    <3>1. PICK j \in 1..(n + 1) : Counts(j) /\ u = A[j] + ((n + 1) - j)
      BY <1>5, <2>2 DEF Times
    <3>2. CASE j = n + 1
      BY <1>1, <3>1, <3>2
    <3>3. CASE j # n + 1
      <4>1. j \in 1..n /\ A[j] \in Nat /\ n # 0
        BY <3>1, <3>3
      <4>2. A[j] + (n - j) \in Times(A, n)
        BY <3>1, <4>1 DEF Times
      <4>3. A[j] + (n - j) \in Nat /\ u = (A[j] + (n - j)) + 1
        BY <3>1, <4>1
      <4> QED
        BY <4>1, <4>2, <4>3
    <3> QED
      BY <3>2, <3>3
  <2> QED
    BY <2>1, <2>2
<1>6. t + 1 \in Times(A, n + 1) /\ n <= t
  <2>1. CASE n = 0
    BY <1>2, <2>1
  <2>2. CASE n # 0
    <3>1. n \in Times(A, n)
      BY DEF Times
    <3> QED
      BY <1>4, <2>2, <3>1
  <2> QED
    BY <2>1, <2>2
<1>7. t2 \in Times(A, n + 1)
  BY <1>3, <1>6
<1>8. ASSUME NEW u \in Times(A, n + 1) PROVE u <= t2
  <2>1. CASE u = A[n + 1] /\ Counts(n + 1)
    BY <1>1, <2>1
  <2>2. CASE u = n + 1
    BY <1>1, <1>6, <2>2
  <2>3. CASE n # 0 /\ \E v \in Times(A, n) : v \in Nat /\ u = v + 1
    <3>1. PICK v \in Times(A, n) : v \in Nat /\ u = v + 1
      BY <2>3
    <3>2. v <= t
      BY <2>3
    <3> QED
      BY <1>1, <3>1, <3>2
  <2> QED
    BY <1>5, <1>8, <2>1, <2>2, <2>3
<1> QED
  BY <1>7, <1>8

\* The times handed out depend on the changesets before only.
LEMMA TimesSame ==
  ASSUME NEW A, NEW B, NEW k, \A j \in 1..k : A[j] = B[j]
  PROVE  Times(A, k) = Times(B, k)
BY DEF Times

\* The ids in the file, and what was asked for them.
LEMMA FileFacts ==
  ASSUME IInv, NEW k \in DOMAIN sorted_changesets
  PROVE  /\ SortedId(k) \in DOMAIN changeset_db /\ SortedId(k) \in Written
         /\ Asks[k] = TMax(changeset_db[SortedId(k)]) /\ Asks[k] \in Nat
         /\ k \in Nat /\ sorted_changesets[k].timestamp \in Nat
<1>1. sorted_changesets \in Seq([id : DOMAIN changeset_db, timestamp : Nat])
  BY DEF IInv, TypeOK
<1>2. /\ sorted_changesets[k] \in [id : DOMAIN changeset_db, timestamp : Nat]
      /\ DOMAIN sorted_changesets = 1..Len(sorted_changesets) /\ k \in Nat
  <2> DEFINE R == [id : DOMAIN changeset_db, timestamp : Nat]
  <2> HIDE DEF R
  <2>1. sorted_changesets \in Seq(R)
    BY <1>1 DEF R
  <2>2. DOMAIN sorted_changesets = 1..Len(sorted_changesets) /\ Len(sorted_changesets) \in Nat
    BY <2>1
  <2>3. k \in 1..Len(sorted_changesets)
    BY <2>2
  <2>4. sorted_changesets[k] \in R
    BY <2>1, <2>3, ElementOfSeq
  <2> QED
    BY <2>2, <2>3, <2>4 DEF R
<1>3. SortedId(k) \in DOMAIN changeset_db /\ sorted_changesets[k].timestamp \in Nat
  BY <1>2 DEF SortedId
<1>4. changeset_db[SortedId(k)].items \subseteq Item
  BY <1>3 DEF IInv, GraphInv, ProperDb, Partitioned
<1>5. TMax(changeset_db[SortedId(k)]) \in Nat
  BY <1>4, TMaxType
<1> QED
  BY <1>2, <1>3, <1>5 DEF Written, Asks

\* What is ready comes after nothing that is left.  Of the ordered changesets
\* only those with smaller ordinals have been written out, and all of them.
LEMMA ReadyFacts ==
  ASSUME IInv, pc = "consume", NEW id \in nopred_nodes
  PROVE  /\ id \in DOMAIN nodes /\ id \in DOMAIN changeset_db /\ id \notin Written
         /\ \A a \in DOMAIN nodes : ~ ComesAfter(changeset_db, id, a)
         /\ \A a \in OrderedIn(changeset_db) :
              id \in OrderedIn(changeset_db) =>
                (a \in Written <=> changeset_db[a].ordinal < changeset_db[id].ordinal)
<1> DEFINE db == changeset_db
           O  == OrderedIn(db)
<1>1. /\ id \in DOMAIN nodes /\ nodes[id].pred_ids = {} /\ DOMAIN nodes = DOMAIN db \ Written
      /\ id \in DOMAIN db /\ id \notin Written /\ Chained(db) /\ DOMAIN db \subseteq Nat
      /\ StartOfOrder
  BY DEF IInv, GraphInv, OrderInv, ProperDb, NoPred
<1>2. \A a \in DOMAIN nodes : ~ ComesAfter(db, id, a)
  BY <1>1, EdgesExact
<1>3. ASSUME id \in O, NEW a \in O
      PROVE  a \in Written <=> db[a].ordinal < db[id].ordinal
  <2>1. db[a].ordinal \in Nat /\ db[id].ordinal \in Nat /\ (db[a].ordinal = db[id].ordinal => a = id)
    BY <1>1, <1>3 DEF Chained
  <2>2. ASSUME a \in Written PROVE db[a].ordinal < db[id].ordinal
    <3>1. a # id /\ ~ (db[id].ordinal < db[a].ordinal)
      BY <1>1, <1>3, <2>2 DEF StartOfOrder
    <3> QED
      BY <2>1, <3>1
  <2>3. ASSUME db[a].ordinal < db[id].ordinal PROVE a \in Written
    <3>1. db[id].ordinal - 1 \in 0..db[id].ordinal
      BY <2>1, <2>3
    <3>2. PICK p \in O : db[p].ordinal = db[id].ordinal - 1
      BY <1>1, <1>3, <3>1 DEF Chained
    <3>3. db[id].prev_id = p
      <4>1. db[id].ordinal = db[p].ordinal + 1
        BY <2>1, <3>2
      <4> QED
        BY <1>1, <1>3, <4>1 DEF Chained
    <3>4. p \in Written
      <4>1. ComesAfter(db, id, p)
        BY <1>3, <3>3 DEF ComesAfter, OrderedIn
      <4> QED
        BY <1>1, <1>2, <4>1 DEF OrderedIn
    <3>5. db[a].ordinal = db[p].ordinal \/ db[a].ordinal < db[p].ordinal
      BY <2>1, <2>3, <3>2
    <3>6. db[a].ordinal = db[p].ordinal => a = p
      BY <1>1, <1>3 DEF Chained
    <3> QED
      BY <1>1, <1>3, <3>4, <3>5, <3>6 DEF StartOfOrder
  <2> QED
    BY <2>2, <2>3
<1> QED
  BY <1>1, <1>2, <1>3

-----------------------------------------------------------------------------
\* The next changeset is written out.
LEMMA ConsumeIInv == IInv /\ Consume => IInv'
<1> SUFFICES ASSUME IInv, Consume PROVE IInv'
  OBVIOUS
<1>1. PICK db, n, old, new :
        /\ db = changeset_db /\ n = Len(sorted_changesets)
        /\ old = sorted_changesets /\ new = sorted_changesets'
  OBVIOUS
<1>2. /\ pc = "consume" /\ changeset_db' = db
      /\ UNCHANGED <<cvs_item_to_changeset_id, pc, unread>>
  BY <1>1 DEF Consume
<1>3. PICK id \in nopred_nodes :
        /\ ConsumeNode(id)
        /\ timestamp' = NextTimestamp(TMax(db[id]))
        /\ new = Append(old, [id |-> id, timestamp |-> timestamp'])
  BY <1>1 DEF Consume
<1>4. /\ id \in DOMAIN nodes /\ id \in DOMAIN db /\ id \notin Written
      /\ \A a \in DOMAIN nodes : ~ ComesAfter(db, id, a)
      /\ \A a \in OrderedIn(db) :
           id \in OrderedIn(db) => (a \in Written <=> db[a].ordinal < db[id].ordinal)
  BY <1>1, <1>2, ReadyFacts
<1>5. /\ IsGraph(nodes) /\ HasEdges(nodes, OrderEdges(db)) /\ nopred_nodes = NoPred(nodes)
      /\ unread = {} /\ DOMAIN nodes = DOMAIN db \ Written
      /\ ProperDb(db, cvs_item_to_changeset_id)
  BY <1>1, <1>2 DEF IInv, TypeOK, IsGraph, GraphInv
<1>6. /\ IsGraph(nodes') /\ DOMAIN nodes' = DOMAIN nodes \ {id}
      /\ HasEdges(nodes', OrderEdges(db))
      /\ nopred_nodes' = NoPred(nodes')
  <2> DEFINE E == OrderEdges(db)
  <2> HIDE DEF E
  <2>1. HasEdges(nodes, E)
    BY <1>5 DEF E
  <2>2. /\ IsGraph(nodes') /\ DOMAIN nodes' = DOMAIN nodes \ {id}
        /\ HasEdges(nodes', E) /\ nopred_nodes' = NoPred(nodes')
    BY <1>3, <1>5, <2>1, ConsumeReady
  <2> QED
    BY <2>2 DEF E
\* The time.
<1>7. TMax(db[id]) \in Nat /\ (db[id].kind # "ordered" => TMax(db[id]) = 0)
  <2>1. db[id].items \subseteq Item /\ db[id].kind \in {"ordered", "branch", "tag"}
    BY <1>4, <1>5 DEF ProperDb, Partitioned, KindsFit
  <2> QED
    BY <2>1, TMaxType
<1>8. timestamp \in Nat /\ timestamp' \in Nat
  <2>1. timestamp \in Nat
    BY DEF IInv, TypeOK
  <2> QED
    BY <1>3, <1>7, <2>1 DEF NextTimestamp
\* The file.
<1>9. /\ n \in Nat /\ DOMAIN old = 1..n /\ DOMAIN new = 1..(n + 1) /\ Len(new) = n + 1
      /\ new \in Seq([id : DOMAIN db, timestamp : Nat])
      /\ new[n + 1].id = id /\ new[n + 1].timestamp = timestamp'
      /\ \A k \in 1..n : new[k] = old[k]
  <2> DEFINE R == [id : DOMAIN db, timestamp : Nat]
             e == [id |-> id, timestamp |-> timestamp']
  <2>1. e \in R /\ old \in Seq(R)
    BY <1>1, <1>4, <1>8 DEF IInv, TypeOK
  <2>2. e.id = id /\ e.timestamp = timestamp'
    OBVIOUS
  <2> HIDE DEF R, e
  <2>3. /\ n \in Nat /\ DOMAIN old = 1..n /\ DOMAIN new = 1..(n + 1) /\ Len(new) = n + 1
        /\ new \in Seq(R) /\ new[n + 1] = e
        /\ \A k \in 1..n : new[k] = old[k]
    BY <1>1, <1>3, <2>1 DEF e
  <2> QED
    BY <2>2, <2>3 DEF R
<1>10. /\ \A k \in 1..n : old[k].id \in DOMAIN db /\ old[k].id \in Written
       /\ \A k \in 1..n : TMax(db[old[k].id]) \in Nat
  BY <1>1, <1>9, FileFacts DEF SortedId
<1>11. ASSUME NEW k \in 1..(n + 1) PROVE k = n + 1 \/ k \in 1..n
  BY <1>9
<1>12. Written' = Written \cup {id}
  <2>1. Written' = {new[k].id : k \in 1..(n + 1)} /\ Written = {old[k].id : k \in 1..n}
    BY <1>1, <1>9 DEF Written, SortedId
  <2>2. 1..(n + 1) = 1..n \cup {n + 1}
    BY <1>9
  <2> QED
    BY <1>9, <2>1, <2>2
<1>13. TypeOK'
  <2>1. /\ nodes' \in [DOMAIN nodes' -> [pred_ids : SUBSET DOMAIN nodes',
                                         succ_ids : SUBSET DOMAIN nodes']]
        /\ nopred_nodes' \subseteq DOMAIN nodes' /\ DOMAIN nodes' \subseteq DOMAIN db
    BY <1>5, <1>6 DEF IsGraph, NoPred
  <2> QED
    BY <1>1, <1>2, <1>5, <1>8, <1>9, <2>1 DEF IInv, TypeOK
<1>14. GraphInv'
  BY <1>1, <1>2, <1>5, <1>6, <1>12 DEF GraphInv
<1>15. StartOfOrder'
  <2>1. ASSUME NEW a \in OrderedIn(db), NEW b \in OrderedIn(db), b \in Written \cup {id},
               db[a].ordinal < db[b].ordinal
        PROVE  a \in Written
    <3>1. CASE b = id
      BY <1>4, <2>1, <3>1
    <3>2. CASE b \in Written
      BY <1>1, <2>1, <3>2 DEF IInv, OrderInv, StartOfOrder
    <3> QED
      BY <2>1, <3>1, <3>2
  <2> QED
    BY <1>2, <1>12, <2>1 DEF StartOfOrder
<1>16. WrittenOnce'
  <2>1. \A j, k \in 1..n : old[j].id = old[k].id => j = k
    BY <1>1, <1>9 DEF IInv, OrderInv, WrittenOnce, SortedId
  <2>2. ASSUME NEW j \in 1..(n + 1), NEW k \in 1..(n + 1), new[j].id = new[k].id PROVE j = k
    BY <1>4, <1>9, <1>10, <1>11, <2>1, <2>2
  <2> QED
    BY <1>1, <1>9, <2>2 DEF WrittenOnce, SortedId
<1>17. OrderKept'
  <2>1. \A j, k \in 1..n : /\ db[old[j].id].kind = "ordered" /\ db[old[k].id].kind = "ordered"
                           /\ j < k
                           => db[old[j].id].ordinal < db[old[k].id].ordinal
    BY <1>1, <1>9 DEF IInv, OrderInv, OrderKept, SortedId
  <2>2. ASSUME NEW j \in 1..(n + 1), NEW k \in 1..(n + 1), j < k,
               db[new[j].id].kind = "ordered", db[new[k].id].kind = "ordered"
        PROVE  db[new[j].id].ordinal < db[new[k].id].ordinal
    <3>1. j \in 1..n
      BY <1>9, <2>2
    <3>2. CASE k \in 1..n
      BY <1>9, <2>1, <2>2, <3>1, <3>2
    <3>3. CASE k = n + 1
      <4>1. new[j].id \in OrderedIn(db) /\ new[j].id \in Written /\ new[k].id = id
        BY <1>9, <1>10, <2>2, <3>1, <3>3 DEF OrderedIn
      <4>2. id \in OrderedIn(db)
        BY <1>4, <2>2, <4>1 DEF OrderedIn
      <4> QED
        BY <1>4, <4>1, <4>2
    <3> QED
      BY <1>11, <3>2, <3>3
  <2> QED
    BY <1>1, <1>2, <1>9, <2>2 DEF OrderKept, SortedId
<1>18. LastWasLeast'
  <2>1. ASSUME NEW x \in nopred_nodes' PROVE ComesAfter(db, x, id) \/ HeapLess(id, x)'
    <3>1. x \in nopred_nodes \ {id} \/ x \in nodes[id].succ_ids
      BY <1>3 DEF ConsumeNode
    <3>2. x \in DOMAIN nodes
      BY <1>6 DEF NoPred
    <3>3. CASE x \in nopred_nodes \ {id}
      <4>1. HeapLess(id, x)
        BY <1>3, <3>3 DEF ConsumeNode
      <4> QED
        BY <1>1, <1>2, <4>1 DEF HeapLess, HeapKey
    <3>4. CASE x \in nodes[id].succ_ids
      BY <1>1, <1>4, <3>2, <3>4, EdgesExact
    <3> QED
      BY <3>1, <3>3, <3>4
  <2>2. SortedId(Len(sorted_changesets))' = id
    BY <1>1, <1>9 DEF SortedId
  <2> QED
    BY <1>2, <2>1, <2>2 DEF LastWasLeast
<1>19. SymbolsAtOnce'
  <2> DEFINE Right(b, a) == \/ ComesAfter(db, b, a)
                            \/ db[a].kind # "ordered"
                            \/ TMax(db[a]) = 0
  <2>1. \A k \in 1..n : k > 1 /\ db[old[k].id].kind # "ordered" => Right(old[k].id, old[k - 1].id)
    BY <1>1, <1>9 DEF IInv, OrderInv, SymbolsAtOnce, SortedId
  <2>2. ASSUME NEW k \in 1..(n + 1), k > 1, db[new[k].id].kind # "ordered"
        PROVE  Right(new[k].id, new[k - 1].id)
    <3>1. CASE k \in 1..n
      <4>1. k - 1 \in 1..n
        BY <1>9, <2>2, <3>1
      <4>2. new[k] = old[k] /\ new[k - 1] = old[k - 1]
        BY <1>9, <3>1, <4>1
      <4> HIDE DEF Right
      <4> QED
        BY <2>1, <2>2, <3>1, <4>2
    <3>2. CASE k = n + 1
      <4>1. n \in 1..n /\ k - 1 = n /\ n # 0
        BY <1>9, <2>2, <3>2
      <4>2. PICK l \in DOMAIN db : l = old[n].id
        BY <1>10, <4>1
      <4>3. new[k].id = id /\ new[k - 1].id = l
        BY <1>9, <3>2, <4>1, <4>2
      <4>4. ComesAfter(db, id, l) \/ HeapLess(l, id)
        BY <1>1, <1>2, <1>9, <4>1, <4>2 DEF IInv, OrderInv, LastWasLeast, SortedId
      <4>5. TMax(db[l]) \in Nat /\ TMax(db[id]) = 0
        BY <1>7, <1>10, <2>2, <4>1, <4>2, <4>3
      <4>6. ASSUME HeapLess(l, id) PROVE TMax(db[l]) = 0
        <5>1. HeapKey(l)[1] = TMax(db[l]) /\ HeapKey(id)[1] = 0
          BY <1>1, <4>5 DEF HeapKey
        <5>2. PICK m \in 1..5 : /\ HeapKey(l)[m] < HeapKey(id)[m]
                                /\ \A i \in 1..(m - 1) : HeapKey(l)[i] = HeapKey(id)[i]
          BY <4>6 DEF HeapLess
        <5>3. HeapKey(l)[1] < HeapKey(id)[1] \/ HeapKey(l)[1] = HeapKey(id)[1]
          <6>1. CASE m = 1
            BY <5>2, <6>1
          <6>2. CASE m # 1
            <7>1. 1 \in 1..(m - 1)
              BY <5>2, <6>2
            <7> QED
              BY <5>2, <7>1
          <6> QED
            BY <6>1, <6>2
        <5> QED
          BY <4>5, <5>1, <5>3
      <4> QED
        BY <4>3, <4>4, <4>6
    <3> QED
      BY <1>11, <3>1, <3>2
  <2> QED
    BY <1>1, <1>2, <1>9, <2>2 DEF SymbolsAtOnce, SortedId
<1>20. DependenciesFirst'
  <2>1. \A k \in 1..n : \A a \in DOMAIN db :
          ComesAfter(db, old[k].id, a) => \E j \in 1..(k - 1) : old[j].id = a
    BY <1>1, <1>9 DEF IInv, OrderInv, DependenciesFirst, SortedId
  <2>2. Written = {old[k].id : k \in 1..n}
    BY <1>1, <1>9 DEF Written, SortedId
  <2>3. ASSUME NEW k \in 1..(n + 1), NEW a \in DOMAIN db, ComesAfter(db, new[k].id, a)
        PROVE  \E j \in 1..(k - 1) : new[j].id = a
    <3>1. CASE k \in 1..n
      <4>1. PICK j \in 1..(k - 1) : old[j].id = a
        BY <1>9, <2>1, <2>3, <3>1
      <4>2. j \in 1..n
        BY <1>9, <3>1, <4>1
      <4> QED
        BY <1>9, <4>1, <4>2
    <3>2. CASE k = n + 1
      <4>1. a \in Written
        BY <1>4, <1>5, <1>9, <2>3, <3>2
      <4>2. PICK j \in 1..n : old[j].id = a
        BY <2>2, <4>1
      <4>3. j \in 1..(k - 1) /\ new[j].id = a
        BY <1>9, <3>2, <4>2
      <4> QED
        BY <4>3
    <3> QED
      BY <1>11, <3>1, <3>2
  <2> QED
    BY <1>1, <1>2, <1>9, <2>3 DEF DependenciesFirst, SortedId
<1>21. OrderInv'
  BY <1>15, <1>16, <1>17, <1>18, <1>19, <1>20 DEF OrderInv
<1>22. TimeInv'
  <2>1. PICK A, B : /\ A = [k \in 1..(n + 1) |-> TMax(db[new[k].id])]
                    /\ B = [k \in 1..n |-> TMax(db[old[k].id])]
    OBVIOUS
  <2>2. Asks' = A /\ Asks = B
    BY <1>1, <1>2, <1>9, <2>1 DEF Asks, SortedId
  <2>3. /\ \A k \in 1..n : A[k] = B[k] /\ A[k] \in Nat
        /\ A[n + 1] = TMax(db[id])
    BY <1>9, <1>10, <2>1
  <2>4. ASSUME NEW k \in 1..n PROVE Times(A, k) = Times(B, k)
    <3>1. \A j \in 1..k : A[j] = B[j]
      BY <1>9, <2>3
    <3> QED
      BY <3>1, TimesSame
  <2>5. ASSUME NEW k \in 1..n
        PROVE  /\ new[k].timestamp \in Times(A, k)
               /\ \A u \in Times(A, k) : u <= new[k].timestamp
    <3>1. /\ old[k].timestamp \in Times(B, k)
          /\ \A u \in Times(B, k) : u <= old[k].timestamp
      BY <1>1, <1>9, <2>2 DEF IInv, TimeInv
    <3> QED
      BY <1>9, <2>4, <3>1
  <2>6. timestamp = IF n = 0 THEN 0 ELSE new[n].timestamp
    <3>1. old = <<>> <=> n = 0
      BY <1>1, <1>9 DEF IInv, TypeOK
    <3>2. timestamp = IF old = <<>> THEN 0 ELSE old[n].timestamp
      BY <1>1 DEF IInv, TimeInv
    <3>3. n # 0 => n \in 1..n
      BY <1>9
    <3> QED
      BY <1>9, <3>1, <3>2, <3>3
  <2>7. /\ timestamp' \in Times(A, n + 1)
        /\ \A u \in Times(A, n + 1) : u <= timestamp'
    <3>1. PICK t, t2 : t = timestamp /\ t2 = timestamp'
      OBVIOUS
    <3>2. /\ n \in Nat /\ t \in Nat
          /\ \A j \in 1..(n + 1) : A[j] \in Nat
          /\ n = 0 => t = 0
      BY <1>7, <1>8, <1>9, <1>11, <2>3, <2>6, <3>1
    <3>3. n # 0 => t \in Times(A, n) /\ \A u \in Times(A, n) : u <= t
      <4>1. n # 0 => n \in 1..n
        BY <1>9
      <4> QED
        BY <2>5, <2>6, <3>1, <4>1
    <3>4. t2 = IF A[n + 1] > MaxTimestamp \/ A[n + 1] < t + 1 THEN t + 1 ELSE A[n + 1]
      BY <1>3, <2>3, <3>1 DEF NextTimestamp
    <3>5. t2 \in Times(A, n + 1) /\ \A u \in Times(A, n + 1) : u <= t2
      BY <3>2, <3>3, <3>4, NextTime
    <3> QED
      BY <3>1, <3>5
  <2>8. ASSUME NEW k \in 1..(n + 1)
        PROVE  /\ new[k].timestamp \in Times(A, k)
               /\ \A u \in Times(A, k) : u <= new[k].timestamp
    BY <1>9, <1>11, <2>5, <2>7
  <2>9. new # <<>>
    BY <1>9
  <2> QED
    BY <1>1, <1>9, <2>2, <2>8, <2>9 DEF TimeInv
<1> QED
  BY <1>13, <1>14, <1>21, <1>22 DEF IInv

\* One turn of either loop.
LEMMA NextIInv == IInv /\ [Next]_vars => IInv'
<1> SUFFICES ASSUME IInv, [Next]_vars PROVE IInv'
  OBVIOUS
<1>1. CASE UNCHANGED vars \/ Finish
  <2>1. /\ UNCHANGED <<changeset_db, cvs_item_to_changeset_id, nodes, nopred_nodes, unread,
                       timestamp, sorted_changesets>>
        /\ (pc' = pc \/ (pc = "consume" /\ pc' = "done"))
    BY <1>1 DEF vars, graph_vars, Finish
  <2>2. TypeOK'
    BY <2>1 DEF IInv, TypeOK
  <2>3. GraphInv'
    BY <2>1 DEF IInv, GraphInv, Written, SortedId
  <2>4. OrderInv'
    BY <2>1 DEF IInv, OrderInv, StartOfOrder, WrittenOnce, DependenciesFirst, OrderKept, LastWasLeast,
                SymbolsAtOnce, Written, SortedId, HeapLess, HeapKey
  <2>5. TimeInv'
    <3>1. Asks' = Asks
      BY <2>1 DEF Asks, SortedId
    <3> QED
      BY <2>1, <3>1 DEF IInv, TimeInv
  <2> QED
    BY <2>2, <2>3, <2>4, <2>5 DEF IInv
<1> QED
  BY <1>1, AddChangesetIInv, ConsumeIInv DEF Next, Terminated

-----------------------------------------------------------------------------
\* The inductive invariant of TopologicalSortPass.
THEOREM Invariance == Spec => []IInv
BY InitIInv, NextIInv, PTL DEF Spec

\* The places in the file before one are places too.
LEMMA UpTo == IInv => \A k \in DOMAIN sorted_changesets : 1..k \subseteq DOMAIN sorted_changesets
<1>1. IInv => /\ sorted_changesets \in Seq([id : DOMAIN changeset_db, timestamp : Nat])
  BY DEF IInv, TypeOK
<1>2. IInv => DOMAIN sorted_changesets = 1..Len(sorted_changesets) /\ Len(sorted_changesets) \in Nat
  BY <1>1
<1> QED
  BY <1>2

\* The time of every commit is the latest that a changeset up to it asks for, a
\* second being added for each commit since.
THEOREM TimesExact == Spec => []TimestampsExact
<1>1. IInv => TimestampsExact
  <2> SUFFICES ASSUME IInv, NEW k \in DOMAIN sorted_changesets
               PROVE  sorted_changesets[k].timestamp =
                        CHOOSE t \in Times(Asks, k) : \A u \in Times(Asks, k) : u <= t
    <3>1. ASSUME IInv, NEW l \in DOMAIN sorted_changesets
          PROVE  Times(Asks, l) =
                   {l} \cup {TMax(changeset_db[SortedId(j)]) + (l - j) :
                      j \in {j \in 1..l : ~ (TMax(changeset_db[SortedId(j)]) > MaxTimestamp)}}
      <4>1. \A j \in 1..l : Asks[j] = TMax(changeset_db[SortedId(j)])
        BY <3>1, UpTo, FileFacts
      <4> QED
        BY <4>1 DEF Times
    <3> QED
      BY <3>1 DEF TimestampsExact
  <2> DEFINE t0 == sorted_changesets[k].timestamp
             T  == Times(Asks, k)
  <2>1. t0 \in T /\ \A u \in T : u <= t0
    BY DEF IInv, TimeInv
  <2>2. \A u \in T : u \in Int
    <3>1. k \in Nat /\ \A j \in 1..k : Asks[j] \in Nat
      BY UpTo, FileFacts
    <3> QED
      BY <3>1 DEF Times
  <2> HIDE DEF T, t0
  <2>3. \A t \in T : (\A u \in T : u <= t) => t = t0
    BY <2>1, <2>2
  <2>4. t0 = CHOOSE t \in T : \A u \in T : u <= t
    BY <2>1, <2>3
  <2> QED
    BY <2>4 DEF T, t0
<1> QED
  BY <1>1, Invariance, PTL

\* The ordered changesets stay in their order, and each changeset of symbols is
\* fitted in as soon as it can be.
THEOREM OrderStays == Spec => []SkeletonKept
<1>1. IInv => SkeletonKept
  <2> SUFFICES ASSUME IInv PROVE SkeletonKept
    OBVIOUS
  <2>1. ASSUME NEW j \in DOMAIN sorted_changesets, NEW k \in DOMAIN sorted_changesets,
               changeset_db[SortedId(j)].kind = "ordered", changeset_db[SortedId(k)].kind = "ordered"
        PROVE  j < k <=> changeset_db[SortedId(j)].ordinal < changeset_db[SortedId(k)].ordinal
    <3>1. /\ SortedId(j) \in DOMAIN changeset_db /\ SortedId(k) \in DOMAIN changeset_db
          /\ j \in Nat /\ k \in Nat
      BY FileFacts
    <3>2. SortedId(j) \in OrderedIn(changeset_db) /\ SortedId(k) \in OrderedIn(changeset_db)
      BY <2>1, <3>1 DEF OrderedIn
    <3>3. /\ changeset_db[SortedId(j)].ordinal \in Nat
          /\ changeset_db[SortedId(k)].ordinal \in Nat
      BY <3>2 DEF IInv, GraphInv, ProperDb, Chained
    <3>4. /\ j < k => changeset_db[SortedId(j)].ordinal < changeset_db[SortedId(k)].ordinal
          /\ k < j => changeset_db[SortedId(k)].ordinal < changeset_db[SortedId(j)].ordinal
      BY <2>1 DEF IInv, OrderInv, OrderKept
    <3> QED
      BY <3>1, <3>3, <3>4
  <2> QED
    BY <2>1 DEF SkeletonKept, IInv, OrderInv
<1> QED
  BY <1>1, Invariance, PTL

\* The file is an order of the changesets: none has two places, each comes after
\* those that it must come after, and in the end none is missing.
AllWritten ==
  /\ WrittenOnce /\ DependenciesFirst
  /\ pc = "done" => Written = DOMAIN changeset_db

\* Every changeset gets exactly one place in the file, after all that it depends
\* on: the order in which the commits will be made.
THEOREM OrderOfCommits == Spec => []AllWritten
<1>1. IInv /\ (pc = "done" => DOMAIN nodes = {}) => AllWritten
  <2> SUFFICES ASSUME IInv, pc = "done" => DOMAIN nodes = {} PROVE AllWritten
    OBVIOUS
  <2>1. Written \subseteq DOMAIN changeset_db
    BY FileFacts DEF Written
  <2> QED
    BY <2>1 DEF AllWritten, IInv, OrderInv, GraphInv
<1>2. Init => (pc = "done" => DOMAIN nodes = {})
  BY DEF Init
<1>3. (pc = "done" => DOMAIN nodes = {}) /\ [Next]_vars => (pc = "done" => DOMAIN nodes = {})'
  BY DEF Next, vars, graph_vars, AddChangeset, Consume, Finish, Terminated
<1> QED
  BY <1>1, <1>2, <1>3, Invariance, PTL DEF Spec
=============================================================================

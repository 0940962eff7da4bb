----------------------- MODULE BreakAllCyclesProofs -----------------------
(***************************************************************************)
(* Proofs about BreakAllCycles, for every item database, every order of    *)
(* the changesets of revisions and every acyclic set of changesets of      *)
(* symbols.                                                                *)
(***************************************************************************)
EXTENDS BreakAllCycles, ChangesetGraphTheorems

-----------------------------------------------------------------------------
(* The invariant that is inductive, in three groups.                       *)

\* The databases.  However the changesets of symbols are split, they depend on
\* each other in no cycle.
SymbolsAcyclic == Acyclic(changeset_db, SymbolsIn(changeset_db))

\* The ids the key generator will hand out are not in use.
KeysFresh ==
  /\ \A id \in DOMAIN changeset_db \ unread : id < key_base
  /\ pc # "load" => unread = {}

DbInv ==
  /\ ProperDb(changeset_db, cvs_item_to_changeset_id)
  /\ SymbolsAcyclic
  /\ KeysFresh

\* The graph has what was read and not consumed.
GraphComplete ==
  /\ DOMAIN nodes = (DOMAIN changeset_db \ unread) \ consumed
  /\ consumed \subseteq DOMAIN changeset_db \ unread
  /\ pc \in {"load", "retrograde"} => consumed = {}

EdgesExact == HasEdges(nodes, OrderEdges(changeset_db))

ReadyExact ==
  /\ pc = "consume" => nopred_nodes = NoPred(nodes)
  /\ pc \in {"search", "path", "break"} => NoPred(nodes) = {}
  /\ pc \in {"load", "retrograde"} => nopred_nodes = {}

\* What is consumed of the ordered changesets is the start of their order.
Counted ==
  /\ ordered_changeset_ids = OrderedIn(changeset_db) \cap DOMAIN nodes
  /\ \A id \in OrderedIn(changeset_db) :
       id \in consumed <=> changeset_db[id].ordinal < next_ordered_changeset

\* The branch changesets that are still to be checked: each once, and all of
\* them at first.
Listed ==
  /\ \A k \in DOMAIN branch_changeset_ids :
       changeset_db[branch_changeset_ids[k]].kind = "branch"
  /\ \A j, k \in DOMAIN branch_changeset_ids :
       branch_changeset_ids[j] = branch_changeset_ids[k] => j = k
  /\ pc = "load" =>
       \A id \in DOMAIN nodes :
         changeset_db[id].kind = "branch" => Contains(branch_changeset_ids, id)
  /\ pc \notin {"load", "retrograde"} => branch_changeset_ids = <<>>

\* The changeset comes after one ordered changeset of N and not after, or even
\* before, that one.  (What Retrograde() reads off the graph.)
OutOfPlace(db, N, id) ==
  \E p, s \in OrderedIn(db) \cap N :
    DependsOn(db, id, p) /\ DependsOn(db, s, id) /\ db[p].ordinal >= db[s].ordinal

NoneOutOfPlace ==
  pc # "load" =>
    \A id \in DOMAIN nodes :
      changeset_db[id].kind = "branch" /\ ~ Contains(branch_changeset_ids, id) =>
        ~ OutOfPlace(changeset_db, DOMAIN nodes, id)

GraphInv == GraphComplete /\ EdgesExact /\ ReadyExact /\ Counted /\ Listed /\ NoneOutOfPlace

(***************************************************************************)
(* The search for a path to target, the ordered changeset due next.        *)
(***************************************************************************)
IsTarget(target) ==
  target \in ordered_changeset_ids /\ changeset_db[target].ordinal = next_ordered_changeset

\* p is a path of m changesets from the stop set to the target.
IsPath(p, m, target) ==
  /\ p[1] \in ordered_changeset_ids
  /\ p[m] = target
  /\ \A k \in 1..(m - 1) : p[k] \in nodes[p[k + 1]].pred_ids

NoneShorter(n, target) ==
  \A m \in 2..(n - 1) : \A p \in [1..m -> DOMAIN nodes] : ~ IsPath(p, m, target)

\* The changesets that have been reached by following edges back from the
\* target, none of which is ordered.
Reached == DOMAIN reachable_changesets \ ordered_changeset_ids

\* Following reachable_changesets leads to the target in as many steps as the
\* level of the changeset says.
LevelsRight(level, target) ==
  /\ level \in [Reached \cup {target} -> Nat]
  /\ level[target] = 0
  /\ \A n \in Reached :
       /\ reachable_changesets[n] \in Reached \cup {target}
       /\ n \in nodes[reachable_changesets[n]].pred_ids
       /\ level[n] = level[reachable_changesets[n]] + 1

\* The queue is in the order of the levels, and all predecessors of a changeset
\* that has left it have been reached.
QueueRight(level, target) ==
  /\ \A k \in DOMAIN open_nodes : open_nodes[k] \in Reached \cup {target}
  /\ \A j, k \in DOMAIN open_nodes :
       j < k => level[open_nodes[j]] <= level[open_nodes[k]]
  /\ \A k \in DOMAIN open_nodes : \A n \in Reached : level[n] <= level[open_nodes[k]] + 1
  /\ \A m \in Reached \cup {target} :
       (\A k \in DOMAIN open_nodes : open_nodes[k] # m) =>
         \A n \in nodes[m].pred_ids : n \in Reached /\ level[n] <= level[m] + 1

Searching ==
  pc = "search" =>
    /\ IsTarget(NextOrdered)
    /\ DOMAIN reachable_changesets \cap ordered_changeset_ids = {}
    /\ \E level : LevelsRight(level, NextOrdered) /\ QueueRight(level, NextOrdered)

\* What has been followed of a path, from the stop set towards the target.
PathBegun ==
  /\ path # <<>>
  /\ path[1] \in ordered_changeset_ids
  /\ \A k \in 2..Len(path) :
       path[k] \in ordered_changeset_ids =>
         path[k] = NextOrdered /\ k = Len(path) /\ pc = "break"
  /\ \A k \in 1..(Len(path) - 1) : path[k] \in nodes[path[k + 1]].pred_ids

Following ==
  pc = "path" =>
    /\ IsTarget(NextOrdered)
    /\ PathBegun
    /\ path[Len(path)] \in DOMAIN reachable_changesets
    /\ LET next == reachable_changesets[path[Len(path)]] IN
       /\ next \in Reached \cup {NextOrdered}
       /\ path[Len(path)] \in nodes[next].pred_ids
       /\ \E level :
            /\ LevelsRight(level, NextOrdered)
            /\ NoneShorter(Len(path) + 1 + level[next], NextOrdered)

Found ==
  pc = "break" =>
    /\ IsTarget(NextOrdered)
    /\ PathBegun
    /\ Len(path) > 1 /\ path[Len(path)] = NextOrdered
    /\ NoneShorter(Len(path), NextOrdered)

OutsideSearch ==
  /\ pc # "search" => open_nodes = <<>>
  /\ pc \notin {"search", "path"} => reachable_changesets = <<>>
  /\ pc \notin {"path", "break"} => path = <<>>

SearchInv == Searching /\ Following /\ Found /\ OutsideSearch

IInv == TypeOK /\ DbInv /\ GraphInv /\ SearchInv

-----------------------------------------------------------------------------
\* It holds before anything is read.
LEMMA InitIInv == Init => IInv
<1> SUFFICES ASSUME Init PROVE IInv
  OBVIOUS
<1>1. PICK ordinal \in Orders, id_of \in OrderedIds, symbol_id \in SymbolIds :
       /\ Range(ordinal) \subseteq 0..(Len(id_of) - 1)
       /\ cvs_item_to_changeset_id = ItemTable(ordinal, id_of, symbol_id)
       /\ changeset_db = ChangesetTable(cvs_item_to_changeset_id, ordinal, id_of)
       /\ Acyclic(changeset_db, Range(symbol_id))
  BY DEF Init
<1>2. /\ id_of \in Seq(Nat \ {0}) /\ IsInjective(id_of)
      /\ symbol_id \in [Symbols -> Nat \ {0}]
      /\ \A i, j \in Symbols :
           symbol_id[i] = symbol_id[j] => cvs_item[i].symbol = cvs_item[j].symbol
      /\ Range(id_of) \cap Range(symbol_id) = {}
  BY OrderedIdsAssumption, SymbolIdsAssumption
<1>3. /\ ProperDb(changeset_db, cvs_item_to_changeset_id)
      /\ SymbolsIn(changeset_db) \subseteq Range(symbol_id)
  BY <1>1, <1>2, OrderedTables
<1>4. SymbolsAcyclic
  BY <1>1, <1>3 DEF SymbolsAcyclic, Acyclic
<1>5. /\ nodes = <<>> /\ nopred_nodes = {} /\ pc = "load" /\ unread = DOMAIN changeset_db
      /\ key_base = 1 /\ branch_changeset_ids = <<>> /\ next_ordered_changeset = 0
      /\ ordered_changeset_ids = {} /\ open_nodes = <<>> /\ reachable_changesets = <<>>
      /\ path = <<>> /\ consumed = {} /\ DOMAIN nodes = {}
  BY DEF Init
<1>6. TypeOK
  <2>1. /\ DOMAIN changeset_db \subseteq Nat
        /\ \A id \in DOMAIN changeset_db : changeset_db[id] \in ChangesetRecord
        /\ cvs_item_to_changeset_id \in [Item -> DOMAIN changeset_db]
    BY <1>3 DEF ProperDb, Partitioned
  <2>2. /\ nodes \in [DOMAIN nodes -> [pred_ids : SUBSET DOMAIN nodes,
                                       succ_ids : SUBSET DOMAIN nodes]]
        /\ reachable_changesets \in [DOMAIN reachable_changesets -> DOMAIN nodes]
        /\ DOMAIN reachable_changesets = {}
    BY <1>5
  <2> QED
    BY <1>5, <2>1, <2>2, EmptySeq DEF TypeOK
<1>7. DbInv
  BY <1>3, <1>4, <1>5 DEF DbInv, KeysFresh
<1>8. GraphInv
  <2>1. \A id \in OrderedIn(changeset_db) : ~ (changeset_db[id].ordinal < 0)
    BY <1>3 DEF ProperDb, Chained
  <2> QED
    BY <1>5, <2>1 DEF GraphInv, GraphComplete, EdgesExact, HasEdges, ReadyExact, Counted, Listed,
                      NoneOutOfPlace
<1>9. SearchInv
  BY <1>5 DEF SearchInv, Searching, Following, Found, OutsideSearch
<1> QED
  BY <1>6, <1>7, <1>8, <1>9 DEF IInv

-----------------------------------------------------------------------------
\* Loading: the new node gets exactly the edges it should have.
LEMMA LoadChangesetIInv == IInv /\ LoadChangeset => IInv'
<1> SUFFICES ASSUME IInv, LoadChangeset PROVE IInv'
  OBVIOUS
<1> USE DEF IInv, DbInv, GraphInv, SearchInv
<1>1. /\ pc = "load" /\ changeset_db' = changeset_db
      /\ cvs_item_to_changeset_id' = cvs_item_to_changeset_id
      /\ nopred_nodes' = nopred_nodes /\ nopred_nodes = {}
      /\ next_ordered_changeset' = next_ordered_changeset
      /\ consumed' = consumed /\ consumed = {}
      /\ open_nodes' = open_nodes /\ open_nodes = <<>>
      /\ reachable_changesets' = reachable_changesets /\ reachable_changesets = <<>>
      /\ path' = path /\ path = <<>>
  BY DEF LoadChangeset, search_vars, GraphComplete, ReadyExact, OutsideSearch
<1>2. PICK id \in unread :
        /\ unread' = unread \ {id}
        /\ nodes' = AddNode(nodes, id,
                      CreateGraphNode(changeset_db[id], cvs_item_to_changeset_id))
        /\ ordered_changeset_ids' =
             ordered_changeset_ids \cup
               (IF changeset_db[id].kind = "ordered" THEN {id} ELSE {})
        /\ branch_changeset_ids' =
             branch_changeset_ids \o
               (IF changeset_db[id].kind = "branch" THEN <<id>> ELSE <<>>)
        /\ key_base' = IF id >= key_base THEN id + 1 ELSE key_base
        /\ pc' = IF unread' = {} THEN "retrograde" ELSE "load"
  BY DEF LoadChangeset
<1>3. /\ id \in DOMAIN changeset_db /\ id \in Nat /\ key_base \in Nat /\ id \notin DOMAIN nodes
      /\ DOMAIN nodes \subseteq DOMAIN changeset_db
      /\ branch_changeset_ids \in Seq(DOMAIN nodes)
  BY DEF TypeOK, GraphComplete
<1>4. IsGraph(nodes)
  BY DEF TypeOK, IsGraph
<1>5. /\ IsGraph(nodes') /\ DOMAIN nodes' = DOMAIN nodes \cup {id}
      /\ HasEdges(nodes', OrderEdges(changeset_db))
  <2> DEFINE M == AddNode(nodes, id,
                    CreateGraphNode(changeset_db[id], cvs_item_to_changeset_id))
  <2>1. /\ HasEdges(nodes, OrderEdges(changeset_db))
        /\ ProperDb(changeset_db, cvs_item_to_changeset_id)
    BY DEF EdgesExact
  <2>2. IsGraph(M) /\ DOMAIN M = DOMAIN nodes \cup {id} /\ HasEdges(M, OrderEdges(changeset_db))
    BY <1>3, <1>4, <2>1, AddChangesetEdges, Zenon
  <2> QED
    BY <1>2, <2>2
<1>6. /\ branch_changeset_ids' \in Seq(DOMAIN nodes')
      /\ \A k \in DOMAIN branch_changeset_ids' :
           changeset_db[branch_changeset_ids'[k]].kind = "branch"
      /\ \A j, k \in DOMAIN branch_changeset_ids' :
           branch_changeset_ids'[j] = branch_changeset_ids'[k] => j = k
      /\ \A n \in DOMAIN nodes' :
           changeset_db[n].kind = "branch" => Contains(branch_changeset_ids', n)
  <2>1. branch_changeset_ids \in Seq(DOMAIN nodes')
    BY <1>3, <1>5
  <2>2. CASE changeset_db[id].kind = "branch"
    <3> DEFINE s == branch_changeset_ids
               t == branch_changeset_ids'
    <3>1. /\ t = s \o <<id>> /\ t \in Seq(DOMAIN nodes') /\ Len(s) \in Nat
          /\ Len(t) = Len(s) + 1 /\ DOMAIN t = 1..(Len(s) + 1) /\ DOMAIN s = 1..Len(s)
          /\ t[Len(s) + 1] = id
          /\ \A k \in 1..Len(s) : t[k] = s[k] /\ s[k] \in DOMAIN nodes /\ s[k] # id
      BY <1>2, <1>3, <1>5, <2>1, <2>2
    <3>2. /\ \A k \in DOMAIN s : changeset_db[s[k]].kind = "branch"
          /\ \A j, k \in DOMAIN s : s[j] = s[k] => j = k
          /\ \A n \in DOMAIN nodes : changeset_db[n].kind = "branch" =>
               \E k \in 1..Len(s) : s[k] = n
      BY <1>1 DEF Listed, Contains
    <3> HIDE DEF s, t
    <3>3. \A k \in DOMAIN t : k = Len(s) + 1 \/ k \in 1..Len(s)
      BY <3>1
    <3>4. \A k \in DOMAIN t : changeset_db[t[k]].kind = "branch"
      BY <2>2, <3>1, <3>2, <3>3
    <3>5. \A j, k \in DOMAIN t : t[j] = t[k] => j = k
      BY <3>1, <3>2, <3>3
    <3>6. \A n \in DOMAIN nodes' : changeset_db[n].kind = "branch" =>
            \E k \in 1..Len(t) : t[k] = n
      BY <1>5, <3>1, <3>2
    <3> QED
      BY <3>1, <3>4, <3>5, <3>6 DEF s, t, Contains
  <2>3. CASE changeset_db[id].kind # "branch"
    <3>1. branch_changeset_ids' = branch_changeset_ids
      BY <1>2, <1>3, <2>3
    <3> QED
      BY <1>1, <1>5, <2>1, <2>3, <3>1 DEF Listed
  <2> QED
    BY <2>2, <2>3
<1>7. TypeOK'
  <2>1. /\ pc' \in {"load", "retrograde"} /\ key_base' \in Nat
        /\ unread' \subseteq DOMAIN changeset_db
        /\ ordered_changeset_ids' \subseteq DOMAIN nodes'
        /\ DOMAIN nodes' \subseteq DOMAIN changeset_db
    BY <1>2, <1>3, <1>5 DEF TypeOK
  <2>2. nodes' \in [DOMAIN nodes' -> [pred_ids : SUBSET DOMAIN nodes',
                                      succ_ids : SUBSET DOMAIN nodes']]
    BY <1>5 DEF IsGraph
  <2>3. /\ reachable_changesets \in [DOMAIN reachable_changesets -> DOMAIN nodes']
        /\ DOMAIN reachable_changesets = {}
    BY <1>1
  <2> QED
    BY <1>1, <1>6, <2>1, <2>2, <2>3, EmptySeq DEF TypeOK
<1>8. DbInv'
  <2>1. KeysFresh'
    BY <1>1, <1>2, <1>3 DEF KeysFresh, TypeOK
  <2> QED
    BY <1>1, <2>1 DEF SymbolsAcyclic
<1>9. GraphInv'
  <2>1. GraphComplete' /\ ReadyExact'
    BY <1>1, <1>2, <1>3, <1>5 DEF GraphComplete, ReadyExact
  <2>2. EdgesExact'
    BY <1>1, <1>5 DEF EdgesExact
  <2>3. Counted'
    BY <1>1, <1>2, <1>3, <1>5 DEF Counted, OrderedIn
  <2>4. Listed' /\ NoneOutOfPlace'
    BY <1>1, <1>2, <1>6 DEF Listed, NoneOutOfPlace
  <2> QED
    BY <2>1, <2>2, <2>3, <2>4
<1>10. SearchInv'
  BY <1>1, <1>2 DEF Searching, Following, Found, OutsideSearch
<1> QED
  BY <1>7, <1>8, <1>9, <1>10

-----------------------------------------------------------------------------
(* What the invariant says of the order of the changesets.                 *)

\* The nodes know of each other as the changesets come after each other.
LEMMA Edges ==
  ASSUME IInv, NEW a \in DOMAIN nodes, NEW b \in DOMAIN nodes
  PROVE  /\ a \in nodes[b].pred_ids <=> ComesAfter(changeset_db, b, a)
         /\ b \in nodes[a].succ_ids <=> ComesAfter(changeset_db, b, a)
<1>1. a \in DOMAIN changeset_db /\ b \in DOMAIN changeset_db
  BY DEF IInv, TypeOK
<1>2. <<a, b>> \in OrderEdges(changeset_db) <=> ComesAfter(changeset_db, b, a)
  BY <1>1, OrderEdge
<1>3. HasEdges(nodes, OrderEdges(changeset_db))
  BY DEF IInv, GraphInv, EdgesExact
<1> QED
  BY <1>2, <1>3 DEF HasEdges

\* All that nodes refer to is in the graph.
LEMMA EdgesInGraph ==
  ASSUME IInv
  PROVE  /\ IsGraph(nodes) /\ DOMAIN nodes \subseteq DOMAIN changeset_db
         /\ \A n \in DOMAIN nodes : /\ nodes[n].pred_ids \subseteq DOMAIN nodes
                                    /\ nodes[n].succ_ids \subseteq DOMAIN nodes
BY DEF IInv, TypeOK, IsGraph

\* An ordered changeset on which no other ordered one that is left comes
\* before is the next one due.
LEMMA FirstIsDue ==
  ASSUME IInv, unread = {}, NEW id \in OrderedIn(changeset_db), id \notin consumed,
         \A a \in DOMAIN nodes : changeset_db[id].prev_id # a
  PROVE  changeset_db[id].ordinal = next_ordered_changeset
<1> DEFINE O == OrderedIn(changeset_db)
           ordinal(x) == changeset_db[x].ordinal
<1>1. Chained(changeset_db)
  BY DEF IInv, DbInv, ProperDb
<1>2. /\ ordinal(id) \in Nat /\ next_ordered_changeset \in Nat
      /\ ~ (ordinal(id) < next_ordered_changeset)
  BY <1>1 DEF Chained, IInv, TypeOK, GraphInv, Counted
<1> SUFFICES ASSUME ordinal(id) > next_ordered_changeset PROVE FALSE
  BY <1>2
<1>3. ordinal(id) - 1 \in 0..ordinal(id) /\ ordinal(id) - 1 >= next_ordered_changeset
  BY <1>2
<1>4. PICK a \in O : ordinal(a) = ordinal(id) - 1
  BY <1>1, <1>3 DEF Chained
<1>5. changeset_db[id].prev_id = a
  <2>1. ordinal(id) = ordinal(a) + 1
    BY <1>2, <1>4
  <2> QED
    BY <1>1, <2>1 DEF Chained
<1>6. a \notin consumed
  BY <1>2, <1>3, <1>4 DEF IInv, GraphInv, Counted
<1>7. a \in DOMAIN nodes
  BY <1>6 DEF OrderedIn, IInv, GraphInv, GraphComplete
<1> QED
  BY <1>5, <1>7

\* A graph that has no node without predecessors has the ordered changeset that
\* is due next: the changesets of symbols alone close no cycle.
LEMMA NextInGraph ==
  ASSUME IInv, unread = {}, DOMAIN nodes # {}, NoPred(nodes) = {}
  PROVE  IsTarget(NextOrdered)
<1> DEFINE O == OrderedIn(changeset_db)
           ordinal(x) == changeset_db[x].ordinal
<1> USE EdgesInGraph
<1>1. Chained(changeset_db) /\ next_ordered_changeset \in Nat
  BY DEF IInv, TypeOK, DbInv, ProperDb
<1>2. DOMAIN nodes \cap O # {}
  <2> SUFFICES ASSUME DOMAIN nodes \cap O = {} PROVE FALSE
    OBVIOUS
  <2>1. DOMAIN nodes \in SUBSET SymbolsIn(changeset_db)
    BY DEF SymbolsIn
  <2>2. PICK b \in DOMAIN nodes : \A a \in DOMAIN nodes : ~ DependsOn(changeset_db, b, a)
    BY <2>1 DEF IInv, DbInv, SymbolsAcyclic, Acyclic
  <2>3. \A a \in DOMAIN nodes : ~ ComesAfter(changeset_db, b, a)
    BY <2>2 DEF ComesAfter, OrderedIn
  <2>4. nodes[b].pred_ids = {}
    BY <2>3, Edges
  <2> QED
    BY <2>4 DEF NoPred
<1>3. PICK id \in DOMAIN nodes \cap O : TRUE
  BY <1>2
<1>4. ordinal(id) \in Nat /\ ~ (ordinal(id) < next_ordered_changeset)
  BY <1>1, <1>3 DEF Chained, IInv, GraphInv, GraphComplete, Counted
<1>5. next_ordered_changeset \in 0..ordinal(id)
  BY <1>1, <1>4
<1>6. PICK due \in O : ordinal(due) = next_ordered_changeset
  BY <1>1, <1>5 DEF Chained
<1>7. NextOrdered \in O /\ ordinal(NextOrdered) = next_ordered_changeset
  BY <1>6 DEF NextOrdered, OrderedIn
<1>8. NextOrdered \notin consumed
  BY <1>1, <1>7 DEF IInv, GraphInv, Counted
<1>9. NextOrdered \in DOMAIN nodes
  BY <1>7, <1>8 DEF OrderedIn, IInv, GraphInv, GraphComplete
<1> QED
  BY <1>7, <1>9 DEF IsTarget, IInv, GraphInv, Counted

\* Retrograde() reads off the graph which ordered changesets an item of the
\* changeset depends on, and which depend on it.
LEMMA RetrogradeExact ==
  ASSUME IInv, NEW id \in DOMAIN nodes, changeset_db[id].kind # "ordered"
  PROVE  Retrograde(id) <=> OutOfPlace(changeset_db, DOMAIN nodes, id)
<1>1. ASSUME NEW a \in DOMAIN nodes, changeset_db[a].kind = "ordered"
      PROVE  /\ a \in nodes[id].pred_ids <=> DependsOn(changeset_db, id, a)
             /\ a \in nodes[id].succ_ids <=> DependsOn(changeset_db, a, id)
  BY <1>1, Edges DEF ComesAfter
<1>2. /\ nodes[id].pred_ids \subseteq DOMAIN nodes /\ nodes[id].succ_ids \subseteq DOMAIN nodes
      /\ DOMAIN nodes \subseteq DOMAIN changeset_db
  BY EdgesInGraph
<1>3. /\ \A p : p \in Ordered(nodes[id].pred_ids)
                  <=> p \in OrderedIn(changeset_db) \cap DOMAIN nodes /\ DependsOn(changeset_db, id, p)
      /\ \A s : s \in Ordered(nodes[id].succ_ids)
                  <=> s \in OrderedIn(changeset_db) \cap DOMAIN nodes /\ DependsOn(changeset_db, s, id)
  BY <1>1, <1>2 DEF Ordered, OrderedIn
<1> QED
  BY <1>3 DEF Retrograde, OutOfPlace

\* A sequence is one over whatever set has its elements.
LEMMA SeqInto ==
  ASSUME NEW S, NEW T, NEW s \in Seq(S), \A k \in 1..Len(s) : s[k] \in T
  PROVE  s \in Seq(T)
<1>1. Len(s) \in Nat /\ s \in [1..Len(s) -> S]
  BY LenProperties
<1>2. s \in [1..Len(s) -> T]
  BY <1>1
<1> QED
  BY <1>1, <1>2, SeqDef

-----------------------------------------------------------------------------
(* Splitting a changeset that is out of place.                             *)

\* "assert max_pred_ordinal < min_succ_ordinal": a branch sprouts in an earlier
\* ordered changeset than the one with the first commit on it.
LEMMA PredBeforeSucc ==
  ASSUME IInv, NEW i \in Item, cvs_item[i].kind = "branch",
         NEW p \in PredOrdinals(i), NEW s \in SuccOrdinals(i)
  PROVE  p \in Nat /\ s \in Nat /\ p < s
<1> DEFINE db == changeset_db
           table == cvs_item_to_changeset_id
           O == OrderedIn(db)
<1>1. /\ Partitioned(db, table) /\ KindsFit(db) /\ Chained(db)
  BY DEF IInv, DbInv, ProperDb
<1>2. /\ cvs_item[i] \in ItemRecord /\ CheckLinks(i) /\ IsSymbol(i) /\ ~ IsRevision(i)
  BY LinksAssumption DEF IsSymbol, IsRevision
<1>3. MaxInt \in Nat /\ Cardinality(Item) \in Nat /\ Cardinality(Item) < MaxInt
  BY MaxIntAssumption, ItemAssumption, FS_CardinalityType
\* The changeset of an item.
<1>4. ASSUME NEW j \in Item
      PROVE  /\ table[j] \in DOMAIN db /\ j \in db[table[j]].items
             /\ db[table[j]].kind = "ordered" =>
                  /\ table[j] \in O /\ IsRevision(j)
                  /\ db[table[j]].ordinal \in Nat /\ db[table[j]].ordinal < MaxInt
  <2>1. table[j] \in DOMAIN db /\ j \in db[table[j]].items
    BY <1>1 DEF Partitioned
  <2>2. ASSUME db[table[j]].kind = "ordered"
        PROVE  /\ table[j] \in O /\ IsRevision(j)
               /\ db[table[j]].ordinal \in Nat /\ db[table[j]].ordinal < Cardinality(Item)
    BY <1>1, <2>1, <2>2 DEF KindsFit, Chained, OrderedIn, IsRevision
  <2> QED
    BY <1>3, <2>1, <2>2
<1>5. ASSUME NEW j \in Item, NEW z \in Item, j \in GetPredIds(z),
             db[table[j]].kind = "ordered", db[table[z]].kind = "ordered"
      PROVE  db[table[j]].ordinal < db[table[z]].ordinal
  <2>1. DependsOn(db, table[z], table[j])
    BY <1>4, <1>5 DEF DependsOn
  <2> QED
    BY <1>1, <1>4, <1>5, <2>1 DEF Chained
<1>6. GetPredIds(i) \subseteq Item /\ GetSuccIds(i) \subseteq Item
  BY <1>2, PredSuccTypes
<1>7. /\ p \in Nat /\ p < MaxInt
      /\ p = 0 \/ \E j \in GetPredIds(i) : db[table[j]].kind = "ordered" /\ p = db[table[j]].ordinal
  BY <1>3, <1>4, <1>6 DEF PredOrdinals, OrdinalOf
<1>8. /\ s \in Nat
      /\ s = MaxInt \/ \E z \in GetSuccIds(i) : db[table[z]].kind = "ordered" /\ s = db[table[z]].ordinal
  BY <1>3, <1>4, <1>6 DEF SuccOrdinals, OrdinalOf
<1>9. CASE s = MaxInt
  BY <1>7, <1>8, <1>9
<1>10. CASE s # MaxInt
  <2>1. PICK z \in GetSuccIds(i) : db[table[z]].kind = "ordered" /\ s = db[table[z]].ordinal
    BY <1>8, <1>10
  <2>2. z \in Item /\ IsRevision(z) /\ i \in GetPredIds(z)
    BY <1>4, <1>6, <2>1, PredSuccInverse
  <2>3. RevisionLinks(z)
    BY <2>2, LinksAssumption DEF CheckLinks
  <2>4. cvs_item[z].first_on_branch_id = i /\ i # None
    BY <1>2, <2>2, <2>3 DEF GetPredIds, GetSymbolPredIds, RevisionLinks, IsRevision
  <2> DEFINE Sources == {x \in Item : IsSymbol(x)}
  <2>5. ASSUME NEW S \in SUBSET Sources, i \in S,
               \A x \in S : IsSymbol(cvs_item[x].source_id) => cvs_item[x].source_id \in S
        PROVE  \E x \in S : /\ cvs_item[x].source_id = cvs_item[z].prev_id
                            /\ cvs_item[z].prev_id \in Item
                            /\ cvs_item[z].prev_id \in GetPredIds(z)
                            /\ IsRevision(cvs_item[z].prev_id)
    <3>1. PICK x \in S : cvs_item[x].source_id = cvs_item[z].prev_id
      BY <2>2, <2>4, <2>5, BranchRootAssumption
    <3>2. x \in Item /\ ~ IsRevision(x) /\ CheckLinks(x) /\ cvs_item[x] \in ItemRecord
      BY LinksAssumption DEF IsRevision, IsSymbol
    <3>3. cvs_item[x].source_id # None /\ cvs_item[x].source_id \in Item
      BY <3>2 DEF CheckLinks, SymbolLinks, ItemRecord
    <3>4. cvs_item[z].prev_id \in GetPredIds(z) /\ IsRevision(cvs_item[z].prev_id)
      BY <2>2, <2>3, <3>1, <3>3 DEF GetPredIds, RevisionLinks
    <3> QED
      BY <3>1, <3>3, <3>4
  <2>6. CASE p = 0
    <3>1. \A x \in Sources : IsSymbol(cvs_item[x].source_id) => cvs_item[x].source_id \in Sources
      BY LinksAssumption, NoneAssumption DEF IsSymbol, ItemRecord, IsRevision, CheckLinks, SymbolLinks
    <3>2. i \in Sources
      BY <1>2
    <3>3. /\ cvs_item[z].prev_id \in Item /\ cvs_item[z].prev_id \in GetPredIds(z)
          /\ IsRevision(cvs_item[z].prev_id)
      BY <2>5, <3>1, <3>2
    <3>4. db[table[cvs_item[z].prev_id]].kind = "ordered"
      BY <1>1, <1>4, <3>3 DEF KindsFit, IsRevision
    <3> QED
      BY <1>4, <1>5, <1>8, <2>1, <2>2, <2>6, <3>3, <3>4
  <2>7. CASE p # 0
    <3>1. PICK j \in GetPredIds(i) : db[table[j]].kind = "ordered" /\ p = db[table[j]].ordinal
      BY <1>7, <2>7
    <3>2. j = cvs_item[i].source_id /\ j \in Item /\ IsRevision(j)
      BY <1>2, <1>4, <1>6, <3>1 DEF GetPredIds
    <3>3. ~ IsSymbol(j)
      BY <3>2 DEF IsRevision, IsSymbol
    <3>4. {i} \in SUBSET Sources
      BY <1>2
    <3>5. j = cvs_item[z].prev_id /\ j \in GetPredIds(z)
      BY <2>5, <3>2, <3>3, <3>4
    <3> QED
      BY <1>5, <1>7, <1>8, <2>1, <2>2, <3>1, <3>2, <3>5
  <2> QED
    BY <2>6, <2>7
<1> QED
  BY <1>7, <1>8, <1>9, <1>10

\* _split_retrograde_changeset() finds early and late items.
LEMMA RetrogradeSplits ==
  ASSUME IInv, NEW id \in DOMAIN nodes, changeset_db[id].kind = "branch", Retrograde(id)
  PROVE  /\ EarlyItems(id) \cup LateItems(id) = changeset_db[id].items
         /\ EarlyItems(id) \cap LateItems(id) = {}
         /\ EarlyItems(id) # {} /\ LateItems(id) # {}
<1> DEFINE db == changeset_db
           S == db[id].items
           table == cvs_item_to_changeset_id
<1>1. /\ Partitioned(db, table) /\ KindsFit(db) /\ Chained(db) /\ id \in DOMAIN db
  BY EdgesInGraph DEF IInv, DbInv, ProperDb
<1>2. S # {} /\ S \subseteq Item /\ \A i \in S : cvs_item[i].kind = "branch"
  BY <1>1 DEF Partitioned, KindsFit
<1>3. OutOfPlace(db, DOMAIN nodes, id)
  BY RetrogradeExact
<1>4. PICK p \in OrderedIn(db), s \in OrderedIn(db) :
        DependsOn(db, id, p) /\ DependsOn(db, s, id) /\ db[p].ordinal >= db[s].ordinal
  BY <1>3 DEF OutOfPlace
<1>5. PICK i \in S, x \in db[p].items : x \in GetPredIds(i)
  BY <1>4 DEF DependsOn
<1>6. PICK y \in db[s].items, j \in S : j \in GetPredIds(y)
  BY <1>4 DEF DependsOn
<1>7. table[x] = p /\ table[y] = s /\ x \in Item /\ y \in Item
  BY <1>1, <1>5, <1>6 DEF Partitioned, OrderedIn
<1>8. y \in GetSuccIds(j)
  BY <1>2, <1>6, <1>7, PredSuccInverse
<1>9. db[p].ordinal \in PredOrdinals(i) /\ db[s].ordinal \in SuccOrdinals(j)
  BY <1>5, <1>7, <1>8 DEF PredOrdinals, SuccOrdinals, OrdinalOf, OrderedIn
<1>10. i \in LateItems(id)
  BY <1>4, <1>9 DEF LateItems
<1> DEFINE Limits == UNION {SuccOrdinals(k) : k \in S}
<1>11. \A k \in S : \A a \in PredOrdinals(k), b \in SuccOrdinals(k) : a \in Nat /\ b \in Nat /\ a < b
  BY <1>2, PredBeforeSucc
<1>12. \A k \in S : 0 \in PredOrdinals(k) /\ MaxInt \in SuccOrdinals(k)
  BY DEF PredOrdinals, SuccOrdinals
<1>13. Limits \in SUBSET Nat /\ Limits # {}
  BY <1>2, <1>11, <1>12
<1>14. PICK least \in Limits : \A b \in Limits : least <= b
  <2> HIDE DEF Limits
  <2> QED
    BY <1>13, LeastOf
<1>15. PICK k \in S : least \in SuccOrdinals(k)
  BY <1>14
<1>16. k \notin LateItems(id)
  <2> SUFFICES ASSUME k \in LateItems(id) PROVE FALSE
    OBVIOUS
  <2>1. PICK m \in S : \E a \in PredOrdinals(k), b \in SuccOrdinals(m) : a >= b
    BY DEF LateItems
  <2>2. PICK a \in PredOrdinals(k), b \in SuccOrdinals(m) : a >= b
    BY <2>1
  <2>3. b \in Limits
    OBVIOUS
  <2> HIDE DEF Limits
  <2>4. a \in Nat /\ least \in Nat /\ b \in Nat /\ a < least /\ least <= b
    BY <1>11, <1>13, <1>14, <1>15, <2>2, <2>3
  <2> QED
    BY <2>2, <2>4
<1>17. LateItems(id) \subseteq S /\ EarlyItems(id) = S \ LateItems(id)
  BY DEF LateItems, EarlyItems
<1> QED
  BY <1>10, <1>15, <1>16, <1>17

-----------------------------------------------------------------------------
(* What replacing a changeset of symbols by its fragments leaves true.     *)

\* The fragments take the place of a changeset in both databases.
LEMMA ReplaceKeepsDb ==
  ASSUME NEW old, NEW first, NEW second, NEW key,
         ProperDb(changeset_db, cvs_item_to_changeset_id),
         Acyclic(changeset_db, SymbolsIn(changeset_db)),
         old \in SymbolsIn(changeset_db),
         MayReplace(old, first, second, key), Replaced(old, first, second, key),
         Partitioned(changeset_db', cvs_item_to_changeset_id')
  PROVE  /\ ProperDb(changeset_db', cvs_item_to_changeset_id')
         /\ Acyclic(changeset_db', SymbolsIn(changeset_db'))
         /\ OrderedIn(changeset_db') = OrderedIn(changeset_db)
<1> DEFINE db  == changeset_db
           db2 == changeset_db'
<1>1. /\ DOMAIN db2 = (DOMAIN db \ {old}) \cup {key, key + 1}
      /\ \A id \in {key, key + 1} :
           /\ db2[id] \in ChangesetRecord /\ db2[id].kind = db[old].kind
           /\ db2[id].items \subseteq db[old].items
      /\ \A id \in DOMAIN db \ {old} : db2[id] = db[id]
      /\ key \in Nat /\ key + 1 \in Nat
  BY DEF Replaced, MayReplace
<1>2. /\ old \in DOMAIN db /\ db[old].kind # "ordered"
      /\ key \notin DOMAIN db /\ key + 1 \notin DOMAIN db
  BY DEF SymbolsIn, OrderedIn, MayReplace
<1> HIDE DEF db2
<1>3. /\ OrderedIn(db2) = OrderedIn(db)
      /\ SymbolsIn(db2) = (SymbolsIn(db) \ {old}) \cup {key, key + 1}
      /\ \A id \in OrderedIn(db) : db2[id] = db[id]
  BY <1>1, <1>2 DEF OrderedIn, SymbolsIn
<1>4. KindsFit(db2)
  BY <1>1, <1>2 DEF ProperDb, KindsFit
<1>5. NoneOnItself(db2)
  <2> SUFFICES ASSUME NEW id \in DOMAIN db2, DependsOn(db2, id, id) PROVE FALSE
    BY DEF NoneOnItself
  <2>1. PICK n \in DOMAIN db : db2[id].items \subseteq db[n].items
    BY <1>1, <1>2
  <2>2. DependsOn(db, n, n)
    BY <2>1 DEF DependsOn
  <2> QED
    BY <2>2 DEF ProperDb, NoneOnItself
<1>6. Chained(db2)
  <2>1. \A a, b \in OrderedIn(db) : DependsOn(db2, b, a) <=> DependsOn(db, b, a)
    BY <1>3 DEF DependsOn
  <2> QED
    BY <1>3, <2>1 DEF ProperDb, Chained
<1>7. DOMAIN db2 \subseteq Nat /\ \A id \in DOMAIN db2 : db2[id] \in ChangesetRecord
  BY <1>1 DEF ProperDb
<1>8. Acyclic(db2, (SymbolsIn(db) \ {old}) \cup {key, key + 1})
  <2>1. /\ key \notin SymbolsIn(db) /\ key + 1 \notin SymbolsIn(db)
        /\ \A n \in SymbolsIn(db) \ {old} : db2[n].items = db[n].items
    BY <1>1, <1>2 DEF SymbolsIn
  <2> QED
    BY <1>1, <2>1, AcyclicSplit
<1>9. ProperDb(db2, cvs_item_to_changeset_id')
  BY <1>4, <1>5, <1>6, <1>7 DEF ProperDb, db2
<1> QED
  BY <1>3, <1>8, <1>9 DEF db2

\* The fragments take the place of its node in the graph.
LEMMA ReplaceKeepsEdges ==
  ASSUME NEW old, NEW first, NEW second, NEW key,
         old \in SymbolsIn(changeset_db), old \in DOMAIN nodes,
         DOMAIN nodes \subseteq DOMAIN changeset_db, NoneOnItself(changeset_db),
         IsGraph(nodes), HasEdges(nodes, OrderEdges(changeset_db)),
         MayReplace(old, first, second, key), Replaced(old, first, second, key),
         ReplaceChangeset(old, first, second, key)
  PROVE  /\ IsGraph(nodes')
         /\ DOMAIN nodes' = (DOMAIN nodes \ {old}) \cup {key, key + 1}
         /\ HasEdges(nodes', OrderEdges(changeset_db'))
<1> DEFINE db  == changeset_db
           db2 == changeset_db'
           X   == DOMAIN nodes \cup {key, key + 1}
           E2  == {p \in X \X X : IF p[1] = old \/ p[2] = old THEN ComesAfter(db, p[2], p[1])
                                  ELSE ComesAfter(db2, p[2], p[1])}
<1>1. /\ DOMAIN db2 = (DOMAIN db \ {old}) \cup {key, key + 1}
      /\ \A id \in {key, key + 1} : db2[id].kind = db[old].kind
      /\ \A id \in DOMAIN db \ {old} : db2[id] = db[id]
  BY DEF Replaced
<1>2. /\ old \in DOMAIN db /\ db[old].kind # "ordered"
      /\ key \notin DOMAIN db /\ key + 1 \notin DOMAIN db
      /\ key # old /\ key + 1 # old
  BY DEF SymbolsIn, OrderedIn, MayReplace
<1>3. ASSUME NEW a \in X, NEW b \in X
      PROVE  <<a, b>> \in E2 <=> IF a = old \/ b = old THEN ComesAfter(db, b, a)
                                 ELSE ComesAfter(db2, b, a)
  OBVIOUS
<1> HIDE DEF E2, db2
<1>4. HasEdges(nodes, E2)
  <2> SUFFICES ASSUME NEW a \in DOMAIN nodes, NEW b \in DOMAIN nodes
               PROVE  <<a, b>> \in E2 <=> <<a, b>> \in OrderEdges(db)
    BY DEF HasEdges
  <2>1. a \in X /\ b \in X /\ a \in DOMAIN db /\ b \in DOMAIN db
    OBVIOUS
  <2>2. a # old /\ b # old => db2[a] = db[a] /\ db2[b] = db[b]
    BY <1>1, <2>1
  <2>3. a # old /\ b # old => (ComesAfter(db2, b, a) <=> ComesAfter(db, b, a))
    BY <2>2 DEF ComesAfter, DependsOn
  <2> HIDE DEF X
  <2> QED
    BY <1>3, <2>1, <2>3, OrderEdge
<1>5. \A a \in (DOMAIN nodes \ {old}) \cup {key, key + 1}, b \in {key, key + 1} :
        /\ <<a, b>> \in E2 <=> DependsOn(db2, b, a)
        /\ <<b, a>> \in E2 <=> DependsOn(db2, a, b)
  <2> TAKE a \in (DOMAIN nodes \ {old}) \cup {key, key + 1}, b \in {key, key + 1}
  <2>1. a \in X /\ b \in X /\ a # old /\ b # old
    BY <1>2
  <2>2. /\ ComesAfter(db2, b, a) <=> DependsOn(db2, b, a)
        /\ ComesAfter(db2, a, b) <=> DependsOn(db2, a, b)
    BY <1>1, <1>2 DEF ComesAfter
  <2> HIDE DEF X
  <2> QED
    BY <1>3, <2>1, <2>2
<1>6. /\ IsGraph(nodes') /\ DOMAIN nodes' = (DOMAIN nodes \ {old}) \cup {key, key + 1}
      /\ HasEdges(nodes', E2)
  <2>1. ~ DependsOn(changeset_db, old, old)
    BY <1>2 DEF NoneOnItself
  <2>2. \A a \in (DOMAIN nodes \ {old}) \cup {key, key + 1}, b \in {key, key + 1} :
          /\ <<a, b>> \in E2 <=> DependsOn(changeset_db', b, a)
          /\ <<b, a>> \in E2 <=> DependsOn(changeset_db', a, b)
    BY <1>5 DEF db2
  <2> QED
    BY <1>2, <1>4, <2>1, <2>2, ReplaceEdges
<1>7. HasEdges(nodes', OrderEdges(db2))
  <2> SUFFICES ASSUME NEW a \in DOMAIN nodes', NEW b \in DOMAIN nodes'
               PROVE  <<a, b>> \in E2 <=> <<a, b>> \in OrderEdges(db2)
    BY <1>6 DEF HasEdges
  <2>1. a \in X /\ b \in X /\ a # old /\ b # old /\ a \in DOMAIN db2 /\ b \in DOMAIN db2
    BY <1>1, <1>2, <1>6
  <2> HIDE DEF X
  <2> QED
    BY <1>3, <2>1, OrderEdge
<1> QED
  BY <1>6, <1>7 DEF db2

\* A fragment is out of place only if the whole changeset was.
LEMMA ReplaceKeepsPlaces ==
  ASSUME NEW old, NEW first, NEW second, NEW key, NEW id \in DOMAIN changeset_db',
         old \in SymbolsIn(changeset_db),
         MayReplace(old, first, second, key), Replaced(old, first, second, key),
         DOMAIN nodes' = (DOMAIN nodes \ {old}) \cup {key, key + 1},
         OutOfPlace(changeset_db', DOMAIN nodes', id)
  PROVE  OutOfPlace(changeset_db, DOMAIN nodes, IF id \in {key, key + 1} THEN old ELSE id)
<1> DEFINE db  == changeset_db
           db2 == changeset_db'
           was == IF id \in {key, key + 1} THEN old ELSE id
<1>1. /\ DOMAIN db2 = (DOMAIN db \ {old}) \cup {key, key + 1}
      /\ \A n \in {key, key + 1} : db2[n].kind = db[old].kind /\ db2[n].items \subseteq db[old].items
      /\ \A n \in DOMAIN db \ {old} : db2[n] = db[n]
  BY DEF Replaced
<1>2. old \in DOMAIN db /\ db[old].kind # "ordered"
  BY DEF SymbolsIn, OrderedIn
<1>3. PICK p \in OrderedIn(db2) \cap DOMAIN nodes', s \in OrderedIn(db2) \cap DOMAIN nodes' :
        DependsOn(db2, id, p) /\ DependsOn(db2, s, id) /\ db2[p].ordinal >= db2[s].ordinal
  BY DEF OutOfPlace
<1> HIDE DEF db2
<1>4. \A n \in OrderedIn(db2) \cap DOMAIN nodes' :
        n \in OrderedIn(db) \cap DOMAIN nodes /\ db2[n] = db[n]
  BY <1>1, <1>2 DEF OrderedIn
<1>5. db2[id].items \subseteq db[was].items
  BY <1>1 DEF db2
<1> HIDE DEF was
<1>6. DependsOn(db, was, p) /\ DependsOn(db, s, was) /\ db[p].ordinal >= db[s].ordinal
  BY <1>3, <1>4, <1>5 DEF DependsOn
<1> QED
  BY <1>3, <1>4, <1>6 DEF OutOfPlace, was

-----------------------------------------------------------------------------
\* A retrograde changeset is replaced by its early and its late items, which
\* are to be looked at in their turn.
LEMMA SplitRetrogradeIInv == IInv /\ SplitRetrograde => IInv'
<1> SUFFICES ASSUME IInv, SplitRetrograde PROVE IInv'
  OBVIOUS
<1> DEFINE old    == Head(branch_changeset_ids)
           first  == EarlyItems(old)
           second == LateItems(old)
           key    == key_base
           db     == changeset_db
           db2    == changeset_db'
           list   == branch_changeset_ids
           list2  == branch_changeset_ids'
<1>1. /\ pc = "retrograde" /\ pc' = "retrograde" /\ list # <<>>
      /\ Retrograde(old) /\ ReplaceChangeset(old, first, second, key)
      /\ list2 = <<key, key + 1>> \o Tail(list)
      /\ key_base' = key + 2
      /\ nopred_nodes' = nopred_nodes /\ unread' = unread
      /\ next_ordered_changeset' = next_ordered_changeset
      /\ ordered_changeset_ids' = ordered_changeset_ids
      /\ open_nodes' = open_nodes /\ reachable_changesets' = reachable_changesets
      /\ path' = path /\ consumed' = consumed
  BY DEF SplitRetrograde, search_vars
<1>2. /\ unread = {} /\ consumed = {} /\ nopred_nodes = {} /\ open_nodes = <<>>
      /\ reachable_changesets = <<>> /\ path = <<>>
      /\ ordered_changeset_ids = OrderedIn(db) \cap DOMAIN nodes
  BY <1>1 DEF IInv, DbInv, KeysFresh, GraphInv, GraphComplete, ReadyExact, Counted,
              SearchInv, OutsideSearch
<1>3. /\ list \in Seq(DOMAIN nodes) /\ Len(list) \in Nat /\ Len(list) >= 1
      /\ DOMAIN list = 1..Len(list) /\ old = list[1] /\ old \in DOMAIN nodes
      /\ Tail(list) \in Seq(DOMAIN nodes) /\ Len(Tail(list)) = Len(list) - 1
      /\ \A k \in 1..(Len(list) - 1) : Tail(list)[k] = list[k + 1]
  BY <1>1 DEF IInv, TypeOK
<1>4. /\ \A k \in DOMAIN list : db[list[k]].kind = "branch"
      /\ \A j, k \in DOMAIN list : list[j] = list[k] => j = k
  BY DEF IInv, GraphInv, Listed
<1>5. db[old].kind = "branch"
  BY <1>3, <1>4
<1>6. /\ first \cup second = db[old].items /\ first \cap second = {}
      /\ first # {} /\ second # {}
  BY <1>1, <1>3, <1>5, RetrogradeSplits
<1> HIDE DEF first, second, old
<1>7. /\ IsGraph(nodes) /\ DOMAIN nodes = DOMAIN db /\ key \in Nat
      /\ old \in DOMAIN db /\ db[old] \in ChangesetRecord
      /\ ProperDb(db, cvs_item_to_changeset_id) /\ Acyclic(db, SymbolsIn(db))
      /\ \A id \in DOMAIN db : id < key /\ id \in Nat
  BY <1>2, <1>3 DEF IInv, TypeOK, IsGraph, GraphInv, GraphComplete, DbInv, SymbolsAcyclic, KeysFresh
<1>8. key \notin DOMAIN db /\ key + 1 \notin DOMAIN db /\ key # key + 1
  BY <1>7
<1>9. old \in SymbolsIn(db) /\ Partitioned(db, cvs_item_to_changeset_id) /\ NoneOnItself(db)
  BY <1>5, <1>7 DEF SymbolsIn, OrderedIn, ProperDb
<1>10. MayReplace(old, first, second, key)
  BY <1>6, <1>7, <1>8, <1>9 DEF MayReplace
<1>11. Replaced(old, first, second, key) /\ Partitioned(db2, cvs_item_to_changeset_id')
  BY <1>1, <1>10, ReplaceEffect, Zenon
<1>12. /\ ProperDb(db2, cvs_item_to_changeset_id') /\ Acyclic(db2, SymbolsIn(db2))
       /\ OrderedIn(db2) = OrderedIn(db)
  BY <1>7, <1>9, <1>10, <1>11, ReplaceKeepsDb
<1>13. HasEdges(nodes, OrderEdges(db))
  BY DEF IInv, GraphInv, EdgesExact
<1>14. /\ IsGraph(nodes') /\ DOMAIN nodes' = (DOMAIN nodes \ {old}) \cup {key, key + 1}
       /\ HasEdges(nodes', OrderEdges(db2))
  BY ZenonT(60), <1>1, <1>3, <1>7, <1>9, <1>10, <1>11, <1>13, ReplaceKeepsEdges
<1>15. /\ DOMAIN db2 = (DOMAIN db \ {old}) \cup {key, key + 1}
       /\ db2[key].kind = "branch" /\ db2[key + 1].kind = "branch"
       /\ \A id \in DOMAIN db \ {old} : db2[id] = db[id]
  BY <1>5, <1>11 DEF Replaced
<1> HIDE DEF db2
\* The list.
<1>16. /\ list2 \in Seq(DOMAIN nodes') /\ Len(list2) = Len(list) + 1
       /\ list2[1] = key /\ list2[2] = key + 1
       /\ \A k \in 3..(Len(list) + 1) : list2[k] = list[k - 1]
  <2>1. Tail(list) \in Seq(DOMAIN nodes')
    <3>1. \A k \in 1..(Len(list) - 1) : Tail(list)[k] \in DOMAIN nodes \ {old}
      <4> TAKE k \in 1..(Len(list) - 1)
      <4>1. k + 1 \in DOMAIN list /\ 1 \in DOMAIN list /\ k + 1 # 1
        BY <1>3
      <4>2. list[k + 1] # old /\ list[k + 1] \in DOMAIN nodes
        BY <1>3, <1>4, <4>1
      <4> QED
        BY <1>3, <4>2
    <3>2. \A k \in 1..Len(Tail(list)) : Tail(list)[k] \in DOMAIN nodes'
      BY <1>3, <1>14, <3>1
    <3> QED
      BY <1>3, <3>2, SeqInto
  <2>2. <<key, key + 1>> \in Seq(DOMAIN nodes')
    BY <1>14
  <2> HIDE DEF list, key
  <2>3. /\ list2 \in Seq(DOMAIN nodes') /\ Len(list2) = 2 + (Len(list) - 1)
        /\ list2[1] = key /\ list2[2] = key + 1
        /\ \A k \in 3..(Len(list) + 1) : list2[k] = Tail(list)[k - 2]
    BY <1>1, <1>3, <2>1, <2>2
  <2>4. ASSUME NEW k \in 3..(Len(list) + 1) PROVE list2[k] = list[k - 1]
    <3>1. k - 2 \in 1..(Len(list) - 1) /\ (k - 2) + 1 = k - 1
      BY <1>3
    <3> QED
      BY <1>3, <2>3, <3>1
  <2> QED
    BY <1>3, <2>3, <2>4
<1> HIDE DEF list, list2
<1>17. /\ DOMAIN list2 = 1..(Len(list) + 1)
       /\ \A k \in DOMAIN list2 : k = 1 \/ k = 2 \/ k \in 3..(Len(list) + 1)
       /\ \A k \in 3..(Len(list) + 1) :
            /\ k - 1 \in DOMAIN list /\ list2[k] = list[k - 1] /\ list[k - 1] \in DOMAIN db \ {old}
  <2>1. DOMAIN list2 = 1..(Len(list) + 1)
    BY <1>3, <1>16
  <2>2. ASSUME NEW k \in 3..(Len(list) + 1)
        PROVE  k - 1 \in DOMAIN list /\ list[k - 1] \in DOMAIN db \ {old}
    <3>1. k - 1 \in DOMAIN list /\ 1 \in DOMAIN list /\ k - 1 # 1
      BY <1>3
    <3> QED
      BY <1>3, <1>4, <1>7, <3>1
  <2> QED
    BY <1>3, <1>16, <2>1, <2>2
<1>18. Listed'
  <2>1. \A k \in DOMAIN list2 : db2[list2[k]].kind = "branch"
    BY <1>4, <1>15, <1>16, <1>17
  <2>2. ASSUME NEW j \in DOMAIN list2, NEW k \in DOMAIN list2, list2[j] = list2[k]
        PROVE  j = k
    <3>1. CASE j \in 3..(Len(list) + 1) /\ k \in 3..(Len(list) + 1)
      <4>1. j - 1 = k - 1
        BY <1>4, <1>17, <2>2, <3>1
      <4> QED
        BY <1>3, <3>1, <4>1
    <3>2. CASE ~ (j \in 3..(Len(list) + 1) /\ k \in 3..(Len(list) + 1))
      <4>1. \A m \in 3..(Len(list) + 1) : list2[m] # key /\ list2[m] # key + 1
        BY <1>8, <1>17
      <4> QED
        BY <1>8, <1>16, <1>17, <2>2, <3>2, <4>1
    <3> QED
      BY <3>1, <3>2
  <2> QED
    BY <1>1, <2>1, <2>2 DEF Listed, list2, db2
<1>19. NoneOutOfPlace'
  <2> SUFFICES ASSUME NEW id \in DOMAIN nodes', db2[id].kind = "branch",
                      ~ Contains(list2, id), OutOfPlace(db2, DOMAIN nodes', id)
               PROVE  FALSE
    BY DEF NoneOutOfPlace, db2, list2
  <2>1. id # key /\ id # key + 1
    <3>1. 1 \in 1..Len(list2) /\ 2 \in 1..Len(list2)
      BY <1>3, <1>16
    <3> QED
      BY <1>16, <3>1 DEF Contains
  <2>2. id \in DOMAIN nodes /\ id # old /\ db[id].kind = "branch" /\ id \in DOMAIN db2
    BY <1>7, <1>14, <1>15, <2>1
  <2>3. OutOfPlace(db, DOMAIN nodes, id)
    BY <1>9, <1>10, <1>11, <1>14, <2>1, <2>2, ReplaceKeepsPlaces DEF db2
  <2>4. Contains(list, id)
    BY <1>1, <2>2, <2>3 DEF IInv, GraphInv, NoneOutOfPlace, list
  <2>5. PICK k \in 1..Len(list) : list[k] = id
    BY <2>4 DEF Contains
  <2>6. k + 1 \in 3..(Len(list) + 1) /\ k + 1 \in 1..Len(list2) /\ (k + 1) - 1 = k
    <3>1. k # 1
      BY <1>3, <2>2, <2>5
    <3> QED
      BY <1>3, <1>16, <3>1
  <2>7. list2[k + 1] = id
    BY <1>16, <2>5, <2>6
  <2> QED
    BY <2>6, <2>7 DEF Contains
<1>20. TypeOK'
  <2>1. /\ DOMAIN db2 \subseteq Nat
        /\ \A id \in DOMAIN db2 : db2[id] \in ChangesetRecord
        /\ cvs_item_to_changeset_id' \in [Item -> DOMAIN db2]
    BY <1>12 DEF ProperDb, Partitioned
  <2>2. nodes' \in [DOMAIN nodes' -> [pred_ids : SUBSET DOMAIN nodes',
                                      succ_ids : SUBSET DOMAIN nodes']]
          /\ DOMAIN nodes' \subseteq DOMAIN db2
    BY <1>7, <1>14, <1>15 DEF IsGraph
  <2>3. /\ key_base' \in Nat /\ next_ordered_changeset' \in Nat
        /\ ordered_changeset_ids' \subseteq DOMAIN nodes'
    BY <1>1, <1>2, <1>5, <1>7, <1>14 DEF OrderedIn, IInv, TypeOK
  <2>4. /\ reachable_changesets' \in [DOMAIN reachable_changesets' -> DOMAIN nodes']
        /\ DOMAIN reachable_changesets' \subseteq DOMAIN nodes'
    BY <1>1, <1>2
  <2> QED
    BY <1>1, <1>2, <1>16, <2>1, <2>2, <2>3, <2>4, EmptySeq DEF TypeOK, db2, list2
<1>21. DbInv'
  <2>1. KeysFresh'
    BY <1>1, <1>2, <1>7, <1>15 DEF KeysFresh, db2
  <2> QED
    BY <1>12, <2>1 DEF DbInv, SymbolsAcyclic, db2
<1>22. GraphComplete' /\ ReadyExact'
  BY <1>1, <1>2, <1>7, <1>14, <1>15 DEF GraphComplete, ReadyExact, db2
<1>23. Counted'
  <2>1. \A id \in OrderedIn(db) : id # old /\ db2[id] = db[id]
    BY <1>5, <1>15 DEF OrderedIn
  <2>2. ordered_changeset_ids' = OrderedIn(db2) \cap DOMAIN nodes'
    BY <1>1, <1>2, <1>8, <1>12, <1>14, <2>1 DEF OrderedIn
  <2> QED
    BY <1>1, <1>12, <2>1, <2>2 DEF IInv, GraphInv, Counted, db2
<1>24. GraphInv'
  BY <1>14, <1>18, <1>19, <1>22, <1>23 DEF GraphInv, EdgesExact, db2
<1>25. SearchInv'
  BY <1>1, <1>2 DEF SearchInv, Searching, Following, Found, OutsideSearch
<1> QED
  BY <1>20, <1>21, <1>24, <1>25 DEF IInv

\* The early fragment of a split is in place: an item of it comes after nothing
\* that is as late as what any item of the old changeset comes before.
LEMMA EarlyInPlace ==
  ASSUME IInv, SplitRetrograde, NEW N
  PROVE  /\ Head(branch_changeset_ids') = key_base
         /\ changeset_db'[key_base].kind = "branch"
         /\ ~ OutOfPlace(changeset_db', N, key_base)
<1> DEFINE old    == Head(branch_changeset_ids)
           first  == EarlyItems(old)
           second == LateItems(old)
           key    == key_base
           db     == changeset_db
           db2    == changeset_db'
           table  == cvs_item_to_changeset_id
<1>1. /\ pc = "retrograde" /\ branch_changeset_ids # <<>>
      /\ Retrograde(old) /\ ReplaceChangeset(old, first, second, key)
      /\ branch_changeset_ids' = <<key, key + 1>> \o Tail(branch_changeset_ids)
  BY DEF SplitRetrograde
<1>2. old \in DOMAIN nodes /\ db[old].kind = "branch"
  <2>1. /\ branch_changeset_ids \in Seq(DOMAIN nodes)
        /\ 1 \in DOMAIN branch_changeset_ids /\ old = branch_changeset_ids[1]
    BY <1>1 DEF IInv, TypeOK
  <2> QED
    BY <2>1 DEF IInv, GraphInv, Listed
<1>3. Head(branch_changeset_ids') = key
  <2>1. Tail(branch_changeset_ids) \in Seq(DOMAIN nodes)
    BY <1>1 DEF IInv, TypeOK
  <2>2. key \in Nat
    BY DEF IInv, TypeOK
  <2> HIDE DEF key
  <2> QED
    BY <1>1, <2>1, <2>2
<1> HIDE DEF old
<1>4. /\ first \cup second = db[old].items /\ first \cap second = {}
      /\ first # {} /\ second # {}
  BY <1>1, <1>2, RetrogradeSplits
<1>5. /\ old \in DOMAIN db /\ db[old] \in ChangesetRecord /\ key \in Nat
      /\ \A id \in DOMAIN db : id < key /\ id \in Nat
      /\ Partitioned(db, table) /\ KindsFit(db)
  BY <1>1, <1>2 DEF IInv, TypeOK, GraphInv, GraphComplete, DbInv, KeysFresh, ProperDb
<1>6. key \notin DOMAIN db /\ key + 1 \notin DOMAIN db
  BY <1>5
<1> HIDE DEF first, second
<1>7. MayReplace(old, first, second, key)
  BY <1>4, <1>5, <1>6 DEF MayReplace
<1>8. Replaced(old, first, second, key)
  BY <1>1, <1>7, ReplaceEffect, Zenon
<1>9. /\ DOMAIN db2 = (DOMAIN db \ {old}) \cup {key, key + 1}
      /\ db2[key].kind = "branch" /\ db2[key + 1].kind = "branch"
      /\ db2[key].items = first
      /\ \A id \in DOMAIN db \ {old} : db2[id] = db[id]
  BY <1>2, <1>8 DEF Replaced, CreateSplitChangeset
<1> HIDE DEF db2
<1>10. ASSUME OutOfPlace(db2, N, key) PROVE FALSE
  <2>1. PICK p \in OrderedIn(db2), s \in OrderedIn(db2) :
          DependsOn(db2, key, p) /\ DependsOn(db2, s, key) /\ db2[p].ordinal >= db2[s].ordinal
    BY <1>10 DEF OutOfPlace
  <2>2. \A n \in OrderedIn(db2) : n \in OrderedIn(db) /\ db2[n] = db[n]
    BY <1>9 DEF OrderedIn
  <2>3. PICK i \in first, x \in db[p].items : x \in GetPredIds(i)
    BY <1>9, <2>1, <2>2 DEF DependsOn
  <2>4. PICK y \in db[s].items, j \in first : j \in GetPredIds(y)
    BY <1>9, <2>1, <2>2 DEF DependsOn
  <2>5. /\ table[x] = p /\ table[y] = s /\ x \in Item /\ y \in Item
        /\ i \in db[old].items /\ j \in db[old].items /\ j \in Item
    BY <1>4, <1>5, <2>2, <2>3, <2>4 DEF Partitioned, OrderedIn
  <2>6. y \in GetSuccIds(j)
    BY <2>4, <2>5, PredSuccInverse
  <2>7. db[p].ordinal \in PredOrdinals(i) /\ db[s].ordinal \in SuccOrdinals(j)
    BY <2>2, <2>3, <2>5, <2>6 DEF PredOrdinals, SuccOrdinals, OrdinalOf, OrderedIn
  <2>8. i \in second
    BY <2>1, <2>2, <2>5, <2>7 DEF LateItems, second
  <2> QED
    BY <1>4, <2>3, <2>8
<1> QED
  BY <1>3, <1>9, <1>10 DEF db2

\* split_retrograde_changesets() leaves a changeset that is not retrograde alone.
LEMMA KeepChangesetIInv == IInv /\ KeepChangeset => IInv'
<1> SUFFICES ASSUME IInv, KeepChangeset PROVE IInv'
  OBVIOUS
<1> DEFINE list  == branch_changeset_ids
           list2 == branch_changeset_ids'
<1>1. /\ pc = "retrograde" /\ list # <<>> /\ ~ Retrograde(Head(list)) /\ list2 = Tail(list)
      /\ UNCHANGED <<changeset_db, cvs_item_to_changeset_id, nodes, nopred_nodes, pc, unread,
                     key_base, next_ordered_changeset, ordered_changeset_ids, open_nodes,
                     reachable_changesets, path, consumed>>
  BY DEF KeepChangeset, graph_vars, search_vars
<1>2. /\ list \in Seq(DOMAIN nodes) /\ Len(list) \in Nat /\ Len(list) >= 1
      /\ DOMAIN list = 1..Len(list) /\ Head(list) = list[1] /\ list[1] \in DOMAIN nodes
      /\ list2 \in Seq(DOMAIN nodes) /\ Len(list2) = Len(list) - 1
      /\ DOMAIN list2 = 1..(Len(list) - 1)
      /\ \A k \in 1..(Len(list) - 1) : list2[k] = list[k + 1]
  BY <1>1 DEF IInv, TypeOK
<1>3. /\ \A k \in DOMAIN list : changeset_db[list[k]].kind = "branch"
      /\ \A j, k \in DOMAIN list : list[j] = list[k] => j = k
  BY DEF IInv, GraphInv, Listed
<1>4. ~ OutOfPlace(changeset_db, DOMAIN nodes, list[1])
  BY <1>1, <1>2, <1>3, RetrogradeExact
<1> HIDE DEF list, list2
<1>5. Listed'
  <2>1. \A k \in DOMAIN list2 : k + 1 \in DOMAIN list /\ list2[k] = list[k + 1] /\ k \in Nat
    BY <1>2
  <2>2. \A k \in DOMAIN list2 : changeset_db[list2[k]].kind = "branch"
    BY <1>3, <2>1
  <2>3. ASSUME NEW j \in DOMAIN list2, NEW k \in DOMAIN list2, list2[j] = list2[k]
        PROVE  j = k
    <3>1. j + 1 = k + 1
      BY <1>3, <2>1, <2>3
    <3> QED
      BY <2>1, <3>1
  <2> QED
    BY <1>1, <2>2, <2>3 DEF Listed, list2
<1>6. NoneOutOfPlace'
  <2> SUFFICES ASSUME NEW id \in DOMAIN nodes, changeset_db[id].kind = "branch",
                      ~ Contains(list2, id), OutOfPlace(changeset_db, DOMAIN nodes, id)
               PROVE  FALSE
    BY <1>1 DEF NoneOutOfPlace, list2
  <2>1. Contains(list, id)
    BY <1>1 DEF IInv, GraphInv, NoneOutOfPlace, list
  <2>2. PICK k \in 1..Len(list) : list[k] = id
    BY <2>1 DEF Contains
  <2>3. k # 1
    BY <1>4, <2>2
  <2>4. k - 1 \in 1..Len(list2) /\ list2[k - 1] = list[k]
    BY <1>2, <2>3
  <2> QED
    BY <2>2, <2>4 DEF Contains
<1>7. TypeOK'
  BY <1>1, <1>2 DEF IInv, TypeOK, list2
<1>8. DbInv'
  BY <1>1 DEF IInv, DbInv, SymbolsAcyclic, KeysFresh
<1>9. GraphInv'
  BY <1>1, <1>5, <1>6 DEF IInv, GraphInv, GraphComplete, EdgesExact, ReadyExact, Counted
<1>10. SearchInv'
  BY <1>1 DEF IInv, SearchInv, Searching, Following, Found, OutsideSearch
<1> QED
  BY <1>7, <1>8, <1>9, <1>10 DEF IInv

\* The graph is complete when the main loop begins.
LEMMA StartConsumingIInv == IInv /\ StartConsuming => IInv'
<1> SUFFICES ASSUME IInv, StartConsuming PROVE IInv'
  OBVIOUS
<1>1. /\ pc = "retrograde" /\ pc' = "consume" /\ branch_changeset_ids = <<>>
      /\ nopred_nodes' = NoPred(nodes)
      /\ UNCHANGED <<changeset_db, cvs_item_to_changeset_id, nodes, unread, key_base,
                     branch_changeset_ids, next_ordered_changeset, ordered_changeset_ids,
                     open_nodes, reachable_changesets, path, consumed>>
  BY DEF StartConsuming, search_vars
<1>2. TypeOK'
  BY <1>1 DEF IInv, TypeOK, NoPred
<1>3. DbInv'
  BY <1>1 DEF IInv, DbInv, SymbolsAcyclic, KeysFresh
<1>4. GraphInv'
  BY <1>1 DEF IInv, GraphInv, GraphComplete, EdgesExact, ReadyExact, Counted, Listed, NoneOutOfPlace
<1>5. SearchInv'
  BY <1>1 DEF IInv, SearchInv, Searching, Following, Found, OutsideSearch
<1> QED
  BY <1>2, <1>3, <1>4, <1>5 DEF IInv

-----------------------------------------------------------------------------
\* Whatever is consumed, no ordered changeset that is left comes before it.
LEMMA ConsumedIsDue ==
  ASSUME IInv, pc = "consume", NEW id \in nopred_nodes
  PROVE  /\ id \in DOMAIN nodes /\ id \in DOMAIN changeset_db /\ id \notin consumed
         /\ \A a \in DOMAIN nodes : ~ ComesAfter(changeset_db, id, a)
         /\ id \in OrderedIn(changeset_db) => changeset_db[id].ordinal = next_ordered_changeset
<1>1. id \in DOMAIN nodes /\ nodes[id].pred_ids = {} /\ unread = {}
  BY DEF IInv, DbInv, KeysFresh, GraphInv, ReadyExact, NoPred
<1>2. id \in DOMAIN changeset_db /\ id \notin consumed
  BY <1>1 DEF IInv, GraphInv, GraphComplete
<1>3. \A a \in DOMAIN nodes : ~ ComesAfter(changeset_db, id, a)
  BY <1>1, Edges
<1>4. ASSUME id \in OrderedIn(changeset_db)
      PROVE  \A a \in DOMAIN nodes : changeset_db[id].prev_id # a
  <2> SUFFICES ASSUME NEW a \in DOMAIN nodes, changeset_db[id].prev_id = a PROVE FALSE
    OBVIOUS
  <2>1. a # None
    BY NoneAssumption, EdgesInGraph DEF IInv, TypeOK
  <2>2. a \in OrderedIn(changeset_db)
    BY <1>4, <2>1 DEF IInv, DbInv, ProperDb, Chained
  <2> QED
    BY <1>3, <1>4, <2>2 DEF ComesAfter, OrderedIn
<1>5. id \in OrderedIn(changeset_db) => changeset_db[id].ordinal = next_ordered_changeset
  BY <1>1, <1>2, <1>4, FirstIsDue
<1> QED
  BY <1>1, <1>2, <1>3, <1>5

\* A changeset that is consumed leaves the graph.
LEMMA ConsumeIInv == IInv /\ Consume => IInv'
<1> SUFFICES ASSUME IInv, Consume PROVE IInv'
  OBVIOUS
<1> DEFINE db == changeset_db
           O  == OrderedIn(db)
           n  == next_ordered_changeset
<1>1. /\ pc = "consume" /\ pc' = "consume" /\ changeset_db' = db
      /\ UNCHANGED <<cvs_item_to_changeset_id, unread, key_base, branch_changeset_ids,
                     open_nodes, reachable_changesets, path>>
  BY DEF Consume, search_vars
<1>2. PICK id \in nopred_nodes :
        /\ ConsumeNode(id)
        /\ consumed' = consumed \cup {id}
        /\ ordered_changeset_ids' = ordered_changeset_ids \ {id}
        /\ next_ordered_changeset' = n + Cardinality({id} \cap ordered_changeset_ids)
  BY DEF Consume
<1>3. /\ id \in DOMAIN nodes /\ id \in DOMAIN db /\ id \notin consumed
      /\ id \in O => db[id].ordinal = n
  BY <1>1, ConsumedIsDue
<1>4. /\ IsGraph(nodes) /\ HasEdges(nodes, OrderEdges(db)) /\ nopred_nodes = NoPred(nodes)
  BY <1>1, EdgesInGraph DEF IInv, GraphInv, EdgesExact, ReadyExact
<1>5. /\ IsGraph(nodes') /\ DOMAIN nodes' = DOMAIN nodes \ {id}
      /\ HasEdges(nodes', OrderEdges(db))
      /\ nopred_nodes' = NoPred(nodes')
  <2> DEFINE E == OrderEdges(db)
  <2> HIDE DEF E
  <2>1. HasEdges(nodes, E)
    BY <1>4 DEF E
  <2>2. /\ IsGraph(nodes') /\ DOMAIN nodes' = DOMAIN nodes \ {id}
        /\ HasEdges(nodes', E) /\ nopred_nodes' = NoPred(nodes')
    BY <1>2, <1>4, <2>1, ConsumeReady
  <2> QED
    BY <2>2 DEF E
<1>6. /\ unread = {} /\ branch_changeset_ids = <<>> /\ open_nodes = <<>>
      /\ reachable_changesets = <<>> /\ path = <<>> /\ n \in Nat
      /\ ordered_changeset_ids = O \cap DOMAIN nodes
      /\ DOMAIN nodes = DOMAIN db \ consumed /\ consumed \subseteq DOMAIN db
  BY <1>1 DEF IInv, TypeOK, DbInv, KeysFresh, GraphInv, GraphComplete, Counted, Listed,
              SearchInv, OutsideSearch
<1>7. next_ordered_changeset' = IF id \in O THEN n + 1 ELSE n
  <2>1. CASE id \in O
    <3>1. {id} \cap ordered_changeset_ids = {id}
      BY <1>3, <1>6, <2>1
    <3> QED
      BY <1>2, <2>1, <3>1, FS_Singleton
  <2>2. CASE id \notin O
    <3>1. {id} \cap ordered_changeset_ids = {}
      BY <1>6, <2>2
    <3>2. Cardinality({id} \cap ordered_changeset_ids) = 0
      BY <3>1, FS_EmptySet
    <3> QED
      BY <1>2, <1>6, <2>2, <3>2
  <2> QED
    BY <2>1, <2>2
<1>8. TypeOK'
  <2>1. nodes' \in [DOMAIN nodes' -> [pred_ids : SUBSET DOMAIN nodes',
                                      succ_ids : SUBSET DOMAIN nodes']]
    BY <1>5 DEF IsGraph
  <2>2. /\ nopred_nodes' \subseteq DOMAIN nodes' /\ DOMAIN nodes' \subseteq DOMAIN db
        /\ ordered_changeset_ids' \subseteq DOMAIN nodes'
        /\ next_ordered_changeset' \in Nat /\ consumed' \subseteq DOMAIN db
    BY <1>2, <1>3, <1>5, <1>6, <1>7 DEF NoPred
  <2>3. /\ reachable_changesets' \in [DOMAIN reachable_changesets' -> DOMAIN nodes']
        /\ DOMAIN reachable_changesets' \subseteq DOMAIN nodes'
    BY <1>1, <1>6
  <2> QED
    BY <1>1, <1>6, <2>1, <2>2, <2>3, EmptySeq DEF IInv, TypeOK
<1>9. DbInv'
  BY <1>1 DEF IInv, DbInv, SymbolsAcyclic, KeysFresh
<1>10. GraphInv'
  <2>1. GraphComplete' /\ ReadyExact' /\ Listed'
    BY <1>1, <1>2, <1>3, <1>5, <1>6 DEF GraphComplete, ReadyExact, Listed
  <2>2. EdgesExact'
    BY <1>1, <1>5 DEF EdgesExact
  <2>3. Counted'
    <3>1. ordered_changeset_ids' = O \cap DOMAIN nodes'
      BY <1>2, <1>5, <1>6
    <3>2. ASSUME NEW x \in O
          PROVE  x \in consumed \cup {id} <=> db[x].ordinal < next_ordered_changeset'
      <4>1. /\ db[x].ordinal \in Nat
            /\ x \in consumed <=> db[x].ordinal < n
            /\ id \in O /\ db[x].ordinal = db[id].ordinal => x = id
        BY DEF IInv, DbInv, ProperDb, Chained, GraphInv, Counted
      <4>2. CASE id \in O
        BY <1>3, <1>6, <1>7, <4>1, <4>2
      <4>3. CASE id \notin O
        BY <1>7, <4>1, <4>3
      <4> QED
        BY <4>2, <4>3
    <3> QED
      BY <1>1, <1>2, <3>1, <3>2 DEF Counted
  <2>4. NoneOutOfPlace'
    <3>1. \A x : OutOfPlace(db, DOMAIN nodes', x) => OutOfPlace(db, DOMAIN nodes, x)
      BY <1>5 DEF OutOfPlace
    <3> QED
      BY <1>1, <1>5, <3>1 DEF IInv, GraphInv, NoneOutOfPlace
  <2> QED
    BY <2>1, <2>2, <2>3, <2>4 DEF GraphInv
<1>11. SearchInv'
  BY <1>1, <1>6 DEF SearchInv, Searching, Following, Found, OutsideSearch
<1> QED
  BY <1>8, <1>9, <1>10, <1>11 DEF IInv

\* The main loop ends when the graph is empty.
LEMMA FinishIInv == IInv /\ Finish => IInv'
<1> SUFFICES ASSUME IInv, Finish PROVE IInv'
  OBVIOUS
<1>1. /\ pc = "consume" /\ pc' = "done"
      /\ UNCHANGED <<changeset_db, cvs_item_to_changeset_id, nodes, nopred_nodes, unread,
                     key_base, branch_changeset_ids, next_ordered_changeset,
                     ordered_changeset_ids, open_nodes, reachable_changesets, path, consumed>>
  BY DEF Finish, graph_vars, search_vars
<1>2. TypeOK'
  BY <1>1 DEF IInv, TypeOK
<1>3. DbInv'
  BY <1>1 DEF IInv, DbInv, SymbolsAcyclic, KeysFresh
<1>4. GraphInv'
  BY <1>1 DEF IInv, GraphInv, GraphComplete, EdgesExact, ReadyExact, Counted, Listed, NoneOutOfPlace
<1>5. SearchInv'
  BY <1>1 DEF IInv, SearchInv, Searching, Following, Found, OutsideSearch
<1> QED
  BY <1>2, <1>3, <1>4, <1>5 DEF IInv

-----------------------------------------------------------------------------
(* The search.                                                             *)

\* _break_cycles() begins a search at the next ordered changeset.
LEMMA StartSearchIInv == IInv /\ StartSearch => IInv'
<1> SUFFICES ASSUME IInv, StartSearch PROVE IInv'
  OBVIOUS
<1>1. /\ pc = "consume" /\ pc' = "search" /\ nopred_nodes = {} /\ DOMAIN nodes # {}
      /\ open_nodes' = <<NextOrdered>> /\ reachable_changesets' = <<>>
      /\ UNCHANGED <<changeset_db, cvs_item_to_changeset_id, nodes, nopred_nodes, unread,
                     key_base, branch_changeset_ids, next_ordered_changeset,
                     ordered_changeset_ids, path, consumed>>
  BY DEF StartSearch, graph_vars
<1>2. NoPred(nodes) = {} /\ unread = {} /\ path = <<>> /\ branch_changeset_ids = <<>>
  BY <1>1 DEF IInv, DbInv, KeysFresh, GraphInv, ReadyExact, Listed, SearchInv, OutsideSearch
<1>3. PICK t : t = NextOrdered /\ IsTarget(t)
  BY <1>1, <1>2, NextInGraph
<1>4. t \in ordered_changeset_ids /\ t \in DOMAIN nodes
  BY <1>3 DEF IsTarget, IInv, TypeOK
<1>5. NextOrdered' = t
  BY <1>1, <1>3 DEF NextOrdered
<1>6. TypeOK'
  <2>1. <<t>> \in Seq(DOMAIN nodes)
    BY <1>4
  <2>2. /\ reachable_changesets' \in [DOMAIN reachable_changesets' -> DOMAIN nodes]
        /\ DOMAIN reachable_changesets' \subseteq DOMAIN nodes
    BY <1>1
  <2> QED
    BY <1>1, <1>3, <2>1, <2>2 DEF IInv, TypeOK
<1>7. DbInv'
  BY <1>1 DEF IInv, DbInv, SymbolsAcyclic, KeysFresh
<1>8. GraphInv'
  BY <1>1, <1>2
  DEF IInv, GraphInv, GraphComplete, EdgesExact, ReadyExact, Counted, Listed, NoneOutOfPlace
<1>9. SearchInv'
  <2>0. PICK level : level = [x \in {t} |-> 0]
    OBVIOUS
  <2>1. Reached' = {} /\ open_nodes' = <<t>> /\ level \in [{t} -> Nat] /\ level[t] = 0
    BY <1>1, <1>3, <2>0 DEF Reached
  <2>2. LevelsRight(level, t)'
    BY <2>1 DEF LevelsRight
  <2>3. QueueRight(level, t)'
    BY <2>1 DEF QueueRight
  <2>4. Searching'
    <3>1. IsTarget(t)'
      BY <1>1, <1>3 DEF IsTarget
    <3>2. (DOMAIN reachable_changesets \cap ordered_changeset_ids = {})'
      BY <1>1
    <3>3. \E l : LevelsRight(l, t)' /\ QueueRight(l, t)'
      BY <2>2, <2>3
    <3> QED
      BY <1>5, <3>1, <3>2, <3>3 DEF Searching
  <2> QED
    BY <1>1, <1>2, <2>4 DEF SearchInv, Following, Found, OutsideSearch
<1> QED
  BY <1>6, <1>7, <1>8, <1>9 DEF IInv

\* The queue of search_for_path() never runs empty: changesets of symbols that
\* all have predecessors, all of them reached, would form a cycle.
LEMMA QueueNotEmpty ==
  ASSUME IInv, pc = "search"
  PROVE  open_nodes # <<>>
<1> SUFFICES ASSUME open_nodes = <<>> PROVE FALSE
  OBVIOUS
<1> DEFINE t == NextOrdered
<1>1. PICK level : QueueRight(level, t)
  BY DEF IInv, SearchInv, Searching
<1>2. \A m \in Reached \cup {t} : nodes[m].pred_ids \subseteq Reached
  BY <1>1 DEF QueueRight
<1>3. Reached \subseteq DOMAIN nodes /\ t \in DOMAIN nodes /\ NoPred(nodes) = {}
  BY DEF Reached, IInv, TypeOK, SearchInv, Searching, IsTarget, GraphInv, ReadyExact
<1>4. \A m \in DOMAIN nodes : nodes[m].pred_ids # {}
  BY <1>3 DEF NoPred
<1> HIDE DEF t
<1>5. Reached # {}
  BY <1>2, <1>3, <1>4
<1>6. Reached \in SUBSET SymbolsIn(changeset_db)
  BY <1>3, EdgesInGraph DEF SymbolsIn, Reached, IInv, GraphInv, Counted
<1>7. PICK b \in Reached : \A a \in Reached : ~ DependsOn(changeset_db, b, a)
  BY <1>5, <1>6 DEF IInv, DbInv, SymbolsAcyclic, Acyclic
<1>8. PICK a \in nodes[b].pred_ids : TRUE
  BY <1>3, <1>4
<1>9. a \in Reached /\ a \in DOMAIN nodes /\ b \in DOMAIN nodes
  BY <1>2, <1>3, <1>8
<1>10. ComesAfter(changeset_db, b, a)
  BY <1>8, <1>9, Edges
<1>11. changeset_db[b].kind # "ordered"
  BY <1>6 DEF SymbolsIn, OrderedIn
<1> QED
  BY <1>7, <1>9, <1>10, <1>11 DEF ComesAfter

\* Breadth first: every path from the stop set to the target has at least two
\* changesets more than the level of the oldest open one.
LEMMA NoShortcut ==
  ASSUME IInv, pc = "search", NEW level, LevelsRight(level, NextOrdered),
         QueueRight(level, NextOrdered), open_nodes # <<>>
  PROVE  NoneShorter(2 + level[Head(open_nodes)], NextOrdered)
<1> DEFINE t == NextOrdered
           bound == level[Head(open_nodes)]
<1>1. /\ open_nodes \in Seq(DOMAIN nodes) /\ 1 \in DOMAIN open_nodes
      /\ Head(open_nodes) = open_nodes[1] /\ DOMAIN open_nodes = 1..Len(open_nodes)
      /\ Len(open_nodes) \in Nat
  BY DEF IInv, TypeOK
<1>2. /\ level \in [Reached \cup {t} -> Nat] /\ level[t] = 0
      /\ \A k \in DOMAIN open_nodes : open_nodes[k] \in Reached \cup {t}
      /\ \A j, k \in DOMAIN open_nodes : j < k => level[open_nodes[j]] <= level[open_nodes[k]]
      /\ \A m \in Reached \cup {t} :
           (\A k \in DOMAIN open_nodes : open_nodes[k] # m) =>
             \A n \in nodes[m].pred_ids : n \in Reached /\ level[n] <= level[m] + 1
  BY DEF LevelsRight, QueueRight
<1>3. bound \in Nat /\ \A x \in Reached \cup {t} : level[x] \in Nat
  BY <1>1, <1>2
<1>4. \A k \in DOMAIN open_nodes : bound <= level[open_nodes[k]]
  <2> TAKE k \in DOMAIN open_nodes
  <2>1. CASE k = 1
    BY <1>1, <1>3, <2>1
  <2>2. CASE k # 1
    BY <1>1, <1>2, <2>2
  <2> QED
    BY <2>1, <2>2
<1> HIDE DEF bound, t
<1> SUFFICES ASSUME NEW m \in 2..(1 + bound), NEW p \in [1..m -> DOMAIN nodes],
                    IsPath(p, m, t)
             PROVE  FALSE
  <2>1. (2 + bound) - 1 = 1 + bound
    BY <1>3
  <2> QED
    BY <2>1 DEF NoneShorter, bound, t
<1>5. /\ p[1] \in ordered_changeset_ids /\ p[m] = t
      /\ \A k \in 1..(m - 1) : p[k] \in nodes[p[k + 1]].pred_ids
      /\ m \in Nat /\ m >= 2 /\ m <= 1 + bound
  BY <1>3 DEF IsPath
<1> DEFINE Near(d) == p[m - d] \in Reached \cup {t} /\ level[p[m - d]] <= d
           Good == {d \in Nat : d <= m - 1 => Near(d) /\ (d > 0 => p[m - d] \in Reached)}
<1>6. 0 \in Good
  BY <1>2, <1>5
<1>7. ASSUME NEW d \in Nat, d \in Good PROVE d + 1 \in Good
  <2> SUFFICES ASSUME d + 1 <= m - 1
               PROVE  p[m - (d + 1)] \in Reached /\ level[p[m - (d + 1)]] <= d + 1
    OBVIOUS
  <2> DEFINE x == p[m - d]
             y == p[m - (d + 1)]
  <2>1. x \in Reached \cup {t} /\ level[x] <= d
    BY <1>5, <1>7
  <2>2. level[x] < bound /\ level[x] \in Nat
    BY <1>3, <1>5, <2>1
  <2>3. y \in nodes[x].pred_ids
    <3>1. m - (d + 1) \in 1..(m - 1) /\ (m - (d + 1)) + 1 = m - d
      BY <1>5
    <3> QED
      BY <1>5, <3>1
  <2> HIDE DEF x, y
  <2>4. \A k \in DOMAIN open_nodes : open_nodes[k] # x
    <3> SUFFICES ASSUME NEW k \in DOMAIN open_nodes, open_nodes[k] = x PROVE FALSE
      OBVIOUS
    <3>1. bound <= level[x]
      BY <1>4
    <3> QED
      BY <1>3, <2>2, <3>1
  <2>5. y \in Reached /\ level[y] <= level[x] + 1
    BY <1>2, <2>1, <2>3, <2>4
  <2>6. level[y] \in Nat
    BY <1>3, <2>5
  <2> QED
    BY <2>1, <2>2, <2>5, <2>6 DEF y
<1>8. m - 1 \in Good
  <2> HIDE DEF Good
  <2>1. Nat \subseteq Good
    BY <1>6, <1>7, SetInduction
  <2> QED
    BY <1>5, <2>1
<1>9. p[1] \in Reached
  <2>1. m - 1 \in Nat /\ m - 1 > 0 /\ m - (m - 1) = 1 /\ m - 1 <= m - 1
    BY <1>5
  <2> QED
    BY <1>8, <2>1
<1> QED
  BY <1>5, <1>9 DEF Reached

\* The graph is finite: each of its changesets has an item.
LEMMA FiniteGraph ==
  ASSUME IInv
  PROVE  IsFiniteSet(DOMAIN nodes)
<1>1. Partitioned(changeset_db, cvs_item_to_changeset_id)
  BY DEF IInv, DbInv, ProperDb
<1>2. \A id \in DOMAIN changeset_db : \E i \in Item : cvs_item_to_changeset_id[i] = id
  BY <1>1 DEF Partitioned
<1>3. cvs_item_to_changeset_id \in Surjection(Item, DOMAIN changeset_db)
  BY <1>1, <1>2 DEF Surjection, Partitioned
<1>4. IsFiniteSet(DOMAIN changeset_db)
  BY <1>3, ItemAssumption, FS_Surjection
<1> QED
  BY <1>4, FS_Subset DEF IInv, TypeOK

\* Appending to the rest of a queue: popleft() and extend() keep every place.
LEMMA QueueGrows ==
  ASSUME NEW S, NEW rest \in Seq(S), NEW order \in Seq(S)
  PROVE  /\ rest \o order \in Seq(S)
         /\ DOMAIN (rest \o order) = 1..(Len(rest) + Len(order))
         /\ \A k \in 1..Len(rest) : (rest \o order)[k] = rest[k]
         /\ \A k \in (Len(rest) + 1)..(Len(rest) + Len(order)) :
              (rest \o order)[k] = order[k - Len(rest)]
<1>1. Len(rest) \in Nat /\ Len(order) \in Nat
  OBVIOUS
<1> QED
  BY <1>1

\* What search_for_path() appends to the queue is all that it has reached.
LEMMA OrderOnto ==
  ASSUME NEW S, IsFiniteSet(S), NEW order \in SetToSeqs(S)
  PROVE  /\ Cardinality(S) \in Nat
         /\ order \in [1..Cardinality(S) -> S]
         /\ \A n \in S : \E k \in 1..Cardinality(S) : order[k] = n
<1> DEFINE c == Cardinality(S)
<1>1. c \in Nat
  BY FS_CardinalityType
<1> HIDE DEF c
<1>2. order \in [1..c -> S] /\ \A i, j \in 1..c : i # j => order[i] # order[j]
  BY DEF SetToSeqs, c
<1>3. order \in Injection(1..c, S)
  BY <1>2 DEF Injection, IsInjective
<1>4. Cardinality(1..c) = c
  BY <1>1, FS_Interval
<1>5. order \in Surjection(1..c, S)
  BY <1>3, <1>4, FS_Injection DEF c
<1> QED
  BY <1>1, <1>2, <1>5 DEF Surjection, c

\* The predecessors of the oldest open node are reached; or one of them is in
\* the stop set.
LEMMA SearchStepIInv == IInv /\ SearchStep => IInv'
<1> SUFFICES ASSUME IInv, SearchStep PROVE IInv'
  OBVIOUS
<1>1. /\ pc = "search" /\ open_nodes # <<>>
      /\ UNCHANGED <<changeset_db, cvs_item_to_changeset_id, nodes, nopred_nodes, unread,
                     key_base, branch_changeset_ids, next_ordered_changeset,
                     ordered_changeset_ids, consumed>>
  BY DEF SearchStep, graph_vars
<1>2. PICK t : t = NextOrdered /\ IsTarget(t)
  BY <1>1 DEF IInv, SearchInv, Searching
<1>3. PICK level : LevelsRight(level, t) /\ QueueRight(level, t)
  BY <1>1, <1>2 DEF IInv, SearchInv, Searching
<1>4. /\ DOMAIN reachable_changesets \cap ordered_changeset_ids = {}
      /\ Reached = DOMAIN reachable_changesets /\ path = <<>> /\ branch_changeset_ids = <<>>
      /\ t \in DOMAIN nodes /\ t \in ordered_changeset_ids /\ t \notin Reached
      /\ Reached \subseteq DOMAIN nodes
  BY <1>1, <1>2 DEF Reached, IInv, TypeOK, GraphInv, Listed, SearchInv, Searching, OutsideSearch,
                    IsTarget
<1>5. /\ open_nodes \in Seq(DOMAIN nodes) /\ Len(open_nodes) \in Nat /\ Len(open_nodes) >= 1
      /\ DOMAIN open_nodes = 1..Len(open_nodes) /\ Head(open_nodes) = open_nodes[1]
      /\ Tail(open_nodes) \in Seq(DOMAIN nodes)
      /\ Len(Tail(open_nodes)) = Len(open_nodes) - 1
      /\ \A k \in 1..(Len(open_nodes) - 1) : Tail(open_nodes)[k] = open_nodes[k + 1]
  BY <1>1 DEF IInv, TypeOK
<1>6. PICK id : id = Head(open_nodes)
  OBVIOUS
<1>7. PICK new : new = nodes[id].pred_ids \ DOMAIN reachable_changesets
  OBVIOUS
<1>8. /\ id \in DOMAIN nodes /\ id \in Reached \cup {t}
      /\ new \subseteq DOMAIN nodes /\ new \cap Reached = {}
      /\ nodes[id].pred_ids \subseteq new \cup Reached
      /\ \A n \in new : n \in nodes[id].pred_ids
  BY <1>3, <1>4, <1>5, <1>6, <1>7, EdgesInGraph DEF QueueRight
<1>9. NextOrdered' = t
  BY <1>1, <1>2 DEF NextOrdered
<1>10. IsTarget(t)'
  BY <1>1, <1>2 DEF IsTarget
<1>11. DbInv'
  <2>1. pc' # "load"
    BY <1>1 DEF SearchStep
  <2> QED
    BY <1>1, <2>1 DEF IInv, DbInv, SymbolsAcyclic, KeysFresh
<1>12. GraphInv'
  <2>1. pc' \in {"search", "path"}
    BY <1>1 DEF SearchStep
  <2> QED
    BY <1>1, <1>4, <2>1 DEF IInv, GraphInv, GraphComplete, EdgesExact, ReadyExact, Counted, Listed,
                            NoneOutOfPlace
<1>13. CASE new \cap ordered_changeset_ids = {}
  <2> DEFINE c == Cardinality(new)
             L == Len(open_nodes) - 1
             queue == open_nodes'
  <2>1. /\ reachable_changesets' =
             [n \in new \cup DOMAIN reachable_changesets |->
                IF n \in new THEN id ELSE reachable_changesets[n]]
        /\ pc' = pc /\ path' = path
        /\ \E order \in SetToSeqs(new) : queue = Tail(open_nodes) \o order
    BY <1>6, <1>7, <1>13 DEF SearchStep
  <2>2. PICK order \in SetToSeqs(new) : queue = Tail(open_nodes) \o order
    BY <2>1
  <2>3. /\ c \in Nat /\ order \in [1..c -> new]
        /\ \A n \in new : \E k \in 1..c : order[k] = n
    <3>1. IsFiniteSet(new)
      BY <1>8, FiniteGraph, FS_Subset
    <3> QED
      BY <3>1, OrderOnto
  <2> HIDE DEF c
  <2>4. L \in Nat
    BY <1>5
  <2>5. /\ queue \in Seq(DOMAIN nodes) /\ DOMAIN queue = 1..(L + c)
        /\ \A k \in 1..L : queue[k] = open_nodes[k + 1]
        /\ \A k \in (L + 1)..(L + c) : queue[k] = order[k - L]
    <3>1. order \in Seq(DOMAIN nodes) /\ Len(order) = c
      BY <1>8, <2>3
    <3>2. PICK rest : rest = Tail(open_nodes)
      OBVIOUS
    <3>3. /\ rest \in Seq(DOMAIN nodes) /\ Len(rest) = L /\ queue = rest \o order
          /\ \A k \in 1..L : rest[k] = open_nodes[k + 1]
      BY <1>5, <2>2, <3>2, Zenon
    <3>4. /\ queue \in Seq(DOMAIN nodes)
          /\ DOMAIN queue = 1..(Len(rest) + Len(order))
          /\ \A k \in 1..Len(rest) : queue[k] = rest[k]
          /\ \A k \in (Len(rest) + 1)..(Len(rest) + Len(order)) : queue[k] = order[k - Len(rest)]
      BY <3>1, <3>3, QueueGrows, Zenon
    <3> HIDE DEF L, c, queue
    <3>5. /\ DOMAIN queue = 1..(L + c)
          /\ \A k \in 1..L : queue[k] = rest[k]
          /\ \A k \in (L + 1)..(L + c) : queue[k] = order[k - L]
      BY <3>1, <3>3, <3>4, Zenon
    <3> QED
      BY <3>3, <3>4, <3>5, Zenon
  <2> HIDE DEF L, queue
  <2>6. \A k \in DOMAIN queue :
          \/ k \in 1..L /\ k + 1 \in DOMAIN open_nodes /\ queue[k] = open_nodes[k + 1]
          \/ k \in (L + 1)..(L + c) /\ queue[k] \in new
    <3>1. ASSUME NEW k \in (L + 1)..(L + c) PROVE queue[k] \in new
      <4>1. k - L \in 1..c
        BY <2>3, <2>4
      <4> QED
        BY <2>3, <2>5, <4>1
    <3> QED
      BY <1>5, <2>3, <2>4, <2>5, <3>1 DEF L
  <2>7. \A n \in new : \E k \in DOMAIN queue : queue[k] = n
    <3> SUFFICES ASSUME NEW n \in new PROVE \E k \in DOMAIN queue : queue[k] = n
      OBVIOUS
    <3>1. PICK k \in 1..c : order[k] = n
      BY <2>3
    <3>2. L + k \in (L + 1)..(L + c) /\ L + k \in DOMAIN queue /\ (L + k) - L = k
      BY <2>3, <2>4, <2>5
    <3> QED
      BY <2>5, <3>1, <3>2
  <2>8. \A k \in DOMAIN open_nodes :
          k = 1 \/ \E j \in DOMAIN queue : queue[j] = open_nodes[k]
    <3> SUFFICES ASSUME NEW k \in DOMAIN open_nodes, k # 1
                 PROVE  \E j \in DOMAIN queue : queue[j] = open_nodes[k]
      OBVIOUS
    <3>1. k - 1 \in 1..L /\ k - 1 \in DOMAIN queue /\ (k - 1) + 1 = k
      BY <1>5, <2>3, <2>5 DEF L
    <3> QED
      BY <2>5, <3>1
  <2>9. /\ DOMAIN reachable_changesets' = new \cup Reached
        /\ \A n \in new : reachable_changesets'[n] = id
        /\ \A n \in Reached : reachable_changesets'[n] = reachable_changesets[n]
    BY <1>4, <1>8, <2>1
  <2>10. Reached' = new \cup Reached
    BY <1>1, <1>4, <1>13, <2>9 DEF Reached
  <2>11. PICK level2 :
           level2 = [n \in new \cup Reached \cup {t} |->
                       IF n \in new THEN level[id] + 1 ELSE level[n]]
    OBVIOUS
  <2>12. /\ level[id] \in Nat
         /\ \A n \in Reached \cup {t} : level[n] \in Nat /\ level2[n] = level[n]
         /\ \A n \in new : level2[n] = level[id] + 1
         /\ level2 \in [new \cup Reached \cup {t} -> Nat]
    <3>1. level \in [Reached \cup {t} -> Nat]
      BY <1>3 DEF LevelsRight
    <3>2. level[id] \in Nat /\ \A n \in Reached \cup {t} : level[n] \in Nat /\ n \notin new
      BY <1>4, <1>8, <1>13, <3>1
    <3> QED
      BY <2>11, <3>2
  <2>13. LevelsRight(level2, t)'
    <3>1. level2[t] = 0
      BY <1>3, <2>12 DEF LevelsRight
    <3>2. \A n \in new : n \in nodes[id].pred_ids /\ id \in Reached \cup {t}
      BY <1>8
    <3>3. ASSUME NEW n \in new \cup Reached
          PROVE  /\ reachable_changesets'[n] \in new \cup Reached \cup {t}
                 /\ n \in nodes[reachable_changesets'[n]].pred_ids
                 /\ level2[n] = level2[reachable_changesets'[n]] + 1
      <4>1. CASE n \in new
        BY <1>8, <2>9, <2>12, <4>1
      <4>2. CASE n \in Reached
        <5>1. /\ reachable_changesets[n] \in Reached \cup {t}
              /\ n \in nodes[reachable_changesets[n]].pred_ids
              /\ level[n] = level[reachable_changesets[n]] + 1
          BY <1>3, <4>2 DEF LevelsRight
        <5> QED
          BY <2>9, <2>12, <4>2, <5>1
      <4> QED
        BY <3>3, <4>1, <4>2
    <3> QED
      BY <1>1, <2>10, <2>12, <3>1, <3>3 DEF LevelsRight
  <2>14. /\ \A k \in DOMAIN open_nodes : open_nodes[k] \in Reached \cup {t}
         /\ \A j, k \in DOMAIN open_nodes :
              j < k => level[open_nodes[j]] <= level[open_nodes[k]]
         /\ \A k \in DOMAIN open_nodes : \A n \in Reached : level[n] <= level[open_nodes[k]] + 1
         /\ \A m \in Reached \cup {t} :
              (\A k \in DOMAIN open_nodes : open_nodes[k] # m) =>
                \A n \in nodes[m].pred_ids : n \in Reached /\ level[n] <= level[m] + 1
    BY <1>3 DEF QueueRight
  <2>15. 1 \in DOMAIN open_nodes /\ open_nodes[1] = id
    BY <1>5, <1>6
  <2>16. \A n \in Reached \cup {t} : level[n] <= level[id] + 1
    <3>1. level[t] = 0
      BY <1>3 DEF LevelsRight
    <3> QED
      BY <2>12, <2>14, <2>15, <3>1
  \* What is in the queue is as far from the target as id, or one step farther.
  <2>17. \A k \in DOMAIN queue :
           /\ queue[k] \in new \cup Reached \cup {t}
           /\ level2[queue[k]] \in Nat
           /\ level[id] <= level2[queue[k]] /\ level2[queue[k]] <= level[id] + 1
    <3> SUFFICES ASSUME NEW k \in DOMAIN queue
                 PROVE  /\ queue[k] \in new \cup Reached \cup {t}
                        /\ level2[queue[k]] \in Nat
                        /\ level[id] <= level2[queue[k]] /\ level2[queue[k]] <= level[id] + 1
      OBVIOUS
    <3>1. CASE queue[k] \in new
      BY <2>12, <3>1
    <3>2. CASE queue[k] \notin new
      <4>1. k \in 1..L /\ k + 1 \in DOMAIN open_nodes /\ queue[k] = open_nodes[k + 1] /\ 1 < k + 1
        BY <2>4, <2>6, <3>2
      <4>2. queue[k] \in Reached \cup {t} /\ level[id] <= level[queue[k]]
        BY <2>14, <2>15, <4>1
      <4> QED
        BY <2>12, <2>16, <4>2
    <3> QED
      BY <3>1, <3>2
  <2>18. ASSUME NEW j \in DOMAIN queue, NEW k \in DOMAIN queue, j < k
         PROVE  level2[queue[j]] <= level2[queue[k]]
    <3>1. CASE queue[k] \in new
      BY <2>12, <2>17, <3>1
    <3>2. CASE queue[k] \notin new
      <4>1. k \in 1..L /\ k + 1 \in DOMAIN open_nodes /\ queue[k] = open_nodes[k + 1]
        BY <2>6, <3>2
      <4>2. j \in 1..L /\ j + 1 \in DOMAIN open_nodes /\ queue[j] = open_nodes[j + 1] /\ j + 1 < k + 1
        BY <2>3, <2>4, <2>5, <2>6, <2>18, <4>1
      <4>3. level[queue[j]] <= level[queue[k]]
        BY <2>14, <4>1, <4>2
      <4>4. queue[j] \in Reached \cup {t} /\ queue[k] \in Reached \cup {t}
        BY <2>14, <4>1, <4>2
      <4> QED
        BY <2>12, <4>3, <4>4
    <3> QED
      BY <3>1, <3>2
  <2>19. ASSUME NEW k \in DOMAIN queue, NEW n \in new \cup Reached
         PROVE  level2[n] <= level2[queue[k]] + 1
    <3>1. level2[n] \in Nat /\ level2[n] <= level[id] + 1
      BY <2>12, <2>16
    <3> QED
      BY <2>12, <2>17, <3>1
  <2>20. ASSUME NEW m \in new \cup Reached \cup {t}, \A k \in DOMAIN queue : queue[k] # m,
                NEW n \in nodes[m].pred_ids
         PROVE  n \in new \cup Reached /\ level2[n] <= level2[m] + 1
    <3>1. m \in Reached \cup {t} /\ m \notin new
      BY <2>7, <2>20
    <3>2. CASE m = id
      <4>1. n \in new \cup Reached
        BY <1>8, <3>2
      <4>2. level2[n] \in Nat /\ level2[n] <= level[id] + 1
        BY <2>12, <2>16, <4>1
      <4> QED
        BY <2>12, <3>1, <3>2, <4>1, <4>2
    <3>3. CASE m # id
      <4>1. \A k \in DOMAIN open_nodes : open_nodes[k] # m
        BY <2>8, <2>15, <2>20, <3>3
      <4>2. n \in Reached /\ level[n] <= level[m] + 1
        BY <2>14, <3>1, <4>1
      <4> QED
        BY <2>12, <3>1, <4>2
    <3> QED
      BY <3>2, <3>3
  <2>21. QueueRight(level2, t)'
    BY <1>1, <2>10, <2>17, <2>18, <2>19, <2>20 DEF QueueRight, queue
  <2>22. TypeOK'
    <3>1. /\ DOMAIN reachable_changesets' \subseteq DOMAIN nodes
          /\ \A n \in DOMAIN reachable_changesets' : reachable_changesets'[n] \in DOMAIN nodes
      <4>1. \A n \in Reached : reachable_changesets[n] \in DOMAIN nodes
        BY <1>4 DEF IInv, TypeOK
      <4> QED
        BY <1>4, <1>8, <2>9, <4>1
    <3>2. reachable_changesets' \in [DOMAIN reachable_changesets' -> DOMAIN nodes]
      <4>1. reachable_changesets' = [n \in DOMAIN reachable_changesets' |-> reachable_changesets'[n]]
        BY <2>1
      <4> QED
        BY <3>1, <4>1
    <3> QED
      BY <1>1, <2>1, <2>5, <3>1, <3>2 DEF IInv, TypeOK, queue
  <2>23. Searching'
    <3>1. (DOMAIN reachable_changesets \cap ordered_changeset_ids = {})'
      BY <1>1, <1>4, <1>13, <2>9
    <3>2. \E l : LevelsRight(l, t)' /\ QueueRight(l, t)'
      BY <2>13, <2>21
    <3> QED
      BY <1>9, <1>10, <3>1, <3>2 DEF Searching
  <2>24. SearchInv'
    BY <1>1, <1>4, <2>1, <2>23 DEF SearchInv, Following, Found, OutsideSearch
  <2> QED
    BY <1>11, <1>12, <2>22, <2>24 DEF IInv
<1>14. CASE new \cap ordered_changeset_ids # {}
  <2>1. PICK last \in new \cap ordered_changeset_ids :
          /\ reachable_changesets' =
               [n \in {last} \cup DOMAIN reachable_changesets |->
                  IF n \in {last} THEN id ELSE reachable_changesets[n]]
          /\ path' = <<last>> /\ open_nodes' = <<>> /\ pc' = "path"
    BY <1>6, <1>7, <1>14 DEF SearchStep
  <2>2. last \in DOMAIN nodes /\ last \notin Reached /\ last \in nodes[id].pred_ids
    BY <1>8
  <2>3. /\ DOMAIN reachable_changesets' = {last} \cup Reached
        /\ reachable_changesets'[last] = id
        /\ \A n \in Reached : reachable_changesets'[n] = reachable_changesets[n]
    BY <1>4, <2>1, <2>2
  <2>4. Reached' = Reached
    BY <1>1, <1>4, <2>1, <2>3 DEF Reached
  <2>5. LevelsRight(level, t)'
    BY <1>1, <1>3, <2>3, <2>4 DEF LevelsRight
  <2>6. TypeOK'
    <3>1. /\ DOMAIN reachable_changesets' \subseteq DOMAIN nodes
          /\ \A n \in DOMAIN reachable_changesets' : reachable_changesets'[n] \in DOMAIN nodes
      <4>1. \A n \in Reached : reachable_changesets[n] \in DOMAIN nodes
        BY <1>4 DEF IInv, TypeOK
      <4> QED
        BY <1>4, <1>8, <2>2, <2>3, <4>1
    <3>2. reachable_changesets' \in [DOMAIN reachable_changesets' -> DOMAIN nodes]
      <4>1. reachable_changesets' = [n \in DOMAIN reachable_changesets' |-> reachable_changesets'[n]]
        BY <2>1
      <4> QED
        BY <3>1, <4>1
    <3>3. <<last>> \in Seq(DOMAIN nodes)
      BY <2>2
    <3> QED
      BY <1>1, <2>1, <3>1, <3>2, <3>3, EmptySeq DEF IInv, TypeOK
  <2>7. Following'
    <3>1. NoneShorter(2 + level[id], t)
      BY <1>1, <1>2, <1>3, <1>6, NoShortcut
    <3>2. NoneShorter(2 + level[id], t)'
      BY <1>1, <3>1 DEF NoneShorter, IsPath
    <3>3. PathBegun'
      BY <1>1, <2>1 DEF PathBegun
    <3>4. path' = <<last>> /\ Len(path') = 1 /\ path'[1] = last
      BY <2>1
    <3>5. level[id] \in Nat
      BY <1>3, <1>8 DEF LevelsRight
    <3>6. \E l : LevelsRight(l, t)' /\ NoneShorter(Len(path) + 1 + l[reachable_changesets[path[Len(path)]]], t)'
      <4>1. Len(path') + 1 + level[reachable_changesets'[path'[Len(path')]]] = 2 + level[id]
        BY <2>3, <3>4, <3>5
      <4> QED
        BY <2>5, <3>2, <4>1
    <3> QED
      BY <1>1, <1>8, <1>9, <1>10, <2>2, <2>3, <2>4, <3>3, <3>4, <3>6 DEF Following
  <2>8. SearchInv'
    BY <2>1, <2>7 DEF SearchInv, Searching, Found, OutsideSearch
  <2> QED
    BY <1>11, <1>12, <2>6, <2>8 DEF IInv
<1> QED
  BY <1>13, <1>14

\* One more step from the stop set towards the target.
LEMMA GetPathIInv == IInv /\ GetPath => IInv'
<1> SUFFICES ASSUME IInv, GetPath PROVE IInv'
  OBVIOUS
<1>1. /\ pc = "path"
      /\ path' = Append(path, reachable_changesets[Last(path)])
      /\ IF Last(path') = NextOrdered
         THEN pc' = "break" /\ reachable_changesets' = <<>>
         ELSE pc' = pc /\ reachable_changesets' = reachable_changesets
      /\ UNCHANGED <<changeset_db, cvs_item_to_changeset_id, nodes, nopred_nodes, unread,
                     key_base, branch_changeset_ids, next_ordered_changeset,
                     ordered_changeset_ids, open_nodes, consumed>>
  BY DEF GetPath, graph_vars
<1>2. PICK t : t = NextOrdered /\ IsTarget(t)
  BY <1>1 DEF IInv, SearchInv, Following
<1>3. NextOrdered' = t /\ IsTarget(t)'
  BY <1>1, <1>2 DEF NextOrdered, IsTarget
<1>4. PICK m : m = Len(path)
  OBVIOUS
<1>5. PICK next : next = reachable_changesets[path[m]]
  OBVIOUS
<1>6. /\ PathBegun /\ path[m] \in DOMAIN reachable_changesets
      /\ next \in Reached \cup {t} /\ path[m] \in nodes[next].pred_ids
      /\ \E level : LevelsRight(level, t) /\ NoneShorter(m + 1 + level[next], t)
  BY <1>1, <1>2, <1>4, <1>5 DEF IInv, SearchInv, Following
<1>7. PICK level : LevelsRight(level, t) /\ NoneShorter(m + 1 + level[next], t)
  BY <1>6
<1>8. /\ path \in Seq(DOMAIN nodes) /\ m \in Nat /\ m >= 1 /\ next \in DOMAIN nodes
      /\ t \in DOMAIN nodes /\ level[next] \in Nat
      /\ open_nodes = <<>> /\ branch_changeset_ids = <<>>
  <2>1. path \in Seq(DOMAIN nodes) /\ path # <<>>
    BY <1>6 DEF IInv, TypeOK, PathBegun
  <2>2. t \in DOMAIN nodes /\ next \in DOMAIN nodes
    BY <1>2, <1>6 DEF IsTarget, Reached, IInv, TypeOK
  <2>3. level[next] \in Nat
    BY <1>6, <1>7 DEF LevelsRight
  <2> QED
    BY <1>1, <1>4, <2>1, <2>2, <2>3 DEF IInv, GraphInv, Listed, SearchInv, OutsideSearch
<1>9. path' = Append(path, next)
  BY <1>1, <1>4, <1>5, <1>8 DEF Last
<1>10. /\ path' \in Seq(DOMAIN nodes) /\ Len(path') = m + 1
       /\ path'[m + 1] = next /\ Last(path') = next
       /\ \A k \in 1..m : path'[k] = path[k]
  <2>1. /\ path' \in Seq(DOMAIN nodes) /\ Len(path') = m + 1 /\ path'[m + 1] = next
        /\ \A k \in 1..m : path'[k] = path[k]
    BY <1>4, <1>8, <1>9
  <2> QED
    BY <2>1 DEF Last
<1>11. /\ path[1] \in ordered_changeset_ids
       /\ \A k \in 2..m : path[k] \notin ordered_changeset_ids
       /\ \A k \in 1..(m - 1) : path[k] \in nodes[path[k + 1]].pred_ids
  BY <1>1, <1>4, <1>6 DEF PathBegun
<1>12. /\ path' # <<>> /\ path'[1] \in ordered_changeset_ids
       /\ \A k \in 2..m : path'[k] \notin ordered_changeset_ids
       /\ \A k \in 1..m : path'[k] \in nodes[path'[k + 1]].pred_ids
  <2>1. path' # <<>> /\ 1 \in 1..m /\ 2..m \subseteq 1..m
    BY <1>8, <1>10
  <2>2. ASSUME NEW k \in 1..m PROVE path'[k] \in nodes[path'[k + 1]].pred_ids
    <3>1. CASE k = m
      BY <1>6, <1>8, <1>10, <3>1
    <3>2. CASE k # m
      <4>1. k \in 1..(m - 1) /\ k + 1 \in 1..m
        BY <1>8, <3>2
      <4> QED
        BY <1>10, <1>11, <4>1
    <3> QED
      BY <3>1, <3>2
  <2> QED
    BY <1>10, <1>11, <2>1, <2>2
<1>13. PathBegun'
  <2>1. \A k \in 2..(m + 1) : k \in 2..m \/ k = m + 1
    BY <1>8
  <2>2. (m + 1) - 1 = m
    BY <1>8
  <2>3. next \in ordered_changeset_ids => next = t /\ pc' = "break"
    BY <1>1, <1>2, <1>6, <1>10 DEF Reached
  <2> QED
    <3>1. ASSUME NEW k \in 2..(m + 1), path'[k] \in ordered_changeset_ids
          PROVE  path'[k] = t /\ k = m + 1 /\ pc' = "break"
      BY <1>10, <1>12, <2>1, <2>3, <3>1, Zenon
    <3>2. /\ path' # <<>> /\ path'[1] \in ordered_changeset_ids
          /\ \A k \in 1..((m + 1) - 1) : path'[k] \in nodes[path'[k + 1]].pred_ids
      BY <1>12, <2>2, Zenon
    <3>3. /\ ordered_changeset_ids' = ordered_changeset_ids /\ nodes' = nodes
          /\ NextOrdered' = t /\ Len(path') = m + 1
      BY <1>1, <1>3, <1>10
    <3> QED
      BY <3>1, <3>2, <3>3, Zenon DEF PathBegun
<1>14. DbInv'
  BY <1>1 DEF IInv, DbInv, SymbolsAcyclic, KeysFresh
<1>15. GraphInv'
  BY <1>1, <1>8
  DEF IInv, GraphInv, GraphComplete, EdgesExact, ReadyExact, Counted, Listed, NoneOutOfPlace
<1>16. CASE next = t
  <2>1. pc' = "break" /\ reachable_changesets' = <<>>
    BY <1>1, <1>2, <1>10, <1>16
  <2>2. TypeOK'
    <3>1. /\ reachable_changesets' \in [DOMAIN reachable_changesets' -> DOMAIN nodes]
          /\ DOMAIN reachable_changesets' \subseteq DOMAIN nodes
      BY <2>1
    <3> QED
      BY <1>1, <1>10, <2>1, <3>1 DEF IInv, TypeOK
  <2>3. level[next] = 0 /\ m + 1 + 0 = m + 1
    BY <1>7, <1>8, <1>16 DEF LevelsRight
  <2>4. NoneShorter(m + 1, t)'
    BY <1>1, <1>7, <2>3 DEF NoneShorter, IsPath
  <2>5. Found'
    BY <1>3, <1>8, <1>10, <1>13, <1>16, <2>4 DEF Found
  <2>6. SearchInv'
    BY <1>1, <1>8, <2>1, <2>5 DEF SearchInv, Searching, Following, OutsideSearch
  <2> QED
    BY <1>14, <1>15, <2>2, <2>6 DEF IInv
<1>17. CASE next # t
  <2>1. pc' = "path" /\ reachable_changesets' = reachable_changesets
    BY <1>1, <1>2, <1>10, <1>17
  <2>2. TypeOK'
    BY <1>1, <1>10, <2>1 DEF IInv, TypeOK
  <2>3. PICK next2 : next2 = reachable_changesets[next]
    OBVIOUS
  <2>4. /\ next \in Reached /\ next \in DOMAIN reachable_changesets
        /\ next2 \in Reached \cup {t} /\ next \in nodes[next2].pred_ids
        /\ level[next] = level[next2] + 1
    BY <1>6, <1>7, <1>17, <2>3 DEF LevelsRight, Reached
  <2>5. Reached' = Reached /\ LevelsRight(level, t)'
    BY <1>1, <1>7, <2>1 DEF LevelsRight, Reached
  <2>6. level[next2] \in Nat
    BY <1>7, <2>4 DEF LevelsRight
  <2>7. m + 1 + level[next] = (m + 1) + 1 + level[next2]
    BY <1>8, <2>4, <2>6
  <2>8. NoneShorter((m + 1) + 1 + level[next2], t)'
    BY <1>1, <1>7, <2>7 DEF NoneShorter, IsPath
  <2>9. Following'
    <3>1. path'[Len(path')] = next /\ reachable_changesets'[next] = next2
      BY <1>10, <2>1, <2>3
    <3>2. \E l : LevelsRight(l, t)' /\ NoneShorter(Len(path) + 1 + l[next2], t)'
      BY <1>10, <2>5, <2>8
    <3> QED
      BY <1>1, <1>3, <1>13, <2>1, <2>4, <2>5, <3>1, <3>2 DEF Following
  <2>10. SearchInv'
    BY <1>1, <1>8, <2>1, <2>9 DEF SearchInv, Searching, Found, OutsideSearch
  <2> QED
    BY <1>14, <1>15, <2>2, <2>10 DEF IInv
<1> QED
  BY <1>16, <1>17

\* The segment that is to be broken: changesets of branches between two ordered
\* ones of which the last is due no later than the first.
LEMMA PathFacts ==
  ASSUME IInv, pc = "break"
  PROVE  /\ path \in Seq(DOMAIN nodes) /\ Len(path) \in Nat /\ Len(path) > 2
         /\ \A k \in Interior(path) : changeset_db[path[k]].kind = "branch"
         /\ \A k \in 1..(Len(path) - 1) : path[k] \in nodes[path[k + 1]].pred_ids
         /\ changeset_db[path[1]].kind = "ordered"
         /\ changeset_db[path[1]].ordinal >= changeset_db[Last(path)].ordinal
<1> DEFINE db == changeset_db
           m  == Len(path)
<1>1. PICK t : t = NextOrdered /\ IsTarget(t) /\ path[Len(path)] = t
  BY DEF IInv, SearchInv, Found
<1>2. /\ path \in Seq(DOMAIN nodes) /\ m \in Nat /\ m > 1
      /\ DOMAIN path = 1..m /\ Last(path) = t
      /\ \A k \in 1..m : path[k] \in DOMAIN nodes /\ path[k] \in DOMAIN db
  <2>1. path \in Seq(DOMAIN nodes) /\ m > 1
    BY DEF IInv, TypeOK, SearchInv, Found
  <2> QED
    BY <1>1, <2>1, EdgesInGraph DEF Last
<1>3. /\ path[1] \in ordered_changeset_ids
      /\ \A k \in 2..m : path[k] \in ordered_changeset_ids => k = m
      /\ \A k \in 1..(m - 1) : path[k] \in nodes[path[k + 1]].pred_ids
  BY DEF IInv, SearchInv, Found, PathBegun
<1>4. /\ ordered_changeset_ids = OrderedIn(db) \cap DOMAIN nodes
      /\ Chained(db) /\ KindsFit(db) /\ Partitioned(db, cvs_item_to_changeset_id)
  BY DEF IInv, GraphInv, Counted, DbInv, ProperDb
<1>5. \A k \in 1..(m - 1) : ComesAfter(db, path[k + 1], path[k])
  <2> SUFFICES ASSUME NEW k \in 1..(m - 1) PROVE ComesAfter(db, path[k + 1], path[k])
    OBVIOUS
  <2>1. k \in 1..m /\ k + 1 \in 1..m
    BY <1>2
  <2> QED
    BY <1>2, <1>3, <2>1, Edges
<1>6. /\ t \in OrderedIn(db) /\ path[1] \in OrderedIn(db)
      /\ db[t].ordinal \in Nat /\ db[path[1]].ordinal \in Nat
      /\ db[path[1]].ordinal >= db[t].ordinal
  <2>1. t \in OrderedIn(db) /\ path[1] \in OrderedIn(db) /\ path[1] \in DOMAIN nodes
    BY <1>1, <1>3, <1>4 DEF IsTarget
  <2>2. db[t].ordinal \in Nat /\ db[path[1]].ordinal \in Nat
    BY <1>4, <2>1 DEF Chained
  <2>3. path[1] \notin consumed
    BY <2>1 DEF IInv, GraphInv, GraphComplete
  <2>4. ~ (db[path[1]].ordinal < next_ordered_changeset)
    BY <2>1, <2>3 DEF IInv, GraphInv, Counted
  <2>5. db[t].ordinal = next_ordered_changeset
    BY <1>1 DEF IsTarget
  <2> QED
    BY <2>1, <2>2, <2>4, <2>5
<1>7. m # 2
  <2> SUFFICES ASSUME m = 2 PROVE FALSE
    OBVIOUS
  <2>1. ComesAfter(db, t, path[1])
    <3>1. 1 \in 1..(m - 1) /\ 1 + 1 = m
      BY <1>2
    <3> QED
      BY <1>1, <1>5, <3>1
  <2>2. db[t].prev_id = path[1]
    BY <1>6, <2>1 DEF ComesAfter, OrderedIn
  <2>3. db[t].ordinal = db[path[1]].ordinal + 1
    BY <1>4, <1>6, <2>2 DEF Chained
  <2> QED
    BY <1>6, <2>3
<1>8. ASSUME NEW k \in Interior(path) PROVE db[path[k]].kind = "branch"
  <2>0. k \in 2..(m - 1)
    BY DEF Interior
  <2> HIDE DEF m
  <2>1. k \in 2..m /\ k # m /\ k \in 1..(m - 1) /\ k \in 1..m /\ k + 1 \in 1..m
    BY <1>2, <2>0
  <2>2. db[path[k]].kind # "ordered" /\ path[k] \in DOMAIN db /\ path[k + 1] \in DOMAIN db
    BY <1>2, <1>3, <1>4, <2>1 DEF OrderedIn
  <2>3. DependsOn(db, path[k + 1], path[k])
    BY <1>5, <2>1, <2>2 DEF ComesAfter
  <2>4. PICK i \in db[path[k + 1]].items, j \in db[path[k]].items : j \in GetPredIds(i)
    BY <2>3 DEF DependsOn
  <2>5. i \in Item /\ j \in Item
    BY <1>4, <2>2 DEF Partitioned
  <2>6. i \in GetSuccIds(j)
    BY <2>4, <2>5, PredSuccInverse
  <2>7. cvs_item[j].kind # "tag"
    BY <2>6 DEF GetSuccIds, IsRevision
  <2> QED
    BY <1>4, <2>2, <2>4, <2>7 DEF KindsFit
<1>9. m > 2
  <2> HIDE DEF m
  <2> QED
    BY <1>2, <1>7
<1> QED
  BY <1>2, <1>3, <1>6, <1>8, <1>9 DEF OrderedIn

\* Every changeset inside the segment is tied to the one before and to the one
\* after it.
LEMMA SegmentLinkTied ==
  ASSUME IInv, pc = "break", NEW k \in Interior(path)
  PROVE  LET link == SegmentLink(path, k) IN
         /\ path[k] \in DOMAIN nodes
         /\ link.items = changeset_db[path[k]].items
         /\ link.items \subseteq Item
         /\ \E i \in link.items : TiedToPred(link, i)
         /\ \E i \in link.items : TiedToSucc(link, i)
<1> DEFINE link == SegmentLink(path, k)
<1>1. /\ path \in Seq(DOMAIN nodes) /\ Len(path) \in Nat /\ Len(path) > 2
      /\ changeset_db[path[k]].kind = "branch"
      /\ \A j \in 1..(Len(path) - 1) : path[j] \in nodes[path[j + 1]].pred_ids
  BY PathFacts
<1>2. /\ k - 1 \in 1..(Len(path) - 1) /\ k \in 1..(Len(path) - 1) /\ (k - 1) + 1 = k
      /\ k - 1 \in 1..Len(path) /\ k \in 1..Len(path) /\ k + 1 \in 1..Len(path)
  BY <1>1 DEF Interior
<1>3. \A j \in 1..Len(path) :
        /\ path[j] \in DOMAIN nodes
        /\ changeset_db[path[j]].items \subseteq Item
  <2>1. \A id \in DOMAIN nodes : changeset_db[id].items \subseteq Item
    BY EdgesInGraph DEF IInv, DbInv, ProperDb, Partitioned
  <2> QED
    BY <1>1, <2>1
<1>4. /\ path[k - 1] \in nodes[path[k]].pred_ids
      /\ path[k] \in nodes[path[k + 1]].pred_ids
  BY <1>1, <1>2
<1>5. /\ DependsOn(changeset_db, path[k], path[k - 1])
      /\ DependsOn(changeset_db, path[k + 1], path[k])
  BY <1>1, <1>2, <1>3, <1>4, Edges DEF ComesAfter
<1>6. /\ link.pred = changeset_db[path[k - 1]].items
      /\ link.items = changeset_db[path[k]].items
      /\ link.succ = changeset_db[path[k + 1]].items
  BY DEF SegmentLink, Link
<1>7. \E i \in link.items : TiedToPred(link, i)
  BY <1>5, <1>6 DEF DependsOn, TiedToPred
<1>8. \E i \in link.items : TiedToSucc(link, i)
  <2>1. PICK i \in link.succ, j \in link.items : j \in GetPredIds(i)
    BY <1>5, <1>6 DEF DependsOn
  <2>2. i \in GetSuccIds(j)
    BY <1>2, <1>3, <1>6, <2>1, PredSuccInverse
  <2> QED
    BY <2>1, <2>2 DEF TiedToSucc
<1> HIDE DEF link
<1>9. /\ path[k] \in DOMAIN nodes
      /\ link.items = changeset_db[path[k]].items
      /\ link.items \subseteq Item
  BY <1>2, <1>3, <1>6
<1> QED
  BY <1>7, <1>8, <1>9, Zenon DEF link

\* A changeset of the segment is broken at its best link.
LEMMA BreakSegmentIInv == IInv /\ BreakSegment => IInv'
<1> SUFFICES ASSUME IInv, BreakSegment PROVE IInv'
  OBVIOUS
<1>1. PICK k \in Interior(path) :
        /\ IsBreakable(SegmentLink(path, k))
        /\ ReplaceChangeset(path[k], PredItems(SegmentLink(path, k)),
                            SuccItems(SegmentLink(path, k)), key_base)
  BY DEF BreakSegment
<1> DEFINE old    == path[k]
           first  == PredItems(SegmentLink(path, k))
           second == SuccItems(SegmentLink(path, k))
           key    == key_base
           db     == changeset_db
           db2    == changeset_db'
<1>2. /\ pc = "break" /\ pc' = "consume" /\ path' = <<>>
      /\ key_base' = key + 2 /\ nopred_nodes' = NoPred(nodes')
      /\ unread' = unread /\ branch_changeset_ids' = branch_changeset_ids
      /\ next_ordered_changeset' = next_ordered_changeset
      /\ ordered_changeset_ids' = ordered_changeset_ids
      /\ open_nodes' = open_nodes /\ reachable_changesets' = reachable_changesets
      /\ consumed' = consumed
  BY DEF BreakSegment
<1>3. /\ unread = {} /\ branch_changeset_ids = <<>> /\ open_nodes = <<>>
      /\ reachable_changesets = <<>>
      /\ ordered_changeset_ids = OrderedIn(db) \cap DOMAIN nodes
  BY <1>2 DEF IInv, DbInv, KeysFresh, GraphInv, Counted, Listed, SearchInv, OutsideSearch
<1>4. /\ old \in DOMAIN nodes
      /\ first \cup second = db[old].items /\ first \cap second = {}
      /\ first # {} /\ second # {}
  BY <1>1, <1>2, SegmentLinkTied, SplitIsProper
<1>5. db[old].kind = "branch"
  BY <1>1, <1>2, PathFacts
<1>6. ReplaceChangeset(old, first, second, key)
  BY <1>1
<1> HIDE DEF first, second, old
<1>7. /\ IsGraph(nodes) /\ DOMAIN nodes \subseteq DOMAIN db /\ key \in Nat
      /\ old \in DOMAIN db /\ db[old] \in ChangesetRecord /\ old \notin consumed
      /\ DOMAIN nodes = DOMAIN db \ consumed /\ consumed \subseteq DOMAIN db
      /\ ProperDb(db, cvs_item_to_changeset_id) /\ Acyclic(db, SymbolsIn(db))
      /\ \A id \in DOMAIN db : id < key /\ id \in Nat
  BY <1>3, <1>4 DEF IInv, TypeOK, IsGraph, GraphInv, GraphComplete, DbInv, SymbolsAcyclic, KeysFresh
<1>8. key \notin DOMAIN db /\ key + 1 \notin DOMAIN db /\ key # key + 1
  BY <1>7
<1>9. old \in SymbolsIn(db) /\ Partitioned(db, cvs_item_to_changeset_id) /\ NoneOnItself(db)
  BY <1>5, <1>7 DEF SymbolsIn, OrderedIn, ProperDb
<1>10. MayReplace(old, first, second, key)
  BY <1>4, <1>7, <1>8, <1>9 DEF MayReplace
<1>11. Replaced(old, first, second, key) /\ Partitioned(db2, cvs_item_to_changeset_id')
  BY <1>6, <1>10, ReplaceEffect, Zenon
<1>12. /\ ProperDb(db2, cvs_item_to_changeset_id') /\ Acyclic(db2, SymbolsIn(db2))
       /\ OrderedIn(db2) = OrderedIn(db)
  BY <1>7, <1>9, <1>10, <1>11, ReplaceKeepsDb
<1>13. HasEdges(nodes, OrderEdges(db))
  BY DEF IInv, GraphInv, EdgesExact
<1>14. /\ IsGraph(nodes') /\ DOMAIN nodes' = (DOMAIN nodes \ {old}) \cup {key, key + 1}
       /\ HasEdges(nodes', OrderEdges(db2))
  BY <1>4, <1>6, <1>7, <1>9, <1>10, <1>11, <1>13, ReplaceKeepsEdges
<1>15. /\ DOMAIN db2 = (DOMAIN db \ {old}) \cup {key, key + 1}
       /\ db2[key].kind = "branch" /\ db2[key + 1].kind = "branch"
       /\ \A id \in DOMAIN db \ {old} : db2[id] = db[id]
  BY <1>5, <1>11 DEF Replaced
<1> HIDE DEF db2
<1>16. NoneOutOfPlace'
  <2> SUFFICES ASSUME NEW id \in DOMAIN nodes', db2[id].kind = "branch",
                      OutOfPlace(db2, DOMAIN nodes', id)
               PROVE  FALSE
    BY DEF NoneOutOfPlace, db2
  <2>1. \E was \in DOMAIN nodes : db[was].kind = "branch" /\ OutOfPlace(db, DOMAIN nodes, was)
    <3>1. id \in DOMAIN db2 /\ (id \in {key, key + 1} \/ id \in DOMAIN nodes \ {old})
      BY <1>7, <1>14, <1>15
    <3>2. OutOfPlace(db, DOMAIN nodes, IF id \in {key, key + 1} THEN old ELSE id)
      BY <1>9, <1>10, <1>11, <1>14, <3>1, ReplaceKeepsPlaces DEF db2
    <3> QED
      BY <1>4, <1>5, <1>7, <1>15, <3>1, <3>2
  <2>2. \A n \in DOMAIN nodes : ~ Contains(branch_changeset_ids, n)
    BY <1>3 DEF Contains
  <2> QED
    BY <1>2, <2>1, <2>2 DEF IInv, GraphInv, NoneOutOfPlace
<1>17. TypeOK'
  <2>1. /\ DOMAIN db2 \subseteq Nat
        /\ \A id \in DOMAIN db2 : db2[id] \in ChangesetRecord
        /\ cvs_item_to_changeset_id' \in [Item -> DOMAIN db2]
    BY <1>12 DEF ProperDb, Partitioned, db2
  <2>2. /\ nodes' \in [DOMAIN nodes' -> [pred_ids : SUBSET DOMAIN nodes',
                                         succ_ids : SUBSET DOMAIN nodes']]
        /\ DOMAIN nodes' \subseteq DOMAIN db2 /\ nopred_nodes' \subseteq DOMAIN nodes'
    BY <1>2, <1>7, <1>14, <1>15 DEF IsGraph, NoPred
  <2>3. /\ key_base' \in Nat /\ next_ordered_changeset' \in Nat
        /\ ordered_changeset_ids' \subseteq DOMAIN nodes'
        /\ consumed' \subseteq DOMAIN db2
    <3>1. old \notin OrderedIn(db)
      BY <1>5 DEF OrderedIn
    <3>2. key_base' \in Nat /\ next_ordered_changeset' \in Nat
      BY <1>2, <1>7 DEF IInv, TypeOK
    <3> QED
      BY <1>2, <1>3, <1>7, <1>14, <1>15, <3>1, <3>2
  <2>4. /\ reachable_changesets' \in [DOMAIN reachable_changesets' -> DOMAIN nodes']
        /\ DOMAIN reachable_changesets' \subseteq DOMAIN nodes'
    BY <1>2, <1>3
  <2> QED
    BY <1>2, <1>3, <2>1, <2>2, <2>3, <2>4, EmptySeq DEF TypeOK, db2
<1>18. DbInv'
  <2>1. KeysFresh'
    BY <1>2, <1>3, <1>7, <1>15 DEF KeysFresh, db2
  <2> QED
    BY <1>12, <2>1 DEF DbInv, SymbolsAcyclic, db2
<1>19. GraphComplete' /\ ReadyExact' /\ Listed'
  <2>1. key \notin consumed /\ key + 1 \notin consumed
    BY <1>7, <1>8
  <2> QED
    BY <1>2, <1>3, <1>7, <1>14, <1>15, <2>1 DEF GraphComplete, ReadyExact, Listed, db2
<1>20. Counted'
  <2>1. \A id \in OrderedIn(db) : id # old /\ db2[id] = db[id]
    BY <1>5, <1>15 DEF OrderedIn
  <2>2. ordered_changeset_ids' = OrderedIn(db2) \cap DOMAIN nodes'
    BY <1>2, <1>3, <1>8, <1>12, <1>14, <2>1 DEF OrderedIn
  <2> QED
    BY <1>2, <1>12, <2>1, <2>2 DEF IInv, GraphInv, Counted, db2
<1>21. GraphInv'
  BY <1>14, <1>16, <1>19, <1>20 DEF GraphInv, EdgesExact, db2
<1>22. SearchInv'
  BY <1>2, <1>3 DEF SearchInv, Searching, Following, Found, OutsideSearch
<1> QED
  BY <1>17, <1>18, <1>21, <1>22 DEF IInv

\* One turn of any of the loops.
LEMMA NextIInv == IInv /\ [Next]_vars => IInv'
<1> SUFFICES ASSUME IInv, [Next]_vars PROVE IInv'
  OBVIOUS
<1>1. CASE UNCHANGED vars
  <2>1. UNCHANGED <<changeset_db, cvs_item_to_changeset_id, nodes, nopred_nodes, pc, unread,
                    key_base, branch_changeset_ids, next_ordered_changeset,
                    ordered_changeset_ids, open_nodes, reachable_changesets, path, consumed>>
    BY <1>1 DEF vars, graph_vars, search_vars
  <2>2. TypeOK'
    BY <2>1 DEF IInv, TypeOK
  <2>3. DbInv'
    BY <2>1 DEF IInv, DbInv, SymbolsAcyclic, KeysFresh
  <2>4. GraphInv'
    BY <2>1
    DEF IInv, GraphInv, GraphComplete, EdgesExact, ReadyExact, Counted, Listed, NoneOutOfPlace
  <2>5. NextOrdered' = NextOrdered /\ Reached' = Reached
    BY <2>1 DEF NextOrdered, Reached
  <2>6. Searching'
    BY <2>1, <2>5 DEF IInv, SearchInv, Searching, IsTarget, LevelsRight, QueueRight
  <2>7. PathBegun => PathBegun'
    BY <2>1, <2>5 DEF PathBegun
  <2>8. Following'
    <3>1. /\ IsTarget(NextOrdered) => IsTarget(NextOrdered)'
          /\ \A l : LevelsRight(l, NextOrdered) => LevelsRight(l, NextOrdered)'
      BY <2>1, <2>5 DEF IsTarget, LevelsRight
    <3>2. \A n : NoneShorter(n, NextOrdered) => NoneShorter(n, NextOrdered)'
      BY <2>1, <2>5 DEF NoneShorter, IsPath
    <3> QED
      BY <2>1, <2>5, <2>7, <3>1, <3>2 DEF IInv, SearchInv, Following
  <2>9. Found'
    BY <2>1, <2>5, <2>7 DEF IInv, SearchInv, Found, IsTarget, NoneShorter, IsPath
  <2>10. OutsideSearch'
    BY <2>1 DEF IInv, SearchInv, OutsideSearch
  <2> QED
    BY <2>2, <2>3, <2>4, <2>6, <2>8, <2>9, <2>10 DEF IInv, SearchInv
<1>2. CASE Next
  BY <1>1, <1>2, LoadChangesetIInv, SplitRetrogradeIInv, KeepChangesetIInv, StartConsumingIInv,
     ConsumeIInv, StartSearchIInv, SearchStepIInv, GetPathIInv, BreakSegmentIInv, FinishIInv
  DEF Next, Terminated
<1> QED
  BY <1>1, <1>2

-----------------------------------------------------------------------------
\* The inductive invariant of BreakAllChangesetCyclesPass.
THEOREM Invariance == Spec => []IInv
BY InitIInv, NextIInv, PTL DEF Spec

\* Type correctness, whichever way the pass and its searches go.
THEOREM TypeCorrect == Spec => []TypeOK
<1>1. IInv => TypeOK
  BY DEF IInv
<1> QED
  BY <1>1, Invariance, PTL

\* However the changesets of branches are split and the graph is consumed: the
\* databases, the table of items and the graph agree.
THEOREM AllAgree == Spec => []Consistent
<1>1. IInv => Consistent
  <2> SUFFICES ASSUME IInv PROVE Consistent
    OBVIOUS
  <2>1. ItemsPartitioned
    BY DEF IInv, DbInv, ProperDb, Partitioned, ItemsPartitioned
  <2>2. GraphMirrorsItems
    BY Edges DEF GraphMirrorsItems
  <2> QED
    BY <2>1, <2>2 DEF Consistent, IInv
<1> QED
  BY <1>1, Invariance, PTL

\* No branch changeset that has been looked at has to come both after and
\* before an ordered changeset, whatever is consumed and split afterwards; and
\* the assertion on the limits of an item, made of each that is looked at, holds.
THEOREM StaysInPlace == Spec => []NoneRetrograde
<1>1. IInv => NoneRetrograde
  <2> SUFFICES ASSUME IInv PROVE NoneRetrograde
    OBVIOUS
  <2>1. OrdinalLimitsHold
    <3> DEFINE id == Head(branch_changeset_ids)
    <3> SUFFICES ASSUME pc = "retrograde", branch_changeset_ids # <<>>,
                        NEW i \in changeset_db[id].items,
                        NEW p \in PredOrdinals(i), NEW s \in SuccOrdinals(i)
                 PROVE  p < s
      BY DEF OrdinalLimitsHold
    <3>1. id \in DOMAIN nodes /\ changeset_db[id].kind = "branch"
      <4>1. /\ branch_changeset_ids \in Seq(DOMAIN nodes)
            /\ 1 \in DOMAIN branch_changeset_ids /\ id = branch_changeset_ids[1]
        BY DEF IInv, TypeOK
      <4> QED
        BY <4>1 DEF IInv, GraphInv, Listed
    <3> HIDE DEF id
    <3>2. i \in Item /\ cvs_item[i].kind = "branch"
      BY <3>1, EdgesInGraph DEF IInv, DbInv, ProperDb, Partitioned, KindsFit
    <3> QED
      BY <3>2, PredBeforeSucc
  <2>2. \A id \in DOMAIN nodes :
          pc # "load" /\ changeset_db[id].kind = "branch" /\ ~ Contains(branch_changeset_ids, id) =>
            ~ Retrograde(id)
    BY RetrogradeExact DEF IInv, GraphInv, NoneOutOfPlace
  <2> QED
    BY <2>1, <2>2 DEF NoneRetrograde
<1> QED
  BY <1>1, Invariance, PTL

\* "assert not early_split": after a split, the graph never has the early fragment
\* both after and before an ordered changeset.
THEOREM NeverSplitEarly == Spec => EarlyStays
<1> DEFINE TestExact ==
             \A id \in DOMAIN nodes : changeset_db[id].kind # "ordered" =>
               (Retrograde(id) <=> OutOfPlace(changeset_db, DOMAIN nodes, id))
           FirstListed ==
             branch_changeset_ids # <<>> => Head(branch_changeset_ids) \in DOMAIN nodes
<1>1. IInv => TestExact /\ FirstListed
  <2>1. IInv => TestExact
    BY RetrogradeExact
  <2>2. IInv => FirstListed
    BY DEF IInv, TypeOK
  <2> QED
    BY <2>1, <2>2
<1>2. IInv /\ (TestExact /\ FirstListed)' /\ [Next]_vars =>
        [SplitRetrograde => ~ Retrograde(Head(branch_changeset_ids))']_vars
  <2> SUFFICES ASSUME IInv, TestExact', FirstListed', SplitRetrograde
               PROVE  ~ Retrograde(Head(branch_changeset_ids))'
    OBVIOUS
  <2> DEFINE early == Head(branch_changeset_ids')
  <2>1. /\ early = key_base /\ changeset_db'[early].kind = "branch"
        /\ ~ OutOfPlace(changeset_db', DOMAIN nodes', early)
    BY EarlyInPlace
  <2>2. branch_changeset_ids' # <<>>
    BY DEF SplitRetrograde, IInv, TypeOK
  <2>3. early \in DOMAIN nodes'
    BY <2>2
  <2> QED
    BY <2>1, <2>3
<1> QED
  BY <1>1, <1>2, Invariance, NextIInv, PTL DEF Spec, EarlyStays

\* search_for_path() always comes to an ordered changeset, on a shortest path;
\* and the ordered changesets are consumed in their order, the next one due
\* being in the graph whenever a search is.
THEOREM PathAlwaysFound == Spec => []PathFound
<1>1. IInv => PathFound
  <2> SUFFICES ASSUME IInv PROVE PathFound
    OBVIOUS
  <2>1. SegmentInOrder
    <3> SUFFICES ASSUME pc = "break"
                 PROVE  /\ Interior(path) # {}
                        /\ \A k \in Interior(path) : changeset_db[path[k]].kind = "branch"
                        /\ \A k \in 1..(Len(path) - 1) : path[k] \in nodes[path[k + 1]].pred_ids
                        /\ changeset_db[path[1]].kind = "ordered"
                        /\ changeset_db[path[1]].ordinal >= changeset_db[Last(path)].ordinal
      BY DEF SegmentInOrder
    <3>1. 2 \in Interior(path)
      BY PathFacts DEF Interior
    <3> QED
      BY <3>1, PathFacts
  <2>2. SegmentShortest
    <3> SUFFICES ASSUME pc = "break", NEW n \in 2..(Len(path) - 1),
                        NEW p \in [1..n -> DOMAIN nodes],
                        p[1] \in ordered_changeset_ids, p[n] = Last(path),
                        \A k \in 1..(n - 1) : p[k] \in nodes[p[k + 1]].pred_ids
                 PROVE  FALSE
      BY <2>1 DEF SegmentShortest
    <3>1. NoneShorter(Len(path), NextOrdered) /\ Last(path) = NextOrdered
      BY DEF IInv, SearchInv, Found, Last
    <3> QED
      BY <3>1 DEF NoneShorter, IsPath
  <2>3. OrderedInOrder
    <3>1. pc # "load" => ordered_changeset_ids = Ordered(DOMAIN nodes)
      BY EdgesInGraph DEF IInv, GraphInv, Counted, Ordered, OrderedIn
    <3>2. \A id \in Ordered(DOMAIN changeset_db) :
            id \in consumed <=> changeset_db[id].ordinal < next_ordered_changeset
      BY DEF IInv, GraphInv, Counted, Ordered, OrderedIn
    <3>3. ASSUME pc = "consume", nopred_nodes = {}, DOMAIN nodes # {}
          PROVE  \E id \in ordered_changeset_ids : changeset_db[id].ordinal = next_ordered_changeset
      <4>1. unread = {} /\ NoPred(nodes) = {}
        BY <3>3 DEF IInv, DbInv, KeysFresh, GraphInv, ReadyExact
      <4> QED
        BY <3>3, <4>1, NextInGraph DEF IsTarget
    <3> QED
      BY <3>1, <3>2, <3>3 DEF OrderedInOrder
  <2> QED
    BY <2>2, <2>3, QueueNotEmpty DEF PathFound
<1> QED
  BY <1>1, Invariance, PTL

\* A split leaves the consumed changesets alone.
LEMMA ConsumedKept ==
  ASSUME IInv, [Next]_vars, ~ Consume, NEW id \in consumed
  PROVE  consumed' = consumed /\ changeset_db'[id] = changeset_db[id]
<1>1. consumed' = consumed
  BY DEF Next, vars, LoadChangeset, SplitRetrograde, KeepChangeset, StartConsuming, StartSearch,
         SearchStep, GetPath, BreakSegment, Finish, Terminated
<1>2. id \in DOMAIN changeset_db \ unread
  BY DEF IInv, GraphInv, GraphComplete
<1>3. CASE \E old \in DOMAIN nodes : \E first, second :
                                        ReplaceChangeset(old, first, second, key_base)
  <2>0. PICK old \in DOMAIN nodes : \E first, second :
                ReplaceChangeset(old, first, second, key_base)
    BY <1>3
  <2>1. PICK first, second : ReplaceChangeset(old, first, second, key_base)
    BY <2>0
  <2>2. id # old
    BY <2>1 DEF IInv, GraphInv, GraphComplete
  <2>3. id # key_base /\ id # key_base + 1
    <3>1. id < key_base /\ id \in Nat /\ key_base \in Nat
      BY <1>2 DEF IInv, DbInv, KeysFresh, TypeOK
    <3> QED
      BY <3>1
  <2> QED
    BY <1>1, <1>2, <2>1, <2>2, <2>3 DEF ReplaceChangeset
<1>4. CASE ~ \E old \in DOMAIN nodes : \E first, second :
                                        ReplaceChangeset(old, first, second, key_base)
  <2>1. ~ SplitRetrograde
    <3> SUFFICES ASSUME SplitRetrograde PROVE FALSE
      OBVIOUS
    <3>1. Head(branch_changeset_ids) \in DOMAIN nodes
      BY DEF SplitRetrograde, IInv, TypeOK
    <3> QED
      BY <1>4, <3>1 DEF SplitRetrograde
  <2>2. ~ BreakSegment
    <3> SUFFICES ASSUME BreakSegment PROVE FALSE
      OBVIOUS
    <3>1. PICK k \in Interior(path) :
            ReplaceChangeset(path[k], PredItems(SegmentLink(path, k)),
                             SuccItems(SegmentLink(path, k)), key_base)
      BY DEF BreakSegment
    <3>2. pc = "break"
      BY DEF BreakSegment
    <3>3. path[k] \in DOMAIN nodes
      BY <3>2, SegmentLinkTied
    <3> QED
      BY <1>4, <3>1, <3>3
  <2>3. changeset_db' = changeset_db
    BY <2>1, <2>2 DEF Next, vars, graph_vars, LoadChangeset, KeepChangeset, StartConsuming,
                      StartSearch, SearchStep, GetPath, Finish, Terminated
  <2> QED
    BY <1>1, <2>3
<1> QED
  BY <1>3, <1>4

\* The safety half of the refinement: revisions and symbols are emitted in the
\* order of their dependencies, each item once.
THEOREM EmitsInOrder == Spec => Order!Safety
<1> DEFINE Preds     == [i \in Item |-> GetPredIds(i)]
           committed == UNION {changeset_db[id].items : id \in consumed}
<1>1. Init => Order!Init
  BY DEF Init, Order!Init
<1>2. IInv /\ [Next]_vars => [Order!Commit]_<<Item, Preds, committed>>
  <2> SUFFICES ASSUME IInv, [Next]_vars
               PROVE  Order!Commit \/ committed' = committed
    OBVIOUS
  <2>1. CASE Consume
    <3> DEFINE db == changeset_db
    <3>1. PICK id \in nopred_nodes : consumed' = consumed \cup {id}
      BY <2>1 DEF Consume
    <3>2. pc = "consume" /\ db' = db /\ unread = {}
      BY <2>1 DEF Consume, IInv, DbInv, KeysFresh
    <3>3. /\ id \in DOMAIN nodes /\ id \in DOMAIN db /\ id \notin consumed
          /\ \A a \in DOMAIN nodes : ~ ComesAfter(db, id, a)
          /\ id \in OrderedIn(db) => db[id].ordinal = next_ordered_changeset
      BY <3>2, ConsumedIsDue
    <3>4. /\ Partitioned(db, cvs_item_to_changeset_id) /\ Chained(db)
          /\ DOMAIN nodes = DOMAIN db \ consumed /\ consumed \subseteq DOMAIN db
      BY <3>2 DEF IInv, DbInv, ProperDb, GraphInv, GraphComplete
    <3> DEFINE S == db[id].items
    <3>5. committed' = committed \cup S
      BY <3>1, <3>2
    <3>6. S # {} /\ S \subseteq Item /\ committed \subseteq Item
      BY <3>3, <3>4 DEF Partitioned
    <3>7. S \cap committed = {}
      BY <3>3, <3>4 DEF Partitioned
    <3>8. ASSUME NEW i \in S, NEW j \in GetPredIds(i)
          PROVE  j \in committed
      <4> DEFINE a == cvs_item_to_changeset_id[j]
      <4>1. j \in Item
        BY <3>6, PredSuccTypes
      <4>2. a \in DOMAIN db /\ j \in db[a].items
        BY <3>4, <4>1 DEF Partitioned
      <4>3. DependsOn(db, id, a)
        BY <4>2 DEF DependsOn
      <4> HIDE DEF a
      <4>4. a \in consumed
        <5> SUFFICES ASSUME a \notin consumed PROVE FALSE
          OBVIOUS
        <5>1. a \in DOMAIN nodes
          BY <3>4, <4>2
        <5>2. a \in OrderedIn(db) /\ id \in OrderedIn(db)
          BY <3>3, <4>2, <4>3, <5>1 DEF ComesAfter, OrderedIn
        <5>3. db[a].ordinal < next_ordered_changeset
          BY <3>3, <3>4, <4>3, <5>2 DEF Chained
        <5> QED
          BY <5>2, <5>3 DEF IInv, GraphInv, Counted
      <4> QED
        BY <4>2, <4>4
    <3>9. \A i \in S : Preds[i] \cap Item \subseteq committed
      <4>1. \A i \in S : GetPredIds(i) \subseteq committed
        BY <3>8
      <4> QED
        BY <3>6, <4>1
    <3> HIDE DEF S, committed, Preds
    <3>10. /\ committed' # committed
           /\ committed \subseteq committed' /\ committed' \subseteq Item
           /\ \A i \in committed' \ committed : Preds[i] \cap Item \subseteq committed
      BY <3>5, <3>6, <3>7, <3>9
    <3> QED
      BY <3>10 DEF Order!Commit, Preds, committed
  <2>2. CASE ~ Consume
    <3>1. \A id \in consumed : changeset_db'[id] = changeset_db[id]
      BY <2>2, ConsumedKept
    <3>2. consumed' = consumed
      BY <2>2 DEF Next, vars, LoadChangeset, SplitRetrograde, KeepChangeset, StartConsuming,
                  StartSearch, SearchStep, GetPath, BreakSegment, Finish, Terminated
    <3> QED
      BY <3>1, <3>2
  <2> QED
    BY <2>1, <2>2
<1> QED
  BY <1>1, <1>2, Invariance, PTL DEF Spec, Order!Safety
=============================================================================

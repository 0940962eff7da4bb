----------------------- MODULE ChangesetGraphTheorems -----------------------
(***************************************************************************)
(* Facts that the proofs about the changeset passes rest on: about the     *)
(* dependencies among CVSItems, what the operations of ChangesetGraph do   *)
(* to a graph, when a link can be broken and what break_changeset() makes  *)
(* of it, and what replacing a changeset by its two fragments does to the  *)
(* databases and to the graph.                                             *)
(***************************************************************************)
EXTENDS ChangesetGraph, FiniteSetTheorems, SequenceTheorems, NaturalsInduction,
        WellFoundedInduction, TLAPS

-----------------------------------------------------------------------------
(* Numbers.                                                                *)

\* A nonempty set of numbers has a least one: heaps and searches rely on it.
LEMMA LeastOf ==
  ASSUME NEW T \in SUBSET Nat, T # {}
  PROVE  \E x \in T : \A y \in T : x <= y
<1> DEFINE R == {p \in Nat \X Nat : p[1] < p[2]}
<1>1. IsWellFoundedOn(R, Nat)
  BY NatLessThanWellFounded DEF OpToRel
<1>2. \A x, y \in Nat : <<x, y>> \in R <=> x < y
  OBVIOUS
<1> HIDE DEF R
<1>3. PICK x \in T : \A y \in T : ~ (<<y, x>> \in R)
  BY <1>1, WFMin, Zenon
<1>4. ASSUME NEW y \in T PROVE x <= y
  <2>1. x \in Nat /\ y \in Nat /\ ~ (<<y, x>> \in R)
    BY <1>3
  <2>2. ~ (y < x)
    BY <1>2, <2>1
  <2> QED
    BY <2>1, <2>2
<1> QED
  BY <1>4

\* A set of numbers that contains 0 and the successor of each of its members
\* contains them all.
LEMMA SetInduction ==
  ASSUME NEW S, 0 \in S, \A n \in Nat : n \in S => n + 1 \in S
  PROVE  Nat \subseteq S
<1> SUFFICES ASSUME Nat \ S # {} PROVE FALSE
  OBVIOUS
<1>1. PICK x \in Nat \ S : \A y \in Nat \ S : x <= y
  BY LeastOf
<1>2. x # 0 /\ x - 1 \in Nat /\ x - 1 \in S
  BY <1>1
<1> QED
  BY <1>1, <1>2

\* A finite nonempty set of numbers has a greatest one.
LEMMA GreatestOf ==
  ASSUME NEW T \in SUBSET Nat, T # {}, IsFiniteSet(T)
  PROVE  \E x \in T : \A y \in T : y <= x
<1> DEFINE Has(S) == \E x \in S : \A y \in S : y <= x
           Bad    == {S \in SUBSET T : S # {} /\ ~ Has(S)}
           Sizes  == {Cardinality(S) : S \in Bad}
<1>1. \A S \in SUBSET T : IsFiniteSet(S) /\ Cardinality(S) \in Nat
  BY FS_Subset, FS_CardinalityType
<1> SUFFICES ASSUME Bad # {} PROVE FALSE
  OBVIOUS
<1>2. Sizes \in SUBSET Nat /\ Sizes # {}
  BY <1>1
<1>3. PICK n \in Sizes : \A m \in Sizes : n <= m
  <2> HIDE DEF Sizes
  <2> QED
    BY <1>2, LeastOf
<1>4. PICK S \in Bad : n = Cardinality(S)
  OBVIOUS
<1>5. PICK x \in S : TRUE
  OBVIOUS
<1>6. IsFiniteSet(S) /\ S \subseteq Nat
  BY <1>1
<1>7. Cardinality(S \ {x}) = n - 1 /\ n \in Nat
  BY <1>1, <1>4, <1>6, FS_RemoveElement
<1>8. S \ {x} \notin Bad
  <2> SUFFICES ASSUME S \ {x} \in Bad PROVE FALSE
    OBVIOUS
  <2>1. Cardinality(S \ {x}) \in Sizes
    OBVIOUS
  <2>2. n <= n - 1
    BY <1>3, <1>7, <2>1
  <2> QED
    BY <1>7, <2>2
<1>9. CASE S \ {x} = {}
  <2>1. \A z \in S : z = x /\ z <= x
    BY <1>6, <1>9
  <2> QED
    BY <2>1
<1>10. CASE S \ {x} # {}
  <2>1. PICK y \in S \ {x} : \A z \in S \ {x} : z <= y
    BY <1>8, <1>10
  <2>2. \A z \in S : z \in Nat
    BY <1>6
  <2>3. CASE x <= y
    BY <2>1, <2>2, <2>3
  <2>4. CASE ~ (x <= y)
    <3>1. \A z \in S : z <= x
      BY <2>1, <2>2, <2>4
    <3> QED
      BY <3>1
  <2> QED
    BY <2>3, <2>4
<1> QED
  BY <1>9, <1>10

-----------------------------------------------------------------------------
(* Dependencies among items.                                               *)

\* get_pred_ids() and get_succ_ids() name items of the database.
LEMMA PredSuccTypes ==
  ASSUME NEW i \in Item
  PROVE  GetPredIds(i) \subseteq Item /\ GetSuccIds(i) \subseteq Item
<1>1. cvs_item[i] \in ItemRecord
  BY LinksAssumption
<1>2. CASE IsRevision(i)
  BY <1>1, <1>2 DEF GetPredIds, GetSuccIds, GetSymbolPredIds, GetSymbolSuccIds, ItemRecord
<1>3. CASE ~ IsRevision(i)
  <2>1. cvs_item[i].source_id # None
    BY <1>3, LinksAssumption DEF CheckLinks, SymbolLinks
  <2> QED
    BY <1>1, <1>3, <2>1 DEF GetPredIds, GetSuccIds, GetSymbolSuccIds, ItemRecord
<1> QED
  BY <1>2, <1>3

\* What check_links() asserts makes get_succ_ids() the inverse of
\* get_pred_ids(): create_graph_node() may look at either end of an edge.
LEMMA PredSuccInverse ==
  ASSUME NEW i \in Item, NEW j \in Item
  PROVE  j \in GetPredIds(i) <=> i \in GetSuccIds(j)
<1>1. cvs_item[i] \in ItemRecord /\ cvs_item[j] \in ItemRecord
  BY LinksAssumption
<1>2. CheckLinks(i) /\ CheckLinks(j)
  BY LinksAssumption
<1>3. ASSUME j \in GetPredIds(i) PROVE i \in GetSuccIds(j)
  <2>1. CASE IsRevision(i)
    <3>1. CASE j = cvs_item[i].first_on_branch_id
      BY <1>1, <1>2, <2>1, <3>1, NoneAssumption
      DEF CheckLinks, RevisionLinks, GetSuccIds, IsRevision
    <3>2. CASE j = cvs_item[i].prev_id
      BY <1>1, <1>2, <2>1, <3>2, NoneAssumption
      DEF CheckLinks, RevisionLinks, GetSuccIds, IsRevision
    <3>3. CASE j = cvs_item[i].ntdbr_prev_id
      BY <1>1, <1>2, <2>1, <3>3, NoneAssumption
      DEF CheckLinks, RevisionLinks, GetSuccIds, IsRevision
    <3> QED
      BY <1>3, <2>1, <3>1, <3>2, <3>3 DEF GetPredIds, GetSymbolPredIds
  <2>2. CASE ~ IsRevision(i)
    <3>1. j = cvs_item[i].source_id
      BY <1>3, <2>2 DEF GetPredIds
    <3>2. SymbolLinks(i)
      BY <1>2, <2>2 DEF CheckLinks
    <3>3. i \in GetSymbolSuccIds(j)
      BY <3>1, <3>2 DEF SymbolLinks, GetSymbolSuccIds
    <3>4. cvs_item[j].kind \in {"revision", "branch"}
      BY <3>1, <3>2 DEF SymbolLinks
    <3> QED
      BY <3>3, <3>4 DEF GetSuccIds, IsRevision
  <2> QED
    BY <2>1, <2>2
<1>4. ASSUME i \in GetSuccIds(j) PROVE j \in GetPredIds(i)
  <2>1. CASE i \in GetSymbolSuccIds(j)
    <3>1. cvs_item[i].kind \in {"branch", "tag"} /\ cvs_item[i].source_id = j
      BY <1>2, <2>1 DEF CheckLinks, GetSymbolSuccIds
    <3> QED
      BY <3>1 DEF GetPredIds, IsRevision
  <2>2. CASE IsRevision(j) /\ i \notin GetSymbolSuccIds(j)
    <3>1. RevisionLinks(j)
      BY <1>2, <2>2 DEF CheckLinks
    <3>2. \/ i \in cvs_item[j].branch_commit_ids
          \/ i = cvs_item[j].next_id
          \/ i = cvs_item[j].ntdbr_next_id
      BY <1>4, <2>2 DEF GetSuccIds
    <3>3. IsRevision(i) /\ j \in {cvs_item[i].prev_id, cvs_item[i].ntdbr_prev_id}
      BY <3>1, <3>2, NoneAssumption DEF RevisionLinks
    <3> QED
      BY <3>3, NoneAssumption DEF GetPredIds
  <2>3. CASE ~ IsRevision(j) /\ i \notin GetSymbolSuccIds(j)
    <3>1. i = cvs_item[j].next_id
      BY <1>4, <2>3 DEF GetSuccIds
    <3>2. SymbolLinks(j)
      BY <1>2, <2>3 DEF CheckLinks
    <3>3. IsRevision(i) /\ cvs_item[i].first_on_branch_id = j
      BY <3>1, <3>2, NoneAssumption DEF SymbolLinks
    <3> QED
      BY <3>3, NoneAssumption DEF GetPredIds, GetSymbolPredIds
  <2> QED
    BY <2>1, <2>2, <2>3
<1> QED
  BY <1>3, <1>4

-----------------------------------------------------------------------------
(* Graphs.                                                                 *)

\* The nodes of N refer to nodes of N only.
IsGraph(N) ==
  N \in [DOMAIN N -> [pred_ids : SUBSET DOMAIN N, succ_ids : SUBSET DOMAIN N]]

\* The item table is right about the items of the changesets in X.
TableRight(table, db, X) ==
  \A a \in X : db[a].items = {i \in Item : table[i] = a}

\* create_graph_node() finds exactly the dependencies to the changesets in X
\* when the item table is right about the items of the changesets in X.
LEMMA CreateGraphNodeExact ==
  ASSUME NEW db, NEW table, NEW changeset, NEW X,
         changeset.kind # "ordered",
         changeset.items \subseteq Item,
         TableRight(table, db, X),
         NEW a \in X
  PROVE  /\ a \in CreateGraphNode(changeset, table).pred_ids
              <=> \E i \in changeset.items, j \in db[a].items : j \in GetPredIds(i)
         /\ a \in CreateGraphNode(changeset, table).succ_ids
              <=> \E i \in changeset.items, j \in db[a].items : i \in GetPredIds(j)
<1> DEFINE node == CreateGraphNode(changeset, table)
<1>1. a \in node.pred_ids
        <=> \E j \in UNION {GetPredIds(i) : i \in changeset.items} : a = table[j]
  BY DEF CreateGraphNode, ChangesetIdsOf
<1>2. a \in node.succ_ids
        <=> \E j \in UNION {GetSuccIds(i) : i \in changeset.items} : a = table[j]
  BY DEF CreateGraphNode, ChangesetIdsOf
<1>3. \A i \in changeset.items :
        /\ GetPredIds(i) \subseteq Item /\ GetSuccIds(i) \subseteq Item
        /\ \A j \in Item : i \in GetPredIds(j) <=> j \in GetSuccIds(i)
  BY PredSuccTypes, PredSuccInverse
<1>4. \A j \in Item : table[j] = a <=> j \in db[a].items
  BY DEF TableRight
<1>5. db[a].items \subseteq Item
  BY DEF TableRight
<1>6. a \in node.pred_ids
        <=> \E i \in changeset.items, j \in db[a].items : j \in GetPredIds(i)
  BY <1>1, <1>3, <1>4, <1>5
<1>7. a \in node.succ_ids
        <=> \E i \in changeset.items, j \in db[a].items : i \in GetPredIds(j)
  BY <1>2, <1>3, <1>4, <1>5
<1> QED
  BY <1>6, <1>7

\* add_changeset() leaves a graph, with one node more.
LEMMA AddNodeIsGraph ==
  ASSUME NEW N, IsGraph(N), NEW id, NEW node
  PROVE  /\ IsGraph(AddNode(N, id, node))
         /\ DOMAIN AddNode(N, id, node) = DOMAIN N \cup {id}
BY DEF IsGraph, AddNode

(***************************************************************************)
(* The edges of N, seen from both ends, are the pairs in E.  A pass of     *)
(* which all changesets are tied by their items has as E the dependencies. *)
(***************************************************************************)
HasEdges(N, E) ==
  \A a, b \in DOMAIN N :
    /\ a \in N[b].pred_ids <=> <<a, b>> \in E
    /\ b \in N[a].succ_ids <=> <<a, b>> \in E

DependencyEdges(db, X) == {p \in X \X X : DependsOn(db, p[2], p[1])}

\* The mirrored dependencies are edges in this sense.
LEMMA MirrorsIsEdges ==
  ASSUME NEW N, NEW db, NEW X, DOMAIN N \subseteq X
  PROVE  Mirrors(N, db) <=> HasEdges(N, DependencyEdges(db, X))
<1>1. ASSUME NEW a \in DOMAIN N, NEW b \in DOMAIN N
      PROVE  <<a, b>> \in DependencyEdges(db, X) <=> DependsOn(db, b, a)
  BY DEF DependencyEdges
<1> QED
  BY <1>1 DEF Mirrors, HasEdges

\* add_changeset() keeps both ends of every edge when the new node names the
\* right changesets among those of the graph.
LEMMA AddNodeEdges ==
  ASSUME NEW N, NEW E, NEW id, NEW node,
         IsGraph(N), HasEdges(N, E), id \notin DOMAIN N,
         <<id, id>> \notin E,
         \A a \in DOMAIN N : /\ a \in node.pred_ids <=> <<a, id>> \in E
                             /\ a \in node.succ_ids <=> <<id, a>> \in E
  PROVE  HasEdges(AddNode(N, id, node), E)
<1> DEFINE M == AddNode(N, id, node)
<1>1. DOMAIN M = DOMAIN N \cup {id}
  BY DEF AddNode
<1>2. /\ M[id].pred_ids = node.pred_ids \cap DOMAIN N
      /\ M[id].succ_ids = node.succ_ids \cap DOMAIN N
  BY DEF AddNode
<1>3. \A n \in DOMAIN N :
        /\ M[n].pred_ids = IF n \in node.succ_ids THEN N[n].pred_ids \cup {id}
                                                  ELSE N[n].pred_ids
        /\ M[n].succ_ids = IF n \in node.pred_ids THEN N[n].succ_ids \cup {id}
                                                  ELSE N[n].succ_ids
  BY DEF AddNode
<1>4. \A n \in DOMAIN N : id \notin N[n].pred_ids /\ id \notin N[n].succ_ids
  BY DEF IsGraph
<1> SUFFICES ASSUME NEW a \in DOMAIN M, NEW b \in DOMAIN M
             PROVE  /\ a \in M[b].pred_ids <=> <<a, b>> \in E
                    /\ b \in M[a].succ_ids <=> <<a, b>> \in E
  BY DEF HasEdges
<1> HIDE DEF M
<1>5. CASE a # id /\ b # id
  <2>1. a \in DOMAIN N /\ b \in DOMAIN N
    BY <1>1, <1>5
  <2>2. /\ a \in M[b].pred_ids <=> a \in N[b].pred_ids
        /\ b \in M[a].succ_ids <=> b \in N[a].succ_ids
    BY <1>3, <1>5, <2>1
  <2> QED
    BY <2>1, <2>2 DEF HasEdges
<1>6. ASSUME NEW n \in DOMAIN N
      PROVE  /\ id \in M[n].pred_ids <=> <<id, n>> \in E
             /\ n \in M[id].succ_ids <=> <<id, n>> \in E
  <2>1. id \in M[n].pred_ids <=> n \in node.succ_ids
    BY <1>3, <1>4
  <2>2. n \in M[id].succ_ids <=> n \in node.succ_ids
    BY <1>2
  <2> QED
    BY <2>1, <2>2
<1>7. ASSUME NEW n \in DOMAIN N
      PROVE  /\ n \in M[id].pred_ids <=> <<n, id>> \in E
             /\ id \in M[n].succ_ids <=> <<n, id>> \in E
  BY <1>2, <1>3, <1>4
<1>8. id \notin M[id].pred_ids /\ id \notin M[id].succ_ids
  BY <1>2
<1>9. CASE a = id \/ b = id
  <2>1. CASE a = id /\ b = id
    BY <1>8, <2>1
  <2>2. CASE a = id /\ b # id
    BY <1>1, <1>6, <2>2
  <2>3. CASE a # id /\ b = id
    BY <1>1, <1>7, <2>3
  <2> QED
    BY <1>9, <2>1, <2>2, <2>3
<1> QED
  BY <1>5, <1>9

\* __delitem__() removes every reference to the node and no other.
LEMMA DeleteNodeEdges ==
  ASSUME NEW N, NEW E, NEW id \in DOMAIN N, IsGraph(N), HasEdges(N, E)
  PROVE  /\ IsGraph(DeleteNode(N, id))
         /\ DOMAIN DeleteNode(N, id) = DOMAIN N \ {id}
         /\ HasEdges(DeleteNode(N, id), E)
         /\ \A n \in DOMAIN N \ {id} :
              DeleteNode(N, id)[n].pred_ids = N[n].pred_ids \ {id}
<1> DEFINE M == DeleteNode(N, id)
<1>1. DOMAIN M = DOMAIN N \ {id}
  BY DEF DeleteNode
<1>2. \A n \in DOMAIN M : /\ n \in N[id].succ_ids <=> id \in N[n].pred_ids
                          /\ n \in N[id].pred_ids <=> id \in N[n].succ_ids
  BY <1>1 DEF HasEdges
<1>3. \A n \in DOMAIN M : /\ M[n] = [pred_ids |-> M[n].pred_ids, succ_ids |-> M[n].succ_ids]
                          /\ M[n].pred_ids = N[n].pred_ids \ {id}
                          /\ M[n].succ_ids = N[n].succ_ids \ {id}
  <2> SUFFICES ASSUME NEW n \in DOMAIN M
               PROVE  /\ M[n] = [pred_ids |-> M[n].pred_ids, succ_ids |-> M[n].succ_ids]
                      /\ M[n].pred_ids = N[n].pred_ids \ {id}
                      /\ M[n].succ_ids = N[n].succ_ids \ {id}
    OBVIOUS
  <2>1. M[n] = [ pred_ids |-> IF n \in N[id].succ_ids THEN N[n].pred_ids \ {id}
                                                      ELSE N[n].pred_ids,
                 succ_ids |-> IF n \in N[id].pred_ids THEN N[n].succ_ids \ {id}
                                                      ELSE N[n].succ_ids ]
    BY <1>1 DEF DeleteNode
  <2> HIDE DEF M
  <2> QED
    BY <1>2, <2>1
<1>4. \A n \in DOMAIN N : N[n].pred_ids \subseteq DOMAIN N /\ N[n].succ_ids \subseteq DOMAIN N
  BY DEF IsGraph
<1>5. M = [n \in DOMAIN M |-> M[n]]
  BY DEF DeleteNode
<1> HIDE DEF M
<1>6. IsGraph(M)
  BY <1>1, <1>3, <1>4, <1>5 DEF IsGraph
<1>7. ASSUME NEW a \in DOMAIN M, NEW b \in DOMAIN M
      PROVE  /\ a \in M[b].pred_ids <=> <<a, b>> \in E
             /\ b \in M[a].succ_ids <=> <<a, b>> \in E
  BY <1>1, <1>3 DEF HasEdges
<1>8. HasEdges(M, E)
  BY <1>7 DEF HasEdges
<1>9. IsGraph(M) /\ DOMAIN M = DOMAIN N \ {id} /\ HasEdges(M, E)
        /\ \A n \in DOMAIN N \ {id} : M[n].pred_ids = N[n].pred_ids \ {id}
  BY <1>1, <1>3, <1>6, <1>8
<1> QED
  BY <1>9 DEF M

\* Consuming a node: the heap keeps holding exactly the nodes that have no
\* predecessors left, and the nodes that were not consumed keep their edges.
LEMMA ConsumeReady ==
  ASSUME NEW id, NEW E, ConsumeNode(id), IsGraph(nodes), HasEdges(nodes, E),
         nopred_nodes = NoPred(nodes)
  PROVE  /\ id \in DOMAIN nodes /\ nodes[id].pred_ids = {}
         /\ IsGraph(nodes') /\ DOMAIN nodes' = DOMAIN nodes \ {id}
         /\ HasEdges(nodes', E)
         /\ \A n \in DOMAIN nodes \ {id} : nodes'[n].pred_ids = nodes[n].pred_ids \ {id}
         /\ nopred_nodes' = NoPred(nodes')
<1>1. /\ nodes' = DeleteNode(nodes, id)
      /\ nopred_nodes' = (nopred_nodes \ {id}) \cup (nodes[id].succ_ids \cap NoPred(nodes'))
      /\ id \in DOMAIN nodes /\ nodes[id].pred_ids = {}
  BY DEF ConsumeNode, NoPred
<1>2. /\ IsGraph(nodes') /\ DOMAIN nodes' = DOMAIN nodes \ {id}
      /\ HasEdges(nodes', E)
      /\ \A n \in DOMAIN nodes \ {id} : nodes'[n].pred_ids = nodes[n].pred_ids \ {id}
  BY <1>1, DeleteNodeEdges
<1>3. \A n \in DOMAIN nodes : id \in nodes[n].pred_ids => n \in nodes[id].succ_ids
  BY <1>1 DEF HasEdges
<1>4. \A n \in DOMAIN nodes' :
        nodes'[n].pred_ids = {} => n \in nopred_nodes \/ n \in nodes[id].succ_ids
  BY <1>1, <1>2, <1>3 DEF NoPred
<1>5. \A n \in nopred_nodes \ {id} : n \in DOMAIN nodes' /\ nodes'[n].pred_ids = {}
  BY <1>1, <1>2 DEF NoPred
<1>6. nopred_nodes' = NoPred(nodes')
  BY <1>1, <1>2, <1>4, <1>5 DEF NoPred
<1> QED
  BY <1>1, <1>2, <1>6

\* A changeset on which nothing in S depends can join S.
LEMMA AcyclicExtend ==
  ASSUME NEW db, NEW S, NEW id, Acyclic(db, S),
         ~ DependsOn(db, id, id),
         \A b \in S : ~ DependsOn(db, b, id)
  PROVE  Acyclic(db, S \cup {id})
<1> SUFFICES ASSUME NEW T \in SUBSET (S \cup {id}), T # {}
             PROVE  \E b \in T : \A a \in T : ~ DependsOn(db, b, a)
  BY DEF Acyclic
<1>1. CASE T \ {id} = {}
  BY <1>1
<1>2. CASE T \ {id} # {}
  <2>1. PICK b \in T \ {id} : \A a \in T \ {id} : ~ DependsOn(db, b, a)
    BY <1>2 DEF Acyclic
  <2> QED
    BY <2>1
<1> QED
  BY <1>1, <1>2

\* Only the items of changesets matter for a cycle.
LEMMA AcyclicSameItems ==
  ASSUME NEW db1, NEW db2, NEW S, Acyclic(db1, S),
         \A n \in S : db1[n].items = db2[n].items
  PROVE  Acyclic(db2, S)
BY DEF Acyclic, DependsOn

\* Splitting a changeset that does not depend on itself closes no cycle.
LEMMA AcyclicSplit ==
  ASSUME NEW db, NEW db2, NEW S, NEW old \in S, NEW p, NEW q,
         Acyclic(db, S), p \notin S, q \notin S,
         db2[p].items \subseteq db[old].items, db2[q].items \subseteq db[old].items,
         \A n \in S \ {old} : db2[n].items = db[n].items
  PROVE  Acyclic(db2, (S \ {old}) \cup {p, q})
<1> SUFFICES ASSUME NEW T \in SUBSET ((S \ {old}) \cup {p, q}), T # {}
             PROVE  \E b \in T : \A a \in T : ~ DependsOn(db2, b, a)
  BY DEF Acyclic
<1> DEFINE Parts == T \cap {p, q}
           T0    == (T \ {p, q}) \cup (IF Parts # {} THEN {old} ELSE {})
           Was(n) == IF n \in {p, q} THEN old ELSE n
<1>1. T0 \in SUBSET S /\ T0 # {}
  OBVIOUS
<1>2. PICK b0 \in T0 : \A a \in T0 : ~ DependsOn(db, b0, a)
  BY <1>1 DEF Acyclic
<1>3. \A n \in T : Was(n) \in T0 /\ db2[n].items \subseteq db[Was(n)].items
  OBVIOUS
<1>4. \E b \in T : Was(b) = b0
  BY <1>1, <1>2
<1>5. PICK b \in T : Was(b) = b0
  BY <1>4
<1>6. ASSUME NEW a \in T, DependsOn(db2, b, a) PROVE FALSE
  <2>1. DependsOn(db, b0, Was(a))
    BY <1>3, <1>5, <1>6 DEF DependsOn
  <2> QED
    BY <1>2, <1>3, <2>1
<1> QED
  BY <1>6

-----------------------------------------------------------------------------
(* Links.                                                                  *)

TiedToPred(link, i) == GetPredIds(i) \cap link.pred # {}
TiedToSucc(link, i) == GetSuccIds(i) \cap link.succ # {}

\* get_link_type() tells by which ends an item is tied.
LEMMA LinkTypes ==
  ASSUME NEW link, NEW i \in link.items
  PROVE  /\ i \in ItemsOfType(link, LINK_NONE) <=> ~ TiedToPred(link, i) /\ ~ TiedToSucc(link, i)
         /\ i \in ItemsOfType(link, LINK_PRED) <=> TiedToPred(link, i) /\ ~ TiedToSucc(link, i)
         /\ i \in ItemsOfType(link, LINK_SUCC) <=> ~ TiedToPred(link, i) /\ TiedToSucc(link, i)
         /\ i \in ItemsOfType(link, LINK_PASSTHRU) <=> TiedToPred(link, i) /\ TiedToSucc(link, i)
<1> USE DEF LINK_NONE, LINK_PRED, LINK_SUCC, LINK_PASSTHRU, ItemsOfType, GetLinkType
<1>1. CASE TiedToPred(link, i) /\ TiedToSucc(link, i)
  BY <1>1 DEF TiedToPred, TiedToSucc
<1>2. CASE TiedToPred(link, i) /\ ~ TiedToSucc(link, i)
  BY <1>2 DEF TiedToPred, TiedToSucc
<1>3. CASE ~ TiedToPred(link, i) /\ TiedToSucc(link, i)
  BY <1>3 DEF TiedToPred, TiedToSucc
<1>4. CASE ~ TiedToPred(link, i) /\ ~ TiedToSucc(link, i)
  BY <1>4 DEF TiedToPred, TiedToSucc
<1> QED
  BY <1>1, <1>2, <1>3, <1>4

\* The counters of a link are 0 exactly when it has no item of the type.
LEMMA LinkCounts ==
  ASSUME NEW link, link.items \subseteq Item
  PROVE  /\ PredLinks(link) \in Nat /\ SuccLinks(link) \in Nat
         /\ PredLinks(link) = 0 <=> ItemsOfType(link, LINK_PRED) = {}
         /\ SuccLinks(link) = 0 <=> ItemsOfType(link, LINK_SUCC) = {}
<1>1. IsFiniteSet(Item)
  BY ItemAssumption
<1>2. /\ IsFiniteSet(ItemsOfType(link, LINK_PRED))
      /\ IsFiniteSet(ItemsOfType(link, LINK_SUCC))
  BY <1>1, FS_Subset DEF ItemsOfType
<1> QED
  BY <1>2, FS_EmptySet, FS_CardinalityType DEF PredLinks, SuccLinks

\* A link cannot be broken exactly when each of its items is tied to both
\* neighbours or to neither.
LEMMA UnbreakableLink ==
  ASSUME NEW link, link.items \subseteq Item
  PROVE  ~ IsBreakable(link)
           <=> \A i \in link.items : TiedToPred(link, i) <=> TiedToSucc(link, i)
<1>1. ~ IsBreakable(link) <=> /\ ItemsOfType(link, LINK_PRED) = {}
                              /\ ItemsOfType(link, LINK_SUCC) = {}
  BY LinkCounts DEF IsBreakable
<1>2. /\ ItemsOfType(link, LINK_PRED) \subseteq link.items
      /\ ItemsOfType(link, LINK_SUCC) \subseteq link.items
  BY DEF ItemsOfType
<1> QED
  BY <1>1, <1>2, LinkTypes

\* break_changeset() distributes the items of the broken changeset over two
\* changesets neither of which is empty, although it tests neither for that.
LEMMA SplitIsProper ==
  ASSUME NEW link, link.items \subseteq Item, IsBreakable(link),
         \E i \in link.items : TiedToPred(link, i),
         \E i \in link.items : TiedToSucc(link, i)
  PROVE  /\ PredItems(link) \cup SuccItems(link) = link.items
         /\ PredItems(link) \cap SuccItems(link) = {}
         /\ PredItems(link) # {} /\ SuccItems(link) # {}
<1> DEFINE none == ItemsOfType(link, LINK_NONE)
           pred == ItemsOfType(link, LINK_PRED)
           succ == ItemsOfType(link, LINK_SUCC)
           passthru == ItemsOfType(link, LINK_PASSTHRU)
<1>1. /\ none \subseteq link.items /\ pred \subseteq link.items
      /\ succ \subseteq link.items /\ passthru \subseteq link.items
  BY DEF ItemsOfType
<1>2. none \cup pred \cup succ \cup passthru = link.items
  BY <1>1, LinkTypes
<1>3. /\ pred \cap succ = {} /\ pred \cap none = {} /\ pred \cap passthru = {}
      /\ succ \cap none = {} /\ succ \cap passthru = {}
  BY <1>1, LinkTypes
<1>4. pred \cup passthru # {} /\ succ \cup passthru # {}
  BY <1>1, LinkTypes
<1>5. pred # {} \/ succ # {}
  BY LinkCounts DEF IsBreakable
<1>6. /\ PredItems(link) = IF RestGoesToPred(link) THEN pred \cup none \cup passthru ELSE pred
      /\ SuccItems(link) = IF RestGoesToPred(link) THEN succ ELSE succ \cup none \cup passthru
  BY DEF PredItems, SuccItems, Rest
<1>7. /\ RestGoesToPred(link) => pred = {} \/ succ # {}
      /\ ~ RestGoesToPred(link) => pred # {}
  BY LinkCounts DEF RestGoesToPred
<1> HIDE DEF none, pred, succ, passthru
<1> QED
  BY <1>2, <1>3, <1>4, <1>5, <1>6, <1>7

-----------------------------------------------------------------------------
(* Replacing a changeset by its fragments.                                 *)

\* Every item is in exactly one changeset, the item table says which, and no
\* changeset is empty.
Partitioned(db, table) ==
  /\ table \in [Item -> DOMAIN db]
  /\ \A id \in DOMAIN db : db[id].items = {i \in Item : table[i] = id}
  /\ \A id \in DOMAIN db : db[id].items # {}

\* What is replaced, by what, and that the key generator's next ids are new.
MayReplace(old, first, second, key) ==
  /\ old \in DOMAIN changeset_db /\ changeset_db[old] \in ChangesetRecord
  /\ first \cup second = changeset_db[old].items /\ first \cap second = {}
  /\ first # {} /\ second # {}
  /\ key \in Nat /\ key \notin DOMAIN changeset_db /\ key + 1 \notin DOMAIN changeset_db
  /\ Partitioned(changeset_db, cvs_item_to_changeset_id)

\* What happens to the databases.
Replaced(old, first, second, key) ==
  /\ DOMAIN changeset_db' = (DOMAIN changeset_db \ {old}) \cup {key, key + 1}
  /\ key # key + 1 /\ key + 1 \in Nat
  /\ changeset_db'[key] = CreateSplitChangeset(changeset_db[old], first)
  /\ changeset_db'[key + 1] = CreateSplitChangeset(changeset_db[old], second)
  /\ \A id \in {key, key + 1} :
       /\ changeset_db'[id] \in ChangesetRecord
       /\ changeset_db'[id].kind = changeset_db[old].kind
       /\ changeset_db'[id].symbol = changeset_db[old].symbol
       /\ changeset_db'[id].items \subseteq changeset_db[old].items
  /\ changeset_db'[key].items = first /\ changeset_db'[key + 1].items = second
  /\ \A id \in DOMAIN changeset_db \ {old} : changeset_db'[id] = changeset_db[id]

\* delete_changeset() and twice add_new_changeset(), as far as the databases go.
LEMMA ReplaceEffect ==
  ASSUME NEW old, NEW first, NEW second, NEW key,
         MayReplace(old, first, second, key), ReplaceChangeset(old, first, second, key)
  PROVE  /\ Replaced(old, first, second, key)
         /\ Partitioned(changeset_db', cvs_item_to_changeset_id')
<1> DEFINE db     == changeset_db
           db2    == changeset_db'
           part1  == CreateSplitChangeset(db[old], first)
           part2  == CreateSplitChangeset(db[old], second)
           table0 == cvs_item_to_changeset_id
           table2 == cvs_item_to_changeset_id'
<1> USE DEF MayReplace
<1>1. /\ db2 = [id \in (DOMAIN db \ {old}) \cup {key, key + 1} |->
                  IF id = key THEN part1
                  ELSE IF id = key + 1 THEN part2 ELSE db[id]]
      /\ table2 = StoreItems(StoreItems(table0, key, first), key + 1, second)
  BY DEF ReplaceChangeset
<1>2. key # key + 1 /\ key + 1 \in Nat
  OBVIOUS
<1>3. /\ DOMAIN db2 = (DOMAIN db \ {old}) \cup {key, key + 1}
      /\ db2[key] = part1 /\ db2[key + 1] = part2
      /\ \A id \in DOMAIN db \ {old} : db2[id] = db[id]
  BY <1>1, <1>2
<1>4. first \subseteq Item /\ second \subseteq Item
  BY DEF Partitioned
<1>5. /\ part1.items = first /\ part2.items = second
      /\ part1.kind = db[old].kind /\ part2.kind = db[old].kind
      /\ part1.symbol = db[old].symbol /\ part2.symbol = db[old].symbol
      /\ part1 \in ChangesetRecord /\ part2 \in ChangesetRecord
  BY <1>4 DEF CreateSplitChangeset, Changeset, ChangesetRecord
<1>6. /\ table2 \in [Item -> DOMAIN db \cup {key, key + 1}]
      /\ \A i \in Item : table2[i] =
           IF i \in second THEN key + 1 ELSE IF i \in first THEN key ELSE table0[i]
  BY <1>1 DEF StoreItems, Partitioned
<1>7. \A i \in Item : table0[i] = old <=> i \in first \/ i \in second
  BY DEF Partitioned
<1> HIDE DEF part1, part2, table2, db2
<1>8. ASSUME NEW id \in DOMAIN db2
      PROVE  db2[id].items = {i \in Item : table2[i] = id}
  <2>1. CASE id = key
    BY <1>2, <1>3, <1>4, <1>5, <1>6, <2>1 DEF Partitioned
  <2>2. CASE id = key + 1
    BY <1>2, <1>3, <1>4, <1>5, <1>6, <2>2 DEF Partitioned
  <2>3. CASE id \in DOMAIN db \ {old}
    <3>1. db2[id].items = {i \in Item : table0[i] = id}
      BY <1>3, <2>3 DEF Partitioned
    <3>2. \A i \in Item : table0[i] = id <=> table2[i] = id
      BY <1>2, <1>6, <1>7, <2>3
    <3> QED
      BY <3>1, <3>2
  <2> QED
    BY <1>3, <2>1, <2>2, <2>3
<1>9. \A id \in DOMAIN db2 : db2[id].items # {}
  BY <1>3, <1>5 DEF Partitioned
<1>10. table2 \in [Item -> DOMAIN db2]
  BY <1>3, <1>6, <1>7
<1>11. Partitioned(db2, table2)
  BY <1>8, <1>9, <1>10 DEF Partitioned
<1>12. Partitioned(changeset_db', cvs_item_to_changeset_id')
  BY <1>11 DEF db2, table2
<1>13. \A id \in {key, key + 1} :
         /\ db2[id] \in ChangesetRecord
         /\ db2[id].kind = db[old].kind /\ db2[id].symbol = db[old].symbol
         /\ db2[id].items \subseteq db[old].items
  BY <1>3, <1>5
<1>14. Replaced(old, first, second, key)
  BY <1>2, <1>3, <1>5, <1>13 DEF db2, part1, part2, Replaced
<1> QED
  BY <1>12, <1>14

\* The same for the graph, where add_new_changeset() ties in the first fragment
\* while the item table still sends the items of the second to the changeset
\* that is gone.  E are the edges of the new graph: those of the old one, and
\* those of the fragments, which are tied by their items.
LEMMA ReplaceEdges ==
  ASSUME NEW old, NEW first, NEW second, NEW key, NEW E,
         MayReplace(old, first, second, key), ReplaceChangeset(old, first, second, key),
         changeset_db[old].kind # "ordered",
         old \in DOMAIN nodes, DOMAIN nodes \subseteq DOMAIN changeset_db,
         IsGraph(nodes), HasEdges(nodes, E),
         ~ DependsOn(changeset_db, old, old),
         \A a \in (DOMAIN nodes \ {old}) \cup {key, key + 1}, b \in {key, key + 1} :
           /\ <<a, b>> \in E <=> DependsOn(changeset_db', b, a)
           /\ <<b, a>> \in E <=> DependsOn(changeset_db', a, b)
  PROVE  /\ IsGraph(nodes')
         /\ DOMAIN nodes' = (DOMAIN nodes \ {old}) \cup {key, key + 1}
         /\ HasEdges(nodes', E)
<1> DEFINE db     == changeset_db
           db2    == changeset_db'
           part1  == CreateSplitChangeset(db[old], first)
           part2  == CreateSplitChangeset(db[old], second)
           table0 == cvs_item_to_changeset_id
           table1 == StoreItems(table0, key, first)
           nodes0 == DeleteNode(nodes, old)
           node1  == CreateGraphNode(part1, table0)
           nodes1 == AddNode(nodes0, key, node1)
           node2  == CreateGraphNode(part2, table1)
<1>1. nodes' = AddNode(nodes1, key + 1, node2)
  BY DEF ReplaceChangeset
<1>2. /\ DOMAIN db2 = (DOMAIN db \ {old}) \cup {key, key + 1}
      /\ db2[key] = part1 /\ db2[key + 1] = part2
      /\ \A id \in DOMAIN db \ {old} : db2[id] = db[id]
      /\ part1.items = first /\ part2.items = second
      /\ part1.kind # "ordered" /\ part2.kind # "ordered"
      /\ key # key + 1
  <2>1. /\ part1.items = first /\ part2.items = second
        /\ part1.kind # "ordered" /\ part2.kind # "ordered"
    BY DEF CreateSplitChangeset, Changeset
  <2>2. Replaced(old, first, second, key)
    BY ReplaceEffect, Zenon
  <2> QED
    BY <2>1, <2>2 DEF Replaced
<1>3. /\ first \cup second = db[old].items /\ first \cap second = {}
      /\ key \notin DOMAIN db /\ key + 1 \notin DOMAIN db
      /\ table0 \in [Item -> DOMAIN db]
      /\ \A id \in DOMAIN db : db[id].items = {i \in Item : table0[i] = id}
      /\ old \in DOMAIN db
  BY DEF MayReplace, Partitioned
<1>4. /\ first \subseteq Item /\ second \subseteq Item
      /\ \A i \in first : table0[i] = old
  BY <1>3
<1>5. /\ IsGraph(nodes0) /\ DOMAIN nodes0 = DOMAIN nodes \ {old} /\ HasEdges(nodes0, E)
  BY DeleteNodeEdges
<1>6. \A i \in Item : table1[i] = IF i \in first THEN key ELSE table0[i]
  BY <1>3 DEF StoreItems
<1>7. \A a, b \in {key, key + 1} : ~ DependsOn(db2, a, b)
  BY <1>2, <1>3 DEF DependsOn
<1> HIDE DEF nodes0, part1, part2, table1, db2
<1>8. /\ IsGraph(nodes1) /\ DOMAIN nodes1 = DOMAIN nodes0 \cup {key} /\ HasEdges(nodes1, E)
  <2>1. TableRight(table0, db2, DOMAIN nodes0)
    BY <1>2, <1>3, <1>5 DEF TableRight
  <2>2. ASSUME NEW a \in DOMAIN nodes0
        PROVE  /\ a \in node1.pred_ids <=> <<a, key>> \in E
               /\ a \in node1.succ_ids <=> <<key, a>> \in E
    <3>1. /\ <<a, key>> \in E <=> DependsOn(db2, key, a)
          /\ <<key, a>> \in E <=> DependsOn(db2, a, key)
      BY <1>5 DEF db2
    <3>2. /\ a \in node1.pred_ids <=> \E i \in part1.items, j \in db2[a].items : j \in GetPredIds(i)
          /\ a \in node1.succ_ids <=> \E i \in part1.items, j \in db2[a].items : i \in GetPredIds(j)
      BY <1>2, <1>4, <2>1, CreateGraphNodeExact
    <3> QED
      BY <1>2, <3>1, <3>2 DEF DependsOn
  <2>3. <<key, key>> \notin E
    BY <1>7 DEF db2
  <2>4. key \notin DOMAIN nodes0
    BY <1>3, <1>5
  <2> HIDE DEF node1
  <2>5. HasEdges(nodes1, E)
    BY <1>5, <2>2, <2>3, <2>4, AddNodeEdges
  <2> QED
    BY <1>5, <2>5, AddNodeIsGraph
<1> HIDE DEF nodes1
<1>9. TableRight(table1, db2, DOMAIN nodes1)
  <2>1. ASSUME NEW a \in DOMAIN nodes0 PROVE db2[a].items = {i \in Item : table1[i] = a}
    <3>1. a \in DOMAIN db /\ a # old /\ a # key
      BY <1>3, <1>5
    <3>2. db2[a].items = {i \in Item : table0[i] = a}
      BY <1>2, <1>3, <3>1
    <3>3. \A i \in Item : table0[i] = a <=> table1[i] = a
      BY <1>4, <1>6, <3>1
    <3> QED
      BY <3>2, <3>3
  <2>2. \A i \in Item : i \in first <=> table1[i] = key
    BY <1>3, <1>6
  <2>3. db2[key].items = {i \in Item : table1[i] = key}
    BY <1>2, <1>4, <2>2
  <2> QED
    BY <1>8, <2>1, <2>3 DEF TableRight
<1>10. ASSUME NEW a \in DOMAIN nodes1
       PROVE  /\ a \in node2.pred_ids <=> <<a, key + 1>> \in E
              /\ a \in node2.succ_ids <=> <<key + 1, a>> \in E
  <2>1. /\ <<a, key + 1>> \in E <=> DependsOn(db2, key + 1, a)
        /\ <<key + 1, a>> \in E <=> DependsOn(db2, a, key + 1)
    BY <1>5, <1>8 DEF db2
  <2>2. /\ a \in node2.pred_ids <=> \E i \in part2.items, j \in db2[a].items : j \in GetPredIds(i)
        /\ a \in node2.succ_ids <=> \E i \in part2.items, j \in db2[a].items : i \in GetPredIds(j)
    BY <1>2, <1>4, <1>9, CreateGraphNodeExact
  <2> QED
    BY <1>2, <2>1, <2>2 DEF DependsOn
<1>11. <<key + 1, key + 1>> \notin E
  BY <1>7 DEF db2
<1>12. key + 1 \notin DOMAIN nodes1
  BY <1>2, <1>3, <1>5, <1>8
<1> HIDE DEF node2
<1>13. HasEdges(nodes', E)
  BY <1>1, <1>8, <1>10, <1>11, <1>12, AddNodeEdges
<1>14. IsGraph(nodes') /\ DOMAIN nodes' = DOMAIN nodes1 \cup {key + 1}
  BY <1>1, <1>8, AddNodeIsGraph
<1> QED
  BY <1>5, <1>8, <1>13, <1>14

-----------------------------------------------------------------------------
(* Databases in which the changesets of revisions are ordered.             *)

OrderedIn(db) == {id \in DOMAIN db : db[id].kind = "ordered"}

\* An ordered changeset has revisions, any other one items of its own kind.
KindsFit(db) ==
  \A id \in DOMAIN db :
    /\ db[id].kind \in {"ordered", "branch", "tag"}
    /\ \A i \in db[id].items :
         cvs_item[i].kind = IF db[id].kind = "ordered" THEN "revision" ELSE db[id].kind

NoneOnItself(db) == \A id \in DOMAIN db : ~ DependsOn(db, id, id)

\* The ordered changesets are numbered without gaps, linked to their
\* neighbours, and each comes after those its revisions depend on.
Chained(db) ==
  LET O == OrderedIn(db) IN
  /\ \A a \in O :
       /\ db[a].ordinal \in Nat /\ db[a].ordinal < Cardinality(Item)
       /\ db[a].prev_id \in O \cup {None} /\ db[a].next_id \in O \cup {None}
       /\ \A n \in 0..db[a].ordinal : \E b \in O : db[b].ordinal = n
  /\ \A a, b \in O :
       /\ db[a].ordinal = db[b].ordinal => a = b
       /\ db[b].prev_id = a <=> db[b].ordinal = db[a].ordinal + 1
       /\ db[a].next_id = b <=> db[b].ordinal = db[a].ordinal + 1
       /\ DependsOn(db, b, a) => db[a].ordinal < db[b].ordinal

\* The edges of a graph of these changesets.
OrderEdges(db) == {p \in (DOMAIN db) \X (DOMAIN db) : ComesAfter(db, p[2], p[1])}

\* What it says of two changesets.
LEMMA OrderEdge ==
  ASSUME NEW db, NEW a \in DOMAIN db, NEW b \in DOMAIN db
  PROVE  <<a, b>> \in OrderEdges(db) <=> ComesAfter(db, b, a)
BY DEF OrderEdges

\* create_graph_node() of an OrderedChangeset: its neighbours and, of what its
\* revisions depend on and what depends on them, the symbols.
LEMMA OrderedNodeExact ==
  ASSUME NEW db, NEW table, Partitioned(db, table), KindsFit(db), Chained(db),
         DOMAIN db \subseteq Nat,
         NEW id \in OrderedIn(db), NEW a \in DOMAIN db
  PROVE  /\ a \in CreateGraphNode(db[id], table).pred_ids <=> ComesAfter(db, id, a)
         /\ a \in CreateGraphNode(db[id], table).succ_ids <=> ComesAfter(db, a, id)
<1> DEFINE node == CreateGraphNode(db[id], table)
           PredSymbols == UNION {GetSymbolPredIds(i) : i \in db[id].items}
           SuccSymbols == UNION {GetSymbolSuccIds(i) : i \in db[id].items}
<1>1. /\ node.pred_ids = ({db[id].prev_id} \ {None}) \cup {table[i] : i \in PredSymbols}
      /\ node.succ_ids = ({db[id].next_id} \ {None}) \cup {table[i] : i \in SuccSymbols}
  BY DEF CreateGraphNode, ChangesetIdsOf, OrderedIn
<1>2. a # None /\ id \in DOMAIN db
  BY NoneAssumption DEF OrderedIn
<1>3. /\ db[id].items \subseteq Item /\ db[a].items \subseteq Item
      /\ \A i \in db[id].items : IsRevision(i)
      /\ \A i \in Item : table[i] = a <=> i \in db[a].items
  BY <1>2 DEF Partitioned, KindsFit, OrderedIn, IsRevision
<1>4. ASSUME NEW i \in db[id].items
      PROVE  /\ GetSymbolPredIds(i) = {j \in GetPredIds(i) : IsSymbol(j)}
             /\ GetSymbolSuccIds(i) = {j \in GetSuccIds(i) : IsSymbol(j)}
             /\ GetPredIds(i) \subseteq Item /\ GetSuccIds(i) \subseteq Item
  <2>1. /\ i \in Item /\ CheckLinks(i) /\ IsRevision(i)
        /\ cvs_item[i] \in ItemRecord
    BY <1>3, LinksAssumption
  <2>2. GetPredIds(i) \subseteq Item /\ GetSuccIds(i) \subseteq Item
    BY <2>1, PredSuccTypes
  <2>3. RevisionLinks(i)
    BY <2>1 DEF CheckLinks
  <2>4. \A j \in GetSymbolPredIds(i) : IsSymbol(j)
    BY <2>3 DEF RevisionLinks, GetSymbolPredIds, IsSymbol
  <2>5. \A j \in {cvs_item[i].prev_id, cvs_item[i].ntdbr_prev_id} \ {None} : ~ IsSymbol(j)
    BY <2>3 DEF RevisionLinks, IsRevision, IsSymbol
  <2>6. \A j \in GetSymbolSuccIds(i) : IsSymbol(j)
    BY <2>1 DEF CheckLinks, GetSymbolSuccIds, IsSymbol
  <2>7. \A j \in cvs_item[i].branch_commit_ids \cup
                   ({cvs_item[i].next_id, cvs_item[i].ntdbr_next_id} \ {None}) : ~ IsSymbol(j)
    BY <2>3 DEF RevisionLinks, IsRevision, IsSymbol
  <2>8. GetSymbolPredIds(i) = {j \in GetPredIds(i) : IsSymbol(j)}
    BY <2>1, <2>4, <2>5 DEF GetPredIds
  <2>9. GetSymbolSuccIds(i) = {j \in GetSuccIds(i) : IsSymbol(j)}
    BY <2>1, <2>6, <2>7 DEF GetSuccIds
  <2> QED
    BY <2>2, <2>8, <2>9
<1>5. CASE db[a].kind = "ordered"
  <2>1. \A i \in db[a].items : ~ IsSymbol(i)
    BY <1>5 DEF KindsFit, IsSymbol
  <2>2. a \notin {table[i] : i \in PredSymbols} /\ a \notin {table[i] : i \in SuccSymbols}
    BY <1>3, <1>4, <2>1
  <2>3. a \in node.pred_ids <=> db[id].prev_id = a
    BY <1>1, <1>2, <2>2
  <2>4. a \in node.succ_ids <=> db[id].next_id = a
    BY <1>1, <1>2, <2>2
  <2>5. db[id].next_id = a <=> db[a].prev_id = id
    BY <1>5 DEF Chained, OrderedIn
  <2> QED
    BY <1>5, <2>3, <2>4, <2>5 DEF ComesAfter, OrderedIn
<1>6. CASE db[a].kind # "ordered"
  <2>1. \A i \in db[a].items : IsSymbol(i)
    BY <1>6 DEF KindsFit, IsSymbol
  <2>2. db[id].prev_id # a /\ db[id].next_id # a
    BY <1>2, <1>6 DEF Chained, OrderedIn
  <2>3. a \in node.pred_ids <=> \E i \in db[id].items, j \in db[a].items : j \in GetPredIds(i)
    BY <1>1, <1>3, <1>4, <2>1, <2>2
  <2>4. a \in node.succ_ids <=> \E i \in db[id].items, j \in db[a].items : j \in GetSuccIds(i)
    BY <1>1, <1>3, <1>4, <2>1, <2>2
  <2>5. \A i \in db[id].items, j \in db[a].items : j \in GetSuccIds(i) <=> i \in GetPredIds(j)
    BY <1>3, PredSuccInverse
  <2>6. /\ ComesAfter(db, id, a) <=> DependsOn(db, id, a)
        /\ ComesAfter(db, a, id) <=> DependsOn(db, a, id)
    BY <1>6 DEF ComesAfter
  <2> QED
    BY <2>3, <2>4, <2>5, <2>6 DEF DependsOn
<1> QED
  BY <1>5, <1>6

\* The databases the passes after RevisionTopologicalSortPass work on.
SymbolsIn(db) == DOMAIN db \ OrderedIn(db)

ProperDb(db, table) ==
  /\ DOMAIN db \subseteq Nat
  /\ \A id \in DOMAIN db : db[id] \in ChangesetRecord
  /\ Partitioned(db, table) /\ KindsFit(db) /\ NoneOnItself(db) /\ Chained(db)

\* Loading: the node of any changeset gets exactly the edges it should have.
LEMMA AddChangesetEdges ==
  ASSUME NEW db, NEW table, ProperDb(db, table),
         NEW N, IsGraph(N), HasEdges(N, OrderEdges(db)), DOMAIN N \subseteq DOMAIN db,
         NEW id \in DOMAIN db, id \notin DOMAIN N
  PROVE  LET M == AddNode(N, id, CreateGraphNode(db[id], table)) IN
         IsGraph(M) /\ DOMAIN M = DOMAIN N \cup {id} /\ HasEdges(M, OrderEdges(db))
<1> DEFINE node == CreateGraphNode(db[id], table)
           E == OrderEdges(db)
           M == AddNode(N, id, node)
<1> USE DEF ProperDb
<1>1. ASSUME NEW a \in DOMAIN N
      PROVE  /\ a \in node.pred_ids <=> ComesAfter(db, id, a)
             /\ a \in node.succ_ids <=> ComesAfter(db, a, id)
  <2>1. CASE db[id].kind = "ordered"
    BY <2>1, OrderedNodeExact DEF OrderedIn
  <2>2. CASE db[id].kind # "ordered"
    <3>1. db[id].items \subseteq Item /\ TableRight(table, db, DOMAIN N)
      BY DEF Partitioned, TableRight
    <3>2. /\ a \in node.pred_ids <=> DependsOn(db, id, a)
          /\ a \in node.succ_ids <=> DependsOn(db, a, id)
      BY <2>2, <3>1, CreateGraphNodeExact DEF DependsOn
    <3> QED
      BY <2>2, <3>2 DEF ComesAfter
  <2> QED
    BY <2>1, <2>2
<1>2. ~ ComesAfter(db, id, id)
  <2>1. db[id].kind = "ordered" => db[id].prev_id # id
    BY DEF Chained, OrderedIn
  <2> QED
    BY <2>1 DEF ComesAfter, NoneOnItself
<1> HIDE DEF node
<1>3. <<id, id>> \notin E
  BY <1>2, OrderEdge
<1>4. ASSUME NEW a \in DOMAIN N
      PROVE  /\ a \in node.pred_ids <=> <<a, id>> \in E
             /\ a \in node.succ_ids <=> <<id, a>> \in E
  BY <1>1, OrderEdge
<1>5. HasEdges(M, E)
  <2> HIDE DEF E
  <2>1. HasEdges(N, E)
    BY DEF E
  <2> QED
    BY <1>3, <1>4, <2>1, AddNodeEdges, Zenon
<1>6. IsGraph(M) /\ DOMAIN M = DOMAIN N \cup {id}
  BY AddNodeIsGraph
<1> QED
  BY <1>5, <1>6 DEF node

\* The databases that ItemTable and ChangesetTable describe: what the passes
\* that work on ordered changesets start from.
LEMMA OrderedTables ==
  ASSUME NEW ordinal \in Orders,
         NEW id_of \in Seq(Nat \ {0}), IsInjective(id_of),
         Range(ordinal) \subseteq 0..(Len(id_of) - 1),
         NEW symbol_id \in [Symbols -> Nat \ {0}],
         \A i, j \in Symbols :
           symbol_id[i] = symbol_id[j] => cvs_item[i].symbol = cvs_item[j].symbol,
         Range(id_of) \cap Range(symbol_id) = {},
         NEW table, table = ItemTable(ordinal, id_of, symbol_id),
         NEW db, db = ChangesetTable(table, ordinal, id_of)
  PROVE  ProperDb(db, table) /\ SymbolsIn(db) \subseteq Range(symbol_id)
<1> DEFINE Has(id) == {i \in Item : table[i] = id}
           O == OrderedIn(db)
<1>1. /\ ordinal \in [Revisions -> 0..(Cardinality(Revisions) - 1)] /\ IsOrder(ordinal)
      /\ Len(id_of) \in Nat /\ DOMAIN id_of = 1..Len(id_of)
      /\ \A n \in 1..Len(id_of) : id_of[n] \in Nat \ {0} /\ id_of[n] \in Range(id_of)
  BY DEF Orders, Range
<1>2. Revisions \subseteq Item /\ Symbols \subseteq Item /\ \A i \in Item : i \in Symbols <=> i \notin Revisions
  BY DEF Revisions, Symbols
<1>3. Cardinality(Revisions) \in Nat /\ Cardinality(Revisions) <= Cardinality(Item)
        /\ Cardinality(Item) \in Nat
  BY <1>2, ItemAssumption, FS_Subset, FS_CardinalityType
<1>4. ASSUME NEW i \in Revisions
      PROVE  /\ ordinal[i] \in Nat /\ ordinal[i] < Cardinality(Item)
             /\ ordinal[i] + 1 \in 1..Len(id_of)
             /\ table[i] = id_of[ordinal[i] + 1]
             /\ table[i] \in Nat \ {0} /\ table[i] \notin Range(symbol_id)
             /\ cvs_item[i].kind = "revision"
  <2>1. ordinal[i] \in 0..(Cardinality(Revisions) - 1) /\ ordinal[i] \in Range(ordinal)
    BY <1>1 DEF Range
  <2>2. table[i] = id_of[ordinal[i] + 1]
    BY <1>2 DEF ItemTable
  <2>3. ordinal[i] \in Nat /\ ordinal[i] < Cardinality(Item) /\ ordinal[i] + 1 \in 1..Len(id_of)
    BY <1>1, <1>3, <2>1
  <2>4. cvs_item[i].kind = "revision"
    BY DEF Revisions, IsRevision
  <2> QED
    BY <1>1, <2>2, <2>3, <2>4
<1>5. ASSUME NEW i \in Symbols
      PROVE  /\ table[i] = symbol_id[i] /\ table[i] \in Nat \ {0}
             /\ table[i] \in Range(symbol_id)
             /\ IsSymbol(i)
  <2>1. table[i] = symbol_id[i] /\ symbol_id[i] \in Range(symbol_id)
    BY <1>2 DEF ItemTable, Range
  <2>2. IsSymbol(i)
    BY <1>2, LinksAssumption DEF IsSymbol, Revisions, IsRevision, ItemRecord
  <2> QED
    BY <2>1, <2>2
<1>6. /\ DOMAIN db = {table[i] : i \in Item}
      /\ \A id \in DOMAIN db : db[id] = ChangesetOf(Has(id), ordinal, id_of)
  BY DEF ChangesetTable
<1> DEFINE prev(n) == IF n = 0 THEN None ELSE id_of[n]
           next(n) == IF \E j \in Revisions : ordinal[j] > n THEN id_of[n + 2] ELSE None
<1>7. ASSUME NEW id \in DOMAIN db
      PROVE  \/ \E i \in Revisions :
                  /\ id = table[i]
                  /\ db[id] = OrderedChangeset(Has(id), ordinal[i], prev(ordinal[i]), next(ordinal[i]))
             \/ \E i \in Symbols :
                  /\ id = table[i]
                  /\ db[id] = Changeset(cvs_item[i].kind, Has(id), cvs_item[i].symbol)
  <2> DEFINE i == CHOOSE x \in Has(id) : TRUE
  <2>1. i \in Has(id)
    BY <1>6
  <2>2. db[id] = ChangesetOf(Has(id), ordinal, id_of)
    BY <1>6
  <2> HIDE DEF Has
  <2>3. CASE i \in Symbols
    <3>1. db[id] = Changeset(cvs_item[i].kind, Has(id), cvs_item[i].symbol)
      BY <2>2, <2>3 DEF ChangesetOf
    <3> QED
      BY <2>1, <2>3, <3>1 DEF Has
  <2>4. CASE i \notin Symbols
    <3>1. db[id] = OrderedChangeset(Has(id), ordinal[i], prev(ordinal[i]), next(ordinal[i]))
      BY <2>2, <2>4 DEF ChangesetOf
    <3>2. i \in Revisions /\ id = table[i]
      BY <1>2, <2>1, <2>4 DEF Has
    <3> QED
      BY <3>1, <3>2
  <2> QED
    BY <2>3, <2>4
<1> HIDE DEF prev, next
\* An ordered changeset.
<1>8. ASSUME NEW id \in DOMAIN db, NEW i \in Revisions, id = table[i],
             db[id] = OrderedChangeset(Has(id), ordinal[i], prev(ordinal[i]), next(ordinal[i]))
      PROVE  /\ db[id].kind = "ordered" /\ db[id].items = Has(id) /\ db[id].ordinal = ordinal[i]
             /\ db[id].prev_id = prev(ordinal[i]) /\ db[id].next_id = next(ordinal[i])
             /\ Has(id) = {x \in Revisions : ordinal[x] = ordinal[i]}
  <2>1. /\ db[id].kind = "ordered" /\ db[id].items = Has(id) /\ db[id].ordinal = ordinal[i]
        /\ db[id].prev_id = prev(ordinal[i]) /\ db[id].next_id = next(ordinal[i])
    BY <1>8 DEF OrderedChangeset
  <2>2. ASSUME NEW x \in Item PROVE table[x] = id <=> x \in Revisions /\ ordinal[x] = ordinal[i]
    <3>1. CASE x \in Symbols
      BY <1>2, <1>4, <1>5, <1>8, <3>1
    <3>2. CASE x \in Revisions
      BY <1>1, <1>4, <1>8, <3>2 DEF IsInjective
    <3> QED
      BY <1>2, <3>1, <3>2
  <2> QED
    BY <1>2, <2>1, <2>2
\* A changeset of symbols.
<1>9. ASSUME NEW id \in DOMAIN db, NEW i \in Symbols, id = table[i],
             db[id] = Changeset(cvs_item[i].kind, Has(id), cvs_item[i].symbol)
      PROVE  /\ db[id].kind = cvs_item[i].kind /\ db[id].kind \in {"branch", "tag"}
             /\ db[id].items = Has(id)
             /\ db[id] \in ChangesetRecord
             /\ id \in Range(symbol_id)
             /\ Has(id) \subseteq Symbols
             /\ \A x \in Has(id) : cvs_item[x].kind = cvs_item[i].kind
             /\ \A x, y \in Has(id) : y \notin GetPredIds(x)
  <2>1. db[id].kind = cvs_item[i].kind /\ db[id].items = Has(id)
    BY <1>9 DEF Changeset
  <2>2. cvs_item[i].kind \in {"branch", "tag"} /\ cvs_item[i].symbol \in Nat
    BY <1>2, <1>5, LinksAssumption DEF IsSymbol, ItemRecord
  <2>3. Has(id) \subseteq Symbols /\ id \in Range(symbol_id)
    BY <1>2, <1>4, <1>5, <1>9
  <2>4. \A x \in Has(id) : IsSymbol(x) /\ cvs_item[x].symbol = cvs_item[i].symbol
    BY <1>5, <1>9, <2>3
  <2>5. \A x, y \in Has(id) : cvs_item[x].kind = cvs_item[i].kind /\ y \notin GetPredIds(x)
    BY <1>2, <1>5, <2>3, <2>4, SymbolAssumption
  <2>6. Has(id) \in SUBSET Item
    OBVIOUS
  <2>7. db[id] \in ChangesetRecord
    BY <1>9, <2>2, <2>6 DEF Changeset, ChangesetRecord
  <2> QED
    BY <2>1, <2>2, <2>3, <2>5, <2>7
<1>10. DOMAIN db \subseteq Nat \ {0}
  BY <1>2, <1>4, <1>5, <1>6
<1>11. ASSUME NEW id \in DOMAIN db PROVE db[id].items = Has(id) /\ Has(id) # {}
  <2>1. Has(id) # {}
    BY <1>6
  <2> HIDE DEF Has
  <2> QED
    BY <1>7, <1>8, <1>9, <2>1
<1>12. Partitioned(db, table)
  <2>1. table \in [Item -> DOMAIN db]
    BY <1>6 DEF ItemTable
  <2> QED
    BY <1>11, <2>1 DEF Partitioned
<1>13. KindsFit(db)
  <2> SUFFICES ASSUME NEW id \in DOMAIN db
               PROVE  /\ db[id].kind \in {"ordered", "branch", "tag"}
                      /\ \A i \in db[id].items : cvs_item[i].kind =
                           IF db[id].kind = "ordered" THEN "revision" ELSE db[id].kind
    BY DEF KindsFit
  <2> HIDE DEF Has
  <2> QED
    BY <1>4, <1>7, <1>8, <1>9
\* What the ordered changesets are.
<1>14. ASSUME NEW id \in O
       PROVE  \E i \in Revisions :
                /\ id = table[i] /\ db[id].items = {x \in Revisions : ordinal[x] = ordinal[i]}
                /\ db[id].ordinal = ordinal[i]
                /\ db[id].prev_id = prev(ordinal[i]) /\ db[id].next_id = next(ordinal[i])
                /\ db[id] = OrderedChangeset(Has(id), ordinal[i], prev(ordinal[i]), next(ordinal[i]))
  <2>1. id \in DOMAIN db /\ db[id].kind = "ordered"
    BY DEF OrderedIn
  <2> HIDE DEF Has
  <2> QED
    BY <1>7, <1>8, <1>9, <2>1
<1>15. ASSUME NEW i \in Revisions
       PROVE  table[i] \in O /\ db[table[i]].ordinal = ordinal[i]
  <2>1. table[i] \in DOMAIN db /\ i \in Has(table[i])
    BY <1>2, <1>6
  <2>2. i \notin Symbols
    BY <1>2
  <2>3. PICK k \in Revisions :
           /\ table[i] = table[k]
           /\ db[table[i]] = OrderedChangeset(Has(table[i]), ordinal[k], prev(ordinal[k]), next(ordinal[k]))
    <3> HIDE DEF Has
    <3> QED
      BY <1>7, <1>9, <2>1, <2>2
  <2>4. /\ db[table[i]].kind = "ordered" /\ db[table[i]].ordinal = ordinal[k]
        /\ Has(table[i]) = {x \in Revisions : ordinal[x] = ordinal[k]}
    <3> HIDE DEF Has
    <3> QED
      BY <1>8, <2>1, <2>3
  <2> QED
    BY <2>1, <2>4 DEF OrderedIn
<1>16. ASSUME NEW m \in Nat, NEW j \in Revisions, m <= ordinal[j]
       PROVE  \E i \in Revisions : ordinal[i] = m /\ table[i] = id_of[m + 1]
  <2>1. m \in 0..ordinal[j]
    BY <1>4, <1>16
  <2>2. PICK i \in Revisions : ordinal[i] = m
    BY <1>1, <2>1 DEF IsOrder
  <2> QED
    BY <1>4, <2>2
<1>17. Chained(db)
  <2>1. ASSUME NEW a \in O
        PROVE  /\ db[a].ordinal \in Nat /\ db[a].ordinal < Cardinality(Item)
               /\ db[a].prev_id \in O \cup {None} /\ db[a].next_id \in O \cup {None}
               /\ \A n \in 0..db[a].ordinal : \E b \in O : db[b].ordinal = n
    <3>1. PICK i \in Revisions :
            /\ a = table[i] /\ db[a].ordinal = ordinal[i]
            /\ db[a].prev_id = prev(ordinal[i]) /\ db[a].next_id = next(ordinal[i])
      BY <1>14
    <3>2. ordinal[i] \in Nat /\ ordinal[i] < Cardinality(Item)
      BY <1>4
    <3>3. prev(ordinal[i]) \in O \cup {None}
      <4>1. CASE ordinal[i] = 0
        BY <4>1 DEF prev
      <4>2. CASE ordinal[i] # 0
        <5>1. ordinal[i] - 1 \in Nat /\ ordinal[i] - 1 <= ordinal[i]
          BY <3>2, <4>2
        <5>2. PICK x \in Revisions : table[x] = id_of[(ordinal[i] - 1) + 1]
          BY <1>16, <5>1
        <5>3. (ordinal[i] - 1) + 1 = ordinal[i]
          BY <3>2
        <5> QED
          BY <1>15, <4>2, <5>2, <5>3 DEF prev
      <4> QED
        BY <4>1, <4>2
    <3>4. next(ordinal[i]) \in O \cup {None}
      <4>1. CASE \E j \in Revisions : ordinal[j] > ordinal[i]
        <5>1. PICK j \in Revisions : ordinal[j] > ordinal[i]
          BY <4>1
        <5>2. ordinal[i] + 1 \in Nat /\ ordinal[i] + 1 <= ordinal[j]
          BY <1>4, <3>2, <5>1
        <5>3. PICK x \in Revisions : table[x] = id_of[(ordinal[i] + 1) + 1]
          BY <1>16, <5>2
        <5>4. (ordinal[i] + 1) + 1 = ordinal[i] + 2
          BY <3>2
        <5> QED
          BY <1>15, <4>1, <5>3, <5>4 DEF next
      <4>2. CASE ~ \E j \in Revisions : ordinal[j] > ordinal[i]
        BY <4>2 DEF next
      <4> QED
        BY <4>1, <4>2
    <3>5. ASSUME NEW n \in 0..ordinal[i] PROVE \E b \in O : db[b].ordinal = n
      <4>1. n \in Nat /\ n <= ordinal[i]
        BY <3>2
      <4>2. PICK x \in Revisions : ordinal[x] = n
        BY <1>16, <4>1
      <4> QED
        BY <1>15, <4>2
    <3> QED
      BY <3>1, <3>2, <3>3, <3>4, <3>5
  <2>2. ASSUME NEW a \in O, NEW b \in O
        PROVE  /\ db[a].ordinal = db[b].ordinal => a = b
               /\ db[b].prev_id = a <=> db[b].ordinal = db[a].ordinal + 1
               /\ db[a].next_id = b <=> db[b].ordinal = db[a].ordinal + 1
               /\ DependsOn(db, b, a) => db[a].ordinal < db[b].ordinal
    <3>1. PICK i \in Revisions :
            /\ a = table[i] /\ db[a].items = {x \in Revisions : ordinal[x] = ordinal[i]}
            /\ db[a].ordinal = ordinal[i] /\ db[a].next_id = next(ordinal[i])
      BY <1>14
    <3>2. PICK j \in Revisions :
            /\ b = table[j] /\ db[b].items = {x \in Revisions : ordinal[x] = ordinal[j]}
            /\ db[b].ordinal = ordinal[j] /\ db[b].prev_id = prev(ordinal[j])
      BY <1>14
    <3>3. /\ ordinal[i] \in Nat /\ ordinal[j] \in Nat
          /\ ordinal[i] + 1 \in 1..Len(id_of) /\ ordinal[j] + 1 \in 1..Len(id_of)
          /\ a = id_of[ordinal[i] + 1] /\ b = id_of[ordinal[j] + 1]
          /\ a \in Nat /\ b \in Nat
      BY <1>4, <3>1, <3>2
    <3>4. \A m, n \in 1..Len(id_of) : id_of[m] = id_of[n] => m = n
      BY <1>1 DEF IsInjective
    <3>5. ordinal[i] = ordinal[j] => a = b
      BY <3>3
    <3>6. prev(ordinal[j]) = a <=> ordinal[j] = ordinal[i] + 1
      <4>1. CASE ordinal[j] = 0
        BY <3>3, <4>1, NoneAssumption DEF prev
      <4>2. CASE ordinal[j] # 0
        <5>1. ordinal[j] \in 1..Len(id_of) /\ prev(ordinal[j]) = id_of[ordinal[j]]
          BY <1>1, <3>3, <4>2 DEF prev
        <5> QED
          BY <3>3, <3>4, <5>1
      <4> QED
        BY <4>1, <4>2
    <3>7. next(ordinal[i]) = b <=> ordinal[j] = ordinal[i] + 1
      <4>1. CASE ~ \E x \in Revisions : ordinal[x] > ordinal[i]
        <5>1. next(ordinal[i]) = None /\ None # b
          BY <3>3, <4>1, NoneAssumption DEF next
        <5>2. ordinal[j] # ordinal[i] + 1
          BY <3>3, <4>1
        <5> QED
          BY <5>1, <5>2
      <4>2. CASE \E x \in Revisions : ordinal[x] > ordinal[i]
        <5>1. PICK x \in Revisions : ordinal[x] > ordinal[i]
          BY <4>2
        <5>2. ordinal[x] + 1 \in 1..Len(id_of) /\ ordinal[x] \in Nat
          BY <1>4
        <5>3. ordinal[i] + 2 \in 1..Len(id_of)
          BY SMTT(60), <1>1, <3>3, <5>1, <5>2
        <5>4. next(ordinal[i]) = id_of[ordinal[i] + 2]
          BY <4>2 DEF next
        <5>5. id_of[ordinal[i] + 2] = b <=> ordinal[i] + 2 = ordinal[j] + 1
          BY <3>3, <3>4, <5>3
        <5> QED
          BY SMTT(30), <3>3, <5>4, <5>5
      <4> QED
        BY <4>1, <4>2
    <3>8. DependsOn(db, b, a) => ordinal[i] < ordinal[j]
      <4> SUFFICES ASSUME DependsOn(db, b, a) PROVE ordinal[i] < ordinal[j]
        OBVIOUS
      <4>1. PICK y \in Revisions, x \in Revisions :
              ordinal[y] = ordinal[j] /\ ordinal[x] = ordinal[i] /\ x \in GetPredIds(y)
        BY <3>1, <3>2 DEF DependsOn
      <4> QED
        BY <1>1, <4>1 DEF IsOrder
    <3> QED
      BY <3>1, <3>2, <3>5, <3>6, <3>7, <3>8
  <2> HIDE DEF O
  <2> QED
    BY <2>1, <2>2 DEF Chained, O
<1>18. NoneOnItself(db)
  <2> SUFFICES ASSUME NEW id \in DOMAIN db, DependsOn(db, id, id) PROVE FALSE
    BY DEF NoneOnItself
  <2>1. CASE db[id].kind = "ordered"
    <3>1. id \in O
      BY <2>1 DEF OrderedIn
    <3>2. db[id].ordinal \in Nat /\ db[id].ordinal < db[id].ordinal
      BY <1>17, <3>1 DEF Chained
    <3> QED
      BY <3>2
  <2>2. CASE db[id].kind # "ordered"
    <3> HIDE DEF Has
    <3>1. \A x, y \in db[id].items : y \notin GetPredIds(x)
      BY <1>7, <1>8, <1>9, <2>2
    <3> QED
      BY <3>1 DEF DependsOn
  <2> QED
    BY <2>1, <2>2
<1>19. \A id \in DOMAIN db : db[id] \in ChangesetRecord
  <2> SUFFICES ASSUME NEW id \in DOMAIN db PROVE db[id] \in ChangesetRecord
    OBVIOUS
  <2>1. CASE id \in O
    <3>1. PICK i \in Revisions :
            /\ db[id].prev_id = prev(ordinal[i]) /\ db[id].next_id = next(ordinal[i])
            /\ db[id].ordinal = ordinal[i]
            /\ db[id] = OrderedChangeset(Has(id), ordinal[i], prev(ordinal[i]), next(ordinal[i]))
      BY <1>14, <2>1
    <3>2. prev(ordinal[i]) \in Nat \cup {None} /\ next(ordinal[i]) \in Nat \cup {None}
      BY <1>10, <1>17, <2>1, <3>1 DEF Chained, OrderedIn
    <3>3. ordinal[i] \in Nat /\ Has(id) \in SUBSET Item
      BY <1>4
    <3> HIDE DEF Has
    <3> QED
      BY <3>1, <3>2, <3>3 DEF OrderedChangeset, ChangesetRecord
  <2>2. CASE id \notin O
    <3> HIDE DEF Has
    <3> QED
      BY <1>7, <1>8, <1>9, <2>2 DEF OrderedIn
  <2> QED
    BY <2>1, <2>2
<1>20. SymbolsIn(db) \subseteq Range(symbol_id)
  <2> HIDE DEF Has
  <2> QED
    BY <1>7, <1>8, <1>9 DEF SymbolsIn, OrderedIn
<1> QED
  BY <1>10, <1>12, <1>13, <1>17, <1>18, <1>19, <1>20 DEF ProperDb
=============================================================================

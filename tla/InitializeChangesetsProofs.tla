--------------------- MODULE InitializeChangesetsProofs ---------------------
(***************************************************************************)
(* Proofs about InitializeChangesets, for every item database, assignment  *)
(* of metadata and threshold.  The proof goes from what the helpers        *)
(* compute (the sorted list, the counts, the two parts of a cut, the stack *)
(* and the databases after a store) to one lemma per action.               *)
(***************************************************************************)
EXTENDS InitializeChangesets, FiniteSetTheorems, SequenceTheorems,
        NaturalsInduction, WellFoundedInduction, TLAPS

-----------------------------------------------------------------------------
(* The invariant that is inductive: what the pass promises, where the loop *)
(* stands, and what is known of what is stored, grouped and on the stack.  *)

\* Where the loop stands.
PhaseInv ==
  /\ pc = "read" => changesets_to_split = <<>>
  /\ pc = "split" => changeset_items = <<>>
  /\ pc \in {"read", "split"} => unread_symbols = SymbolNames
  /\ pc \in {"symbols", "done"} =>
       changesets_to_split = <<>> /\ changeset_items = <<>> /\ unread_revs = {}
  /\ pc = "done" => unread_symbols = {}

\* A stored changeset has items, and either revisions that do not depend on each
\* other, or all the items of one symbol; it is what a later pass would make of
\* its items.
StoredInv ==
  /\ DOMAIN cvs_item_to_changeset_id =
       (Revisions \ (unread_revs \cup Pending))
         \cup {i \in Symbols : cvs_item[i].symbol \notin unread_symbols}
  /\ \A id \in DOMAIN changeset_db :
       LET S == changeset_db[id].items
       IN  /\ S # {} /\ changeset_db[id] = SourceChangeset(S)
           /\ \/ S \subseteq Revisions /\ \A i, j \in S : j \notin GetSuccIds(i)
              \/ \E symbol \in SymbolNames \ unread_symbols : S = OfSymbol(symbol)

\* The current group, or what is left of it on the stack, has the metadata of
\* the last revision read and is not later than that; revisions still to be
\* read are not earlier; and once the group is complete they are not near it.
GroupInv ==
  /\ Pending # {} \/ pc = "split" \/ RevisionChangesets # {} => old_metadata_id # None
  /\ \A i \in Pending :
       metadata_id[i] = old_metadata_id /\ cvs_item[i].timestamp <= old_timestamp
  /\ \A i \in unread_revs : metadata_id[i] = old_metadata_id =>
       /\ cvs_item[i].timestamp >= old_timestamp
       /\ changeset_items = <<>> =>
            cvs_item[i].timestamp > old_timestamp + COMMIT_THRESHOLD
  /\ changeset_items # <<>> =>
       \E i \in Range(changeset_items) : cvs_item[i].timestamp = old_timestamp
  /\ Gapless(Range(changeset_items))
  /\ \A k \in DOMAIN changesets_to_split : Gapless(Range(changesets_to_split[k]))

\* A dependency crosses every cut between two lists on the stack, the lower one
\* of which has the later revisions.
InLower(m) == UNION {Range(changesets_to_split[k]) : k \in 1..m}
StackInv ==
  \A m \in 1..(Len(changesets_to_split) - 1) :
    \E y \in InLower(m), x \in OfMetadata(old_metadata_id) \ (unread_revs \cup InLower(m)) :
      x \in GetSuccIds(y) \/ y \in GetSuccIds(x)

\* One crosses the cut after the last changeset, if what follows is near.
LastInv ==
  key_base - 1 \in RevisionChangesets =>
    \A i \in changeset_db[key_base - 1].items :
      \/ CutFor(metadata_id[i], key_base - 1)
      \/ \A j \in unread_revs \cup Pending : ~ Near(i, j)

IInv ==
  /\ TypeOK /\ ListedOnce /\ DatabasesAgree
  /\ PhaseInv /\ StoredInv /\ GroupInv /\ StackInv /\ LastInv
  /\ CutForDependency

-----------------------------------------------------------------------------
(* Revisions and their order.                                              *)

\* Both ends of a dependency between revisions know of it, and none depends on
\* itself.
LEMMA RevisionLinked ==
  ASSUME NEW i \in Revisions, NEW j \in Revisions
  PROVE  /\ j \in GetPredIds(i) <=> i \in GetSuccIds(j)
         /\ i \notin GetSuccIds(i)
<1>1. ASSUME NEW x \in Revisions, NEW y \in Revisions
      PROVE  y \in GetPredIds(x) <=> x \in GetSuccIds(y)
  <2>1. /\ cvs_item[x] \in ItemRecord /\ cvs_item[y] \in ItemRecord
        /\ x \in Item /\ y \in Item /\ IsRevision(x) /\ IsRevision(y)
        /\ CheckLinks(x) /\ CheckLinks(y) /\ RevisionLinks(x) /\ RevisionLinks(y)
    BY LinksAssumption DEF Revisions, CheckLinks
  <2>2. x # None /\ y # None
    BY <2>1, NoneAssumption
  <2>3. ASSUME y \in GetPredIds(x) PROVE x \in GetSuccIds(y)
    <3>1. y # cvs_item[x].first_on_branch_id
      BY <2>1, <2>2 DEF RevisionLinks, IsRevision
    <3>2. y = cvs_item[x].prev_id \/ y = cvs_item[x].ntdbr_prev_id
      BY <2>1, <2>3, <3>1 DEF GetPredIds, GetSymbolPredIds
    <3> QED BY <2>1, <2>2, <3>2 DEF RevisionLinks, GetSuccIds
  <2>4. ASSUME x \in GetSuccIds(y) PROVE y \in GetPredIds(x)
    <3>1. x \notin GetSymbolSuccIds(y)
      BY <2>1 DEF CheckLinks, GetSymbolSuccIds, IsRevision
    <3>2. \/ x \in cvs_item[y].branch_commit_ids
          \/ x = cvs_item[y].next_id
          \/ x = cvs_item[y].ntdbr_next_id
      BY <2>1, <2>4, <3>1 DEF GetSuccIds
    <3> QED BY <2>1, <2>2, <3>2 DEF RevisionLinks, GetPredIds
  <2> QED BY <2>3, <2>4
<1>2. i \notin GetPredIds(i)
  <2>1. {i} \in SUBSET Item /\ {i} # {}
    BY DEF Revisions
  <2> QED BY <2>1, ItemsWellFounded
<1> QED BY <1>1, <1>2

\* A revision's timestamp is a number.
LEMMA TimestampType ==
  ASSUME NEW i \in Revisions
  PROVE  i \in Item /\ cvs_item[i].timestamp \in Nat
BY LinksAssumption DEF Revisions, ItemRecord

\* There are finitely many revisions.
LEMMA RevisionsFinite == IsFiniteSet(Revisions)
BY ItemAssumption, FS_Subset DEF Revisions

\* compare_items() puts revisions in one order.
LEMMA ItemLessIsOrder ==
  ASSUME ConstantsOK, NEW i \in Revisions, NEW j \in Revisions, NEW k \in Revisions
  PROVE  /\ ~ ItemLess(i, i)
         /\ ItemLess(i, j) /\ ItemLess(j, k) => ItemLess(i, k)
         /\ i # j => ItemLess(i, j) \/ ItemLess(j, i)
<1>1. /\ Rank[i] \in Nat /\ Rank[j] \in Nat /\ Rank[k] \in Nat
      /\ i # j => Rank[i] # Rank[j]
  BY TimestampType DEF ConstantsOK, IsInjective
<1> PICK ti \in Nat, tj \in Nat, tk \in Nat :
      /\ ti = cvs_item[i].timestamp
      /\ tj = cvs_item[j].timestamp
      /\ tk = cvs_item[k].timestamp
  BY TimestampType
<1> QED BY <1>1 DEF ItemLess
-----------------------------------------------------------------------------
(* Lists.                                                                  *)

\* A list in which nothing is twice is as long as the set of what is in it.
LEMMA RangeSize ==
  ASSUME NEW S, NEW s \in Seq(S), IsInjective(s)
  PROVE  IsFiniteSet(Range(s)) /\ Cardinality(Range(s)) = Len(s)
<1>1. IsFiniteSet(1..Len(s)) /\ Cardinality(1..Len(s)) = Len(s)
  <2>1. PICK n \in Nat : n = Len(s)
    OBVIOUS
  <2>2. IsFiniteSet(1..n) /\ Cardinality(1..n) = n
    BY FS_Interval, 1 \in Int, n \in Int, n \in Nat
  <2> QED BY <2>1, <2>2
<1>2. s \in Surjection(1..Len(s), Range(s))
  BY DEF Surjection, Range
<1>3. s \in Injection(1..Len(s), Range(s))
  BY DEF Injection, Range, IsInjective
<1> QED BY <1>1, <1>2, <1>3, FS_Surjection

\* changeset_items.sort(): the list has what it had, in the order of
\* compare_items().
LEMMA SortedExact ==
  ASSUME ConstantsOK, NEW L \in Seq(Revisions), IsInjective(L)
  PROVE  /\ Sorted(L) \in Seq(Revisions)
         /\ Len(Sorted(L)) = Len(L)
         /\ Range(Sorted(L)) = Range(L)
         /\ IsInjective(Sorted(L))
         /\ \A k, m \in 1..Len(L) : k < m => ItemLess(Sorted(L)[k], Sorted(L)[m])
<1> DEFINE S == Range(L)
           n == Len(L)
           Smaller(i) == {j \in S : ItemLess(j, i)}
           rank == [i \in S |-> Cardinality(Smaller(i))]
<1>1. S \subseteq Revisions /\ IsFiniteSet(S) /\ Cardinality(S) = n /\ n \in Nat
  <2>1. L \in [1..n -> Revisions] /\ n \in Nat
    OBVIOUS
  <2>2. S \subseteq Revisions
    BY <2>1 DEF Range
  <2> QED BY <2>1, <2>2, RangeSize
<1>2. ASSUME NEW i \in S PROVE IsFiniteSet(Smaller(i)) /\ rank[i] \in 0..(n - 1)
  <2>1. Smaller(i) \subseteq S \ {i}
    BY <1>1, ItemLessIsOrder
  <2>2. IsFiniteSet(S \ {i}) /\ Cardinality(S \ {i}) = n - 1
    BY <1>1, FS_RemoveElement
  <2>3. /\ IsFiniteSet(Smaller(i)) /\ Cardinality(Smaller(i)) <= n - 1
        /\ Cardinality(Smaller(i)) \in Nat
    BY <2>1, <2>2, FS_Subset, FS_CardinalityType
  <2> QED BY <1>1, <2>3
<1>3. ASSUME NEW i \in S, NEW j \in S, ItemLess(j, i) PROVE rank[j] < rank[i]
  <2>1. Smaller(j) \subseteq Smaller(i) /\ j \in Smaller(i) /\ j \notin Smaller(j)
    BY <1>1, <1>3, ItemLessIsOrder
  <2>2. Smaller(j) # Smaller(i) /\ Smaller(j) \in SUBSET Smaller(i)
    BY <2>1
  <2>3. IsFiniteSet(Smaller(i)) /\ IsFiniteSet(Smaller(j))
    BY <1>2
  <2>4. Cardinality(Smaller(j)) <= Cardinality(Smaller(i))
        /\ Cardinality(Smaller(j)) # Cardinality(Smaller(i))
    BY <2>2, <2>3, FS_Subset
  <2>5. rank[i] \in 0..(n - 1) /\ rank[j] \in 0..(n - 1)
    BY <1>2
  <2> QED BY <1>1, <2>4, <2>5
<1>4. \A i, j \in S : i # j => rank[i] # rank[j]
  <2> TAKE i, j \in S
  <2> SUFFICES ASSUME i # j PROVE rank[i] # rank[j]
    OBVIOUS
  <2>1. ItemLess(i, j) \/ ItemLess(j, i)
    BY <1>1, ItemLessIsOrder
  <2>2. rank[i] \in 0..(n - 1) /\ rank[j] \in 0..(n - 1)
    BY <1>2
  <2> HIDE DEF rank
  <2> QED BY <1>1, <1>3, <2>1, <2>2
<1>5. rank \in Surjection(S, 0..(n - 1))
  <2>1. rank \in [S -> 0..(n - 1)]
    BY <1>2
  <2> HIDE DEF rank
  <2>2. rank \in Injection(S, 0..(n - 1))
    BY <1>4, <2>1 DEF Injection, IsInjective
  <2>3. IsFiniteSet(0..(n - 1)) /\ Cardinality(0..(n - 1)) = n
    <3>1. PICK m \in Nat : m = n
      BY <1>1
    <3>2. 0 \in Int /\ m - 1 \in Int /\ (m - 1) - 0 + 1 = m /\ (0 > m - 1 => m = 0)
      OBVIOUS
    <3>3. IsFiniteSet(0..(m - 1)) /\ Cardinality(0..(m - 1)) = m
      BY <3>2, FS_Interval
    <3> QED BY <3>1, <3>3
  <2> QED BY <1>1, <2>2, <2>3, FS_Injection
<1>6. \A k \in 1..n : \E i \in S : rank[i] = k - 1
  <2> TAKE k \in 1..n
  <2>1. k - 1 \in 0..(n - 1)
    BY <1>1
  <2> HIDE DEF rank
  <2> QED BY <1>5, <2>1 DEF Surjection
<1>7. Sorted(L) = [k \in 1..n |-> CHOOSE i \in S : Cardinality(Smaller(i)) = k - 1]
  BY DEF Sorted
<1> PICK s : s = Sorted(L)
  OBVIOUS
<1>8. DOMAIN s = 1..n /\ \A k \in 1..n : s[k] \in S /\ rank[s[k]] = k - 1
  <2>1. DOMAIN s = 1..n
    BY <1>7
  <2> SUFFICES ASSUME NEW k \in 1..n PROVE s[k] \in S /\ rank[s[k]] = k - 1
    BY <2>1
  <2>2. s[k] = CHOOSE i \in S : Cardinality(Smaller(i)) = k - 1
    BY <1>7
  <2>3. \E i \in S : Cardinality(Smaller(i)) = k - 1
    BY <1>6
  <2> QED BY <2>2, <2>3
<1>9. \A i \in S : \E k \in 1..n : s[k] = i
  <2> TAKE i \in S
  <2>1. rank[i] \in 0..(n - 1)
    BY <1>2
  <2>2. rank[i] + 1 \in 1..n
    BY <1>1, <2>1
  <2> HIDE DEF rank
  <2>3. rank[s[rank[i] + 1]] = rank[i] /\ s[rank[i] + 1] \in S
    BY <1>8, <2>1, <2>2
  <2>4. s[rank[i] + 1] = i
    BY <1>4, <2>3
  <2> QED BY <2>2, <2>4
<1> HIDE DEF rank, Smaller
<1>10. s \in Seq(Revisions) /\ Len(s) = n
  <2>1. s = [k \in 1..n |-> s[k]]
    BY <1>7, <1>8
  <2>2. \A k \in 1..n : s[k] \in Revisions
    BY <1>1, <1>8
  <2>3. s \in [1..n -> Revisions]
    BY <2>1, <2>2
  <2> QED BY <1>1, <2>3
<1>11. Range(s) = S
  BY <1>8, <1>9 DEF Range
<1>12. \A k, m \in 1..n : k < m => ItemLess(s[k], s[m])
  <2> SUFFICES ASSUME NEW k \in 1..n, NEW m \in 1..n, k < m
               PROVE  ItemLess(s[k], s[m])
    OBVIOUS
  <2>1. /\ s[k] \in S /\ s[m] \in S /\ rank[s[k]] = k - 1 /\ rank[s[m]] = m - 1
    BY <1>8
  <2>2. s[k] # s[m] /\ ~ (m - 1 < k - 1)
    BY <2>1
  <2>3. ~ ItemLess(s[m], s[k])
    BY <1>3, <2>1, <2>2
  <2> QED BY <1>1, <2>1, <2>2, <2>3, ItemLessIsOrder
<1>13. IsInjective(s)
  BY <1>8 DEF IsInjective
<1> QED BY <1>10, <1>11, <1>12, <1>13

-----------------------------------------------------------------------------
(* Counting dependencies.                                                  *)

\* A nonempty set of numbers has a least one.
LEMMA LeastNumber ==
  ASSUME NEW T \in SUBSET Nat, T # {}
  PROVE  \E x \in T : \A y \in T : x <= y
<1> DEFINE R == {p \in Nat \X Nat : p[1] < p[2]}
<1>1. IsWellFoundedOn(R, Nat)
  BY NatLessThanWellFounded DEF OpToRel
<1>2. \A x, y \in Nat : <<x, y>> \in R <=> x < y
  OBVIOUS
<1> HIDE DEF R
<1>3. PICK x \in T : \A y \in T : ~ (<<y, x>> \in R)
  BY <1>1, WFMin, Zenon
<1>4. ASSUME NEW y \in T PROVE x <= y
  <2>1. x \in Nat /\ y \in Nat /\ ~ (<<y, x>> \in R)
    BY <1>3
  <2> QED BY <1>2, <2>1
<1> QED BY <1>4

\* f adds up the first n members of c.
AddsUp(f, c, n) == f[0] = 0 /\ \A k \in 1..n : f[k] = f[k - 1] + c[k]

\* A sum is determined by its recursive equation.
LEMMA SumUnique ==
  ASSUME NEW n \in Nat, NEW c, NEW f, NEW g, AddsUp(f, c, n), AddsUp(g, c, n)
  PROVE  \A k \in 0..n : f[k] = g[k]
<1> DEFINE Bad == {k \in 0..n : f[k] # g[k]}
<1> SUFFICES ASSUME Bad # {} PROVE FALSE
  OBVIOUS
<1>1. PICK k \in Bad : \A m \in Bad : k <= m
  <2>1. Bad \in SUBSET Nat
    OBVIOUS
  <2> HIDE DEF Bad
  <2> QED BY <2>1, LeastNumber
<1>2. k \in 1..n /\ k - 1 \in 0..n
  BY <1>1 DEF AddsUp
<1>3. f[k - 1] = g[k - 1]
  BY <1>1, <1>2
<1> QED BY <1>1, <1>2, <1>3 DEF AddsUp

\* The members of D that v puts at a number, and those up to it.
At(D, v, k)   == {d \in D : v[d] = k}
UpTo(D, v, k) == {d \in D : v[d] <= k}

\* The members of a finite set up to a number, counted step by step.
LEMMA CountUpTo ==
  ASSUME NEW D, IsFiniteSet(D), NEW n \in Nat, NEW v \in [D -> 1..n], NEW k \in 1..n
  PROVE  /\ Cardinality(UpTo(D, v, k)) \in Nat
         /\ Cardinality(UpTo(D, v, k - 1)) \in Nat
         /\ Cardinality(At(D, v, k)) \in Nat
         /\ Cardinality(UpTo(D, v, k)) =
              Cardinality(UpTo(D, v, k - 1)) + Cardinality(At(D, v, k))
<1>1. /\ UpTo(D, v, k) \in SUBSET D /\ UpTo(D, v, k - 1) \in SUBSET D
      /\ At(D, v, k) \in SUBSET D
  BY DEF UpTo, At
<1>2. /\ UpTo(D, v, k) = UpTo(D, v, k - 1) \cup At(D, v, k)
      /\ UpTo(D, v, k - 1) \cap At(D, v, k) = {}
  BY DEF UpTo, At
<1>3. /\ IsFiniteSet(UpTo(D, v, k)) /\ IsFiniteSet(UpTo(D, v, k - 1))
      /\ IsFiniteSet(At(D, v, k))
  BY <1>1, FS_Subset
<1>4. /\ Cardinality(UpTo(D, v, k)) \in Nat /\ Cardinality(UpTo(D, v, k - 1)) \in Nat
      /\ Cardinality(At(D, v, k)) \in Nat
  BY <1>3, FS_CardinalityType
<1>5. ASSUME NEW A, NEW B, IsFiniteSet(A), IsFiniteSet(B), A \cap B = {},
             Cardinality(A) \in Nat, Cardinality(B) \in Nat
      PROVE  Cardinality(A \cup B) = Cardinality(A) + Cardinality(B)
  <2>1. Cardinality(A \cup B) = Cardinality(A) + Cardinality(B) - Cardinality(A \cap B)
    BY <1>5, FS_Union
  <2>2. Cardinality(A \cap B) = 0
    BY <1>5, FS_EmptySet
  <2> QED BY <1>5, <2>1, <2>2
<1> QED BY <1>2, <1>3, <1>4, <1>5

\* break_internal_dependencies() counts the dependencies that a break cuts.
LEMMA BreaksExact ==
  ASSUME NEW s \in Seq(Revisions), IsInjective(s)
  PROVE  \A k \in 0..Len(s) : Breaks(s)[k] = Cardinality(Cut(s, k))
<1> DEFINE n == Len(s)
           D == Dependencies(s)
           index(i) == CHOOSE k \in DOMAIN s : s[k] = i
           first(d) == Lesser(index(d[1]), index(d[2]))
           last(d) == Greater(index(d[1]), index(d[2]))
           Starts(k) == {d \in D : first(d) = k}
           Stops(k) == {d \in D : last(d) = k}
           change(k) == Cardinality(Starts(k)) - Cardinality(Stops(k))
           Rec(f) == [k \in 0..n |-> IF k = 0 THEN 0 ELSE f[k - 1] + change(k)]
           b == Breaks(s)
           v == [d \in D |-> first(d)]
           w == [d \in D |-> last(d)]
           Begun(k) == UpTo(D, v, k)
           Ended(k) == UpTo(D, w, k)
           g == [k \in 0..n |-> Cardinality(Begun(k)) - Cardinality(Ended(k))]
           part(k) == FirstItems(s, k)
<1>1. s \in [1..n -> Revisions] /\ n \in Nat /\ DOMAIN s = 1..n
  OBVIOUS
<1>2. IsFiniteSet(D)
  <2>1. IsFiniteSet(Range(s))
    BY RangeSize
  <2>2. IsFiniteSet(Range(s) \X Range(s))
    BY <2>1, FS_Product
  <2> QED BY <2>2, FS_Subset DEF Dependencies
<1>3. \A i \in Range(s) : index(i) \in 1..n /\ s[index(i)] = i
  BY <1>1 DEF Range
<1>3a. \A m \in 1..n : index(s[m]) = m
  <2> TAKE m \in 1..n
  <2>1. s[m] \in Range(s)
    BY <1>1 DEF Range
  <2> QED BY <1>1, <1>3, <2>1 DEF IsInjective
<1>4. \A d \in D : /\ d[1] \in Range(s) /\ d[2] \in Range(s)
                   /\ d[2] \in GetSuccIds(d[1])
                   /\ index(d[1]) # index(d[2])
  <2> TAKE d \in D
  <2>1. d[1] \in Range(s) /\ d[2] \in Range(s) /\ d[2] \in GetSuccIds(d[1])
    BY DEF Dependencies
  <2>2. d[1] \in Revisions
    BY <1>1, <2>1 DEF Range
  <2>3. d[1] # d[2]
    BY <2>1, <2>2, RevisionLinked
  <2> HIDE DEF index
  <2> QED BY <1>3, <2>1, <2>3
<1> HIDE DEF index, D
<1>5. \A d \in D : first(d) \in 1..n /\ last(d) \in 1..n /\ first(d) < last(d)
  <2> TAKE d \in D
  <2>1. index(d[1]) \in 1..n /\ index(d[2]) \in 1..n /\ index(d[1]) # index(d[2])
    BY <1>3, <1>4
  <2> QED BY <1>1, <2>1 DEF Lesser, Greater
<1> HIDE DEF first, last
<1>6. \A k \in 1..n : /\ Cardinality(Starts(k)) \in Nat
                      /\ Cardinality(Stops(k)) \in Nat
                      /\ Cardinality(Begun(k)) \in Nat /\ Cardinality(Ended(k)) \in Nat
                      /\ Cardinality(Begun(k - 1)) \in Nat
                      /\ Cardinality(Ended(k - 1)) \in Nat
                      /\ Cardinality(Begun(k)) =
                           Cardinality(Begun(k - 1)) + Cardinality(Starts(k))
                      /\ Cardinality(Ended(k)) =
                           Cardinality(Ended(k - 1)) + Cardinality(Stops(k))
  <2> TAKE k \in 1..n
  <2>1. v \in [D -> 1..n] /\ w \in [D -> 1..n]
    BY <1>5
  <2>2. Starts(k) = At(D, v, k) /\ Stops(k) = At(D, w, k)
    BY DEF At
  <2> HIDE DEF v, w, Starts, Stops, n
  <2>3. /\ Cardinality(UpTo(D, v, k)) \in Nat /\ Cardinality(UpTo(D, v, k - 1)) \in Nat
        /\ Cardinality(At(D, v, k)) \in Nat
        /\ Cardinality(UpTo(D, v, k)) =
             Cardinality(UpTo(D, v, k - 1)) + Cardinality(At(D, v, k))
    BY <1>1, <1>2, <2>1, CountUpTo, Zenon
  <2>4. /\ Cardinality(UpTo(D, w, k)) \in Nat /\ Cardinality(UpTo(D, w, k - 1)) \in Nat
        /\ Cardinality(At(D, w, k)) \in Nat
        /\ Cardinality(UpTo(D, w, k)) =
             Cardinality(UpTo(D, w, k - 1)) + Cardinality(At(D, w, k))
    BY <1>1, <1>2, <2>1, CountUpTo, Zenon
  <2> QED BY <2>2, <2>3, <2>4
<1>7. Begun(0) = {} /\ Ended(0) = {}
  BY <1>5 DEF UpTo
<1> DEFINE c == [k \in 1..n |-> change(k)]
<1> HIDE DEF Starts, Stops
<1>8. \A k \in 1..n : c[k] \in Int
  <2> TAKE k \in 1..n
  <2>1. c[k] = Cardinality(Starts(k)) - Cardinality(Stops(k))
    BY DEF change
  <2> HIDE DEF c, n, Begun, Ended
  <2> QED BY <1>6, <2>1
<1>9. /\ g \in [0..n -> Int] /\ g[0] = 0 /\ \A k \in 1..n : g[k] = g[k - 1] + c[k]
  <2>0. Cardinality(Begun(0)) = 0 /\ Cardinality(Ended(0)) = 0
    BY <1>7, FS_EmptySet, Zenon
  <2> HIDE DEF Begun, Ended
  <2>1. g[0] = 0
    BY <1>1, <2>0
  <2>2. \A k \in 0..n : g[k] \in Int
    <3> TAKE k \in 0..n
    <3>1. g[k] = Cardinality(Begun(k)) - Cardinality(Ended(k))
      OBVIOUS
    <3>2. CASE k = 0
      BY <2>1, <3>2
    <3>3. CASE k \in 1..n
      BY <1>6, <3>1, <3>3
    <3> QED BY <1>1, <3>2, <3>3
  <2>3. \A k \in 1..n : g[k] = g[k - 1] + c[k]
    <3> TAKE k \in 1..n
    <3>1. k \in 0..n /\ k - 1 \in 0..n
      BY <1>1
    <3>2. /\ g[k] = Cardinality(Begun(k)) - Cardinality(Ended(k))
          /\ g[k - 1] = Cardinality(Begun(k - 1)) - Cardinality(Ended(k - 1))
          /\ c[k] = Cardinality(Starts(k)) - Cardinality(Stops(k))
      BY <3>1 DEF change
    <3> HIDE DEF g, c
    <3> QED BY <1>6, <3>2
  <2> QED BY <2>1, <2>2, <2>3
<1> HIDE DEF Begun, Ended, change
<1>10. \A k \in 1..n : Rec(g)[k] = g[k - 1] + c[k]
  <2> HIDE DEF g
  <2> QED BY <1>1
<1>11. Rec(g) = g
  <2> SUFFICES \A k \in 0..n : Rec(g)[k] = g[k]
    OBVIOUS
  <2> TAKE k \in 0..n
  <2>1. CASE k = 0
    BY <1>9, <2>1
  <2>2. CASE k \in 1..n
    BY <1>9, <1>10, <2>2
  <2> QED BY <1>1, <2>1, <2>2
<1>12. b = CHOOSE f : f = Rec(f)
  BY DEF Breaks, D, index, first, last, change, Starts, Stops
<1> HIDE DEF b
<1>13. b = Rec(b)
  <2>1. \E f : f = Rec(f)
    BY <1>11
  <2> HIDE DEF Rec
  <2> QED BY <1>12, <2>1, Zenon
<1>14. DOMAIN b = 0..n /\ b[0] = 0 /\ \A k \in 1..n : b[k] = b[k - 1] + c[k]
  <2>0. 0 \in 0..n /\ 1..n \subseteq 0..n /\ 0 \notin 1..n
    BY <1>1
  <2>1. DOMAIN b = 0..n
    BY <1>13
  <2>2. \A k \in 0..n : b[k] = IF k = 0 THEN 0 ELSE b[k - 1] + change(k)
    BY <1>13
  <2> QED BY <2>0, <2>1, <2>2
<1>15. \A k \in 0..n : b[k] = g[k]
  <2>1. AddsUp(b, c, n) /\ AddsUp(g, c, n)
    <3> HIDE DEF g, c, n
    <3> QED BY <1>9, <1>14 DEF AddsUp
  <2> HIDE DEF g, c, n
  <2> QED BY <1>1, <2>1, SumUnique
<1>16. ASSUME NEW k \in 0..n PROVE g[k] = Cardinality(Cut(s, k))
  <2>1. \A i \in Range(s) : i \in part(k) <=> index(i) <= k
    <3>1. 1..k \subseteq 1..n /\ \A m \in 1..n : m <= k => m \in 1..k
      BY <1>1
    <3> QED BY <1>3, <1>3a, <3>1 DEF FirstItems
  <2>2. Cut(s, k) = {d \in D : (d[1] \in part(k)) # (d[2] \in part(k))}
    BY DEF Cut, D
  <2>3. \A d \in D : ((d[1] \in part(k)) # (d[2] \in part(k)))
                       <=> first(d) <= k /\ ~ (last(d) <= k)
    <3> TAKE d \in D
    <3>1. /\ d[1] \in part(k) <=> index(d[1]) <= k
          /\ d[2] \in part(k) <=> index(d[2]) <= k
      BY <1>4, <2>1
    <3>2. index(d[1]) \in 1..n /\ index(d[2]) \in 1..n
      BY <1>3, <1>4
    <3>3. /\ first(d) <= k <=> index(d[1]) <= k \/ index(d[2]) <= k
          /\ last(d) <= k <=> index(d[1]) <= k /\ index(d[2]) <= k
      BY <1>1, <3>2 DEF first, last, Lesser, Greater
    <3> HIDE DEF part
    <3> QED BY <3>1, <3>3
  <2>4. Cut(s, k) = Begun(k) \ Ended(k)
    <3> HIDE DEF part
    <3> QED BY <2>2, <2>3 DEF Begun, Ended, UpTo
  <2>5. Begun(k) \cap Ended(k) = Ended(k)
    <3>1. \A d \in D : last(d) <= k => first(d) <= k
      BY <1>1, <1>5
    <3> QED BY <3>1 DEF Begun, Ended, UpTo
  <2>6. IsFiniteSet(Begun(k))
    <3>1. Begun(k) \in SUBSET D
      BY DEF Begun, UpTo
    <3> QED BY <1>2, <3>1, FS_Subset
  <2> QED BY <2>4, <2>5, <2>6, FS_Difference
<1> QED BY <1>15, <1>16 DEF b

\* A cut is part of finitely many dependencies.
LEMMA CutFinite ==
  ASSUME NEW s \in Seq(Revisions), IsInjective(s), NEW k
  PROVE  IsFiniteSet(Cut(s, k)) /\ Cardinality(Cut(s, k)) \in Nat
<1>1. IsFiniteSet(Range(s))
  BY RangeSize
<1>2. IsFiniteSet(Range(s) \X Range(s))
  BY <1>1, FS_Product
<1>3. Cut(s, k) \in SUBSET (Range(s) \X Range(s))
  BY DEF Cut, Dependencies
<1>4. IsFiniteSet(Cut(s, k))
  BY <1>2, <1>3, FS_Subset
<1> QED BY <1>4, FS_CardinalityType

\* A list that depends on itself is cut where that breaks some dependency.
LEMMA BestBreakCuts ==
  ASSUME NEW s \in Seq(Revisions), IsInjective(s), Dependencies(s) # {},
         NEW k \in 1..(Len(s) - 1), IsBestBreak(s, k)
  PROVE  Cut(s, k) # {}
<1> PICK n \in Nat : n = Len(s)
  OBVIOUS
<1>1. DOMAIN s = 1..n
  OBVIOUS
<1>2. PICK d \in Dependencies(s) : TRUE
  OBVIOUS
<1>3. d[1] \in Range(s) /\ d[2] \in Range(s) /\ d[2] \in GetSuccIds(d[1])
  BY DEF Dependencies
<1>4. PICK p \in 1..n, q \in 1..n : s[p] = d[1] /\ s[q] = d[2]
  BY <1>1, <1>3 DEF Range
<1>5. p # q
  <2>1. d[1] \in Revisions
    BY <1>1, <1>4
  <2> QED BY <1>3, <1>4, <2>1, RevisionLinked
<1> PICK m \in 1..(n - 1) : (p <= m) # (q <= m)
  <2>1. CASE p < q
    BY <2>1
  <2>2. CASE q < p
    BY <2>2
  <2> QED BY <1>5, <2>1, <2>2
<1>6. d \in Cut(s, m)
  <2> DEFINE part == FirstItems(s, m)
  <2>1. \A x \in 1..n : s[x] \in part <=> x <= m
    BY <1>1 DEF IsInjective, FirstItems
  <2> HIDE DEF part
  <2>2. (d[1] \in part) # (d[2] \in part)
    BY <1>4, <2>1
  <2> QED BY <2>2 DEF Cut, part
<1>7. Cardinality(Cut(s, m)) # 0
  BY <1>6, CutFinite, FS_EmptySet
<1>8. Breaks(s)[m] = Cardinality(Cut(s, m)) /\ Breaks(s)[k] = Cardinality(Cut(s, k))
  BY BreaksExact
<1>9. ~ (Breaks(s)[m] > Breaks(s)[k])
  BY DEF IsBestBreak
<1>10. Cardinality(Cut(s, m)) \in Nat /\ Cardinality(Cut(s, k)) \in Nat
  BY CutFinite
<1>11. Cardinality(Cut(s, k)) # 0
  BY <1>7, <1>8, <1>9, <1>10
<1> QED BY <1>11, FS_EmptySet

\* The two parts of a list after a cut.
Later(L, k)   == SubSeq(Sorted(L), k + 1, Len(Sorted(L)))
Earlier(L, k) == SubSeq(Sorted(L), 1, k)

\* What there is to know of them.
IsSplit(L, k, A, B) ==
  /\ A \in Seq(Revisions) /\ IsInjective(A) /\ A # <<>>
  /\ B \in Seq(Revisions) /\ IsInjective(B) /\ B # <<>>
  /\ Range(A) \cap Range(B) = {} /\ Range(A) \cup Range(B) = Range(L)
  /\ Range(B) = FirstItems(Sorted(L), k)
  /\ Gapless(Range(L)) => Gapless(Range(A)) /\ Gapless(Range(B))

\* They share its revisions, and neither has longer gaps than the list.
LEMMA SplitExact ==
  ASSUME ConstantsOK, NEW L \in Seq(Revisions), IsInjective(L), NEW k \in 1..(Len(L) - 1)
  PROVE  IsSplit(L, k, Later(L, k), Earlier(L, k))
<1> PICK A, B : A = Later(L, k) /\ B = Earlier(L, k)
  OBVIOUS
<1> PICK n \in Nat : n = Len(L)
  OBVIOUS
<1>0. PICK s \in Seq(Revisions) :
      /\ s = Sorted(L) /\ Len(s) = n
      /\ Range(s) = Range(L) /\ IsInjective(s)
      /\ \A x, y \in 1..n : x < y => ItemLess(s[x], s[y])
  BY SortedExact
<1>1. /\ k \in 1..(n - 1) /\ k \in Nat /\ k + 1 \in 1..n /\ n - k \in Nat
      /\ DOMAIN s = 1..n /\ s \in [1..n -> Revisions] /\ s \in Seq(Revisions)
      /\ Len(s) = n /\ s = Sorted(L)
  BY <1>0
<1> PICK c \in Nat : c = n - k
  BY <1>1
<1>2. /\ A \in [1..c -> Revisions] /\ \A x \in 1..c : A[x] = s[k + x]
      /\ B \in [1..k -> Revisions] /\ \A x \in 1..k : B[x] = s[x]
      /\ A \in Seq(Revisions) /\ B \in Seq(Revisions) /\ Len(A) = c /\ Len(B) = k
  <2>1. A = SubSeq(s, k + 1, n) /\ B = SubSeq(s, 1, k)
    BY <1>1 DEF Later, Earlier
  <2>2. A \in Seq(Revisions) /\ B \in Seq(Revisions)
    BY <1>1, <2>1
  <2>3. Len(A) = c /\ Len(B) = k
    BY <1>1, <2>1
  <2>4. \A x \in 1..c : A[x] = s[k + x]
    BY <1>1, <2>1, <2>3
  <2>5. \A x \in 1..k : B[x] = s[x]
    BY <1>1, <2>1, <2>3
  <2>6. A \in [1..Len(A) -> Revisions] /\ B \in [1..Len(B) -> Revisions]
    <3>1. ASSUME NEW q \in Seq(Revisions) PROVE q \in [1..Len(q) -> Revisions]
      OBVIOUS
    <3> QED BY <2>2, <3>1
  <2> QED BY <2>2, <2>3, <2>4, <2>5, <2>6
<1>3. DOMAIN A = 1..c /\ DOMAIN B = 1..k
  BY <1>2
<1>4. A # <<>> /\ B # <<>>
  <2>1. c # 0 /\ k # 0
    BY <1>1
  <2>2. Len(<<>>) = 0
    OBVIOUS
  <2> QED BY <1>2, <2>1, <2>2
<1>5. IsInjective(A) /\ IsInjective(B)
  BY <1>0, <1>1, <1>2, <1>3 DEF IsInjective
<1>6. \A i : i \in Range(A) <=> \E x \in (k + 1)..n : i = s[x]
  <2>1. \A x \in (k + 1)..n : x - k \in 1..c /\ k + (x - k) = x
    BY <1>1
  <2>2. \A x \in 1..c : k + x \in (k + 1)..n
    BY <1>1
  <2>3. \A i : i \in Range(A) <=> \E x \in 1..c : i = A[x]
    BY <1>3 DEF Range
  <2>4. ASSUME NEW x \in (k + 1)..n PROVE s[x] \in Range(A)
    <3>1. A[x - k] = s[x] /\ x - k \in 1..c
      BY <1>2, <2>1
    <3> QED BY <2>3, <3>1
  <2>5. ASSUME NEW i \in Range(A) PROVE \E x \in (k + 1)..n : i = s[x]
    <3>1. PICK x \in 1..c : i = A[x]
      BY <2>3
    <3>2. i = s[k + x] /\ k + x \in (k + 1)..n
      BY <1>2, <2>2, <3>1
    <3> QED BY <3>2
  <2> QED BY <2>4, <2>5
<1>7. \A i : i \in Range(B) <=> \E x \in 1..k : i = s[x]
  BY <1>2, <1>3 DEF Range
<1>8. \A i : i \in Range(L) <=> \E x \in 1..n : i = s[x]
  BY <1>0, <1>1 DEF Range
<1>9. Range(A) \cap Range(B) = {}
  <2> SUFFICES ASSUME NEW i \in Range(A), i \in Range(B) PROVE FALSE
    OBVIOUS
  <2>1. PICK x \in (k + 1)..n, y \in 1..k : s[x] = s[y]
    BY <1>6, <1>7
  <2> QED BY <1>0, <1>1, <2>1 DEF IsInjective
<1>10. Range(A) \cup Range(B) = Range(L)
  <2>1. \A x : x \in 1..n <=> x \in 1..k \/ x \in (k + 1)..n
    BY <1>1
  <2> QED BY <1>6, <1>7, <1>8, <2>1
<1>11. Range(B) = FirstItems(Sorted(L), k)
  BY <1>1, <1>7 DEF FirstItems
<1>12. \A i \in Range(A), j \in Range(B) : cvs_item[j].timestamp <= cvs_item[i].timestamp
  <2> TAKE i \in Range(A), j \in Range(B)
  <2>1. PICK x \in (k + 1)..n, y \in 1..k : i = s[x] /\ j = s[y]
    BY <1>6, <1>7
  <2>2. ItemLess(j, i) /\ i \in Revisions /\ j \in Revisions
    <3>1. x \in 1..n /\ y \in 1..n /\ y < x
      BY <1>1
    <3> QED BY <1>0, <1>1, <2>1, <3>1
  <2> PICK ti \in Nat, tj \in Nat : ti = cvs_item[i].timestamp /\ tj = cvs_item[j].timestamp
    BY <2>2, TimestampType
  <2> QED BY <2>2 DEF ItemLess
<1>13. /\ Range(A) \subseteq Revisions /\ Range(B) \subseteq Revisions
  BY <1>2 DEF Range
<1>14. ASSUME Gapless(Range(L)) PROVE Gapless(Range(A)) /\ Gapless(Range(B))
  <2> PICK R, P, Q : R = Range(L) /\ P = Range(A) /\ Q = Range(B)
    OBVIOUS
  <2> PICK t \in [Revisions -> Nat] : \A i \in Revisions : t[i] = cvs_item[i].timestamp
    <3>1. [i \in Revisions |-> cvs_item[i].timestamp] \in [Revisions -> Nat]
      BY TimestampType
    <3> QED BY <3>1
  <2> PICK T \in Nat : T = COMMIT_THRESHOLD
    BY DEF ConstantsOK
  <2>1. /\ P \subseteq Revisions /\ Q \subseteq Revisions /\ R = P \cup Q
        /\ \A i \in P, j \in Q : t[j] <= t[i]
    BY <1>10, <1>12, <1>13
  <2>2. \A i, j \in R : t[j] > t[i] => \E x \in R : t[x] > t[i] /\ t[x] <= t[i] + T
    BY <1>14, <2>1 DEF Gapless
  <2>3. \A i, j \in P : t[j] > t[i] => \E x \in P : t[x] > t[i] /\ t[x] <= t[i] + T
    <3> SUFFICES ASSUME NEW i \in P, NEW j \in P, t[j] > t[i]
                 PROVE  \E x \in P : t[x] > t[i] /\ t[x] <= t[i] + T
      OBVIOUS
    <3>1. PICK x \in R : t[x] > t[i] /\ t[x] <= t[i] + T
      BY <2>1, <2>2
    <3>2. x \notin Q
      <4>1. x \in Q => t[x] <= t[i] /\ t[x] \in Nat /\ t[i] \in Nat
        BY <2>1
      <4> QED BY <3>1, <4>1
    <3> QED BY <2>1, <3>1, <3>2
  <2>4. \A i, j \in Q : t[j] > t[i] => \E x \in Q : t[x] > t[i] /\ t[x] <= t[i] + T
    <3> SUFFICES ASSUME NEW i \in Q, NEW j \in Q, t[j] > t[i]
                 PROVE  \E x \in Q : t[x] > t[i] /\ t[x] <= t[i] + T
      OBVIOUS
    <3>1. PICK x \in R : t[x] > t[i] /\ t[x] <= t[i] + T
      BY <2>1, <2>2
    <3>2. CASE x \in Q
      BY <3>1, <3>2
    <3>3. CASE x \in P
      <4>1. t[j] <= t[x] /\ t[j] \in Nat /\ t[x] \in Nat /\ t[i] \in Nat
        BY <2>1, <3>3
      <4>2. t[j] <= t[i] + T
        BY <3>1, <4>1
      <4> QED BY <4>2
    <3> QED BY <2>1, <3>1, <3>2, <3>3
  <2> QED BY <2>1, <2>3, <2>4 DEF Gapless
<1> QED BY <1>2, <1>4, <1>5, <1>9, <1>10, <1>11, <1>14 DEF IsSplit

-----------------------------------------------------------------------------
(* The stack and the group.                                                *)

\* The last list on the stack, and the others.
LEMMA PopExact ==
  ASSUME NEW X, NEW K \in Seq(X), K # <<>>, NEW n, n = Len(K)
  PROVE  /\ n \in Nat \ {0} /\ DOMAIN K = 1..n /\ Last(K) = K[n] /\ Last(K) \in X
         /\ Front(K) \in Seq(X) /\ DOMAIN Front(K) = 1..(n - 1) /\ Len(Front(K)) = n - 1
         /\ \A k \in 1..(n - 1) : k \in 1..n /\ Front(K)[k] = K[k]
<1>1. n \in Nat \ {0} /\ DOMAIN K = 1..n /\ K[n] \in X
  OBVIOUS
<1>2. Front(K) = SubSeq(K, 1, n - 1) /\ Last(K) = K[n]
  BY DEF Front, Last
<1>3. /\ SubSeq(K, 1, n - 1) \in Seq(X) /\ Len(SubSeq(K, 1, n - 1)) = n - 1
      /\ \A k \in 1..(n - 1) : SubSeq(K, 1, n - 1)[k] = K[k]
  BY <1>1
<1> QED BY <1>1, <1>2, <1>3

\* Two lists after some others.
LEMMA TwoMore ==
  ASSUME NEW X, NEW F \in Seq(X), NEW m \in Nat, m = Len(F), NEW A \in X, NEW B \in X
  PROVE  /\ F \o <<A, B>> \in Seq(X) /\ Len(F \o <<A, B>>) = m + 2
         /\ \A k \in 1..m : (F \o <<A, B>>)[k] = F[k]
         /\ (F \o <<A, B>>)[m + 1] = A /\ (F \o <<A, B>>)[m + 2] = B
<1>1. <<A, B>> \in Seq(X) /\ Len(<<A, B>>) = 2 /\ <<A, B>>[1] = A /\ <<A, B>>[2] = B
  OBVIOUS
<1>2. PICK q \in Seq(X) : q = <<A, B>>
  BY <1>1
<1>3. Len(q) = 2 /\ q[1] = A /\ q[2] = B
  BY <1>1, <1>2
<1>4. /\ F \o q \in Seq(X) /\ Len(F \o q) = Len(F) + Len(q)
      /\ \A k \in 1..(Len(F) + Len(q)) :
           (F \o q)[k] = IF k <= Len(F) THEN F[k] ELSE q[k - Len(F)]
  BY ConcatProperties
<1> PICK P : P = F \o q
  OBVIOUS
<1>5. /\ P \in Seq(X) /\ Len(P) = m + 2
      /\ \A k \in 1..(m + 2) : P[k] = IF k <= m THEN F[k] ELSE q[k - m]
  BY <1>3, <1>4
<1>6. /\ P[m + 1] = q[1] /\ P[m + 2] = q[2]
      /\ \A k \in 1..m : P[k] = F[k]
  <2>1. m + 1 \in 1..(m + 2) /\ m + 2 \in 1..(m + 2) /\ \A k \in 1..m : k \in 1..(m + 2)
    OBVIOUS
  <2>2. (m + 1) - m = 1 /\ (m + 2) - m = 2 /\ ~ (m + 1 <= m) /\ ~ (m + 2 <= m)
    OBVIOUS
  <2> QED BY <1>5, <2>1, <2>2
<1> QED BY <1>2, <1>3, <1>5, <1>6

\* The stack P has A and B in the place of the last list of K.
Pushed(K, A, B) == Front(K) \o <<A, B>>

IsPushed(X, K, A, B, P) ==
  /\ P \in Seq(X) /\ Len(P) = Len(K) + 1 /\ DOMAIN P = 1..(Len(K) + 1)
  /\ \A k \in 1..(Len(K) - 1) : P[k] = K[k]
  /\ P[Len(K)] = A /\ P[Len(K) + 1] = B

\* Two lists in the place of the last one.
LEMMA PushExact ==
  ASSUME NEW X, NEW K \in Seq(X), K # <<>>, NEW A \in X, NEW B \in X
  PROVE  IsPushed(X, K, A, B, Pushed(K, A, B))
<1>0. PICK n : n = Len(K)
  OBVIOUS
<1>1. Front(K) \in Seq(X) /\ Len(Front(K)) = n - 1 /\ n \in Nat \ {0}
  BY <1>0, PopExact
<1>2. \A k \in 1..(n - 1) : Front(K)[k] = K[k]
  BY SMTT(60), <1>0, PopExact
<1>3. PICK F \in Seq(X) : F = Front(K)
  BY <1>1
<1>4. PICK m \in Nat : m = n - 1 /\ n = m + 1
  BY <1>1
<1>5. Len(F) = m
  BY <1>1, <1>3, <1>4
<1>6. /\ F \o <<A, B>> \in Seq(X) /\ Len(F \o <<A, B>>) = m + 2
      /\ \A k \in 1..m : (F \o <<A, B>>)[k] = F[k]
      /\ (F \o <<A, B>>)[m + 1] = A /\ (F \o <<A, B>>)[m + 2] = B
  BY <1>5, TwoMore
<1> PICK P : P = Pushed(K, A, B)
  OBVIOUS
<1>7. P = F \o <<A, B>>
  BY <1>3 DEF Pushed
<1>8. /\ P \in Seq(X) /\ Len(P) = m + 2 /\ P[m + 1] = A /\ P[m + 2] = B
      /\ \A k \in 1..m : P[k] = F[k]
  BY <1>6, <1>7
<1>9. DOMAIN P = 1..(n + 1)
  BY <1>4, <1>8
<1>10. \A k \in 1..(n - 1) : P[k] = K[k]
  BY <1>2, <1>3, <1>4, <1>8
<1> QED BY <1>0, <1>4, <1>8, <1>9, <1>10 DEF IsPushed

\* One more revision in the group.
LEMMA AppendExact ==
  ASSUME NEW G \in Seq(Revisions), IsInjective(G), NEW i \in Revisions, i \notin Range(G)
  PROVE  /\ Append(G, i) \in Seq(Revisions) /\ IsInjective(Append(G, i))
         /\ Range(Append(G, i)) = Range(G) \cup {i}
         /\ Append(G, i) # <<>>
<1> PICK n \in Nat : n = Len(G)
  OBVIOUS
<1> PICK H : H = Append(G, i)
  OBVIOUS
<1>1. /\ H \in Seq(Revisions) /\ Len(H) = n + 1 /\ H[n + 1] = i
      /\ \A k \in 1..n : H[k] = G[k]
  OBVIOUS
<1>2. DOMAIN G = 1..n /\ DOMAIN H = 1..(n + 1)
  BY <1>1
<1>3. \A k \in 1..n : G[k] \in Range(G)
  BY <1>2 DEF Range
<1>4. Range(H) = Range(G) \cup {i}
  BY <1>1, <1>2 DEF Range
<1>5. IsInjective(H)
  <2>1. \A k, m \in 1..n : G[k] = G[m] => k = m
    BY <1>2 DEF IsInjective
  <2> SUFFICES ASSUME NEW k \in 1..(n + 1), NEW m \in 1..(n + 1), H[k] = H[m] PROVE k = m
    BY <1>2 DEF IsInjective
  <2>2. k \in 1..n \/ k = n + 1
    OBVIOUS
  <2>3. m \in 1..n \/ m = n + 1
    OBVIOUS
  <2> QED BY <1>1, <1>3, <2>1, <2>2, <2>3
<1>6. H # <<>>
  <2>1. Len(<<>>) = 0
    OBVIOUS
  <2> QED BY <1>1, <2>1
<1> QED BY <1>1, <1>4, <1>5, <1>6

\* Where the revisions are that were read and not stored.
LEMMA InPending ==
  ASSUME TypeOK
  PROVE  /\ \A i : i \in Pending <=>
              \/ i \in Range(changeset_items)
              \/ \E k \in DOMAIN changesets_to_split : i \in Range(changesets_to_split[k])
         /\ Pending \subseteq Revisions
         /\ Range(changeset_items) \subseteq Revisions
         /\ \A k \in DOMAIN changesets_to_split :
              /\ changesets_to_split[k] \in Seq(Revisions)
              /\ Range(changesets_to_split[k]) \subseteq Revisions
<1>1. ASSUME NEW s \in Seq(Revisions) PROVE Range(s) \subseteq Revisions
  BY DEF Range
<1>2. changeset_items \in Seq(Revisions) /\ changesets_to_split \in Seq(Seq(Revisions))
  BY DEF TypeOK
<1>3. \A k \in DOMAIN changesets_to_split : changesets_to_split[k] \in Seq(Revisions)
  BY <1>2
<1>4. \A i : i \in Pending <=>
        \/ i \in Range(changeset_items)
        \/ \E k \in DOMAIN changesets_to_split : i \in Range(changesets_to_split[k])
  BY DEF Pending, Stacked
<1> QED BY <1>1, <1>2, <1>3, <1>4

\* What is counted is what is cut.
LEMMA CountedRight == ConstantsOK /\ TypeOK /\ ListedOnce => BreaksCounted
<1> SUFFICES ASSUME ConstantsOK, TypeOK, ListedOnce, changesets_to_split # <<>>,
                    NEW s, s = Sorted(Last(changesets_to_split)),
                    NEW k \in 1..(Len(s) - 1)
             PROVE  /\ Breaks(s)[k] = Cardinality(Cut(s, k))
                    /\ Dependencies(s) # {} /\ IsBestBreak(s, k) => Cut(s, k) # {}
  BY DEF BreaksCounted
<1> PICK n : n = Len(changesets_to_split)
  OBVIOUS
<1>0. changesets_to_split \in Seq(Seq(Revisions))
  BY DEF TypeOK
<1>1. n \in DOMAIN changesets_to_split /\ Last(changesets_to_split) = changesets_to_split[n]
  <2>1. n \in Nat \ {0} /\ DOMAIN changesets_to_split = 1..n
    BY <1>0, PopExact
  <2>2. Last(changesets_to_split) = changesets_to_split[n]
    BY DEF Last
  <2> QED BY <2>1, <2>2
<1>2. /\ changesets_to_split[n] \in Seq(Revisions) /\ IsInjective(changesets_to_split[n])
  BY <1>1, InPending DEF ListedOnce
<1>2a. PICK L : L = Last(changesets_to_split)
  OBVIOUS
<1>2b. L \in Seq(Revisions) /\ IsInjective(L) /\ s = Sorted(L)
  BY <1>1, <1>2, <1>2a
<1>3. s \in Seq(Revisions) /\ IsInjective(s)
  BY <1>2b, SortedExact
<1>4. k \in 0..Len(s)
  BY <1>3
<1> QED BY <1>3, <1>4, BreaksExact, BestBreakCuts

\* The same of the next state.
LEMMA CountedNext ==
  ASSUME ConstantsOK, TypeOK', ListedOnce'
  PROVE  BreaksCounted'
<1>1. (ConstantsOK /\ TypeOK /\ ListedOnce => BreaksCounted)'
  BY CountedRight, PTL
<1>2. ConstantsOK'
  BY DEF ConstantsOK
<1> QED BY <1>1, <1>2

-----------------------------------------------------------------------------
(* What a step does to the invariant.                                      *)

\* Timestamps as a function, and the threshold as a number.
LEMMA Times ==
  ASSUME ConstantsOK
  PROVE  \E t \in [Revisions -> Nat] : \A i \in Revisions : t[i] = cvs_item[i].timestamp
<1>1. [i \in Revisions |-> cvs_item[i].timestamp] \in [Revisions -> Nat]
  BY TimestampType
<1> QED BY <1>1

\* What no step of the first two phases but StoreGroup changes.
LEMMA StoredKept ==
  ASSUME IInv, UNCHANGED <<metadata_id, db_vars>>,
         unread_revs' \cup Pending' = unread_revs \cup Pending
  PROVE  DatabasesAgree' /\ StoredInv' /\ OneCommit' /\ CutsNeeded' /\ LastInv'
<1>1. UNCHANGED <<metadata_id, unread_symbols, key_base, changeset_db,
                  cvs_item_to_changeset_id>>
  BY DEF db_vars
<1>2. \A m, a : CutFor(m, a)' <=> CutFor(m, a)
  BY <1>1 DEF CutFor, StoredUpTo, OfMetadata
<1>3. RevisionChangesets' = RevisionChangesets
  BY <1>1 DEF RevisionChangesets
<1>4. \A i, j : Near(i, j)' <=> Near(i, j)
  BY <1>1 DEF Near
<1>5. DatabasesAgree'
  BY <1>1 DEF IInv, DatabasesAgree, HeldBy
<1>6. StoredInv'
  BY <1>1 DEF IInv, StoredInv
<1>7. OneCommit'
  BY <1>1, <1>3 DEF IInv, CutForDependency, OneCommit
<1>8. CutsNeeded'
  BY <1>1, <1>2, <1>3, <1>4 DEF IInv, CutForDependency, CutsNeeded
<1>9. LastInv'
  BY <1>1, <1>2, <1>3, <1>4 DEF IInv, LastInv
<1> QED BY <1>5, <1>6, <1>7, <1>8, <1>9

\* A revision that joins the group is not earlier than the others and near them.
LEMMA ReadRevisionKeeps ==
  ASSUME ConstantsOK, IInv, ReadRevision
  PROVE  IInv'
<1>1. PICK i \in NextInFile :
        /\ IF changeset_items = <<>> THEN TRUE ELSE ~ StartsNew(i)
        /\ changeset_items' = Append(changeset_items, i)
        /\ unread_revs' = unread_revs \ {i}
        /\ old_metadata_id' = metadata_id[i]
        /\ old_timestamp' = cvs_item[i].timestamp
  BY DEF ReadRevision
<1>2. /\ pc = "read"
      /\ UNCHANGED <<metadata_id, pc, changesets_to_split, db_vars>>
  BY DEF ReadRevision
<1>2a. UNCHANGED <<unread_symbols, key_base, changeset_db, cvs_item_to_changeset_id>>
  BY <1>2 DEF db_vars
<1>3. TypeOK /\ ListedOnce /\ PhaseInv /\ GroupInv
  BY DEF IInv
<1> PICK T \in Nat : T = COMMIT_THRESHOLD
  BY DEF ConstantsOK
<1> PICK t \in [Revisions -> Nat] : \A x \in Revisions : t[x] = cvs_item[x].timestamp
  BY Times
<1> PICK md \in [Revisions -> Metadata] : md = metadata_id
  BY <1>3 DEF TypeOK
<1>4. changesets_to_split = <<>> /\ DOMAIN changesets_to_split = {}
  <2>1. changesets_to_split = <<>>
    BY <1>2, <1>3 DEF PhaseInv
  <2> QED BY <2>1
<1>5. i \in unread_revs /\ unread_revs \subseteq Revisions /\ i \in Revisions
  BY <1>3 DEF NextInFile, TypeOK
<1>6. Pending = Range(changeset_items) /\ Pending' = Range(changeset_items')
  BY <1>2, <1>4 DEF Pending, Stacked
<1>7. /\ changeset_items \in Seq(Revisions) /\ IsInjective(changeset_items)
      /\ Range(changeset_items) \subseteq Revisions
      /\ i \notin Range(changeset_items)
  <2>1. unread_revs \cap Pending = {}
    BY <1>3 DEF ListedOnce
  <2> QED BY <1>3, <1>5, <1>6, <2>1, InPending DEF ListedOnce, TypeOK
<1>8. /\ changeset_items' \in Seq(Revisions) /\ IsInjective(changeset_items')
      /\ Range(changeset_items') = Range(changeset_items) \cup {i}
      /\ changeset_items' # <<>>
  BY <1>1, <1>5, <1>7, AppendExact
<1>9. metadata_id[i] \in Metadata /\ metadata_id[i] # None /\ t[i] \in Nat
      /\ old_timestamp' = t[i]
  BY <1>1, <1>5, NoneAssumption DEF ConstantsOK
<1>10. \A j \in unread_revs : md[j] = md[i] => t[i] <= t[j]
  BY <1>5 DEF NextInFile
<1>11. changeset_items # <<>> =>
         /\ old_metadata_id = md[i] /\ old_timestamp \in Nat
         /\ t[i] <= old_timestamp + T /\ old_timestamp <= t[i]
  <2> SUFFICES ASSUME changeset_items # <<>>
               PROVE  /\ old_metadata_id = md[i] /\ old_timestamp \in Nat
                      /\ t[i] <= old_timestamp + T /\ old_timestamp <= t[i]
    OBVIOUS
  <2>1. ~ StartsNew(i)
    BY <1>1
  <2>2. old_metadata_id = md[i] /\ ~ (t[i] > old_timestamp + T)
    BY <1>5, <2>1 DEF StartsNew
  <2>3. old_metadata_id # None
    BY <1>9, <2>2
  <2>4. old_timestamp \in Nat
    BY <1>3, <2>3 DEF TypeOK
  <2>5. t[i] >= old_timestamp
    BY <1>3, <1>5, <2>2 DEF GroupInv
  <2> QED BY <1>9, <2>2, <2>4, <2>5
<1>12. \A x \in Range(changeset_items) :
         md[x] = md[i] /\ t[x] <= old_timestamp /\ t[x] <= t[i] /\ x \in Revisions
  <2> TAKE x \in Range(changeset_items)
  <2>1. changeset_items # <<>>
    BY DEF Range
  <2>2. x \in Revisions /\ md[x] = old_metadata_id /\ t[x] <= old_timestamp
    BY <1>3, <1>6, <1>7 DEF GroupInv
  <2> QED BY <1>9, <1>11, <2>1, <2>2
<1>13. TypeOK'
  <2>1. changesets_to_split' \in Seq(Seq(Revisions))
        /\ \A k \in DOMAIN changesets_to_split' : changesets_to_split'[k] # <<>>
    BY <1>2, <1>3 DEF TypeOK
  <2>2. pc' = pc /\ metadata_id' = metadata_id
    BY <1>2
  <2>3. changeset_db' \in [1..(key_base' - 1) -> ChangesetRecord]
        /\ unread_symbols' \subseteq SymbolNames
        /\ key_base' \in Nat \ {0}
        /\ cvs_item_to_changeset_id' \in
             [DOMAIN cvs_item_to_changeset_id' -> DOMAIN changeset_db']
    BY <1>2a, <1>3 DEF TypeOK
  <2> QED BY <1>1, <1>3, <1>5, <1>8, <1>9, <2>1, <2>2, <2>3 DEF TypeOK
<1>14. ListedOnce'
  <2>1. unread_revs' \cap Pending' = {}
    BY <1>1, <1>3, <1>6, <1>8 DEF ListedOnce
  <2> QED BY <1>2, <1>4, <1>8, <2>1 DEF ListedOnce
<1>15. PhaseInv'
  BY <1>2, <1>2a, <1>3 DEF PhaseInv
<1>16. Gapless(Range(changeset_items'))
  <2> PICK R : R = Range(changeset_items)
    OBVIOUS
  <2>1. \A x, y \in R : t[y] > t[x] => \E z \in R : t[z] > t[x] /\ t[z] <= t[x] + T
    <3>1. Gapless(R)
      BY <1>3 DEF GroupInv
    <3> SUFFICES ASSUME NEW x \in R, NEW y \in R, t[y] > t[x]
                 PROVE  \E z \in R : t[z] > t[x] /\ t[z] <= t[x] + T
      OBVIOUS
    <3>2. PICK later : later = {j \in R : cvs_item[j].timestamp > cvs_item[x].timestamp}
      OBVIOUS
    <3>3. \A j : j \in later <=> j \in R /\ t[j] > t[x]
      BY <1>7, <3>2
    <3>4. later # {}
      BY <3>3
    <3>5. \E z \in later : cvs_item[z].timestamp <= cvs_item[x].timestamp + T
      BY <3>1, <3>2, <3>4, Zenon DEF Gapless
    <3> QED BY <1>7, <3>3, <3>5
  <2>2. R # {} => \E y \in R : t[y] = old_timestamp
    <3>1. R # {} => changeset_items # <<>>
      BY DEF Range
    <3> QED BY <1>3, <1>7, <3>1 DEF GroupInv
  <2>3. ASSUME NEW x \in R \cup {i}, NEW y \in R \cup {i}, t[y] > t[x]
        PROVE  \E z \in R \cup {i} : t[z] > t[x] /\ t[z] <= t[x] + T
    <3>1. \A z \in R \cup {i} : t[z] \in Nat /\ t[z] <= t[i]
      BY <1>5, <1>9, <1>12
    <3>2. x \in R
      BY <2>3, <3>1
    <3>3. CASE \E z \in R : t[z] > t[x]
      BY <2>1, <3>2, <3>3
    <3>4. CASE ~ \E z \in R : t[z] > t[x]
      <4>1. changeset_items # <<>>
        BY <3>2 DEF Range
      <4>2. PICK z \in R : t[z] = old_timestamp
        BY <2>2, <3>2
      <4>3. t[x] = old_timestamp
        BY <1>11, <1>12, <3>1, <3>2, <3>4, <4>1, <4>2
      <4>4. t[i] > t[x]
        BY <2>3, <3>1
      <4> QED BY <1>11, <4>1, <4>3, <4>4
    <3> QED BY <3>3, <3>4
  <2>4. R \cup {i} \subseteq Revisions /\ Range(changeset_items') = R \cup {i}
    BY <1>5, <1>7, <1>8
  <2> QED BY <2>3, <2>4 DEF Gapless
<1>17. GroupInv'
  <2>1. old_metadata_id' # None
    BY <1>1, <1>9
  <2>2. \A x \in Pending' :
          metadata_id'[x] = old_metadata_id' /\ cvs_item[x].timestamp <= old_timestamp'
    BY <1>1, <1>2, <1>5, <1>6, <1>8, <1>9, <1>12
  <2>3. \A x \in unread_revs' : metadata_id'[x] = old_metadata_id' =>
          /\ cvs_item[x].timestamp >= old_timestamp'
          /\ changeset_items' # <<>>
    BY <1>1, <1>2, <1>5, <1>8, <1>9, <1>10
  <2>4. \E x \in Range(changeset_items') : cvs_item[x].timestamp = old_timestamp'
    BY <1>1, <1>8
  <2> QED BY <1>2, <1>4, <1>16, <2>1, <2>2, <2>3, <2>4 DEF GroupInv
<1>18. StackInv'
  <2>1. \A m \in 1..(0 - 1) : FALSE
    OBVIOUS
  <2>2. changesets_to_split' = <<>> /\ Len(changesets_to_split') = 0
    BY <1>2, <1>4
  <2> QED BY <2>1, <2>2 DEF StackInv
<1>19. unread_revs' \cup Pending' = unread_revs \cup Pending
  BY <1>1, <1>5, <1>6, <1>8
<1>20. DatabasesAgree' /\ StoredInv' /\ OneCommit' /\ CutsNeeded' /\ LastInv'
  BY <1>2, <1>19, StoredKept
<1>21. BreaksCounted'
  BY <1>13, <1>14, CountedNext
<1> QED
  BY <1>13, <1>14, <1>15, <1>17, <1>18, <1>20, <1>21 DEF IInv, CutForDependency

\* The group is complete: whatever is still to be read is not near it.
LEMMA YieldGroupKeeps ==
  ASSUME ConstantsOK, IInv, YieldGroup
  PROVE  IInv'
<1>1. /\ pc = "read" /\ pc' = "split"
      /\ changeset_items # <<>> /\ changeset_items' = <<>>
      /\ changesets_to_split' = <<changeset_items>>
      /\ \A i \in NextInFile : StartsNew(i)
      /\ UNCHANGED <<metadata_id, read_vars, db_vars>>
  BY DEF YieldGroup
<1>2. UNCHANGED <<metadata_id, unread_revs, old_metadata_id, old_timestamp,
                  unread_symbols, key_base, changeset_db, cvs_item_to_changeset_id>>
  BY <1>1 DEF read_vars, db_vars
<1>3. TypeOK /\ ListedOnce /\ PhaseInv /\ GroupInv
  BY DEF IInv
<1> PICK T \in Nat : T = COMMIT_THRESHOLD
  BY DEF ConstantsOK
<1> PICK t \in [Revisions -> Nat] : \A x \in Revisions : t[x] = cvs_item[x].timestamp
  BY Times
<1> PICK G \in Seq(Revisions) : G = changeset_items
  BY <1>3 DEF TypeOK
<1>4. changesets_to_split = <<>> /\ DOMAIN changesets_to_split = {}
  <2>1. changesets_to_split = <<>>
    BY <1>1, <1>3 DEF PhaseInv
  <2> QED BY <2>1
<1>5. /\ changesets_to_split' \in Seq(Seq(Revisions)) /\ Len(changesets_to_split') = 1
      /\ DOMAIN changesets_to_split' = {1} /\ changesets_to_split'[1] = G
  <2>1. changesets_to_split' = <<G>>
    BY <1>1
  <2> QED BY <2>1
<1>6. Range(changeset_items') = {} /\ changeset_items' \in Seq(Revisions)
      /\ IsInjective(changeset_items')
  <2>1. DOMAIN <<>> = {} /\ <<>> \in Seq(Revisions)
    OBVIOUS
  <2> QED BY <1>1, <2>1 DEF Range, IsInjective
<1>7. Pending = Range(G) /\ Pending' = Range(G)
  BY <1>4, <1>5, <1>6 DEF Pending, Stacked
<1>8. TypeOK'
  <2>1. \A k \in DOMAIN changesets_to_split' : changesets_to_split'[k] # <<>>
    BY <1>1, <1>5
  <2> QED BY <1>1, <1>2, <1>3, <1>5, <1>6, <2>1 DEF TypeOK
<1>9. ListedOnce'
  <2>1. unread_revs' \cap Pending' = {}
    BY <1>2, <1>3, <1>7 DEF ListedOnce
  <2>2. IsInjective(G)
    BY <1>3 DEF ListedOnce
  <2> QED BY <1>5, <1>6, <2>1, <2>2 DEF ListedOnce
<1>10. PhaseInv'
  BY <1>1, <1>2, <1>3 DEF PhaseInv
<1>11. Range(G) # {}
  <2>1. G # <<>>
    BY <1>1
  <2>2. 1 \in DOMAIN G
    BY <2>1
  <2> QED BY <2>2 DEF Range
<1>12. old_metadata_id # None /\ old_timestamp \in Nat
  BY <1>3, <1>7, <1>11 DEF GroupInv, TypeOK
<1>13. ASSUME NEW i \in unread_revs, metadata_id[i] = old_metadata_id
       PROVE  t[i] > old_timestamp + T
  <2> DEFINE same == {j \in unread_revs : metadata_id[j] = old_metadata_id}
             times == {t[j] : j \in same}
  <2>1. unread_revs \subseteq Revisions
    BY <1>3 DEF TypeOK
  <2>2. times \in SUBSET Nat /\ times # {}
    BY <1>13, <2>1
  <2> HIDE DEF times
  <2>3. PICK x \in times : \A y \in times : x <= y
    BY <2>2, LeastNumber
  <2>4. PICK j \in same : t[j] = x
    BY <2>3 DEF times
  <2>5. \A m \in same : t[j] <= t[m]
    BY <2>3, <2>4 DEF times
  <2>6. same # {} /\ \A m \in same : cvs_item[j].timestamp <= cvs_item[m].timestamp
    BY <2>1, <2>4, <2>5
  <2>7. j \in NextInFile
    BY <2>4, <2>6 DEF NextInFile
  <2>8. StartsNew(j)
    BY <1>1, <2>7
  <2>9. t[j] > old_timestamp + T /\ j \in Revisions
    BY <2>1, <2>4, <2>8 DEF StartsNew
  <2>10. t[j] <= t[i] /\ t[i] \in Nat /\ t[j] \in Nat
    BY <1>13, <2>1, <2>5, <2>9
  <2> QED BY <1>12, <2>9, <2>10
<1>14. GroupInv'
  <2>1. \A i \in Pending' :
          metadata_id'[i] = old_metadata_id' /\ cvs_item[i].timestamp <= old_timestamp'
    BY <1>2, <1>3, <1>7 DEF GroupInv
  <2>2. \A i \in unread_revs' : metadata_id'[i] = old_metadata_id' =>
          /\ cvs_item[i].timestamp >= old_timestamp'
          /\ cvs_item[i].timestamp > old_timestamp' + COMMIT_THRESHOLD
    <3>1. \A i \in unread_revs : i \in Revisions
      BY <1>3 DEF TypeOK
    <3> QED BY <1>2, <1>3, <1>13, <3>1 DEF GroupInv
  <2>3. Gapless(Range(changeset_items')) /\ Gapless(Range(G))
    BY <1>3, <1>6 DEF GroupInv, Gapless
  <2> QED BY <1>1, <1>2, <1>5, <1>12, <2>1, <2>2, <2>3 DEF GroupInv
<1>15. StackInv'
  <2>1. \A m \in 1..(1 - 1) : FALSE
    OBVIOUS
  <2> QED BY <1>5, <2>1 DEF StackInv
<1>16. unread_revs' \cup Pending' = unread_revs \cup Pending
  BY <1>2, <1>7
<1>17. DatabasesAgree' /\ StoredInv' /\ OneCommit' /\ CutsNeeded' /\ LastInv'
  BY <1>1, <1>16, StoredKept
<1>18. BreaksCounted'
  BY <1>8, <1>9, CountedNext
<1> QED
  BY <1>8, <1>9, <1>10, <1>14, <1>15, <1>17, <1>18 DEF IInv, CutForDependency

\* The turns that change nothing but where the loop stands.
LEMMA NextGroupKeeps ==
  ASSUME ConstantsOK, IInv, NextGroup \/ Finish \/ UNCHANGED vars
  PROVE  IInv'
<1>1. UNCHANGED <<metadata_id, unread_revs, old_metadata_id, old_timestamp,
                  changeset_items, changesets_to_split, unread_symbols, key_base,
                  changeset_db, cvs_item_to_changeset_id>>
  BY DEF NextGroup, Finish, vars, read_vars, db_vars
<1>2. UNCHANGED <<metadata_id, db_vars>>
  BY DEF NextGroup, Finish, vars
<1>3. pc' \in {"read", "split", "symbols", "done"} /\ (pc' = "split" => pc = "split")
  BY DEF IInv, TypeOK, NextGroup, Finish, vars
<1>4. TypeOK'
  BY <1>1, <1>3 DEF IInv, TypeOK
<1>5. Pending' = Pending
  BY <1>1 DEF Pending, Stacked
<1>6. ListedOnce'
  BY <1>1, <1>5 DEF IInv, ListedOnce
<1>7. PhaseInv'
  <2>1. PhaseInv /\ TypeOK
    BY DEF IInv
  <2>2. CASE NextGroup
    BY <1>1, <2>1, <2>2 DEF NextGroup, PhaseInv
  <2>3. CASE Finish
    BY <1>1, <2>1, <2>3 DEF Finish, PhaseInv
  <2>4. CASE UNCHANGED vars
    BY <1>1, <2>1, <2>4 DEF vars, PhaseInv
  <2> QED BY <2>2, <2>3, <2>4
<1>8. RevisionChangesets' = RevisionChangesets
  BY <1>1 DEF RevisionChangesets
<1>9. GroupInv'
  BY <1>1, <1>3, <1>5, <1>8 DEF IInv, GroupInv
<1>10. StackInv'
  BY <1>1 DEF IInv, StackInv, InLower, OfMetadata
<1>11. DatabasesAgree' /\ StoredInv' /\ OneCommit' /\ CutsNeeded' /\ LastInv'
  BY <1>1, <1>2, <1>5, StoredKept
<1>12. BreaksCounted'
  BY <1>4, <1>6, CountedNext
<1> QED
  BY <1>4, <1>6, <1>7, <1>9, <1>10, <1>11, <1>12 DEF IInv, CutForDependency

\* A list that is cut: a dependency crosses the cut.
LEMMA SplitGroupKeeps ==
  ASSUME ConstantsOK, IInv, SplitGroup
  PROVE  IInv'
<1>1. TypeOK /\ ListedOnce /\ PhaseInv /\ GroupInv /\ StackInv
  BY DEF IInv
<1>2. /\ pc = "split" /\ pc' = "split"
      /\ changesets_to_split # <<>>
      /\ Dependencies(Last(changesets_to_split)) # {}
      /\ UNCHANGED <<metadata_id, read_vars, changeset_items, db_vars>>
  BY DEF SplitGroup
<1>3. UNCHANGED <<metadata_id, unread_revs, old_metadata_id, old_timestamp, changeset_items,
                  unread_symbols, key_base, changeset_db, cvs_item_to_changeset_id>>
  BY <1>2 DEF read_vars, db_vars
<1> PICK K \in Seq(Seq(Revisions)) : K = changesets_to_split
  BY <1>1 DEF TypeOK
<1> PICK n : n = Len(K)
  OBVIOUS
<1>4. n \in Nat \ {0} /\ DOMAIN K = 1..n
  BY <1>2, PopExact
<1>5. Last(K) = K[n] /\ Last(K) \in Seq(Revisions) /\ n \in 1..n
  BY <1>2, <1>4 DEF Last
<1> PICK L \in Seq(Revisions) : L = Last(K) /\ L = K[n]
  BY <1>5
<1>6. /\ IsInjective(L) /\ Gapless(Range(L))
      /\ \A k \in 1..n : IsInjective(K[k]) /\ Gapless(Range(K[k])) /\ K[k] # <<>>
      /\ \A k, m \in 1..n : k # m => Range(K[k]) \cap Range(K[m]) = {}
  BY <1>1, <1>4, <1>5 DEF ListedOnce, GroupInv, TypeOK
<1>7. PICK best_i \in 1..(Len(Sorted(L)) - 1) :
        /\ IsBestBreak(Sorted(L), best_i)
        /\ changesets_to_split' = Front(K)
             \o <<SubSeq(Sorted(L), best_i + 1, Len(Sorted(L))), SubSeq(Sorted(L), 1, best_i)>>
  BY DEF SplitGroup
<1> PICK s : s = Sorted(L)
  OBVIOUS
<1>8. /\ s \in Seq(Revisions) /\ Len(s) = Len(L) /\ Range(s) = Range(L) /\ IsInjective(s)
  BY <1>6, SortedExact
<1> PICK A, B : A = Later(L, best_i) /\ B = Earlier(L, best_i)
  OBVIOUS
<1>9. /\ A \in Seq(Revisions) /\ IsInjective(A) /\ A # <<>>
      /\ B \in Seq(Revisions) /\ IsInjective(B) /\ B # <<>>
      /\ Range(A) \cap Range(B) = {} /\ Range(A) \cup Range(B) = Range(L)
      /\ Range(B) = FirstItems(s, best_i)
      /\ Gapless(Range(A)) /\ Gapless(Range(B))
  <2>1. best_i \in 1..(Len(L) - 1)
    BY <1>7, <1>8
  <2>2. IsSplit(L, best_i, A, B)
    BY <1>6, <2>1, SplitExact
  <2> QED BY <1>6, <2>2 DEF IsSplit
<1> PICK P : P = changesets_to_split'
  OBVIOUS
<1>10. /\ P \in Seq(Seq(Revisions)) /\ Len(P) = n + 1 /\ DOMAIN P = 1..(n + 1)
       /\ \A k \in 1..(n - 1) : P[k] = K[k]
       /\ P[n] = A /\ P[n + 1] = B
  <2>1. P = Pushed(K, A, B)
    BY <1>7 DEF Pushed, Later, Earlier
  <2>2. A \in Seq(Revisions) /\ B \in Seq(Revisions)
    BY <1>9
  <2>3. IsPushed(Seq(Revisions), K, A, B, P)
    BY <1>2, <2>1, <2>2, PushExact
  <2> QED BY <2>3 DEF IsPushed
<1>11. \A k \in 1..(n + 1) : k \in 1..(n - 1) \/ k = n \/ k = n + 1
  BY <1>4
<1>12. \A k \in 1..(n - 1) : k \in 1..n /\ k # n
  BY <1>4
<1>13. \A i : i \in Pending' <=> i \in Pending
  <2>1. \A i : i \in Pending <=>
          i \in Range(changeset_items) \/ \E k \in 1..n : i \in Range(K[k])
    BY <1>1, <1>4, InPending
  <2>2. \A i : i \in Pending' <=>
          i \in Range(changeset_items) \/ \E k \in 1..(n + 1) : i \in Range(P[k])
    BY <1>3, <1>10 DEF Pending, Stacked
  <2>3. \A i : (\E k \in 1..n : i \in Range(K[k])) <=>
               (\E k \in 1..(n - 1) : i \in Range(K[k])) \/ i \in Range(L)
    <3>1. \A k \in 1..n : k \in 1..(n - 1) \/ k = n
      BY <1>4
    <3> QED BY <1>5, <1>12, <3>1
  <2>4. \A i : (\E k \in 1..(n + 1) : i \in Range(P[k])) <=>
               (\E k \in 1..(n - 1) : i \in Range(K[k])) \/ i \in Range(A) \/ i \in Range(B)
    <3>1. n \in 1..(n + 1) /\ n + 1 \in 1..(n + 1) /\ \A k \in 1..(n - 1) : k \in 1..(n + 1)
      BY <1>4
    <3> QED BY <1>10, <1>11, <3>1
  <2> QED BY <1>9, <2>1, <2>2, <2>3, <2>4
<1>14. Pending' = Pending
  BY <1>13
<1>15. \A k \in 1..(n + 1) : P[k] # <<>> /\ IsInjective(P[k]) /\ Gapless(Range(P[k]))
  <2> TAKE k \in 1..(n + 1)
  <2>1. CASE k \in 1..(n - 1)
    BY <1>6, <1>10, <1>12, <2>1
  <2>2. CASE k = n
    BY <1>9, <1>10, <2>2
  <2>3. CASE k = n + 1
    BY <1>9, <1>10, <2>3
  <2> QED BY <1>11, <2>1, <2>2, <2>3
<1>16. \A k, m \in 1..(n + 1) : k # m => Range(P[k]) \cap Range(P[m]) = {}
  <2>1. \A k \in 1..(n - 1) : Range(K[k]) \cap Range(A) = {} /\ Range(K[k]) \cap Range(B) = {}
    BY <1>5, <1>6, <1>9, <1>12
  <2>2. \A k, m \in 1..(n - 1) : k # m => Range(K[k]) \cap Range(K[m]) = {}
    BY <1>6, <1>12
  <2> PICK R : R = [k \in 1..(n + 1) |-> Range(P[k])]
    OBVIOUS
  <2>3. /\ \A k \in 1..(n - 1) : R[k] = Range(K[k])
        /\ R[n] = Range(A) /\ R[n + 1] = Range(B)
        /\ \A k \in 1..(n + 1) : R[k] = Range(P[k])
    <3>1. n \in 1..(n + 1) /\ n + 1 \in 1..(n + 1) /\ 1..(n - 1) \subseteq 1..(n + 1)
      BY <1>4
    <3> QED BY <1>10, <3>1
  <2>4. /\ \A k \in 1..(n - 1) : R[k] \cap R[n] = {} /\ R[k] \cap R[n + 1] = {}
        /\ \A k, m \in 1..(n - 1) : k # m => R[k] \cap R[m] = {}
        /\ R[n] \cap R[n + 1] = {}
    <3>1. ASSUME NEW k \in 1..(n - 1) PROVE R[k] \cap R[n] = {} /\ R[k] \cap R[n + 1] = {}
      BY <2>1, <2>3
    <3>2. ASSUME NEW k \in 1..(n - 1), NEW m \in 1..(n - 1), k # m PROVE R[k] \cap R[m] = {}
      <4>1. R[k] = Range(K[k]) /\ R[m] = Range(K[m])
        BY <2>3
      <4>2. Range(K[k]) \cap Range(K[m]) = {}
        BY <2>2, <3>2
      <4> QED BY <4>1, <4>2
    <3>3. R[n] \cap R[n + 1] = {}
      BY <1>9, <2>3
    <3> QED BY <3>1, <3>2, <3>3
  <2>5. ASSUME NEW k \in 1..(n + 1), NEW m \in 1..(n + 1), k # m PROVE R[k] \cap R[m] = {}
    <3>1. CASE k \in 1..(n - 1) /\ m \in 1..(n - 1)
      BY ZenonT(60), <2>4, <2>5, <3>1
    <3>2. CASE k \in 1..(n - 1) /\ (m = n \/ m = n + 1)
      BY ZenonT(60), <2>4, <3>2
    <3>3. CASE m \in 1..(n - 1) /\ (k = n \/ k = n + 1)
      <4>1. R[m] \cap R[k] = {}
        BY ZenonT(60), <2>4, <3>3
      <4> QED BY <4>1
    <3>4. CASE (k = n \/ k = n + 1) /\ (m = n \/ m = n + 1)
      <4>1. R[n] \cap R[n + 1] = {} /\ R[n + 1] \cap R[n] = {}
        <5>1. R[n] \cap R[n + 1] = {}
          BY <2>4
        <5> QED BY <5>1
      <4>2. (k = n /\ m = n + 1) \/ (k = n + 1 /\ m = n)
        BY <2>5, <3>4
      <4>3. CASE k = n /\ m = n + 1
        BY <4>1, <4>3, Zenon
      <4>4. CASE k = n + 1 /\ m = n
        BY <4>1, <4>4, Zenon
      <4> QED BY <4>2, <4>3, <4>4
    <3>5. /\ k \in 1..(n - 1) \/ k = n \/ k = n + 1
          /\ m \in 1..(n - 1) \/ m = n \/ m = n + 1
      BY <1>11
    <3> QED BY <3>1, <3>2, <3>3, <3>4, <3>5
  <2> QED BY <2>3, <2>5
<1>17. TypeOK'
  <2>1. /\ changesets_to_split' \in Seq(Seq(Revisions))
        /\ \A k \in DOMAIN changesets_to_split' : changesets_to_split'[k] # <<>>
    BY <1>10, <1>15
  <2> QED BY <1>1, <1>2, <1>3, <2>1 DEF TypeOK
<1>18. ListedOnce'
  <2>1. changeset_items' = <<>> /\ Range(changeset_items') = {} /\ IsInjective(changeset_items')
    <3>1. changeset_items = <<>>
      BY <1>1, <1>2 DEF PhaseInv
    <3> QED BY <1>3, <3>1 DEF Range, IsInjective
  <2>2. unread_revs' \cap Pending' = {}
    BY <1>1, <1>3, <1>14 DEF ListedOnce
  <2> QED BY <1>10, <1>15, <1>16, <2>1, <2>2 DEF ListedOnce
<1>19. PhaseInv'
  BY <1>1, <1>2, <1>3 DEF PhaseInv
<1>20. GroupInv'
  <2>1. RevisionChangesets' = RevisionChangesets
    BY <1>3 DEF RevisionChangesets
  <2>2. \A k \in DOMAIN changesets_to_split' : Gapless(Range(changesets_to_split'[k]))
    BY <1>10, <1>15
  <2> QED BY <1>1, <1>2, <1>3, <1>14, <2>1, <2>2 DEF GroupInv
<1>21. StackInv'
  <2> DEFINE Same == OfMetadata(old_metadata_id)
  <2> PICK After, AfterP : /\ After = [m \in 1..n |-> UNION {Range(K[k]) : k \in 1..m}]
                           /\ AfterP = [m \in 1..n |-> UNION {Range(P[k]) : k \in 1..m}]
    OBVIOUS
  <2>0. \A m \in 1..n : /\ AfterP[m] = InLower(m)' /\ After[m] = InLower(m)
                        /\ \A i : i \in After[m] <=> \E k \in 1..m : i \in Range(K[k])
                        /\ \A i : i \in AfterP[m] <=> \E k \in 1..m : i \in Range(P[k])
    BY DEF InLower
  <2> SUFFICES ASSUME NEW m \in 1..n
               PROVE  \E y \in AfterP[m], x \in Same \ (unread_revs \cup AfterP[m]) :
                        x \in GetSuccIds(y) \/ y \in GetSuccIds(x)
    <3>1. Len(P) - 1 = n
      BY <1>4, <1>10
    <3>2. OfMetadata(old_metadata_id)' = Same
      BY <1>3 DEF OfMetadata
    <3> HIDE DEF Same
    <3> QED BY <1>3, <2>0, <3>1, <3>2 DEF StackInv
  <2>1. CASE m \in 1..(n - 1)
    <3>1. \A k \in 1..m : k \in 1..(n - 1)
      BY <1>4, <2>1
    <3>2. AfterP[m] = After[m]
      <4>1. \A i : (\E k \in 1..m : i \in Range(K[k])) <=> \E k \in 1..m : i \in Range(P[k])
        BY <1>10, <3>1
      <4>2. \A i : i \in AfterP[m] <=> i \in After[m]
        BY <2>0, <4>1
      <4> QED BY <4>2
    <3>3. \E y \in InLower(m), x \in Same \ (unread_revs \cup InLower(m)) :
            x \in GetSuccIds(y) \/ y \in GetSuccIds(x)
      BY <1>1, <2>1 DEF StackInv
    <3>4. After[m] = InLower(m)
      BY <2>0
    <3> HIDE DEF Same
    <3> QED BY <3>2, <3>3, <3>4
  <2>2. CASE m = n
    <3>1. \A i : i \in AfterP[n] <=>
            (\E k \in 1..(n - 1) : i \in Range(P[k])) \/ i \in Range(A)
      <4>1. \A k \in 1..n : k \in 1..(n - 1) \/ k = n
        BY <1>4
      <4>2. n \in 1..n /\ \A k \in 1..(n - 1) : k \in 1..n
        BY <1>4
      <4>3. \A i : i \in AfterP[n] <=> \E k \in 1..n : i \in Range(P[k])
        BY <2>0, <4>2
      <4> QED BY <1>10, <4>1, <4>2, <4>3
    <3>2. \A i \in Range(B) : i \notin AfterP[n]
      <4>1. n + 1 \in 1..(n + 1) /\ \A k \in 1..(n - 1) : k \in 1..(n + 1) /\ k # n + 1
        BY <1>4
      <4>2. \A k \in 1..(n - 1) : Range(P[k]) \cap Range(B) = {}
        BY <1>10, <1>16, <4>1
      <4> QED BY <1>9, <3>1, <4>2
    <3>3. \A i \in Range(L) : i \in Same /\ i \notin unread_revs
      <4>1. \A i \in Range(L) : i \in Pending
        BY <1>1, <1>4, <1>5, InPending
      <4>2. Pending \subseteq Revisions
        BY <1>1, InPending
      <4> QED BY <1>1, <4>1, <4>2 DEF GroupInv, ListedOnce, OfMetadata
    <3>4. Dependencies(s) # {}
      <4>1. Dependencies(s) = Dependencies(L)
        BY <1>8 DEF Dependencies
      <4> QED BY <1>2, <4>1
    <3>5. Cut(s, best_i) # {}
      BY <1>7, <1>8, <3>4, BestBreakCuts
    <3>6. PICK d \in Dependencies(s) : (d[1] \in Range(B)) # (d[2] \in Range(B))
      BY <1>9, <3>5 DEF Cut
    <3>6a. d[1] \in Range(B) \/ d[2] \in Range(B)
      BY <3>6
    <3>7. d[1] \in Range(L) /\ d[2] \in Range(L) /\ d[2] \in GetSuccIds(d[1])
      BY <1>8 DEF Dependencies
    <3> HIDE DEF Same
    <3>8. CASE d[1] \in Range(B)
      <4>1. d[2] \in AfterP[n] /\ d[1] \in Same \ (unread_revs \cup AfterP[n])
        BY <1>9, <3>1, <3>2, <3>3, <3>6, <3>7, <3>8
      <4> QED BY <2>2, <3>7, <4>1
    <3>9. CASE d[2] \in Range(B)
      <4>1. d[1] \in AfterP[n] /\ d[2] \in Same \ (unread_revs \cup AfterP[n])
        BY <1>9, <3>1, <3>2, <3>3, <3>6, <3>7, <3>9
      <4> QED BY <2>2, <3>7, <4>1
    <3> QED BY <3>6a, <3>8, <3>9
  <2>3. m \in 1..(n - 1) \/ m = n
    BY <1>4
  <2> QED BY <2>1, <2>2, <2>3
<1>22. unread_revs' \cup Pending' = unread_revs \cup Pending
  BY <1>3, <1>14
<1>23. DatabasesAgree' /\ StoredInv' /\ OneCommit' /\ CutsNeeded' /\ LastInv'
  BY <1>2, <1>22, StoredKept
<1>24. BreaksCounted'
  BY <1>17, <1>18, CountedNext
<1> QED
  BY <1>17, <1>18, <1>19, <1>20, <1>21, <1>23, <1>24 DEF IInv, CutForDependency

\* What both databases are after the items S were stored as a changeset.
IsStored(S, changeset) ==
  /\ key_base' = key_base + 1 /\ key_base' - 1 = key_base /\ key_base \in Nat
  /\ changeset_db' \in [1..(key_base' - 1) -> ChangesetRecord]
  /\ DOMAIN changeset_db' = DOMAIN changeset_db \cup {key_base}
  /\ changeset_db'[key_base] = changeset
  /\ \A id \in DOMAIN changeset_db :
       changeset_db'[id] = changeset_db[id] /\ id \in Nat /\ id < key_base
  /\ cvs_item_to_changeset_id' \in
       [DOMAIN cvs_item_to_changeset_id' -> DOMAIN changeset_db']
  /\ DOMAIN cvs_item_to_changeset_id' = DOMAIN cvs_item_to_changeset_id \cup S
  /\ \A i \in S : cvs_item_to_changeset_id'[i] = key_base
  /\ \A i \in DOMAIN cvs_item_to_changeset_id :
       /\ cvs_item_to_changeset_id'[i] = cvs_item_to_changeset_id[i]
       /\ cvs_item_to_changeset_id[i] \in DOMAIN changeset_db
  /\ DatabasesAgree'
  /\ \A m : \A a \in DOMAIN changeset_db : CutFor(m, a)' <=> CutFor(m, a)

\* A changeset that is stored has the next id, and no other one changes.
LEMMA StoreExact ==
  ASSUME TypeOK, DatabasesAgree, NEW S, NEW c \in ChangesetRecord, c.items = S,
         S \cap DOMAIN cvs_item_to_changeset_id = {},
         StoreChangeset(S, c), UNCHANGED metadata_id
  PROVE  IsStored(S, c)
<1> PICK kb \in Nat \ {0} : kb = key_base
  BY DEF TypeOK
<1> PICK db \in [1..(kb - 1) -> ChangesetRecord] : db = changeset_db
  BY DEF TypeOK
<1> PICK table : table = cvs_item_to_changeset_id
  OBVIOUS
<1>1. table \in [DOMAIN table -> 1..(kb - 1)]
  <2>1. DOMAIN changeset_db = 1..(kb - 1)
    OBVIOUS
  <2> QED BY <2>1 DEF TypeOK
<1> PICK db1, table1 : db1 = changeset_db' /\ table1 = cvs_item_to_changeset_id'
  OBVIOUS
<1>1a. /\ db1 = [id \in 1..(kb - 1) \cup {kb} |-> IF id = kb THEN c ELSE db[id]]
       /\ table1 = [i \in DOMAIN table \cup S |-> IF i \in S THEN kb ELSE table[i]]
       /\ key_base' = kb + 1
  <2>1. DOMAIN changeset_db = 1..(kb - 1)
    OBVIOUS
  <2> QED BY <2>1 DEF StoreChangeset
<1>2. 1..(kb - 1) \cup {kb} = 1..kb /\ kb \notin 1..(kb - 1) /\ kb + 1 - 1 = kb
      /\ \A id \in 1..(kb - 1) : id \in Nat /\ id < kb
  OBVIOUS
<1>3. /\ db1 \in [1..kb -> ChangesetRecord] /\ DOMAIN db1 = 1..(kb - 1) \cup {kb}
      /\ db1[kb] = c /\ \A id \in 1..(kb - 1) : db1[id] = db[id]
  BY <1>1a, <1>2
<1>4. /\ DOMAIN table1 = DOMAIN table \cup S
      /\ \A i \in S : table1[i] = kb
      /\ \A i \in DOMAIN table : i \notin S
      /\ \A i \in DOMAIN table : table1[i] = table[i] /\ table[i] \in 1..(kb - 1)
  BY <1>1, <1>1a
<1>5. table1 \in [DOMAIN table1 -> DOMAIN db1]
  <2>1. \A i \in DOMAIN table1 : table1[i] \in DOMAIN db1
    BY <1>3, <1>4
  <2>2. table1 = [i \in DOMAIN table1 |-> table1[i]]
    BY <1>1a
  <2> QED BY <2>1, <2>2
<1>6. DatabasesAgree'
  <2> SUFFICES ASSUME NEW id \in DOMAIN db1
               PROVE  db1[id].items = HeldBy(id)'
    BY DEF DatabasesAgree
  <2>1. \A i : i \in HeldBy(id)' <=> i \in DOMAIN table1 /\ table1[i] = id
    BY DEF HeldBy
  <2>2. \A i : i \in HeldBy(id) <=> i \in DOMAIN table /\ table[i] = id
    BY DEF HeldBy
  <2>3. CASE id = kb
    <3>1. \A i : i \in HeldBy(id)' <=> i \in S
      BY <1>2, <1>4, <2>1, <2>3
    <3> QED BY <1>3, <2>3, <3>1
  <2>4. CASE id \in 1..(kb - 1)
    <3>1. \A i : i \in HeldBy(id)' <=> i \in HeldBy(id)
      BY <1>2, <1>4, <2>1, <2>2, <2>4
    <3>2. HeldBy(id)' = HeldBy(id)
      BY <3>1
    <3> QED BY <1>3, <2>4, <3>2 DEF DatabasesAgree
  <2> QED BY <1>3, <2>3, <2>4
<1>7. ASSUME NEW m, NEW a \in 1..(kb - 1) PROVE CutFor(m, a)' <=> CutFor(m, a)
  <2>1. OfMetadata(m)' = OfMetadata(m)
    BY DEF OfMetadata
  <2>2. \A i \in DOMAIN table1 : i \in S => ~ (table1[i] <= a)
    BY <1>4
  <2>3. StoredUpTo(m, a) = {j \in OfMetadata(m) \cap DOMAIN table : table[j] <= a}
    BY DEF StoredUpTo
  <2>4. StoredUpTo(m, a)' = {j \in OfMetadata(m) \cap DOMAIN table1 : table1[j] <= a}
    BY <2>1 DEF StoredUpTo
  <2>5. StoredUpTo(m, a)' = StoredUpTo(m, a)
    BY <1>4, <2>2, <2>3, <2>4
  <2> HIDE DEF StoredUpTo, OfMetadata
  <2> QED BY <2>1, <2>5 DEF CutFor
<1>8. DOMAIN db = 1..(kb - 1)
  OBVIOUS
<1> QED BY <1>1a, <1>2, <1>3, <1>4, <1>5, <1>6, <1>7, <1>8 DEF IsStored

\* A changeset is a record.
LEMMA RecordType ==
  ASSUME NEW S \in SUBSET Item, NEW k \in {"revision", "branch", "tag"}, NEW sym \in Nat
  PROVE  /\ Changeset(k, S, sym) \in ChangesetRecord
         /\ Changeset(k, S, sym).items = S /\ Changeset(k, S, sym).kind = k
BY DEF Changeset, ChangesetRecord

\* In a list without dependencies, no item depends on another.
LEMMA NoDependency ==
  ASSUME NEW items, Dependencies(items) = {}
  PROVE  \A i, j \in Range(items) : j \notin GetSuccIds(i)
<1> SUFFICES ASSUME NEW i \in Range(items), NEW j \in Range(items), j \in GetSuccIds(i)
             PROVE  FALSE
  OBVIOUS
<1>1. <<i, j>> \in Dependencies(items)
  BY DEF Dependencies
<1> QED BY <1>1

\* A list that is stored is a commit of its own, or was cut from what follows for
\* a dependency.
LEMMA StoreGroupKeeps ==
  ASSUME ConstantsOK, IInv, StoreGroup
  PROVE  IInv'
<1>1. /\ TypeOK /\ ListedOnce /\ PhaseInv /\ GroupInv /\ StackInv /\ DatabasesAgree
      /\ StoredInv /\ LastInv /\ OneCommit /\ CutsNeeded
  BY DEF IInv, CutForDependency
<1>2. /\ pc = "split" /\ pc' = "split"
      /\ changesets_to_split # <<>>
      /\ Dependencies(Last(changesets_to_split)) = {}
      /\ changesets_to_split' = Front(changesets_to_split)
      /\ UNCHANGED <<metadata_id, read_vars, changeset_items, unread_symbols>>
  BY DEF StoreGroup
<1>3. UNCHANGED <<metadata_id, unread_revs, old_metadata_id, old_timestamp, changeset_items,
                  unread_symbols>>
  BY <1>2 DEF read_vars
<1> PICK T \in Nat : T = COMMIT_THRESHOLD
  BY DEF ConstantsOK
<1> PICK t \in [Revisions -> Nat] : \A x \in Revisions : t[x] = cvs_item[x].timestamp
  BY Times
<1> PICK K \in Seq(Seq(Revisions)) : K = changesets_to_split
  BY <1>1 DEF TypeOK
<1> PICK n : n = Len(K)
  OBVIOUS
<1>4. n \in Nat \ {0} /\ DOMAIN K = 1..n
  BY <1>2, PopExact
<1>5. Last(K) = K[n] /\ Last(K) \in Seq(Revisions) /\ n \in 1..n
  BY <1>2, <1>4 DEF Last
<1> PICK L \in Seq(Revisions) : L = Last(K) /\ L = K[n]
  BY <1>5
<1>6. /\ IsInjective(L) /\ Gapless(Range(L)) /\ L # <<>>
      /\ \A k \in 1..n : IsInjective(K[k]) /\ Gapless(Range(K[k])) /\ K[k] # <<>>
      /\ \A k, m \in 1..n : k # m => Range(K[k]) \cap Range(K[m]) = {}
  BY <1>1, <1>4, <1>5 DEF ListedOnce, GroupInv, TypeOK
<1> PICK P : P = changesets_to_split'
  OBVIOUS
<1> PICK F : F = Front(K)
  OBVIOUS
<1>5a. P = F /\ K # <<>>
  BY <1>2
<1> PICK X : X = Seq(Revisions)
  OBVIOUS
<1>5b. K \in Seq(X)
  OBVIOUS
<1>5c. /\ F \in Seq(X) /\ DOMAIN F = 1..(n - 1) /\ Len(F) = n - 1
       /\ \A k \in 1..(n - 1) : F[k] = K[k]
  <2>1. F \in Seq(X)
    BY <1>5a, <1>5b, PopExact
  <2>2. DOMAIN F = 1..(n - 1)
    BY <1>5a, <1>5b, PopExact
  <2>3. Len(F) = n - 1
    BY <1>5a, <1>5b, PopExact
  <2>4. ASSUME NEW k \in 1..(n - 1) PROVE F[k] = K[k]
    <3>1. F = SubSeq(K, 1, n - 1)
      BY DEF Front
    <3>2. SubSeq(K, 1, n - 1)[k] = K[k]
      BY <1>4, <1>5b
    <3> QED BY <3>1, <3>2
  <2> QED BY <2>1, <2>2, <2>3, <2>4
<1>7. P \in Seq(Seq(Revisions)) /\ DOMAIN P = 1..(n - 1) /\ Len(P) = n - 1
  BY <1>5a, <1>5c
<1>8. \A k \in 1..(n - 1) : P[k] = K[k] /\ k \in 1..n /\ k # n
  BY <1>4, <1>5a, <1>5c
<1> PICK S : S = Range(L)
  OBVIOUS
<1>9. changeset_items = <<>> /\ Range(changeset_items) = {}
  <2>1. changeset_items = <<>>
    BY <1>1, <1>2 DEF PhaseInv
  <2> QED BY <2>1 DEF Range
<1>10. \A i : i \in Pending <=> \E k \in 1..n : i \in Range(K[k])
  BY <1>1, <1>4, <1>9, InPending
<1>11. \A i : i \in Pending' <=> \E k \in 1..(n - 1) : i \in Range(K[k])
  <2>1. \A i : i \in Pending' <=> \E k \in 1..(n - 1) : i \in Range(P[k])
    BY <1>3, <1>7, <1>9 DEF Pending, Stacked
  <2> QED BY <1>8, <2>1
<1>12. Pending \subseteq Revisions /\ unread_revs \cap Pending = {}
  BY <1>1, InPending DEF ListedOnce
<1>13. S \subseteq Pending /\ S \cap Pending' = {} /\ Pending = Pending' \cup S
  <2>1. S \subseteq Pending
    BY <1>5, <1>10
  <2>2. \A k \in 1..(n - 1) : Range(K[k]) \cap S = {}
    BY <1>5, <1>6, <1>8
  <2>3. S \cap Pending' = {}
    BY <1>11, <2>2
  <2>4. \A k \in 1..n : k \in 1..(n - 1) \/ k = n
    BY <1>4
  <2> QED BY <1>8, <1>10, <1>11, <2>1, <2>3, <2>4
<1>14. S # {} /\ S \subseteq Revisions /\ S \in SUBSET Item
  <2>1. 1 \in DOMAIN L
    BY <1>6
  <2>2. S # {}
    BY <2>1 DEF Range
  <2> QED BY <1>12, <1>13, <2>2 DEF Revisions
<1> PICK c : c = Changeset("revision", S, 0)
  OBVIOUS
<1>15. c \in ChangesetRecord /\ c.items = S /\ c.kind = "revision"
  BY <1>14 DEF Changeset, ChangesetRecord
<1>16. DOMAIN cvs_item_to_changeset_id =
         (Revisions \ (unread_revs \cup Pending))
           \cup {i \in Symbols : cvs_item[i].symbol \notin unread_symbols}
  BY <1>1 DEF StoredInv
<1>17. S \cap DOMAIN cvs_item_to_changeset_id = {}
  BY <1>13, <1>14, <1>16 DEF Symbols
<1>18. IsStored(S, c)
  <2>1. StoreChangeset(S, c)
    BY DEF StoreGroup
  <2> QED BY <1>1, <1>3, <1>15, <1>17, <2>1, StoreExact
<1> PICK kb : kb = key_base
  OBVIOUS
<1>19. TypeOK'
  <2>1. \A k \in DOMAIN P : P[k] # <<>>
    BY <1>6, <1>7, <1>8
  <2>2. key_base' \in Nat \ {0}
    BY <1>18 DEF IsStored
  <2> QED BY <1>1, <1>2, <1>3, <1>7, <1>18, <2>1, <2>2 DEF TypeOK, IsStored
<1>20. ListedOnce'
  <2>1. unread_revs' \cap Pending' = {}
    BY <1>3, <1>12, <1>13
  <2>2. IsInjective(changeset_items')
    BY <1>1, <1>3 DEF ListedOnce
  <2>3. \A k, m \in 1..(n - 1) : k # m => Range(P[k]) \cap Range(P[m]) = {}
    BY <1>6, <1>8
  <2>4. \A k \in 1..(n - 1) : IsInjective(P[k])
    BY <1>6, <1>8
  <2>5. Range(changeset_items') = {}
    BY <1>3, <1>9
  <2> QED BY <1>7, <2>1, <2>2, <2>3, <2>4, <2>5 DEF ListedOnce
<1>21. PhaseInv'
  BY <1>1, <1>2, <1>3 DEF PhaseInv
<1>22. DatabasesAgree'
  BY <1>18 DEF IsStored
<1>23. StoredInv'
  <2>1. DOMAIN cvs_item_to_changeset_id' =
          (Revisions \ (unread_revs' \cup Pending'))
            \cup {i \in Symbols : cvs_item[i].symbol \notin unread_symbols'}
    <3>1. DOMAIN cvs_item_to_changeset_id' = DOMAIN cvs_item_to_changeset_id \cup S
      BY <1>18 DEF IsStored
    <3>2. Revisions \ (unread_revs \cup Pending') = (Revisions \ (unread_revs \cup Pending)) \cup S
      BY <1>12, <1>13, <1>14
    <3> QED BY <1>3, <1>16, <3>1, <3>2
  <2>2. \A i, j \in S : j \notin GetSuccIds(i)
    BY <1>2, NoDependency
  <2>3. c = SourceChangeset(S)
    <3>1. PICK i : i = CHOOSE x \in S : TRUE
      OBVIOUS
    <3>2. i \in S
      BY <1>14, <3>1
    <3>3. cvs_item[i].kind = "revision" /\ cvs_item[i].symbol = 0
      BY <1>14, <3>2, RevisionAssumption DEF Revisions, IsRevision
    <3> QED BY <3>1, <3>3 DEF SourceChangeset
  <2>4. \A id \in DOMAIN changeset_db :
          /\ changeset_db'[id] = changeset_db[id]
          /\ changeset_db'[kb] = c
          /\ DOMAIN changeset_db' = DOMAIN changeset_db \cup {kb}
    BY <1>18 DEF IsStored
  <2>5. ASSUME NEW id \in DOMAIN changeset_db'
        PROVE  LET R == changeset_db'[id].items
               IN  /\ R # {} /\ changeset_db'[id] = SourceChangeset(R)
                   /\ \/ R \subseteq Revisions /\ \A i, j \in R : j \notin GetSuccIds(i)
                      \/ \E symbol \in SymbolNames \ unread_symbols' :
                           R = OfSymbol(symbol)
    <3>1. CASE id \in DOMAIN changeset_db
      <4>1. changeset_db'[id] = changeset_db[id]
        BY <1>18, <3>1 DEF IsStored
      <4> QED BY <1>1, <1>3, <3>1, <4>1 DEF StoredInv
    <3>2. CASE id = kb
      <4>1. changeset_db'[id] = c
        BY <1>18, <3>2 DEF IsStored
      <4> QED BY <1>14, <1>15, <2>2, <2>3, <4>1
    <3> QED BY <1>18, <3>1, <3>2 DEF IsStored
  <2> QED BY <2>1, <2>5 DEF StoredInv
<1>24. /\ old_metadata_id # None /\ old_timestamp \in Nat
       /\ \A i \in Pending : metadata_id[i] = old_metadata_id /\ t[i] <= old_timestamp
  <2>1. old_metadata_id # None
    BY <1>1, <1>2 DEF GroupInv
  <2> QED BY <1>1, <1>12, <2>1 DEF GroupInv, TypeOK
<1>25. RevisionChangesets' = RevisionChangesets \cup {kb} /\ kb \notin RevisionChangesets
  BY <1>15, <1>18 DEF IsStored, RevisionChangesets
<1>26. GroupInv'
  <2>1. \A i \in Pending' :
          metadata_id'[i] = old_metadata_id' /\ cvs_item[i].timestamp <= old_timestamp'
    BY <1>1, <1>3, <1>13 DEF GroupInv
  <2>2. \A k \in DOMAIN P : Gapless(Range(P[k]))
    BY <1>6, <1>7, <1>8
  <2>3. \A i \in unread_revs' : metadata_id'[i] = old_metadata_id' =>
          /\ cvs_item[i].timestamp >= old_timestamp'
          /\ changeset_items' = <<>> =>
               cvs_item[i].timestamp > old_timestamp' + COMMIT_THRESHOLD
    BY <1>1, <1>3 DEF GroupInv
  <2>4. changeset_items' = <<>> /\ Gapless(Range(changeset_items'))
    BY <1>1, <1>3, <1>9 DEF GroupInv
  <2> QED BY <1>3, <1>24, <2>1, <2>2, <2>3, <2>4 DEF GroupInv
<1>27. ASSUME NEW m \in 1..(n - 1)
       PROVE  /\ InLower(m)' = InLower(m)
              /\ \E y \in InLower(m), x \in OfMetadata(old_metadata_id) \ (unread_revs \cup InLower(m)) :
                   x \in GetSuccIds(y) \/ y \in GetSuccIds(x)
  <2>1. \A k \in 1..m : k \in 1..(n - 1)
    BY <1>4
  <2>2. \A i : i \in InLower(m) <=> \E k \in 1..m : i \in Range(K[k])
    BY DEF InLower
  <2>3. \A i : i \in InLower(m)' <=> \E k \in 1..m : i \in Range(P[k])
    BY DEF InLower
  <2>4. \A i : i \in InLower(m)' <=> i \in InLower(m)
    BY <1>8, <2>1, <2>2, <2>3
  <2>5. InLower(m)' = InLower(m)
    BY <2>4
  <2> QED BY <1>1, <2>5 DEF StackInv
<1>28. StackInv'
  <2> SUFFICES ASSUME NEW m \in 1..((n - 1) - 1)
               PROVE  \E y \in InLower(m)',
                         x \in OfMetadata(old_metadata_id)' \ (unread_revs' \cup InLower(m)') :
                        x \in GetSuccIds(y) \/ y \in GetSuccIds(x)
    BY <1>7 DEF StackInv
  <2>1. m \in 1..(n - 1)
    BY <1>4
  <2>2. OfMetadata(old_metadata_id)' = OfMetadata(old_metadata_id)
    BY <1>3 DEF OfMetadata
  <2> QED BY <1>3, <1>27, <2>1, <2>2
<1>29. OneCommit'
  <2> SUFFICES ASSUME NEW id \in RevisionChangesets'
               PROVE  /\ \A i, j \in changeset_db'[id].items : metadata_id[i] = metadata_id[j]
                      /\ Gapless(changeset_db'[id].items)
    BY <1>3 DEF OneCommit
  <2>1. CASE id = kb
    <3>1. changeset_db'[id].items = S
      BY <1>15, <1>18, <2>1 DEF IsStored
    <3> QED BY <1>6, <1>13, <1>24, <3>1
  <2>2. CASE id \in RevisionChangesets
    <3>1. changeset_db'[id] = changeset_db[id]
      BY <1>18, <2>2 DEF IsStored, RevisionChangesets
    <3> QED BY <1>1, <2>2, <3>1 DEF OneCommit
  <2> QED BY <1>25, <2>1, <2>2
<1>30. \A i, j : Near(i, j)' <=> Near(i, j)
  BY <1>3 DEF Near
<1>31. CutsNeeded'
  <2> SUFFICES ASSUME NEW a \in RevisionChangesets', a + 1 \in RevisionChangesets',
                      NEW i \in changeset_db'[a].items, NEW j \in changeset_db'[a + 1].items,
                      Near(i, j)
               PROVE  CutFor(metadata_id[i], a)'
    BY <1>3, <1>30 DEF CutsNeeded
  <2>1. a \in RevisionChangesets /\ a \in Nat /\ kb \in Nat
    <3>1. \A id \in RevisionChangesets : id \in Nat /\ id < kb
      BY <1>18 DEF IsStored, RevisionChangesets
    <3>2. kb \in Nat
      BY <1>18 DEF IsStored
    <3>3. a = kb => a + 1 \notin RevisionChangesets /\ a + 1 # kb
      BY <3>1, <3>2
    <3> QED BY <1>25, <3>1, <3>2, <3>3
  <2>2. changeset_db'[a] = changeset_db[a] /\ a \in DOMAIN changeset_db
    BY <1>18, <2>1 DEF IsStored, RevisionChangesets
  <2>3. CutFor(metadata_id[i], a)
    <3>1. CASE a + 1 \in RevisionChangesets
      <4>1. changeset_db'[a + 1] = changeset_db[a + 1]
        BY <1>18, <3>1 DEF IsStored, RevisionChangesets
      <4> QED BY <1>1, <2>1, <2>2, <3>1, <4>1 DEF CutsNeeded
    <3>2. CASE a + 1 = kb
      <4>1. j \in Pending
        BY <1>13, <1>15, <1>18, <3>2 DEF IsStored
      <4>2. a = kb - 1
        BY <2>1, <3>2
      <4>3. \/ CutFor(metadata_id[i], kb - 1)
            \/ \A x \in unread_revs \cup Pending : ~ Near(i, x)
        BY <1>1, <2>1, <2>2, <4>2 DEF LastInv
      <4> QED BY <4>1, <4>2, <4>3
    <3> QED BY <1>25, <3>1, <3>2
  <2>4. \A m : CutFor(m, a)' <=> CutFor(m, a)
    BY <1>18, <2>2 DEF IsStored
  <2>5. PICK m : m = metadata_id[i]
    OBVIOUS
  <2>6. CutFor(m, a)'
    BY <2>3, <2>4, <2>5
  <2> QED BY <1>3, <2>5, <2>6
<1>32. LastInv'
  <2> SUFFICES ASSUME NEW i \in S
               PROVE  \/ CutFor(metadata_id[i], kb)'
                      \/ \A j \in unread_revs \cup Pending' : ~ Near(i, j)
    <3>1. key_base' - 1 = kb /\ changeset_db'[kb].items = S
      BY <1>15, <1>18 DEF IsStored
    <3> QED BY <1>3, <1>30, <3>1 DEF LastInv
  <2>1. metadata_id[i] = old_metadata_id /\ t[i] <= old_timestamp /\ i \in Revisions
    BY <1>13, <1>14, <1>24
  <2>2. CASE n = 1
    <3>1. Pending' = {}
      <4>1. \A k \in 1..(n - 1) : FALSE
        BY <2>2
      <4> QED BY <1>11, <4>1
    <3>2. ASSUME NEW j \in unread_revs PROVE ~ Near(i, j)
      <4>1. j \in Revisions
        BY <1>1 DEF TypeOK
      <4>2. metadata_id[j] = old_metadata_id => t[j] > old_timestamp + T
        BY <1>1, <1>9, <4>1 DEF GroupInv
      <4>3. t[j] \in Nat /\ t[i] \in Nat
        BY <2>1, <4>1
      <4>4. metadata_id[j] = old_metadata_id => ~ (t[j] <= t[i] + T)
        BY <1>24, <2>1, <4>2, <4>3
      <4> QED BY <2>1, <4>1, <4>4 DEF Near
    <3> QED BY <3>1, <3>2
  <2>3. CASE n # 1
    <3>1. n - 1 \in 1..(n - 1)
      BY <1>4, <2>3
    <3> PICK D : D = InLower(n - 1)
      OBVIOUS
    <3>2. PICK y \in D, x \in OfMetadata(old_metadata_id) \ (unread_revs \cup D) :
            x \in GetSuccIds(y) \/ y \in GetSuccIds(x)
      BY <1>27, <3>1
    <3>3. D = Pending'
      <4>1. \A z : z \in D <=> \E k \in 1..(n - 1) : z \in Range(K[k])
        BY DEF InLower
      <4> QED BY <1>11, <4>1
    <3> PICK m : m = old_metadata_id
      OBVIOUS
    <3> PICK table : table = cvs_item_to_changeset_id'
      OBVIOUS
    <3>4. OfMetadata(m)' = OfMetadata(m)
      BY <1>3 DEF OfMetadata
    <3>5. x \in DOMAIN table /\ table[x] <= kb
      <4>1. x \in Revisions /\ x \notin unread_revs /\ x \notin Pending'
        BY <3>2, <3>3 DEF OfMetadata
      <4>2. x \in S \/ x \in DOMAIN cvs_item_to_changeset_id
        BY <1>13, <1>16, <4>1
      <4>3. CASE x \in S
        <5>1. x \in DOMAIN table /\ table[x] = kb /\ kb \in Nat
          BY <1>18, <4>3 DEF IsStored
        <5> QED BY <5>1
      <4>4. CASE x \in DOMAIN cvs_item_to_changeset_id
        <5>1. x \in DOMAIN table /\ table[x] \in Nat /\ table[x] < kb /\ kb \in Nat
          BY <1>18, <4>4 DEF IsStored
        <5> QED BY <5>1
      <4> QED BY <4>2, <4>3, <4>4
    <3>6. y \in OfMetadata(m) /\ y \notin DOMAIN table
      <4>1. y \in Pending /\ y \in Pending' /\ y \in Revisions
        BY <1>12, <1>13, <3>2, <3>3
      <4>2. y \notin S /\ y \notin DOMAIN cvs_item_to_changeset_id
        BY <1>13, <1>16, <4>1 DEF Symbols
      <4>3. DOMAIN table = DOMAIN cvs_item_to_changeset_id \cup S
        BY <1>18 DEF IsStored
      <4> QED BY <1>24, <4>1, <4>2, <4>3 DEF OfMetadata
    <3>7. x \in StoredUpTo(m, kb)' /\ y \notin StoredUpTo(m, kb)'
      <4>1. StoredUpTo(m, kb)' = {j \in OfMetadata(m) \cap DOMAIN table : table[j] <= kb}
        BY <3>4 DEF StoredUpTo
      <4> QED BY <3>2, <3>5, <3>6, <4>1
    <3>8. CutFor(m, kb)'
      BY <3>2, <3>4, <3>6, <3>7 DEF CutFor
    <3> QED BY <1>3, <2>1, <3>8
  <2> QED BY <2>2, <2>3
<1>33. BreaksCounted'
  BY <1>19, <1>20, CountedNext
<1> QED
  BY <1>19, <1>20, <1>21, <1>22, <1>23, <1>26, <1>28, <1>29, <1>31, <1>32, <1>33
  DEF IInv, CutForDependency

\* The items of one symbol are branches or are tags.
LEMMA SymbolsAlike ==
  ASSUME NEW symbol \in SymbolNames
  PROVE  /\ OfSymbol(symbol) # {} /\ OfSymbol(symbol) \in SUBSET Item /\ symbol \in Nat
         /\ \A i \in OfSymbol(symbol) :
              cvs_item[i].kind \in {"branch", "tag"} /\ cvs_item[i].symbol = symbol
<1>1. \A i \in Item : cvs_item[i] \in ItemRecord
  BY LinksAssumption
<1>2. \A i \in Item : /\ cvs_item[i].kind \in {"revision", "branch", "tag"}
                      /\ cvs_item[i].symbol \in Nat
  BY <1>1 DEF ItemRecord
<1>3. PICK i \in Symbols : cvs_item[i].symbol = symbol
  BY DEF SymbolNames, Symbols
<1>4. i \in OfSymbol(symbol) /\ symbol \in Nat
  BY <1>2, <1>3 DEF OfSymbol, Symbols
<1>5. \A j \in OfSymbol(symbol) : j \in Item /\ j \notin Revisions /\ cvs_item[j].symbol = symbol
  BY DEF OfSymbol, Symbols
<1>6. \A j \in OfSymbol(symbol) : cvs_item[j].kind \in {"branch", "tag"}
  BY <1>2, <1>5 DEF Revisions, IsRevision
<1> QED BY <1>4, <1>5, <1>6

\* The changeset of a symbol changes nothing about the revisions.
LEMMA StoreSymbolKeeps ==
  ASSUME ConstantsOK, IInv, StoreSymbol
  PROVE  IInv'
<1>1. /\ TypeOK /\ ListedOnce /\ PhaseInv /\ GroupInv /\ StackInv /\ DatabasesAgree
      /\ StoredInv /\ OneCommit /\ CutsNeeded
  BY DEF IInv, CutForDependency
<1>2. PICK symbol \in unread_symbols :
        LET S == OfSymbol(symbol)
            k == cvs_item[CHOOSE i \in S : TRUE].kind
        IN  /\ StoreChangeset(S, Changeset(k, S, symbol))
            /\ unread_symbols' = unread_symbols \ {symbol}
  BY DEF StoreSymbol
<1>3. /\ pc = "symbols"
      /\ UNCHANGED <<metadata_id, pc, unread_revs, old_metadata_id, old_timestamp,
                     changeset_items, changesets_to_split>>
  BY DEF StoreSymbol, read_vars
<1>4. changesets_to_split = <<>> /\ changeset_items = <<>> /\ unread_revs = {}
  BY <1>1, <1>3 DEF PhaseInv
<1>5. Pending = {} /\ Pending' = {}
  BY <1>3, <1>4 DEF Pending, Stacked, Range
<1>6. symbol \in SymbolNames
  BY <1>1 DEF TypeOK
<1> PICK S : S = OfSymbol(symbol)
  OBVIOUS
<1>7. /\ S # {} /\ S \in SUBSET Item /\ symbol \in Nat
      /\ \A i \in S : cvs_item[i].kind \in {"branch", "tag"} /\ cvs_item[i].symbol = symbol
  BY <1>6, SymbolsAlike
<1> PICK k : k = cvs_item[CHOOSE i \in S : TRUE].kind
  OBVIOUS
<1>8. k \in {"branch", "tag"}
  <2>1. PICK i : i = CHOOSE x \in S : TRUE
    OBVIOUS
  <2>2. i \in S
    BY <1>7, <2>1
  <2> QED BY <1>7, <2>1, <2>2
<1> PICK c : c = Changeset(k, S, symbol)
  OBVIOUS
<1>9. c \in ChangesetRecord /\ c.items = S /\ c.kind = k
  BY <1>7, <1>8, RecordType
<1>10. c = SourceChangeset(S)
  <2>1. PICK i : i = CHOOSE x \in S : TRUE
    OBVIOUS
  <2>2. i \in S /\ cvs_item[i].symbol = symbol
    BY <1>7, <2>1
  <2> QED BY <2>1, <2>2 DEF SourceChangeset
<1> PICK read : read = {i \in Symbols : cvs_item[i].symbol \notin unread_symbols}
  OBVIOUS
<1>11. DOMAIN cvs_item_to_changeset_id = Revisions \cup read
  BY <1>1, <1>4, <1>5 DEF StoredInv
<1>12. \A i : i \in S <=> i \in Symbols /\ cvs_item[i].symbol = symbol
  BY DEF OfSymbol
<1>13. S \cap DOMAIN cvs_item_to_changeset_id = {}
  BY <1>11, <1>12 DEF Symbols
<1>14. IsStored(S, c)
  <2>1. StoreChangeset(S, c)
    BY <1>2
  <2>2. UNCHANGED metadata_id
    BY <1>3
  <2> QED BY <1>1, <1>9, <1>13, <2>1, <2>2, StoreExact
<1>15. unread_symbols' = unread_symbols \ {symbol}
  BY <1>2
<1> PICK kb : kb = key_base
  OBVIOUS
<1>16. TypeOK'
  <2>1. key_base' \in Nat \ {0}
    BY <1>14 DEF IsStored
  <2>2. unread_symbols' \subseteq SymbolNames
    BY <1>1, <1>15 DEF TypeOK
  <2> QED BY <1>1, <1>3, <1>14, <2>1, <2>2 DEF TypeOK, IsStored
<1>17. ListedOnce'
  BY <1>1, <1>3, <1>5 DEF ListedOnce
<1>18. PhaseInv'
  BY <1>1, <1>3, <1>4 DEF PhaseInv
<1>19. DatabasesAgree'
  BY <1>14 DEF IsStored
<1>20. StoredInv'
  <2>1. DOMAIN cvs_item_to_changeset_id' =
          (Revisions \ (unread_revs' \cup Pending'))
            \cup {i \in Symbols : cvs_item[i].symbol \notin unread_symbols'}
    <3>1. DOMAIN cvs_item_to_changeset_id' = DOMAIN cvs_item_to_changeset_id \cup S
      BY <1>14 DEF IsStored
    <3>2. {i \in Symbols : cvs_item[i].symbol \notin unread_symbols'} = read \cup S
      BY <1>12, <1>15
    <3> QED BY <1>3, <1>4, <1>5, <1>11, <3>1, <3>2
  <2>2. ASSUME NEW id \in DOMAIN changeset_db'
        PROVE  LET R == changeset_db'[id].items
               IN  /\ R # {} /\ changeset_db'[id] = SourceChangeset(R)
                   /\ \/ R \subseteq Revisions /\ \A i, j \in R : j \notin GetSuccIds(i)
                      \/ \E sym \in SymbolNames \ unread_symbols' : R = OfSymbol(sym)
    <3>1. CASE id \in DOMAIN changeset_db
      <4>1. changeset_db'[id] = changeset_db[id]
        BY <1>14, <3>1 DEF IsStored
      <4>2. SymbolNames \ unread_symbols \subseteq SymbolNames \ unread_symbols'
        BY <1>15
      <4> QED BY <1>1, <3>1, <4>1, <4>2 DEF StoredInv
    <3>2. CASE id = kb
      <4>1. changeset_db'[id] = c
        BY <1>14, <3>2 DEF IsStored
      <4>2. symbol \in SymbolNames \ unread_symbols'
        BY <1>6, <1>15
      <4> QED BY <1>7, <1>9, <1>10, <4>1, <4>2
    <3> QED BY <1>14, <3>1, <3>2 DEF IsStored
  <2> QED BY <2>1, <2>2 DEF StoredInv
<1>21. RevisionChangesets' = RevisionChangesets /\ kb \notin RevisionChangesets'
  <2>1. /\ DOMAIN changeset_db' = DOMAIN changeset_db \cup {kb}
        /\ changeset_db'[kb].kind # "revision" /\ kb \notin DOMAIN changeset_db
        /\ \A id \in DOMAIN changeset_db : changeset_db'[id].kind = changeset_db[id].kind
    BY <1>8, <1>9, <1>14 DEF IsStored
  <2> QED BY <2>1 DEF RevisionChangesets
<1>22. GroupInv'
  BY <1>1, <1>3, <1>5, <1>21 DEF GroupInv
<1>23. StackInv'
  BY <1>1, <1>3 DEF StackInv, InLower, OfMetadata
<1>24. \A id \in RevisionChangesets : /\ id \in DOMAIN changeset_db
                                      /\ changeset_db'[id] = changeset_db[id]
  BY <1>14 DEF IsStored, RevisionChangesets
<1>25. OneCommit'
  BY <1>1, <1>3, <1>21, <1>24 DEF OneCommit
<1>26. \A i, j : Near(i, j)' <=> Near(i, j)
  BY <1>3 DEF Near
<1>27. CutsNeeded'
  <2>1. \A m : \A a \in DOMAIN changeset_db : CutFor(m, a)' <=> CutFor(m, a)
    BY <1>14 DEF IsStored
  <2> QED BY <1>1, <1>3, <1>21, <1>24, <1>26, <2>1 DEF CutsNeeded
<1>28. LastInv'
  <2>1. key_base' - 1 = kb
    BY <1>14 DEF IsStored
  <2> QED BY <1>21, <2>1 DEF LastInv
<1>29. BreaksCounted'
  BY <1>16, <1>17, CountedNext
<1> QED
  BY <1>16, <1>17, <1>18, <1>19, <1>20, <1>22, <1>23, <1>25, <1>27, <1>28, <1>29
  DEF IInv, CutForDependency

\* The invariant holds before anything is read.
LEMMA InitIInv == ConstantsOK /\ Init => IInv
<1> SUFFICES ASSUME ConstantsOK, Init PROVE IInv
  OBVIOUS
<1>1. /\ metadata_id \in [Revisions -> Metadata] /\ pc = "read" /\ unread_revs = Revisions
      /\ old_metadata_id = None /\ changeset_items = <<>> /\ changesets_to_split = <<>>
      /\ unread_symbols = SymbolNames /\ key_base = 1
      /\ changeset_db = <<>> /\ cvs_item_to_changeset_id = <<>>
  BY DEF Init
<1>2. /\ DOMAIN changeset_items = {} /\ DOMAIN changesets_to_split = {}
      /\ DOMAIN changeset_db = {} /\ DOMAIN cvs_item_to_changeset_id = {}
      /\ Len(changesets_to_split) = 0
  BY <1>1
<1>3. Pending = {} /\ Range(changeset_items) = {} /\ RevisionChangesets = {}
  BY <1>2 DEF Pending, Stacked, Range, RevisionChangesets
<1>4. TypeOK
  <2>1. changeset_db \in [1..(key_base - 1) -> ChangesetRecord]
    <3>1. 1..(key_base - 1) = {}
      BY <1>1
    <3>2. changeset_db \in [{} -> ChangesetRecord]
      BY <1>1
    <3> QED BY <3>1, <3>2
  <2>2. cvs_item_to_changeset_id \in [DOMAIN cvs_item_to_changeset_id -> DOMAIN changeset_db]
    BY <1>1
  <2>3. changeset_items \in Seq(Revisions) /\ changesets_to_split \in Seq(Seq(Revisions))
    BY <1>1
  <2> QED BY <1>1, <1>2, <2>1, <2>2, <2>3 DEF TypeOK
<1>5. ListedOnce
  BY <1>2, <1>3 DEF ListedOnce, IsInjective
<1>6. DatabasesAgree
  BY <1>2 DEF DatabasesAgree
<1>7. PhaseInv
  BY <1>1 DEF PhaseInv
<1>8. StoredInv
  <2>1. \A i \in Symbols : cvs_item[i].symbol \in SymbolNames
    BY DEF Symbols, SymbolNames
  <2>2. {i \in Symbols : cvs_item[i].symbol \notin unread_symbols} = {}
    BY <1>1, <2>1
  <2> QED BY <1>1, <1>2, <2>2 DEF StoredInv
<1>9. GroupInv
  <2>1. \A i \in Revisions : metadata_id[i] # None
    BY NoneAssumption, <1>1 DEF ConstantsOK
  <2>2. \A i \in unread_revs : metadata_id[i] # old_metadata_id
    BY <1>1, <2>1
  <2>3. Gapless(Range(changeset_items))
    BY <1>3 DEF Gapless
  <2>4. changeset_items = <<>> /\ pc # "split"
    BY <1>1
  <2>5. \A k \in DOMAIN changesets_to_split : Gapless(Range(changesets_to_split[k]))
    BY <1>2
  <2> QED BY <1>3, <2>2, <2>3, <2>4, <2>5 DEF GroupInv
<1>10. StackInv
  BY <1>2 DEF StackInv
<1>11. LastInv /\ CutsNeeded /\ OneCommit
  BY <1>3 DEF LastInv, CutsNeeded, OneCommit
<1>12. BreaksCounted
  BY <1>1 DEF BreaksCounted
<1> QED
  BY <1>4, <1>5, <1>6, <1>7, <1>8, <1>9, <1>10, <1>11, <1>12 DEF IInv, CutForDependency

\* One turn of the loops.
LEMMA NextIInv == ConstantsOK /\ IInv /\ [Next]_vars => ConstantsOK' /\ IInv'
<1> SUFFICES ASSUME ConstantsOK, IInv, [Next]_vars
             PROVE  ConstantsOK' /\ IInv'
  OBVIOUS
<1>1. ConstantsOK'
  BY DEF ConstantsOK
<1>2. CASE ReadRevision
  BY <1>2, ReadRevisionKeeps
<1>3. CASE YieldGroup
  BY <1>3, YieldGroupKeeps
<1>4. CASE SplitGroup
  BY <1>4, SplitGroupKeeps
<1>5. CASE StoreGroup
  BY <1>5, StoreGroupKeeps
<1>6. CASE NextGroup \/ Finish \/ UNCHANGED vars
  BY <1>6, NextGroupKeeps
<1>7. CASE StoreSymbol
  BY <1>7, StoreSymbolKeeps
<1>8. CASE Terminated
  BY <1>8, NextGroupKeeps DEF Terminated
<1> QED
  BY <1>1, <1>2, <1>3, <1>4, <1>5, <1>6, <1>7, <1>8 DEF Next

-----------------------------------------------------------------------------
(* What the passes that follow start from.                                 *)

\* A stored changeset has revisions that do not depend on each other, or all the
\* items of one symbol.
LEMMA StoredEither ==
  ASSUME IInv, NEW id \in DOMAIN changeset_db
  PROVE  /\ HeldBy(id) # {} /\ changeset_db[id] = SourceChangeset(HeldBy(id))
         /\ \/ HeldBy(id) \subseteq Revisions /\ \A i, j \in HeldBy(id) : j \notin GetSuccIds(i)
            \/ \E symbol \in SymbolNames : HeldBy(id) = OfSymbol(symbol)
<1>1. changeset_db[id].items = HeldBy(id)
  BY DEF IInv, DatabasesAgree
<1> QED BY <1>1 DEF IInv, StoredInv

\* In the end every item is in the changeset that a later pass would make of it.
LEMMA OutputExact ==
  ASSUME IInv
  PROVE  OutputIsASource
<1> SUFFICES ASSUME pc = "done" PROVE OutputIsASource
  BY DEF OutputIsASource
<1> PICK table, db : table = cvs_item_to_changeset_id /\ db = changeset_db
  OBVIOUS
<1>1. TypeOK /\ PhaseInv /\ StoredInv
  BY DEF IInv
<1>2. /\ changesets_to_split = <<>> /\ changeset_items = <<>>
      /\ unread_revs = {} /\ unread_symbols = {}
  BY <1>1 DEF PhaseInv
<1>3. Pending = {}
  BY <1>2 DEF Pending, Stacked, Range
<1>4. DOMAIN table = Item
  BY <1>1, <1>2, <1>3 DEF StoredInv, Revisions, Symbols
<1>5. \A i \in Item : table[i] \in DOMAIN db
  BY <1>1, <1>4 DEF TypeOK
<1>6. \A id : \A i : i \in HeldBy(id) <=> i \in Item /\ table[i] = id
  BY <1>4 DEF HeldBy
<1>7. \A symbol, i : i \in OfSymbol(symbol) <=> i \in Symbols /\ cvs_item[i].symbol = symbol
  BY DEF OfSymbol
<1>8. Revisions \subseteq Item /\ Symbols \subseteq Item /\ Revisions \cap Symbols = {}
  BY DEF Revisions, Symbols
<1>9. \A id \in DOMAIN db :
        \/ HeldBy(id) \subseteq Revisions /\ \A i, j \in HeldBy(id) : j \notin GetSuccIds(i)
        \/ \E symbol \in SymbolNames : HeldBy(id) = OfSymbol(symbol)
  BY StoredEither
<1>10. ASSUME NEW i \in Revisions, NEW j \in Revisions, table[i] = table[j]
       PROVE  j \notin GetPredIds(i)
  <2>1. i \in HeldBy(table[i]) /\ j \in HeldBy(table[i]) /\ table[i] \in DOMAIN db
    BY <1>5, <1>6, <1>8, <1>10
  <2>2. i \notin GetSuccIds(j)
    BY <1>7, <1>8, <1>9, <2>1
  <2> QED BY <2>2, RevisionLinked
<1>11. ASSUME NEW i \in Symbols
       PROVE  \A j \in Item : table[j] = table[i] <=>
                j \in Symbols /\ cvs_item[j].symbol = cvs_item[i].symbol
  <2>1. i \in HeldBy(table[i]) /\ table[i] \in DOMAIN db
    BY <1>5, <1>6, <1>8
  <2>2. PICK symbol \in SymbolNames : HeldBy(table[i]) = OfSymbol(symbol)
    BY <1>8, <1>9, <2>1
  <2> QED BY <1>6, <1>7, <2>1, <2>2
<1>12. \A i, j \in Symbols : table[i] = table[j] <=> cvs_item[i].symbol = cvs_item[j].symbol
  BY <1>8, <1>11
<1>13. \A i \in Revisions, j \in Symbols : table[i] # table[j]
  BY <1>8, <1>11
<1>14. db = SourceChangesets(table)
  <2>1. \A id \in DOMAIN db : \E i \in Item : table[i] = id
    <3> SUFFICES ASSUME NEW id \in DOMAIN db PROVE \E i \in Item : table[i] = id
      OBVIOUS
    <3>1. HeldBy(id) # {}
      BY StoredEither
    <3> QED BY <1>6, <3>1
  <2>2. DOMAIN db = {table[i] : i \in Item}
    BY <1>5, <2>1
  <2>3. ASSUME NEW id \in DOMAIN db
        PROVE  db[id] = SourceChangeset({i \in Item : table[i] = id})
    <3>1. HeldBy(id) = {i \in Item : table[i] = id}
      BY <1>6
    <3>2. db[id] = SourceChangeset(HeldBy(id))
      BY StoredEither
    <3> QED BY <3>1, <3>2
  <2>4. db = [id \in DOMAIN db |-> db[id]]
    BY <1>1 DEF TypeOK
  <2>5. db = [id \in DOMAIN db |-> SourceChangeset({i \in Item : table[i] = id})]
    BY <2>3, <2>4
  <2> QED BY <2>2, <2>5 DEF SourceChangesets
<1>15. IsGrouping(table)
  BY <1>10 DEF IsGrouping
<1> QED BY <1>4, <1>12, <1>13, <1>14, <1>15 DEF OutputIsASource

\* Every revision is in exactly one place.
LEMMA PlacesExact ==
  ASSUME IInv
  PROVE  NothingLost
<1>1. unread_revs \cup Pending = Revisions \ DOMAIN cvs_item_to_changeset_id
  <2>1. Pending \subseteq Revisions /\ unread_revs \subseteq Revisions
    BY InPending DEF IInv, TypeOK
  <2>2. DOMAIN cvs_item_to_changeset_id =
          (Revisions \ (unread_revs \cup Pending))
            \cup {i \in Symbols : cvs_item[i].symbol \notin unread_symbols}
    BY DEF IInv, StoredInv
  <2>3. \A i \in Revisions : i \notin Symbols
    BY DEF Symbols
  <2> QED BY <2>1, <2>2, <2>3
<1> QED BY <1>1, OutputExact DEF IInv, NothingLost

-----------------------------------------------------------------------------
\* The inductive invariant of the pass, for every database of items, assignment of
\* metadata, threshold and order of the items.
THEOREM Invariance == ConstantsOK /\ Spec => [](ConstantsOK /\ IInv)
<1>1. ConstantsOK /\ Init => ConstantsOK /\ IInv
  BY InitIInv
<1>2. (ConstantsOK /\ IInv) /\ [Next]_vars => (ConstantsOK /\ IInv)'
  BY NextIInv
<1> QED BY <1>1, <1>2, PTL DEF Spec

\* No revision is ever lost or in two places, and what get_revision_changesets() and
\* get_symbol_changesets() hand on is what the passes on cycles start from.
THEOREM RevisionsKept == ConstantsOK /\ Spec => []NothingLost
<1>1. IInv => NothingLost
  BY PlacesExact
<1> QED BY <1>1, Invariance, PTL

\* A changeset is no more than one commit; break_internal_dependencies() counts what a
\* break cuts, and what could be one commit is cut only for a dependency.
THEOREM CommitsKept == ConstantsOK /\ Spec => []CutForDependency
<1>1. IInv => CutForDependency
  BY DEF IInv
<1> QED BY <1>1, Invariance, PTL
=============================================================================
